SPECIFICATION BootSpec
CONSTANTS
    g1 = g1
    byHand = byHand
    None = None
    Other = Other
    Guests <- MCGuests
    Runs <- MCRuns
    For <- MCFor
    MaxChanges = 2
    MaxBoots = 2
    Services = {TRUE, FALSE}
INVARIANTS
    GuestsAreAsked
    BootFindsGuestsOff
    GuestsHaveLinks
    NoCyclicWait
PROPERTIES
    ForeignLinksUntouched
CHECK_DEADLOCK FALSE
