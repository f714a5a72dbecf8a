SPECIFICATION FairSpec
CONSTANTS
    vm1 = vm1
    vm2 = vm2
    r1 = r1
    r2 = r2
    None = None
    GuestNames <- MCGuestNames
    Runs <- MCRuns
    NicIndexes <- MCNics
    NicChoices <- MCNicChoices
    MaxAttachments = 3
INVARIANTS
    OneAttachment
    ConflictsAreRefused
    ReportsAgree
PROPERTIES
    EveryRunEnds
CHECK_DEADLOCK FALSE
