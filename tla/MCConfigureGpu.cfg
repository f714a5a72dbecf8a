SPECIFICATION Spec
CONSTANTS
    r1 = r1
    r2 = r2
    r3 = r3
    default = default
    other = other
    Runs <- MCRuns
    Dirs <- MCDirs
    Overlaps = TRUE
INVARIANTS
    Recoverable
    DoneIsEmbedded
    RolledBack
CHECK_DEADLOCK FALSE
