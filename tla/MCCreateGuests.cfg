SPECIFICATION Spec
CONSTANTS
    vm1 = vm1
    vm2 = vm2
    r1 = r1
    r2 = r2
    r3 = r3
    None = None
    GuestNames <- MCGuestNames
    Runs <- MCRuns
SYMMETRY RunSymmetry
INVARIANTS
    OneBuilder
    NoDoomedBuild
PROPERTIES
    StartedWhole
CHECK_DEADLOCK FALSE
