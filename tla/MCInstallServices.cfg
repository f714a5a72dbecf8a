SPECIFICATION InstallSpec
CONSTANTS
    w1 = w1
    w2 = w2
    w3 = w3
    w4 = w4
    i1 = i1
    i2 = i2
    i3 = i3
    None = None
    Locked = TRUE
    Writes <- MCWrites
    Prepares <- MCPrepares
    Configs <- MCConfigs
    Installers <- MCInstallers
    Source <- MCSource
    Crews <- MCCrews
INVARIANTS
    BaselineIsKept
    ManifestHasBaseline
    TransitionsHaveBaseline
    PolicyIsKept
PROPERTIES
    ImplementsRecord
CHECK_DEADLOCK FALSE
