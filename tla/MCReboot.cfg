SPECIFICATION Spec
CONSTANTS
    v1 = v1
    v2 = v2
    g1 = g1
    g2 = g2
    dcgm = dcgm
    Vms <- OneVm
    Gpus <- TwoGpus
    GpusOf <- OneTwoGpusOf
    Clients <- NoClients
    FM = fm
    Nil = Nil
    MaxBoot = 1
    MaxUncertain = 2
    FaultsEnd = FALSE
INVARIANTS
    TypeOK
    RebindAfterRecordedProcess
    LateWritesAreAnnounced
    ClaimsOnlyResolved
    AppsKeepTheirGpus
    StoppedIsBaseline
PROPERTIES
    RebindIsAnnounced
    ImplementsOwnership
