SPECIFICATION Spec
CONSTANTS
    v1 = v1
    v2 = v2
    g1 = g1
    g2 = g2
    dcgm = dcgm
    Vms <- OneVm
    Gpus <- OneGpu
    GpusOf <- OneGpusOf
    Clients <- NoClients
    FM = fm
    Nil = Nil
    MaxBoot = 0
    MaxUncertain = 1
    FaultsEnd = FALSE
INVARIANTS
    NoNewMutations
