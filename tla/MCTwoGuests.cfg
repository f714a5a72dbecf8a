SPECIFICATION Spec
CONSTANTS
    v1 = v1
    v2 = v2
    g1 = g1
    g2 = g2
    dcgm = dcgm
    Vms <- MCVms
    Gpus <- MCGpus
    GpusOf <- MCGpusOf
    Clients <- MCClients
    FM = fm
    Nil = Nil
    MaxBoot = 0
    MaxUncertain = 1
    FaultsEnd = FALSE
INVARIANTS
    GuestGpusStayVfio
    FabricQuiet
    RebindOnlyWhenReleased
    LaunchOnlyWhenReleased
    RunningIsAssigned
