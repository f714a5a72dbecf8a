SPECIFICATION PlacementSpec
CONSTANTS
    Kinds <- MCKinds
    Ids <- MCIds
    Cpus <- MCCpus
    Nodes <- MCNodes
    HostIds <- MCHostIds
    Configs <- MCConfigs
    Deployments <- MCDeployments
INVARIANTS
    ClaimsApart
    CpusApart
    CoresApart
    GuestTopologyIsTheHosts
    ReserveIsKept
CHECK_DEADLOCK FALSE
