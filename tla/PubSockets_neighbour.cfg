SPECIFICATION Spec
CONSTANTS
    Types <- AllTypes
    Configs <- NeighbourConfigs
    Contested <- NoEndpoints
    LocalHosts <- LocalHostsHere
    Wildcard <- AnyHost
    PromptClose = TRUE
INVARIANTS
    MovesComplete
