SPECIFICATION Spec
CONSTANTS
    Types <- SomeTypes
    Configs <- MixedConfigs
    Contested <- MixedContested
    LocalHosts <- LocalHostsHere
    Wildcard <- AnyHost
    PromptClose = FALSE
INVARIANTS
    TypeOK
    NoStaleEndpoint
    StoppedHoldsNothing
    MovesUnlessHindered
