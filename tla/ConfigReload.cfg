SPECIFICATION FairSpec
CONSTANTS
    v1 = v1
    v2 = v2
    v3 = v3
    Versions <- AllVersions
    Scoring <- ScoringVersions
    Enabled <- EnabledVersions
    FirstVersion = v1
    WatchMayFail = TRUE
INVARIANTS
    TypeOK
    NoLostUpdate
PROPERTIES
    Convergence
    ShutdownEnds
