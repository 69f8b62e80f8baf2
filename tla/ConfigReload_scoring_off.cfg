SPECIFICATION FairSpec
CONSTANTS
    v1 = v1
    v2 = v2
    v3 = v3
    Versions <- AllVersions
    Scoring <- ScoringVersions
    Enabled <- AllVersions
    FirstVersion = v1
    WatchMayFail = FALSE
PROPERTIES
    AppliedWithoutScoring
