SPECIFICATION FairSpec
CONSTANTS
    Feed <- SomePackets
    MaxReceived = 2
    Visited = {"scoring"}
    Queries <- SomeQueries
    MaxMail = 2
INVARIANTS
    TypeOK
    OnlyLateAreLost
    ScreenIsCurrent
PROPERTIES
    InOrder
    EveryPacketIsReached
CHECK_DEADLOCK FALSE
