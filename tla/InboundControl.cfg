SPECIFICATION FairSpec
CONSTANTS
    Names <- NamesHere
    GameNames <- GameNamesHere
    Clean <- CleanHere
    Truncated <- TruncatedHere
    Values = {0, 1}
    Durations = {0, 2, 3}
    DefaultHold = 2
    FrameTimes = {1}
    Weathers <- WeathersHere
    Commands <- CommandsHere
    Configs <- ConfigsHere
    MaxSlots = 2
    QueueBound = 3
    RecvMayFail = TRUE
    Inactive = Inactive
    NoOverride = NoOverride
    NoValue = NoValue
INVARIANTS
    TypeOK
    OneSlotPerName
PROPERTIES
    IsABoard
    PressReachesTheGame
    PulsesEnd
    OverrideReachesTheGame
