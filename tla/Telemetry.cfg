SPECIFICATION FairSpec
CONSTANTS
    CarIds = {0, 1, 3}
    PlayerId = 0
    Magnitudes = {1}
    Physics = {aids}
    NoPhysics = zeros
    Configs <- MCConfigs
    Bindings <- MCBindings
    Interval = 2
    OpponentSlots = 2
    DamageBound = 1
    NoMessage = none
    WholeCars = TRUE
INVARIANTS
    TypeOK
    DamageIsThePlayers
PROPERTIES
    EveryCarIsFollowed
    SettledStateIsShown
