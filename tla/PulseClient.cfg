SPECIFICATION FairSpec
CONSTANTS
    App = App
    Listener = Listener
    Threads = {App, Listener}
    Endpoints = {plugin, other, malformed}
    BadEndpoints = {malformed}
    Nowhere = Nowhere
    c1 = c1
    c2 = c2
    Callbacks = {c1, c2}
    Hook = Hook
    OnPacket = OnPacket
    Rosters <- SomeRosters
    Stream <- SomeMessages
    MaxMessages = 2
    MaxUses = 2
INVARIANTS
    TypeOK
    SocketNeedsContext
    HearsOfStored
    DiesOfDamageOnly
PROPERTIES
    SentWhereMeant
    NobodySkipped
    StopReleases
CHECK_DEADLOCK FALSE
