SPECIFICATION FairSpec
CONSTANTS
    MaxStarts = 3
    CallbackMayRaise = TRUE
INVARIANTS
    TypeOK
    OneListener
    SocketsReleased
PROPERTIES
    QuietAfterStop
    StopReturns
    LeftoversEnd
