SPECIFICATION FairSpec
CONSTANTS
    Conn = {k1}
    NoConn = NoConn
    EraseInterval = 5
    DropDelay = 1
    HeartbeatTimeout = 2
    MaxLag = 1
    MaxSize = 3
    MaxTime = 9
    MaxQueue = 1
INVARIANTS SilentClosedInTime
PROPERTIES HeartbeatClosesOnlySilent EveryDropReported
CHECK_DEADLOCK FALSE
