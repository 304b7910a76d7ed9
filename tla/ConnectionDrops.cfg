SPECIFICATION Spec
CONSTANTS
    Conn = {k1, k2}
    NoConn = NoConn
    EraseInterval = 5
    DropDelay = 1
    HeartbeatTimeout = 0
    MaxLag = 1
    MaxSize = 4
    MaxTime = 6
    MaxQueue = 1
INVARIANTS QueuedCidsNeverStale
CHECK_DEADLOCK FALSE
