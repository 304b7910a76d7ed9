SPECIFICATION nodeSpec
CONSTANTS
    Svc = {s1, s2}
    NoSvc = NoSvc
    EraseInterval = 1
    MaxSize = 5
    MaxTime = 6
    node_list <- NodeList
    Requested = {"b"}
    CoreLimit = 0
    MaxCrashes = 2
    LoneCrashes = TRUE
    Connectors = {"a", "b"}
    MaxMessages = 1
INVARIANTS CidsAccountedFor NoCircularWait
PROPERTIES NoEarlyReuse GrowsOnlyWhenHot LinksComeBack
CHECK_DEADLOCK FALSE
