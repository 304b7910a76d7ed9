SPECIFICATION Spec
CONSTANTS
    Svc = {s1, s2}
    NoSvc = NoSvc
    EraseInterval = 1
    MaxSize = 5
    MaxTime = 4
INVARIANTS RingsLinked
PROPERTIES ImplementsAllocator
CHECK_DEADLOCK FALSE
