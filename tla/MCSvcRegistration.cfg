SPECIFICATION Spec
CONSTANTS
    Conn = {k1, k2, k3}
    Svc = {s1, s2, s3}
    None = None
    MaxDrops = 2
SYMMETRY RegistrationSymmetry
INVARIANTS ObjectsNotShared OpenFdIsHeld
CHECK_DEADLOCK FALSE
