SPECIFICATION Spec
CONSTANTS
    Conn = {k1, k2}
    Svc = {s1, s2}
    None = None
    MaxDrops = 1
PROPERTIES AliveSurvivesBeat
CHECK_DEADLOCK FALSE
