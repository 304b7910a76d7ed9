SPECIFICATION gameSpec
CONSTANTS
    alice = alice
    c1 = c1
    c2 = c2
    NoCid = NoCid
    Account = {alice}
    Cid = {c1, c2}
    AccountOf <- OneAccount
    MaxSid = 2
    MaxRequests <- NoRequest
    MaxTime = 0
    s1 = s1
    s2 = s2
    Sessions = {s1, s2}
    Name = {arya, bran}
    NoName = NoName
    MaxAsks <- ThreeAsks
    Sids = {p1, p2, p3}
    Scenes = {m1}
    Xs = {0, 2, 3}
    Ys = {0}
    Radius = 1
    MaxMoves = 2
INVARIANT NeighboursMutual
PROPERTIES ConnectAnswered RequestAnswered
CHECK_DEADLOCK FALSE
