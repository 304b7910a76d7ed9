SPECIFICATION loginSpec
CONSTANTS
    alice = alice
    c1 = c1
    c2 = c2
    NoCid = NoCid
    Account = {alice}
    Cid = {c1, c2}
    AccountOf <- OneAccount
    MaxSid = 2
    MaxRequests <- TwoRequests
    MaxTime = 2
    s1 = s1
    s2 = s2
    Sessions = {s1, s2}
    Name = {arya, bran}
    NoName = NoName
    MaxAsks <- FourAsks
INVARIANTS
    TokenEarnsOneSession SidsAccountedFor PluginAgrees
    SessionsPaired PlayersHaveLogin LogoutsAwaitSaves
     RolesOwned
CHECK_DEADLOCK FALSE
