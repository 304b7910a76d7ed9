SPECIFICATION partsSpec
CONSTANTS
    ByteBits = 4
    WordBits = 8
    Structs <- MCStructs
    Tables <- MCTables
    Objects <- MCObjects
    MaxConversions = 4
    CachedTables <- MCCachedTables
    Keys = {1}
    Values = {1, 2}
    None = None
    Connectors <- MCConnectors
    SessionIds = {s1, s2}
    Servers = {p1, p2}
    MaxSessionCount = 1
    LinkStates = {"up", "broken"}
    MaxRequests = 3
    Operations = {"load", "load_table", "load_all", "save", "save_all", "delete", "select",
                  "generate", "load_runtime", "save_runtime", "delete_runtime"}
SYMMETRY MCSymmetry
INVARIANTS
    ObjectsUnchanged
    AnswersStayInSession SavedIsKept
PROPERTY LoadsAreFresh
CHECK_DEADLOCK FALSE
