SPECIFICATION ioSpec
CONSTANTS
    Sender = {v8, plugin}
    Protocols = {"tcp", "frame"}
    Client = TRUE
    MaxList = 2
    IovMax = 2
    FrameLen = 3
    MaxFrames = 4
    MaxWire = 13
    Kinds = {"rpc", "type", "none"}
    Lengths = {0, 1, 3, 4}
    MaxPack = 3
    MaxPackages = 3
SYMMETRY SenderSymmetry
INVARIANTS
    NothingLostOrRepeated ListBounded ClosedIsQueued FramesLeaveWhole
    PackagesIntact RpcStaysOpen
CHECK_DEADLOCK FALSE
