SPECIFICATION Spec
CONSTANTS
    Sender = {v8}
    Protocols = {"frame"}
    Client = TRUE
    MaxList = 2
    IovMax = 2
    FrameLen = 2
    MaxFrames = 2
    MaxWire = 6
INVARIANTS WireIsPrefix
CHECK_DEADLOCK FALSE
