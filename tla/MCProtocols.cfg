SPECIFICATION protocolsSpec
CONSTANTS
    MaxHeaderSize = 150
    LengthRange = 65536
    MaxPort = 65535
    Streams <- MCAllStreams
    ReadMax = 3
    Requests <- MCRequests
    MaxRequests = 2
    ReadSizes = {51, 22}
    MaxReads = 3
    MaxWrites = 3
    AnswerLength = 2
    Payloads <- MCPayloads
    MaskingKeys <- MCKeys
    MaxFramesSent = 2
    MaxFrameReads = 4
    WriteSizes = {2, 20}
    MaxWritten = 3
    ByteRange = 16
    ExtLength = 6
    HalfRange = 8
    max_pack_size = 12
    ByteXor <- MCXor
    InitOffset = 1
    InitSize = 1
    Buffers = {b1, b2}
    Numbers = {1}
    Strings <- MCStrings
    MaxBytes = 4
    Ids = {1, 2}
    Bodies <- MCBodies
    RpcLimit = 9
SYMMETRY BufferSymmetry
CONSTRAINT OneAtATime
INVARIANTS
    SplitsDontMatter MessagesUnderstood
    WholeRequestsUnderstood
    FramesUnderstood
    MessageArrives
PROPERTY IsByteQueue
CHECK_DEADLOCK FALSE
