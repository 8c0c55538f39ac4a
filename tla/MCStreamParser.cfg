SPECIFICATION FairSpec
CONSTANTS
    Streams <- MCStreams
    Flag = 2
    HEAD_SIZE = 3
    RecvSize = 9
    MAX_FRAME_SIZE = 10
CHECK_DEADLOCK FALSE
INVARIANTS ParserTypeOK UnitsInOrder FramesWhole
PROPERTIES EverythingHandled
