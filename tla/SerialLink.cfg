SPECIFICATION Spec
CONSTANTS
    Streams <- MCStreams
    Cells = 1
    PerBlock = 1
    BlockLen = 7
    RxMax = 12
    RxRing = 10
    PipeRead = 2
    Nodes = 1
    MaxSend = 2
INVARIANTS
    FramesKept
    FramesHeard
PROPERTIES
    LinkFlows
CHECK_DEADLOCK FALSE
