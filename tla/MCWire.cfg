SPECIFICATION McSpec
CONSTANTS
    Calls = {c1, c2, c3}
    Conns = {k1, k2, k3}
    TodoLimit = 2
    None = None
    ByteBase = 3
    MAX_FRAME_LEN = 70
    Experimental = 80
    Counters = {1, 80, 81, 82}
    Positions <- CodecPositions
    DataLens = {0, 3, 4, 8, 23}
    Modes = {"frame", "frame_fds", "aosp", "aosp_fds", "mem"}
    HeadLen = 2
    MaxBody = 1
    MaxFrames = 3
    RecvChunk = 4
    MAX_FDS_PER_FRAME = 1
    MaxDeadlines = 1
    Ends = {a, b}
    Asked = {a, b}
    MaxChunks = 2
    MaxSends = 2
    MaxControls = 1
    SocketRoom = 1
CHECK_DEADLOCK FALSE
INVARIANTS
    OrderKept
    CodecsAgree
    FramesKept
    RecordsInOrder
PROPERTIES
    ImplementsFifo
    EventuallyRun
    SendsComplete
