\* A player pauses mid-stream and may stay paused; a second request waits.
CONSTANTS
    Conns = {c1, c2}
    Bytes <- BytesMC
    InitData <- ContentMC
    Open = Open
    NoRequest = NoRequest
    NoConn = NoConn
    ChunkSize = 2
    Backlog = 2
    Requests <- WriterRequests
    MaxSize = 3
    WriterOps = {}

SPECIFICATION Spec

PROPERTY QueuedEventuallyServed

CHECK_DEADLOCK FALSE
