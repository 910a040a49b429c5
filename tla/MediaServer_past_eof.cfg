\* A seek to the end of an unchanging file.
CONSTANTS
    Conns = {c1, c2}
    Bytes <- BytesMC
    InitData <- ContentMC
    Open = Open
    NoRequest = NoRequest
    NoConn = NoConn
    ChunkSize = 2
    Backlog = 2
    Requests <- PastEofRequests
    MaxSize = 3
    WriterOps = {}

SPECIFICATION Spec

INVARIANT RangeBeyondEofRejected

CHECK_DEADLOCK FALSE
