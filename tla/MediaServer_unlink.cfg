\* The file is deleted while a GET is being answered.
CONSTANTS
    Conns = {c1, c2}
    Bytes <- BytesMC
    InitData <- ContentMC
    Open = Open
    NoRequest = NoRequest
    NoConn = NoConn
    ChunkSize = 2
    Backlog = 2
    Requests <- WriterRequests
    MaxSize = 3
    WriterOps = {"unlink"}

SPECIFICATION Spec

INVARIANT SingleStatusLine

CHECK_DEADLOCK FALSE
