\* A file truncated, extended or unlinked while it is streamed.
CONSTANTS
    Conns = {c1, c2}
    Bytes <- AppendedMC
    InitData <- ContentMC
    Open = Open
    NoRequest = NoRequest
    NoConn = NoConn
    ChunkSize = 2
    Backlog = 2
    Requests <- WriterRequests
    MaxSize = 3
    WriterOps = {"truncate", "append", "unlink"}

SPECIFICATION FairClientSpec

INVARIANT NoOverlongBody
PROPERTY QueuedEventuallyServed

\* serve_forever idles once every client is done.
CHECK_DEADLOCK FALSE
