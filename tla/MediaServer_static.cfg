\* An unchanging file, clients that pause, resume and hang up.
CONSTANTS
    Conns = {c1, c2, c3}
    Bytes <- BytesMC
    InitData <- ContentMC
    Requests <- StaticRequests
    Open = Open
    NoRequest = NoRequest
    NoConn = NoConn
    ChunkSize = 2
    Backlog = 2
    MaxSize = 3
    WriterOps = {}

SPECIFICATION FairClientSpec

INVARIANT TypeOK
INVARIANT CompleteResponseExact
PROPERTY ImplementsFileResponse

\* serve_forever idles once every client is done.
CHECK_DEADLOCK FALSE
