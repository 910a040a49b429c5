----------------------------- MODULE MediaServer -----------------------------
(***************************************************************************)
(* The file server of one cast session, src/clients/nautilus/             *)
(* fcast_nautilus.py.  run_http_server (lines 93-110) serves with          *)
(* http.server.HTTPServer, a single-threaded socketserver.TCPServer: one   *)
(* thread accepts a connection from the listen backlog, runs               *)
(* CustomHTTPRequestHandler on it to the end (HTTP/1.0, one request per    *)
(* connection) and only then accepts the next.  send_file (lines 33-69)    *)
(* stats the file, parses the Range header, sends status and headers, and  *)
(* for GET opens the file and copy_file_range (lines 80-91) streams it in  *)
(* ChunkSize pieces.  Any exception is caught and answered by              *)
(* send_error(500), whatever was already sent.                             *)
(*                                                                         *)
(* The environment: clients that connect with one request, may stop        *)
(* reading (a paused player) or close their end; and an external writer    *)
(* that may change or unlink the file while it is served, which the code   *)
(* does not prevent.  The file is one inode: `data` is its content,        *)
(* `linked` whether the path still names it (an open handle keeps reading  *)
(* an unlinked inode).                                                      *)
(***************************************************************************)
EXTENDS Integers, SequencesExt

CONSTANTS
    Conns,       \* client connections (model values)
    Bytes,       \* byte values the writer may append
    InitData,    \* the file's content when the server starts
    Requests,    \* requests a client may send: [method, range]
    Open,        \* the missing END of "Range: bytes=START-"
    NoRequest,   \* req of a connection that has not connected
    NoConn,      \* the handler thread is between connections
    ChunkSize,   \* buffer_size of copy_file_range (8192 in the code)
    Backlog,     \* listen() backlog, TCPServer.request_queue_size (5)
    MaxSize,     \* bound on the file length the writer may produce
    WriterOps    \* what the external writer may do

ASSUME ChunkSize \in Nat \ {0} /\ Backlog \in Nat \ {0}
ASSUME WriterOps \subseteq {"truncate", "append", "unlink"}

VARIABLES
    data,      \* content of the file's inode
    linked,    \* the path still names that inode
    conn,      \* conn[c]: "new", "queued", "handling", "closed" or "refused"
    req,       \* the request connection c sent
    reading,   \* the client of c reads what the server writes
    gone,      \* the client of c closed its end
    backlog,   \* accepted-by-the-kernel connections, in arrival order
    out,       \* what client c received: status lines, headers, file bytes
    h          \* the handler thread: connection, pc and send_file's locals

vars == <<data, linked, conn, req, reading, gone, backlog, out, h>>

NoResponse == [status |-> <<>>, cl |-> 0, crange |-> <<>>, body |-> <<>>]

IdleHandler ==
    [conn |-> NoConn, pc |-> "idle", start |-> 0, end |-> 0, sent |-> 0]

-----------------------------------------------------------------------------
(* Helpers                                                                 *)

\* input_file.read(n) at offset pos: at most n bytes, fewer at end of file.
ReadAt(d, pos, n) == SubSeq(d, pos + 1, Min({pos + n, Len(d)}))

\* Mutant: END of an open range defaults to file_size.
parse_range_header_to_size(range, size) ==
    <<range.first, IF range.last = Open THEN size ELSE range.last>>

\* parse_range_header (lines 71-78): START and END of "bytes=START-END",
\* END defaulting to file_size - 1.  A header that does not split into two
\* integers raises, which the model gives as kind "malformed".
parse_range_header(range, size) ==
    <<range.first, IF range.last = Open THEN size - 1 ELSE range.last>>

\* Mutant: send_response(200) whatever the Range header.
ResponseStatusAlways200(range) == 200

\* send_file lines 41-47: 200 without a Range header, 206 with one.
ResponseStatus(range) == IF range.kind = "none" THEN 200 ELSE 206

\* Mutant: the loop reads buffer_size bytes whatever is left to send.
ReadLenUncapped(bytes_to_send, bytes_sent) == ChunkSize

\* Mutant: bytes_sent advanced by buffer_size rather than len(buffer).
BytesSentByChunk(bytes_sent, buffer) == bytes_sent + ChunkSize

\* Mutant: no break on an empty read.
CopyDoneNoEof(bytes_to_send, bytes_sent, buffer) == bytes_sent >= bytes_to_send

\* copy_file_range line 87: read(min(buffer_size, bytes_to_send - bytes_sent)).
ReadLen(bytes_to_send, bytes_sent) == Min({ChunkSize, bytes_to_send - bytes_sent})

\* copy_file_range line 91.
BytesSent(bytes_sent, buffer) == bytes_sent + Len(buffer)

\* copy_file_range lines 86-89: the loop ends when all bytes are sent or
\* a read returns nothing (end of file).
CopyDone(bytes_to_send, bytes_sent, buffer) ==
    bytes_sent >= bytes_to_send \/ buffer = <<>>

\* A write to a client that closed its end either fails with EPIPE or is
\* accepted by the kernel and discarded; a client that is there sees it.
Deliver(c, o) == IF gone[c] THEN out ELSE [out EXCEPT ![c] = o]

\* The handler returns; the server closes the connection (HTTP/1.0) and
\* goes back to serve_forever.
CloseConn(c) ==
    /\ conn' = [conn EXCEPT ![c] = "closed"]
    /\ h' = IdleHandler

\* send_error(500) (line 69): a status line of its own, after whatever
\* the response already holds.
SendError(c) ==
    Deliver(c, [out[c] EXCEPT !.status = Append(@, 500)])

-----------------------------------------------------------------------------
Init ==
    /\ data = InitData
    /\ linked = TRUE
    /\ conn = [c \in Conns |-> "new"]
    /\ req = [c \in Conns |-> NoRequest]
    /\ reading = [c \in Conns |-> TRUE]
    /\ gone = [c \in Conns |-> FALSE]
    /\ backlog = <<>>
    /\ out = [c \in Conns |-> NoResponse]
    /\ h = IdleHandler

(* The server thread: serve_forever -> handle_request -> the handler.     *)

\* TCPServer accepts the oldest connection of the backlog.
Accept ==
    /\ h.pc = "idle"
    /\ backlog # <<>>
    /\ h' = [IdleHandler EXCEPT !.conn = Head(backlog), !.pc = "headers"]
    /\ backlog' = Tail(backlog)
    /\ conn' = [conn EXCEPT ![Head(backlog)] = "handling"]
    /\ UNCHANGED <<data, linked, req, reading, gone, out>>

\* send_file lines 36-59: stat, parse the range, status and headers.  A
\* stat or parse failure raises before anything is written: a lone 500.
\* HEAD (send_body false) ends here; a failed header write to a closed
\* client also ends the handler.
SendFileHeaders ==
    LET c == h.conn
        r == req[c]
        size == Len(data)
        se == IF r.range.kind = "bytes"
              THEN parse_range_header(r.range, size) ELSE <<0, size - 1>>
        resp == [status |-> <<ResponseStatus(r.range)>>,
                 cl |-> se[2] - se[1] + 1,
                 crange |-> <<se[1], se[2], size>>,
                 body |-> <<>>]
    IN
    /\ h.pc = "headers"
    /\ UNCHANGED <<data, linked, req, reading, gone, backlog>>
    /\ IF ~linked \/ r.range.kind = "malformed"
       THEN /\ out' = SendError(c)
            /\ CloseConn(c)
       ELSE /\ out' = Deliver(c, resp)
            /\ IF r.method = "HEAD"
               THEN CloseConn(c)
               ELSE \/ /\ h' = [h EXCEPT !.pc = "open", !.start = se[1],
                                         !.end = se[2]]
                       /\ UNCHANGED conn
                    \/ /\ gone[c]
                       /\ CloseConn(c)

\* send_file lines 61-64: open(file_path) and seek(start_byte).  The path
\* may have been unlinked since the stat: the exception reaches line 69
\* after the headers went out.
SendFileOpen ==
    /\ h.pc = "open"
    /\ IF linked
       THEN /\ h' = [h EXCEPT !.pc = "copy", !.sent = 0]
            /\ UNCHANGED <<conn, out>>
       ELSE /\ out' = SendError(h.conn)
            /\ CloseConn(h.conn)
    /\ UNCHANGED <<data, linked, req, reading, gone, backlog>>

\* One iteration of copy_file_range's loop (lines 86-91), or its exit.
\* The write blocks while the client does not read; to a closed client it
\* fails (send_error then fails too and the handler ends) or is discarded.
CopyFileRange ==
    LET c == h.conn
        bytes_to_send == h.end - h.start + 1
        buffer == ReadAt(data, h.start + h.sent, ReadLen(bytes_to_send, h.sent))
    IN
    /\ h.pc = "copy"
    /\ UNCHANGED <<data, linked, req, reading, gone, backlog>>
    /\ IF CopyDone(bytes_to_send, h.sent, buffer)
       THEN /\ CloseConn(c)
            /\ UNCHANGED out
       ELSE /\ reading[c] \/ gone[c]
            /\ \/ /\ out' = Deliver(c, [out[c] EXCEPT !.body = @ \o buffer])
                  /\ h' = [h EXCEPT !.sent = BytesSent(@, buffer)]
                  /\ UNCHANGED conn
               \/ /\ gone[c]
                  /\ CloseConn(c)
                  /\ UNCHANGED out

Server == Accept \/ SendFileHeaders \/ SendFileOpen \/ CopyFileRange

-----------------------------------------------------------------------------
(* Clients                                                                 *)

\* A client connects and sends request r; the kernel queues it unless the
\* listen backlog is full, when the connection is refused.
Connect(c) ==
    /\ conn[c] = "new"
    /\ \E r \in Requests :
          /\ req' = [req EXCEPT ![c] = r]
          /\ IF Len(backlog) < Backlog
             THEN /\ backlog' = Append(backlog, c)
                  /\ conn' = [conn EXCEPT ![c] = "queued"]
             ELSE /\ conn' = [conn EXCEPT ![c] = "refused"]
                  /\ UNCHANGED backlog
    /\ UNCHANGED <<data, linked, reading, gone, out, h>>

Pause(c) ==
    /\ conn[c] \in {"queued", "handling"}
    /\ reading[c] /\ ~gone[c]
    /\ reading' = [reading EXCEPT ![c] = FALSE]
    /\ UNCHANGED <<data, linked, conn, req, gone, backlog, out, h>>

Resume(c) ==
    /\ ~reading[c]
    /\ reading' = [reading EXCEPT ![c] = TRUE]
    /\ UNCHANGED <<data, linked, conn, req, gone, backlog, out, h>>

Hangup(c) ==
    /\ conn[c] \in {"queued", "handling"}
    /\ ~gone[c]
    /\ gone' = [gone EXCEPT ![c] = TRUE]
    /\ UNCHANGED <<data, linked, conn, req, reading, backlog, out, h>>

Client(c) == Connect(c) \/ Pause(c) \/ Resume(c) \/ Hangup(c)

(* The external writer: nothing in the code locks the file.                *)

Truncate ==
    /\ "truncate" \in WriterOps /\ linked /\ data # <<>>
    /\ data' = Front(data)
    /\ UNCHANGED <<linked, conn, req, reading, gone, backlog, out, h>>

Extend ==
    /\ "append" \in WriterOps /\ linked /\ Len(data) < MaxSize
    /\ \E b \in Bytes : data' = Append(data, b)
    /\ UNCHANGED <<linked, conn, req, reading, gone, backlog, out, h>>

Unlink ==
    /\ "unlink" \in WriterOps /\ linked
    /\ linked' = FALSE
    /\ UNCHANGED <<data, conn, req, reading, gone, backlog, out, h>>

Writer == Truncate \/ Extend \/ Unlink

Next == Server \/ Writer \/ \E c \in Conns : Client(c)

\* The server thread runs whenever it can.  Clients and the writer owe
\* nothing: a paused player may stay paused.
Spec == Init /\ [][Next]_vars /\ WF_vars(Server) /\ SF_vars(CopyFileRange)

\* The same, for clients assumed to read again eventually.
FairClientSpec == Spec /\ \A c \in Conns : WF_vars(Resume(c))

-----------------------------------------------------------------------------
(* Properties                                                              *)

TypeOK ==
    /\ data \in Seq(Bytes) /\ Len(data) <= MaxSize
    /\ linked \in BOOLEAN
    /\ conn \in [Conns -> {"new", "queued", "handling", "closed", "refused"}]
    /\ req \in [Conns -> Requests \cup {NoRequest}]
    /\ reading \in [Conns -> BOOLEAN] /\ gone \in [Conns -> BOOLEAN]
    /\ backlog \in Seq(Conns) /\ Len(backlog) <= Backlog
    /\ \A c \in Conns :
          /\ out[c].status \in Seq({200, 206, 500})
          /\ out[c].body \in Seq(Bytes) /\ Len(out[c].body) <= MaxSize
    /\ h.pc \in {"idle", "headers", "open", "copy"}
    /\ (h.pc = "idle") = (h.conn = NoConn)
    /\ h.sent \in 0..MaxSize

\* A range the file can satisfy (spec section 3, RangeSpec):
\* 0 <= START <= END <= size - 1, a missing END meaning size - 1.
Satisfiable(r, size) ==
    r.range.kind = "bytes" =>
        LET last == IF r.range.last = Open THEN size - 1 ELSE r.range.last
        IN  0 <= r.range.first /\ r.range.first <= last /\ last <= size - 1

\* Spec section 8: a GET answered 200 or 206 to a client that stayed
\* receives exactly bytes [START, END] of the file, as many as its
\* Content-Length says (send_file's headers against copy_file_range's loop).
CompleteResponseExact ==
    \A c \in Conns :
        /\ conn[c] = "closed" /\ ~gone[c] /\ req[c].method = "GET"
        /\ out[c].status \in {<<200>>, <<206>>}
        /\ Satisfiable(req[c], out[c].crange[3])
        => /\ Len(out[c].body) = out[c].cl
           /\ out[c].body = ReadAt(data, out[c].crange[1], out[c].cl)

\* copy_file_range never sends more bytes than the Content-Length that
\* send_file announced, however the file changes meanwhile.
NoOverlongBody ==
    \A c \in Conns : Len(out[c].body) <= Max({out[c].cl, 0})

\* Spec section 8 (boundary): a range starting past the last byte is
\* rejected, never answered 206 by send_file.
RangeBeyondEofRejected ==
    \A c \in Conns :
        out[c].status = <<206>> => out[c].crange[1] <= out[c].crange[3] - 1

\* Spec 4.1 step 6: a failure while streaming aborts the response with a
\* server-error status; the client never gets a second status line after
\* send_file's first one.
SingleStatusLine ==
    \A c \in Conns : Len(out[c].status) <= 1

\* Spec 4.1 and 5: connections are handled independently, so the server
\* eventually takes up every connection waiting in the backlog, whatever
\* other clients do.
QueuedEventuallyServed ==
    \A c \in Conns : conn[c] = "queued" ~> conn[c] # "queued"

NoAnswer == [status |-> <<>>, body |-> <<>>]

\* The abstract contract: a connection's response, once the server has
\* closed it and the client is still there.
Answered ==
    [c \in Conns |-> IF conn[c] = "closed" /\ ~gone[c]
                     THEN [status |-> out[c].status, body |-> out[c].body]
                     ELSE NoAnswer]


Contract == INSTANCE FileResponse
    WITH asked <- req, answered <- Answered, Content <- InitData

\* While the file does not change, the chunked, single-threaded server
\* implements FileResponse: every response a client keeps is the one the
\* contract gives its request.
ImplementsFileResponse == Contract!Spec
=============================================================================
