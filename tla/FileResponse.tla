---------------------------- MODULE FileResponse ----------------------------
(***************************************************************************)
(* What the media server of a cast session promises its clients (spec.md,  *)
(* sections 4.1 and 8): every request for the one file it serves is       *)
(* answered at once with one status and the exact bytes asked for: the     *)
(* whole file with 200 when there is no Range header, bytes [s,e] with 206 *)
(* for "Range: bytes=s-e" (an open end meaning the last byte), no body for *)
(* HEAD, and a 500 with no file bytes for a header it cannot parse.  A     *)
(* request may also never be answered (the client went away).             *)
(***************************************************************************)
EXTENDS Integers, Sequences

CONSTANTS
    Conns,       \* client connections
    Requests,    \* requests a client may send
    Content,     \* the file's bytes, unchanged while this contract applies
    Open,        \* the missing END of "bytes=START-"
    NoRequest,   \* a connection that has sent nothing yet
    NoAnswer     \* a request not (yet) answered

VARIABLES asked, answered

\* The response the contract requires for request r.
Expected(r) ==
    LET last == IF r.range.kind = "bytes" /\ r.range.last # Open
                THEN r.range.last ELSE Len(Content) - 1
        first == IF r.range.kind = "bytes" THEN r.range.first ELSE 0
        body == IF r.method = "GET"
                THEN SubSeq(Content, first + 1, last + 1) ELSE <<>>
    IN  CASE r.range.kind = "none"      -> [status |-> <<200>>, body |-> body]
          [] r.range.kind = "bytes"     -> [status |-> <<206>>, body |-> body]
          [] r.range.kind = "malformed" -> [status |-> <<500>>, body |-> <<>>]

Init ==
    /\ asked = [c \in Conns |-> NoRequest]
    /\ answered = [c \in Conns |-> NoAnswer]

Ask(c) ==
    /\ asked[c] = NoRequest
    /\ \E r \in Requests : asked' = [asked EXCEPT ![c] = r]
    /\ UNCHANGED answered

Answer(c) ==
    /\ asked[c] # NoRequest
    /\ answered[c] = NoAnswer
    /\ answered' = [answered EXCEPT ![c] = Expected(asked[c])]
    /\ UNCHANGED asked

Next == \E c \in Conns : Ask(c) \/ Answer(c)

Spec == Init /\ [][Next]_<<asked, answered>>
=============================================================================
