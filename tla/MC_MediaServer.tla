--------------------------- MODULE MC_MediaServer ---------------------------
(* Model values and request sets for checking MediaServer with TLC.        *)
EXTENDS MediaServer

\* A three-byte file of distinct bytes, so that any offset error shows.
ContentMC == <<"a", "b", "c">>
BytesMC == {"a", "b", "c"}
AppendedMC == {"x"}

Req(m, k, f, l) == [method |-> m, range |-> [kind |-> k, first |-> f, last |-> l]]

\* What a player sends: the whole file, a seek "bytes=1-", a closed range,
\* a HEAD probe and a header parse_range_header cannot take ("bytes=-2").
StaticRequests ==
    { Req("GET", "none", 0, 0), Req("HEAD", "none", 0, 0),
      Req("GET", "bytes", 1, Open), Req("GET", "bytes", 0, 1),
      Req("GET", "malformed", 0, 0) }

\* Requests valid for the file as it was when they were sent.
WriterRequests ==
    { Req("GET", "none", 0, 0), Req("GET", "bytes", 1, Open) }

\* A seek to the end of the file, past its last byte.
PastEofRequests == { Req("GET", "bytes", 3, Open), Req("GET", "none", 0, 0) }

=============================================================================
