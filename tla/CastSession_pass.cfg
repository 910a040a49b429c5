\* Two casts of a typed or an untyped file, interfaces that may
\* offer no, one or two addresses, another process that takes a port.
CONSTANTS
    Files = {f1, f2}
    MimeKnown = {f1}
    Ports = {p1, p2}
    i1 = i1
    i2 = i2
    Ips = {i1, i2}
    IpChoices <- AllIpChoices
    MaxCasts = 2
    MaxOther = 1
    NoFile = NoFile
    NoIp = NoIp
    NoUrl = NoUrl
    Wildcard = Wildcard
    Other = Other

SPECIFICATION Spec

INVARIANT TypeOK
INVARIANT FrameRoundTrip

\* Nautilus idles once the user stops casting.
CHECK_DEADLOCK FALSE
