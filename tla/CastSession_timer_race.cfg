\* Two casts of two typed files, one address, another process that may
\* take a port.
CONSTANTS
    Files = {f1, f2}
    MimeKnown = {f1, f2}
    Ports = {p1, p2}
    i1 = i1
    i2 = i2
    Ips = {i1, i2}
    IpChoices <- OneIpChoices
    MaxCasts = 2
    MaxOther = 1
    NoFile = NoFile
    NoIp = NoIp
    NoUrl = NoUrl
    Wildcard = Wildcard
    Other = Other

SPECIFICATION Spec

INVARIANT PlayedUrlIsServed

CHECK_DEADLOCK FALSE
