\* A second cast while the first one's IP dialog is open.
CONSTANTS
    Files = {f1, f2}
    MimeKnown = {f1, f2}
    Ports = {p1, p2}
    i1 = i1
    i2 = i2
    Ips = {i1, i2}
    IpChoices <- TwoIpChoices
    MaxCasts = 2
    MaxOther = 0
    NoFile = NoFile
    NoIp = NoIp
    NoUrl = NoUrl
    Wildcard = Wildcard
    Other = Other

SPECIFICATION Spec

INVARIANT LastCastPlays

CHECK_DEADLOCK FALSE
