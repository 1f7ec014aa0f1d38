CONSTANTS
    s1 = s1
    s2 = s2
    s3 = s3
    s4 = s4
    p1 = p1
    p2 = p2
    n1 = n1
    n2 = n2
    h1 = h1
    h2 = h2
    NoSession = NoSession
    NoPid = NoPid
    NoPort = NoPort
    NoCmd = NoCmd
    Pm = Pm
    Sessions = {s1, s2, s3}
    Procs = {p1}
    Names = {n1}
    Ports = {h1}
    MaxServices = 2
    SemMax = 3
    SrvMax = 2
    SrvPmMax = 1
    PortMax = 1
    IsPre7x = FALSE
    PortCloseSeen = TRUE
SPECIFICATION FairSpec
PROPERTY WokenIsReplayed
PROPERTY ReplyIsSent
