CONSTANTS
    s1 = s1
    i1 = i1
    i2 = i2
    d1 = d1
    t1 = t1
    t2 = t2
    c1 = c1
    c2 = c2
    r1 = r1
    NoIP = NoIP
    NoCirc = NoCirc
    Services <- MCServices
    IPs <- MCIPs
    HSDirs <- MCHSDirs
    Streams <- MCStreams
    IntroCircs <- MCIntroCircs
    RendCircs <- MCRendCircs
    StreamSvc <- MCStreamSvc
    Responsible <- MCResponsible
    FetchAllowed = TRUE
    MaxReach = 2
    RelayEarly = 1

SPECIFICATION ClientSpec
SYMMETRY MCSymmetry

INVARIANT IntroAuthMatchesExit
