CONSTANTS
    s1 = s1
    i1 = i1
    i2 = i2
    d1 = d1
    d2 = d2
    t1 = t1
    t2 = t2
    Services <- MCServices
    IPs <- MCIPs
    HSDirs <- MCHSDirs
    Streams <- MCStreams
    StreamSvc <- MCStreamSvc
    Responsible <- MCResponsible
    FetchAllowed = TRUE
    MaxReach = 3
SPECIFICATION Spec
SYMMETRY MCSymmetry
INVARIANT ParkedOnlyWithoutUsableDesc
