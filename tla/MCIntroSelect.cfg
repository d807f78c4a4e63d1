CONSTANTS
    i1 = i1
    i2 = i2
    i3 = i3
    NoIP = NoIP
    IPs <- MCIPs

SPECIFICATION SelectSpec
SYMMETRY MCSymmetry
\* The call returns: a returned call takes no further step.
CHECK_DEADLOCK FALSE

INVARIANT SelectionCorrect
