SPECIFICATION Spec
CONSTANTS
    NSOCK = 6
    Listen = {"near", "far"}
    Conn = {c1, c2}
    UDP = {}
    NoConn = none
    MaxNear = 0
    MaxFar = 1
    MaxSend <- MCMaxSend
INVARIANTS
    Addressed
    TunnelIntact
SYMMETRY Symm
CHECK_DEADLOCK FALSE
