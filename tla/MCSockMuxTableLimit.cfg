SPECIFICATION Spec
CONSTANTS
    NSOCK = 4
    Listen = {"near"}
    Conn = {c1, c2}
    UDP = {c1}
    NoConn = none
    MaxNear = 0
    MaxFar = 1
    MaxSend <- MCMaxSend
INVARIANTS
    TypeOK
    IdsMatch
CHECK_DEADLOCK FALSE
