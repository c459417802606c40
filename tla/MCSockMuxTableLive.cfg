SPECIFICATION FairSpec
CONSTANTS
    NSOCK = 6
    Listen = {"near"}
    Conn = {c1, c2}
    UDP = {}
    NoConn = none
    MaxNear = 0
    MaxFar = 0
    MaxSend <- MCMaxSend
PROPERTY
    Answered
CHECK_DEADLOCK FALSE
