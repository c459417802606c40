SPECIFICATION Spec
CONSTANTS
    PackSize = 1
    PHSIZE = 0
    PWSIZE = 1
    MAXPENDING = 1
    MaxNear = 5
    MaxFar = 3
    OOBNear = 0
    OOBFar = 0
    MaxSend <- MCMaxSend
    MaxOOB <- MCMaxOOB
INVARIANT
    BufferFits
CHECK_DEADLOCK FALSE
