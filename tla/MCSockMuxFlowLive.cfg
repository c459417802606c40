SPECIFICATION FairSpec
CONSTANTS
    PackSize = 1
    PHSIZE = 0
    PWSIZE = 1
    MAXPENDING = 1
    MaxNear = 1
    MaxFar = 1
    OOBNear = 0
    OOBFar = 0
    MaxSend <- MCMaxSend
    MaxOOB <- MCMaxOOB
PROPERTIES
    Released
    PipeRuns
CHECK_DEADLOCK FALSE
