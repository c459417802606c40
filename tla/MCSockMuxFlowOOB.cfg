SPECIFICATION FairSpec
CONSTANTS
    PackSize = 1
    PHSIZE = 0
    PWSIZE = 1
    MAXPENDING = 1
    MaxNear = 2
    MaxFar = 0
    OOBNear = 1
    OOBFar = 0
    MaxSend <- MCMaxSend
    MaxOOB <- MCMaxOOB
INVARIANTS
    NothingLost
    CreditLedger
PROPERTY
    Resumed
CHECK_DEADLOCK FALSE
