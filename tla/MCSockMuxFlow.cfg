SPECIFICATION Spec
CONSTANTS
    PackSize = 2
    PHSIZE = 1
    PWSIZE = 2
    MAXPENDING = 1
    MaxNear = 4
    MaxFar = 2
    OOBNear = 0
    OOBFar = 0
    MaxSend <- MCMaxSend
    MaxOOB <- MCMaxOOB
INVARIANTS
    TypeOK
    InOrder
    BufferBound
    CleanClose
    FreedIsQuiet
    CreditLedger
PROPERTY
    IsPipe
CHECK_DEADLOCK FALSE
