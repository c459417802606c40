SPECIFICATION LiveSpec
CONSTANTS
    Rcpt = {r1, r2}
    Client = client
    Slow = {r2}
    Room = 2
    MaxUnits = 5
    MaxLeng = 2
    MaxChanged = 1
INVARIANTS
    TypeOK
    InSequence
    Complete
PROPERTIES
    GetsAll
    Stops
CHECK_DEADLOCK FALSE
