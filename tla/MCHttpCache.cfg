SPECIFICATION LiveSpec
CONSTANTS
    Proc = {p1, p2}
    Ino = {1, 2, 3, 4}
    None = none
    MaxBlocks = 2
INVARIANTS
    TypeOK
    OneWriter
    PublishedWhole
PROPERTIES
    DocStays
    NeverStuck
CHECK_DEADLOCK FALSE
