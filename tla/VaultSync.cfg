SPECIFICATION FairSpec
CONSTANTS
    Node = {1, 2}
    Drift = 0
    MaxCounter = 2147483647
    Id = {i1}
    Data = {x, y}
    Key = {k1}
    Value = {v, u}
    MaxTime = 2
    MaxOps = 3
    MaxRestarts = 1
INVARIANTS
    IInv
    TypeOK
    StampNamesContent
    WriterRemembers
    SettledIsReference
PROPERTIES
    NeverForgets
    TombstonesGrow
    EventuallyReference
    EventuallyAgree
CHECK_DEADLOCK FALSE
