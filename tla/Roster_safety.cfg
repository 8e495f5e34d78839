SPECIFICATION Spec
CONSTANTS
    Node = {1, 2, 3}
    Device = {1, 2, 3}
    Members = {1, 2}
    Legacy = {1}
    Admits = {}
    Removable = {1, 3}
    BgTask = {"merge"}
    Drift = 1
    MaxCounter = 2147483647
    Now = 1
    MaxInvites = 1
    MaxRemovals = 1
    MaxLeaves = 1
    MaxSignings = 1
INVARIANTS
    TypeOK
    RevokedIsUnlisted
    SelfListed
    StampNamesEntry
    SettledRostersAgree
CHECK_DEADLOCK FALSE
