SPECIFICATION Spec
CONSTANTS
    Node = {1, 2, 3}
    Device = {1, 2, 3}
    Members = {1, 2, 3}
    Legacy = {}
    Admits = {}
    Removable = {3}
    BgTask = {"merge"}
    Drift = 1
    MaxCounter = 2147483647
    Now = 1
    MaxInvites = 0
    MaxRemovals = 1
    MaxLeaves = 0
    MaxSignings = 0
PROPERTIES
    RevocationSticks
CHECK_DEADLOCK FALSE
