SPECIFICATION FairSpec
CONSTANTS
    Node = {1, 2}
    OwnNode = 1
    PeerNode = 2
    Drift = 1
    MaxCounter = 2147483647
    Old = old
    New = {n1}
    Key = {k1}
    Now = 2
    UiTask = {u1}
    LoadTask = {l1}
    MergeTask = {m1}
    SaveTask = {s1}
    MaxMutations = 1
    MaxSaves = 1
    MaxPeerWrites = 1
    MaxFailures = 1
INVARIANTS
    TypeOK
    NoDeadEntries
PROPERTIES
    PeerWritesLand
CHECK_DEADLOCK FALSE
