SPECIFICATION FairSpec
CONSTANTS
    Vault = {va, vb, vc}
    Existing = {va, vb}
    Enrolled = {va, vb}
    Rotates = {vc}
    Start = {s1, s2}
    None = None
    MaxOps = 3
    MaxLocks = 1
    MaxMerges = 2
    MaxFaults = 1
INVARIANTS TypeOK SlotsOpenEntries SessionIsOfLoadedVault
PROPERTY OperationsEnd
CHECK_DEADLOCK FALSE
