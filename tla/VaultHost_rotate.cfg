SPECIFICATION FairSpec
CONSTANTS
    Vault = {va, vb, vc}
    Existing = {va, vb}
    Enrolled = {va, vb}
    Rotates = {va}
    Start = {s1}
    None = None
    MaxOps = 5
    MaxLocks = 1
    MaxMerges = 2
    MaxFaults = 1
CHECK_DEADLOCK FALSE
INVARIANT RestingVaultsOpen
