SPECIFICATION Spec
CONSTANTS
    Vault = {va}
    Op = {1, 2, 3}
    None = None
    MaxReceipts = 1
    MaxMishaps = 1
    MaxSelects = 1
INVARIANTS WalkAwayForgets
CHECK_DEADLOCK FALSE
