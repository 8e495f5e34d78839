SPECIFICATION Spec
CONSTANTS
    Vault = {va}
    Op = {1, 2, 3}
    None = None
    MaxReceipts = 1
    MaxMishaps = 1
    MaxSelects = 2
INVARIANTS TypeOK LockForgets SealedLockForgets UnlockedIsTrue
CHECK_DEADLOCK FALSE
