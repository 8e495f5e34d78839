SPECIFICATION FairSpec
CONSTANTS
    Vault = {va, vb}
    Target = {t1}
    Folder = {f1}
    None = None
    First = va
    Keep = 2
    Interval = 1
    Deletable = {vb}
    Moves = FALSE
    MaxEdits = 2
    MaxEvents = 1
INVARIANTS TypeOK SkippedIsHeld
PROPERTIES RetentionHolds BackedUp
CHECK_DEADLOCK FALSE
