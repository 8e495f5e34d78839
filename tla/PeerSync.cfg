SPECIFICATION FairSpec
CONSTANTS
    Device = {1, 2}
    Handshake = {1, 2, 3, 4, 5}
    MaxRestarts = 1
    MaxDrops = 1
    MaxRevokes = 1
INVARIANTS
    TypeOK
    SessionsPair
PROPERTIES
    OutStaysOut
    Relinked
    RevokedStaysOut
CHECK_DEADLOCK FALSE
