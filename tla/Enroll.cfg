SPECIFICATION FairEnrollSpec
CONSTANTS
    Invite = {1, 2}
    Joiner = {a, b}
    WrongPass = {b}
    MaxDeaths = 1
INVARIANT EnrollTypeOK
PROPERTY ImplementsPairing
PROPERTY AttemptsEnd
PROPERTY JoinedIsListed
CHECK_DEADLOCK FALSE
