SPECIFICATION FairSpec
CONSTANTS
    Users = {b, r}
    PlayerB = b
    PlayerR = r
    LockHolder = lock
    None = none
    Cells <- MCCells
    HoneyCells <- NoHoney
    Connecting <- MCConnecting
    PieEnabled = TRUE
    TurnTimeout = 1
    ReconnectGrace = 1
    MessageLimit = 1
    MaxNow = 1
    MaxVersion = 2
    MaxChats = 0
    MaxCrashes = 0
    CallDelay = 0
PROPERTIES WaitEnds ExpiredTurnIsTaken EndedMatchIsCleared
CHECK_DEADLOCK FALSE
