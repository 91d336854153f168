SPECIFICATION Spec
CONSTANTS
    Users = {b, r}
    PlayerB = b
    PlayerR = r
    LockHolder = lock
    None = none
    Cells <- MCCells
    HoneyCells <- NoHoney
    Connecting <- MCConnecting
    PieEnabled = FALSE
    TurnTimeout = 1
    ReconnectGrace = 1
    MessageLimit = 1
    MaxNow = 1
    MaxVersion = 1
    MaxChats = 1
    MaxCrashes = 0
    CallDelay = 0
INVARIANT RecordedAtMostOnce
CHECK_DEADLOCK FALSE
