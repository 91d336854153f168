SPECIFICATION Spec
CONSTANTS
    Users = {b, r, visitor}
    PlayerB = b
    PlayerR = r
    LockHolder = lock
    None = none
    Cells <- MCCells
    HoneyCells <- NoHoney
    Connecting <- MCConnecting
    PieEnabled = TRUE
    TurnTimeout = 1
    ReconnectGrace = 2
    MessageLimit = 1
    MaxNow = 2
    MaxVersion = 3
    MaxChats = 0
    MaxCrashes = 1
    CallDelay = 1
INVARIANTS TypeOK SnapshotsCoherent ResultsAgreeWithSession LiveIsIndexed
PROPERTIES TerminalIsFinal ForfeitOnlyWhileAway SweepPlaysOnlyAfterTimer ImplementsContract
CHECK_DEADLOCK FALSE
