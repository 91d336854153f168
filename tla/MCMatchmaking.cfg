SPECIFICATION Spec
CONSTANTS
    Users = {u1, u2}
    Slots = {s1}
    Workers = {w1, w2}
    Boards <- OneBoard
    Rules = {classic}
    Tickets <- OneTicket
    WidenAfter = 1
    BotTimeout = 1
    StaleGrace = 1
    None = none
    MaxNow = 0
    JoinUntil = 0
    MaxJoins = 3
    MaxCrashes = 1
INVARIANT NamedMatchIsStored
PROPERTY ImplementsPairing
SYMMETRY Interchangeable
CHECK_DEADLOCK FALSE
