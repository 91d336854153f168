SPECIFICATION FairSpec
CONSTANTS
    Users = {u1, u2}
    Slots = {s1}
    Workers = {w1}
    Boards <- TwoBoards
    Rules = {classic}
    Tickets <- BandTickets
    WidenAfter = 1
    BotTimeout = 2
    StaleGrace = 1
    None = none
    MaxNow = 2
    JoinUntil = 0
    MaxJoins = 2
    MaxCrashes = 0
PROPERTIES EveryoneIsServed PairIsConnected
CHECK_DEADLOCK FALSE
