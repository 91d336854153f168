SPECIFICATION Spec
CONSTANTS
    u1 = u1  u2 = u2
    Users = {me, u1, u2}
    Me = me
    None = None
    Budgets <- MCBudgets
INVARIANTS NoDuplicateRows OnlyFriendsWrite JoinedSeesAll EditsSurvive
PROPERTY DeletedStaysDeleted
CHECK_DEADLOCK FALSE
