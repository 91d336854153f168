SPECIFICATION Spec
CONSTANTS
    u1 = u1  u2 = u2
    Users = {me, u1, u2}
    Me = me
    None = None
    Budgets <- MCBudgets
SYMMETRY Interchangeable
INVARIANTS OneMatchPerOffer SoleSessionIsFound InviteIsFindable NoGhostInvite
CHECK_DEADLOCK FALSE
