SPECIFICATION Spec
CONSTANTS
    t1 = t1  t2 = t2  b1 = b1  b2 = b2  ana = ana
    None = None
    Tabs = {t1, t2}
    Browsers = {b1, b2}
    AccountOf <- MCAccountOf
    SessionLimit = 1
    AccessTTL = 1
    RefreshTTL = 2
    CacheTTL = 1
    MaxCalls = 2
    Budgets <- MCBudgets
SYMMETRY Interchangeable
INVARIANTS SessionLimitHolds LoneTabKeepsItsSession EndedSessionLosesAccess
PROPERTY DeadSessionStaysDead
CHECK_DEADLOCK FALSE
