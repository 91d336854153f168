SPECIFICATION Spec
CONSTANTS
    None = None
    Budgets <- MCBudgets
INVARIANTS SeenAsConnected ShowsTheBoard QueueIsLeft
CHECK_DEADLOCK FALSE
