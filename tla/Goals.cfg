\* Two goals, two categories, two months.
CHECK_DEADLOCK FALSE
SPECIFICATION GoalsSpec
CONSTANTS
    GoalIds = {1, 2}
    Cats = {1, 2}
    Today = 2
    Plans <- FewPlans
    Amounts = {0, 2}
    InitBudget <- FirstBudgets
    MaxEdits = 3
    MaxChanges = 1
    MaxLocks = 1
INVARIANTS LedgerHolds
PROPERTIES  ReplannedGoalArrives
