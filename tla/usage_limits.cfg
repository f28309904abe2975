SPECIFICATION Spec
CONSTANTS
    Procs = {p1, p2}
    MaxTime = 3
    MaxUses = 3
    MaxMoves = 2
    Month = 2
    Delta = 1
    Limit <- MCLimit
    Scenarios <- MCScenarios
\* The clock stops, and nothing is left to do.
CHECK_DEADLOCK FALSE
INVARIANTS
    UsedWithinLimit
    WithinAllowances
    CountedOrClamped
    PurchasesAddUp
