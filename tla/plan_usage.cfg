SPECIFICATION FairSpec
CONSTANTS
    Procs = {p1, p2}
    Connectors = {c1, c2}
    MaxSubs = 2
    MaxEvents = 2
    MaxAccounts = 2
    MaxTime = 3
    Month = 2
    Trial = 1
    Limit <- MCLimit
    Scenarios <- MCScenarios
\* The clock stops, and nothing is left to do.
CHECK_DEADLOCK FALSE
INVARIANTS
    PaidWasBought
    PlanFollowsStripe
    AccountsCounted
PROPERTIES
    PaidPlanEnds
