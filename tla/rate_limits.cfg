SPECIFICATION Spec
CONSTANTS
    a = a
    b = b
    u = u
    v = v
    p1 = p1
    p2 = p2
    p3 = p3
    Posts = {p1, p2, p3}
    Accounts = {a, b}
    App = App
    UserOf <- MCUserOf
    AccountOf <- MCAccountOf
    Lengths <- MCLengths
    Requests = 2
    Jitter = 1
    MaxTime = 3
    Cases <- MCCases
\* The clock stops, and every post is dealt with.
CHECK_DEADLOCK FALSE
INVARIANTS
    OvershootBounded
    ReservedWithinQuota
    ClampedCount
    SlotsBounded
