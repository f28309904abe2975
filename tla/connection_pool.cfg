SPECIFICATION PoolFairSpec
CONSTANTS
    Connections = {c1, c2}
    NoConnection = NoConnection
    Calls = {1, 2, 3}
    Rows = {1, 2}
    Mixes <- MCMixes
\* When every call has been answered nothing is left to do.
CHECK_DEADLOCK FALSE
INVARIANTS
    AllOrNothing
    AnswerIsTrue
PROPERTIES
    Answered
