SPECIFICATION FairSpec
CONSTANTS
    Accounts = {a1, a2}
    Platforms = {p1, p2}
    Placements <- MCPlacements
    Horizon = 2
    MaxRequests = 2
    NoAccount = noAccount
    NoTime = noTime
    Scenarios <- MCScenarios
\* When the requests have been served and the jobs have run nothing is left to do.
CHECK_DEADLOCK FALSE
INVARIANTS
    SlotsFollow
    AtMostOnce
PROPERTIES
    DeletedForGood
    EventuallySent
