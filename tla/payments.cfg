SPECIFICATION FairSpec
CONSTANTS
    Tokens = {t1}
    Handlers = {h1, h2}
    MaxGrants = 2
    Scenarios <- MCScenarios
\* A purchase that failed, or is fulfilled, asks for nothing more.
CHECK_DEADLOCK FALSE
INVARIANTS
    GrantedWasReported
    SuccessIsGranted
    CalmGrantsOnce
    PromoCounted
PROPERTIES
    EventuallyGranted
