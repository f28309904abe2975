SPECIFICATION FairSpec
CONSTANTS
    Accounts = {a1, a2}
    Retries = {r1}
    NoAccount = NoAccount
    Modes = {"scheduled", "now"}
    Faults = {"stall", "stallTwice"}
\* A post, once settled, asks for nothing more.
CHECK_DEADLOCK FALSE
INVARIANTS
    CopiesBounded
PROPERTIES
    EventuallySettled
