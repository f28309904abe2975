SPECIFICATION Spec
CONSTANTS
    Accounts = {a1, a2, a3}
    Retries = {r1}
    NoAccount = NoAccount
    Modes = {"draft", "scheduled", "now"}
    Faults = {"limited", "schedule", "early", "abort"}
SYMMETRY MCSymmetry
\* A post, once settled, asks for nothing more.
CHECK_DEADLOCK FALSE
INVARIANTS
    StatusSettled
PROPERTIES
    FollowsLifecycle
