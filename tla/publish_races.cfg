SPECIFICATION Spec
CONSTANTS
    Accounts = {a1, a2}
    Retries = {r1}
    NoAccount = NoAccount
    Modes = {"draft", "scheduled", "now"}
    Faults = {"early", "schedule", "abort", "limited", "lostReply", "hastyRetry", "staleRetry"}
SYMMETRY MCSymmetry
\* A post, once settled, asks for nothing more.
CHECK_DEADLOCK FALSE
INVARIANTS
    DoneWasPublished
    CountedWasPublished
