SPECIFICATION FairSpec
CONSTANTS
    Pages = {p1}
    Assignments <- MCAny
    Posts = {a}
    Requests = {r1}
    Batches = {b1, b2}
    MaxFaults = 2
INVARIANTS
    StoredTokenWorks
    EmptyPostRaced
PROPERTIES
    Renewed
