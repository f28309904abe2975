SPECIFICATION SignUpSpec
CONSTANTS
    Emails = {e1, e2}
    Links = {l1}
    Requests = {r1, r2, r3}
    MaxUses = 1
    NoLink = NoLink
    Nobody = Nobody
    Mishaps <- MCMishaps
\* All requests have been made.
CHECK_DEADLOCK FALSE
INVARIANTS
    PromoWithinUses
    PlanLeftOut
    CreatedAsAsked
