---------------------------- MODULE MCUsageLimits ----------------------------
(* UsageLimits instantiated for TLC.                                       *)
EXTENDS UsageLimits, TLC

\* The proportions of PLAN_LIMITS; STARTER allows no AI requests.
MCLimit ==
    [FREE |-> [posts |-> 1, ai |-> 1],
     STARTER |-> [posts |-> 2, ai |-> 0],
     PRO |-> [posts |-> 2, ai |-> 2]]

\* One at a time, with and without changes; overlapping without and with them.
MCScenarios ==
    {{"unasked"}, {"unasked", "change", "others"}, {"change", "others", "crash"},
     {"overlap", "unasked"}, {"overlap", "unasked", "change"}}
=============================================================================
