----------------------------- MODULE MCPlanUsage -----------------------------
(* PlanUsage instantiated for TLC.                                         *)
EXTENDS PlanUsage, TLC

\* The proportions of PLAN_LIMITS: FREE and STARTER allow 10, PRO 30.
MCLimit == [FREE |-> 1, STARTER |-> 1, PRO |-> 2]

\* Accounts and requests without disturbances, with plans of two sizes, with a
\* crash; events late; everything that runs overlapping; resets that fail.
MCScenarios ==
    {{"requests", "accounts", "parallel"}, {"accounts", "pro"},
     {"requests", "pro", "crash"}, {"requests", "late"},
     {"late", "second"}, {"overlap", "second", "pro"},
     {"requests", "others"}}
=============================================================================
