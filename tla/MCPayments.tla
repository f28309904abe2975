----------------------------- MODULE MCPayments -----------------------------
(* Payments instantiated for TLC.                                          *)
EXTENDS Payments, TLC

\* Reports one at a time with failures and a crash; the races of reports that
\* say what they like; everything but overlaps; and everything but claims.
MCScenarios ==
    {{}, {"grantFails", "promoFails", "crash"}, {"overlap", "late", "claims"},
     FaultKinds \ {"overlap"}, FaultKinds \ {"claims"}}

=============================================================================
