------------------------------- MODULE MCSignUp -------------------------------
(* SignUp instantiated for TLC.                                            *)
EXTENDS SignUp, TLC

\* Overlapping requests whose links expire, whose statements fail, that die.
MCMishaps == {{"overlap", "expiry"}, {"overlap", "dbFails"}, {"overlap", "expiry", "crash"}}
=============================================================================
