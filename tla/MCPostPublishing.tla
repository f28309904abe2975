-------------------------- MODULE MCPostPublishing --------------------------
(* PostPublishing instantiated for TLC: the configurations give model      *)
(* values to Accounts and Retries.                                         *)
EXTENDS PostPublishing, TLC

\* Every action treats all accounts alike, and all retry requests alike.
MCSymmetry == Permutations(Accounts) \cup Permutations(Retries)
=============================================================================
