------------------------------ MODULE MCAccounts ------------------------------
(* Accounts instantiated for TLC. *)
EXTENDS Accounts

\* One page on any platform.
MCAny == [Pages -> Platforms]
=============================================================================
