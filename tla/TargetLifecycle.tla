-------------------------- MODULE TargetLifecycle --------------------------
(***************************************************************************)
(* What the publishing path promises about the targets of a post when no   *)
(* crash, lost reply or overlapping retry occurs, without the jobs, calls  *)
(* and callbacks that bring it about: the platform gets a target at most   *)
(* once and only while the target is PENDING, a target becomes DONE only   *)
(* after that and for ever, one that was not accepted may become FAILED,   *)
(* and only a FAILED target is taken up again.                             *)
(***************************************************************************)
EXTENDS Naturals

CONSTANT Targets

VARIABLES
    row,      \* the status stored for each target
    copies    \* how often its platform has accepted it

TLvars == <<row, copies>>

TLInit ==
    /\ row = [a \in Targets |-> "none"]
    /\ copies = [a \in Targets |-> 0]

\* The post's targets are inserted together.
Insert ==
    /\ \A a \in Targets : row[a] = "none"
    /\ row' = [a \in Targets |-> "PENDING"]
    /\ UNCHANGED copies

Publish(a) ==
    /\ row[a] = "PENDING" /\ copies[a] = 0
    /\ copies' = [copies EXCEPT ![a] = 1]
    /\ UNCHANGED row

Succeed(a) ==
    /\ row[a] = "PENDING" /\ copies[a] = 1
    /\ row' = [row EXCEPT ![a] = "DONE"]
    /\ UNCHANGED copies

Fail(a) ==
    /\ row[a] = "PENDING" /\ copies[a] = 0
    /\ row' = [row EXCEPT ![a] = "FAILED"]
    /\ UNCHANGED copies

Retry(a) ==
    /\ row[a] = "FAILED"
    /\ row' = [row EXCEPT ![a] = "PENDING"]
    /\ UNCHANGED copies

TLNext ==
    \/ Insert
    \/ \E a \in Targets : Publish(a) \/ Succeed(a) \/ Fail(a) \/ Retry(a)

TLSpec == TLInit /\ [][TLNext]_TLvars
=============================================================================
