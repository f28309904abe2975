---------------------------- MODULE ConnectionPool ----------------------------
(***************************************************************************)
(* The pg pool every repository shares (db-connection.ts) and the          *)
(* transactions the repositories run on its connections.  A call of a      *)
(* repository checks a connection out, runs its statements and releases    *)
(* it; whatever transaction is open then stays open for the next call.     *)
(* The pool and PostgreSQL are external.                                   *)
(***************************************************************************)
EXTENDS Naturals, Sequences

CONSTANTS
    Connections,    \* the connections of the pool
    NoConnection,   \* what a call has that has none
    Calls,          \* calls of repository methods
    Rows,           \* the rows they write
    Mixes           \* the combinations of programs explored

(* "query"        pool.query: one statement                                *)
(* "single"       one statement on a client that is checked out, no BEGIN  *)
(* "transaction"  BEGIN, statements, COMMIT; ROLLBACK when one throws      *)
(* "openRead"     BEGIN and a SELECT, without a COMMIT                     *)
Kinds == {"query", "single", "transaction", "openRead"}

\* A method's kind and the rows its statements write, in order.
Programs ==
    {p \in [kind : Kinds, rows : Seq(Rows)] :
        /\ p.kind \in {"query", "single"} => Len(p.rows) = 1
        /\ p.kind = "openRead" => p.rows = <<>>}

ASSUME PoolAssumption ==
    /\ NoConnection \notin Connections
    /\ Mixes \subseteq [Calls -> Programs]

VARIABLES
    program,    \* what each call runs
    at,         \* where it is
    conn,       \* the connection it has checked out
    next,       \* how many of its statements have been executed
    result,     \* what its caller is told
    tx,         \* the transaction of each connection
    pending,    \* the statements executed in it, as <<call, number>>
    committed   \* the statements that are committed

poolVars == <<program, at, conn, next, result, tx, pending, committed>>

-----------------------------------------------------------------------------
\* The kinds that begin a transaction.
Begins(k) == program[k].kind \in {"transaction", "openRead"}

PoolInit ==
    /\ program \in Mixes
    /\ at = [k \in Calls |-> "connect"]
    /\ conn = [k \in Calls |-> NoConnection]
    /\ next = [k \in Calls |-> 0]
    /\ result = [k \in Calls |-> "none"]
    /\ tx = [c \in Connections |-> "none"]
    /\ pending = [c \in Connections |-> {}]
    /\ committed = {}

Statements(k) == 1..Len(program[k].rows)

RowOf(w) == program[w[1]].rows[w[2]]

-----------------------------------------------------------------------------
(* The database: locks last until the end of the transaction that took them *)

\* d holds the lock of the row that k writes next.
WaitsFor(k, d) ==
    /\ at[k] = "run" /\ next[k] + 1 \in Statements(k) /\ conn[k] # d
    /\ \E w \in pending[d] : RowOf(w) = RowOf(<<k, next[k] + 1>>)

ConnectionWaits(c, d) == \E k \in Calls : conn[k] = c /\ WaitsFor(k, d)

\* c is on a cycle: a connection waits for one other at most.
Deadlocked(c) ==
    \E S \in SUBSET Connections :
        /\ c \in S
        /\ \A d \in S : /\ \E e \in S : ConnectionWaits(d, e)
                        /\ \E e \in S : ConnectionWaits(e, d)

\* The end of c's transaction without a COMMIT.
Discard(c) ==
    /\ pending' = [pending EXCEPT ![c] = {}]
    /\ tx' = [tx EXCEPT ![c] = "none"]

-----------------------------------------------------------------------------
(* A call *)

\* pool.connect: it waits for a connection that nobody uses.
Connect(k) ==
    /\ at[k] = "connect"
    /\ \E c \in Connections :
          /\ \A j \in Calls : conn[j] # c
          /\ conn' = [conn EXCEPT ![k] = c]
    /\ at' = [at EXCEPT ![k] = IF Begins(k) THEN "begin" ELSE "run"]
    /\ UNCHANGED <<program, next, result, tx, pending, committed>>

\* Mutant: no BEGIN.
BeginForgotten(k) ==
    /\ at[k] = "begin"
    /\ at' = [at EXCEPT ![k] = "run"]
    /\ UNCHANGED <<program, conn, next, result, tx, pending, committed>>

\* BEGIN; inside a transaction it is only a warning, in one that is aborted
\* an error.
Begin(k) ==
    /\ at[k] = "begin"
    /\ IF tx[conn[k]] = "aborted"
       THEN /\ at' = [at EXCEPT ![k] = "rollback"]
            /\ result' = [result EXCEPT ![k] = "error"]
            /\ UNCHANGED tx
       ELSE /\ at' = [at EXCEPT ![k] = "run"]
            /\ tx' = [tx EXCEPT ![conn[k]] = "open"]
            /\ UNCHANGED result
    /\ UNCHANGED <<program, conn, next, pending, committed>>

\* The call has nothing left to do but release its connection.
Succeed(k) ==
    /\ at' = [at EXCEPT ![k] = "release"]
    /\ result' = [result EXCEPT ![k] = "ok"]

\* One INSERT, UPDATE or DELETE; outside a transaction it commits itself.
Execute(k) ==
    /\ at[k] = "run" /\ next[k] + 1 \in Statements(k)
    /\ tx[conn[k]] # "aborted"
    /\ \A d \in Connections : ~WaitsFor(k, d)
    /\ next' = [next EXCEPT ![k] = @ + 1]
    /\ LET w == <<k, next[k] + 1>> IN
         IF tx[conn[k]] = "none"
         THEN committed' = committed \cup {w} /\ UNCHANGED pending
         ELSE pending' = [pending EXCEPT ![conn[k]] = @ \cup {w}] /\ UNCHANGED committed
    /\ IF Begins(k) THEN UNCHANGED <<at, result>> ELSE Succeed(k)
    /\ UNCHANGED <<program, conn, tx>>

\* The SELECT of a method that begins a transaction and does not end it.
OpenRead(k) ==
    /\ at[k] = "run" /\ program[k].kind = "openRead"
    /\ Succeed(k)
    /\ UNCHANGED <<program, conn, next, tx, pending, committed>>

\* A statement throws: it violates a constraint, is the victim of a deadlock,
\* or the transaction is aborted already.
StatementThrows(k) ==
    /\ at[k] = "run"
    /\ next[k] + 1 \in Statements(k) \/ program[k].kind = "openRead"
    /\ tx' = [tx EXCEPT ![conn[k]] = IF @ = "none" THEN @ ELSE "aborted"]
    /\ pending' = [pending EXCEPT ![conn[k]] = {}]
    /\ at' = [at EXCEPT ![k] = IF Begins(k) THEN "rollback" ELSE "release"]
    /\ result' = [result EXCEPT ![k] = "error"]
    /\ UNCHANGED <<program, conn, next, committed>>

\* The method itself throws after a statement, say because it met no row.
CodeThrows(k) ==
    /\ at[k] = "run" /\ Begins(k)
    /\ next[k] > 0 \/ program[k].kind = "openRead"
    /\ at' = [at EXCEPT ![k] = "rollback"]
    /\ result' = [result EXCEPT ![k] = "error"]
    /\ UNCHANGED <<program, conn, next, tx, pending, committed>>

\* COMMIT, also of what earlier calls left in the transaction.
Commit(k) ==
    /\ at[k] = "run" /\ program[k].kind = "transaction"
    /\ next[k] = Len(program[k].rows)
    /\ committed' = committed \cup pending[conn[k]]
    /\ Discard(conn[k])
    /\ Succeed(k)
    /\ UNCHANGED <<program, conn, next>>

\* Mutant: no ROLLBACK.
RollbackForgotten(k) ==
    /\ at[k] = "rollback"
    /\ at' = [at EXCEPT ![k] = "release"]
    /\ UNCHANGED <<program, conn, next, result, tx, pending, committed>>

\* ROLLBACK, in the catch block.
Rollback(k) ==
    /\ at[k] = "rollback"
    /\ Discard(conn[k])
    /\ at' = [at EXCEPT ![k] = "release"]
    /\ UNCHANGED <<program, conn, next, result, committed>>

\* Mutant: an error skips the release.
ReleaseOnSuccess(k) ==
    /\ at[k] = "release"
    /\ at' = [at EXCEPT ![k] = "done"]
    /\ conn' = [conn EXCEPT ![k] = IF result[k] = "ok" THEN NoConnection ELSE @]
    /\ UNCHANGED <<program, next, result, tx, pending, committed>>

\* client.release, in the finally block.  After an error pool.query has its
\* connection closed.
Release(k) ==
    /\ at[k] = "release"
    /\ at' = [at EXCEPT ![k] = "done"]
    /\ conn' = [conn EXCEPT ![k] = NoConnection]
    /\ IF program[k].kind = "query" /\ result[k] = "error"
       THEN Discard(conn[k])
       ELSE UNCHANGED <<tx, pending>>
    /\ UNCHANGED <<program, next, result, committed>>

-----------------------------------------------------------------------------
\* The pool closes a connection that has been idle for some time and opens
\* another when it needs one; PostgreSQL rolls its transaction back.
IdleTimeout(c) ==
    /\ tx[c] # "none"
    /\ \A k \in Calls : conn[k] # c
    /\ Discard(c)
    /\ UNCHANGED <<program, at, conn, next, result, committed>>

\* The process dies; the calls that have a connection are never answered, the
\* others are made by its successor.
ProcessDies ==
    /\ at' = [k \in Calls |-> IF at[k] = "connect" THEN "connect" ELSE "done"]
    /\ result' = [k \in Calls |-> IF at[k] = "done" THEN result[k] ELSE "none"]
    /\ conn' = [k \in Calls |-> NoConnection]
    /\ tx' = [c \in Connections |-> "none"]
    /\ pending' = [c \in Connections |-> {}]
    /\ UNCHANGED <<program, next, committed>>

-----------------------------------------------------------------------------
CallStep(k) ==
    \/ Connect(k) \/ Begin(k) \/ Execute(k) \/ OpenRead(k)
    \/ Commit(k) \/ Rollback(k) \/ Release(k)

PoolNext ==
    \/ \E k \in Calls : CallStep(k) \/ StatementThrows(k) \/ CodeThrows(k)
    \/ \E c \in Connections : IdleTimeout(c)
    \/ ProcessDies

PoolSpec == PoolInit /\ [][PoolNext]_poolVars

\* A statement PostgreSQL refuses: it does not stay without an answer.
Refused(k) ==
    /\ conn[k] \in Connections
    /\ tx[conn[k]] = "aborted" \/ Deadlocked(conn[k])
    /\ StatementThrows(k)

PoolFairSpec ==
    /\ PoolSpec
    /\ \A k \in Calls : WF_poolVars(CallStep(k)) /\ WF_poolVars(Refused(k))
    /\ \A c \in Connections : WF_poolVars(IdleTimeout(c))

-----------------------------------------------------------------------------
(* Type invariant; a call has a connection exactly while it needs one.     *)
PoolTypeOK ==
    /\ program \in Mixes
    /\ at \in [Calls -> {"connect", "begin", "run", "rollback", "release", "done"}]
    /\ conn \in [Calls -> Connections \cup {NoConnection}]
    /\ next \in [Calls -> Nat]
    /\ result \in [Calls -> {"none", "ok", "error"}]
    /\ tx \in [Connections -> {"none", "open", "aborted"}]
    /\ pending \in [Connections -> SUBSET (Calls \X Nat)]
    /\ committed \subseteq Calls \X Nat
    /\ \A k \in Calls :
          conn[k] \in Connections <=> at[k] \in {"begin", "run", "rollback", "release"}

\* The statements of k that are committed, and those that still may be.
Committed(k) == {i \in Statements(k) : <<k, i>> \in committed}
Written(k) ==
    Committed(k) \cup
        {i \in Statements(k) : \E c \in Connections : <<k, i>> \in pending[c]}

(* The rows of a transaction are committed together or not at all, whatever *)
(* transaction it found open on its connection.                             *)
AllOrNothing ==
    \A k \in Calls :
        program[k].kind = "transaction" => Committed(k) \in {{}, Statements(k)}

(* An error means that nothing was written or ever will be, and a           *)
(* transaction that is reported successful is committed.                    *)
AnswerIsTrue ==
    \A k \in Calls :
        /\ at[k] = "done" /\ result[k] = "error" => Written(k) = {}
        /\ at[k] = "done" /\ result[k] = "ok" /\ program[k].kind = "transaction"
              => Committed(k) = Statements(k)

(* A call of a repository returns, unless the process dies: no row stays    *)
(* locked and no connection taken for good.                                 *)
Answered == \A k \in Calls : at[k] = "connect" ~> at[k] = "done"
=============================================================================
