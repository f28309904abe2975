-------------------------- MODULE MCConnectionPool --------------------------
(* ConnectionPool instantiated for TLC: the calls are 1, 2, ... and so are *)
(* the rows.                                                               *)
EXTENDS ConnectionPool

\* One of each kind and of the transactions of one or two rows.
MCPrograms ==
    {p \in [kind : Kinds, rows : UNION {[1..n -> Rows] : n \in 0..2}] :
        /\ p \in Programs
        /\ p.kind = "transaction" =>
              p.rows # <<>> /\ \A i, j \in DOMAIN p.rows : p.rows[i] = p.rows[j] => i = j}

\* Calls differ in their programs only: one order of the programs
\* will do, and one first row.
Rank(p) ==
    (CHOOSE n \in 1..4 : <<"query", "single", "transaction", "openRead">>[n] = p.kind) * 100
        + Len(p.rows) * 10 + (IF p.rows = <<>> THEN 0 ELSE p.rows[1])

MCMixes ==
    {f \in [Calls -> MCPrograms] :
        /\ \A k \in Calls : k + 1 \in Calls => Rank(f[k]) <= Rank(f[k + 1])
        /\ f[1].rows = <<>> \/ f[1].rows[1] = 1}
=============================================================================
