---------------------------- MODULE MCPostEditing ----------------------------
(* PostEditing instantiated for TLC.                                       *)
EXTENDS PostEditing

\* Accounts and platforms are interchangeable: one placement of each kind.
MCPlacements ==
    LET all == [Accounts -> Platforms]
    IN {CHOOSE f \in all : \A a, b \in Accounts : f[a] = f[b] => a = b,
        CHOOSE f \in all : \A a, b \in Accounts : f[a] = f[b]}

\* Every scenario is a set of circumstances that are explored together.
MCScenarios ==
    {{"full", "resent"}, {"retarget", "full"}, {"retarget"}, {"still"}, {"still", "retarget"},
     {"shared"}, {"draft"}, {"overlap", "single"}}

=============================================================================
