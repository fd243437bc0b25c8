--------------------------- MODULE MCSingleActive ---------------------------
(* Instances of SingleActive for TLC. *)
EXTENDS SingleActive, TLC

CONSTANTS c1, c2, t1, t2

MCConsumers == {c1, c2}
MCTasks == {t1, t2}
MCRank == (c1 :> 1) @@ (c2 :> 2)
MCBoth == {"Exclusive", "Failover"}

MCSymmetry == Permutations(Tasks)

=============================================================================
