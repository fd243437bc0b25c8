-------------------------- MODULE MCConsumerOrder --------------------------
(* An instance of ConsumerOrder for TLC: three consumers of one level, and one *)
(* each before and after it.                                                   *)
EXTENDS ConsumerOrder, TLC

CONSTANTS a, b1, b2, b3, z

MCConsumers == {a, b1, b2, b3, z}
MCPriority == a :> 0 @@ b1 :> 1 @@ b2 :> 1 @@ b3 :> 1 @@ z :> 2
MCSymmetry == Permutations({b1, b2, b3})

=============================================================================
