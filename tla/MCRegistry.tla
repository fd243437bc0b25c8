----------------------------- MODULE MCRegistry -----------------------------
(***************************************************************************)
(* Two connections and a dispatch task on a topic and two partition names  *)
(* of it, of which one is no partition when the topic has one.  Started    *)
(* with default_partitions = 0 all three are plain topics.                 *)
(***************************************************************************)
EXTENDS Registry, TLC

Request(n, i, t) == [name |-> n, id |-> i, type |-> t]
mcRequests == {Request(<<>>, 1, "Exclusive"), Request(<<0>>, 1, "Shared"),
               Request(<<0>>, 2, "Shared")}
mcProduced == {<<>>, <<1>>}
mcSymmetry == Permutations(Conns)
=============================================================================
