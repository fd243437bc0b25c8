------------------------- MODULE MCSharedDispatcher -------------------------
(* Instances of SharedDispatcher for TLC. *)
EXTENDS SharedDispatcher, TLC

CONSTANTS c1, c2, t1, t2

MCTwoConsumers == {c1, c2}
MCOneConsumer == {c1}
MCOneTask == {t1}
MCTwoTasks == {t1, t2}

\* Entries of one message each, and batches of two.
MCSingles == [m \in Messages |-> 1]
MCPairs == [m \in Messages |-> 2]

MCSymmetry == Permutations(Consumers) \cup Permutations(Tasks)

=============================================================================
