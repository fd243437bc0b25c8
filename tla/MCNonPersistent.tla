--------------------------- MODULE MCNonPersistent ---------------------------
(* Instances of NonPersistent for TLC. *)
EXTENDS NonPersistent, TLC

CONSTANTS s1, s2, p1

\* Both consumers are on the first subscription; nobody attends to the second.
MCSubOf == <<s1, s1>>
MCKinds == {s1 :> k @@ s2 :> "Shared" : k \in {"Exclusive", "Failover", "Shared", "KeyShared"}}
MCPriority == <<0, 0>>
MCRingChoice == [S \in SUBSET Consumers |-> IF S = {} THEN Nobody ELSE Min(S)]
MCStickyRanges == [c \in Consumers |-> {}]

\* The second message is a batch with the key of the first.
MCProducerOf == <<p1, p1>>
MCHashOf == <<1, 1>>
MCWeight == <<1, 2>>

=============================================================================
