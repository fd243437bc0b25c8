----------------------------- MODULE MCKeyShared -----------------------------
(* Instances of KeyShared for TLC. *)
EXTENDS KeyShared, TLC

CONSTANTS t1, t2

MCTasks == {t1, t2}
MCHashes == 0..2

\* The first two messages share a key.
MCHashOf == <<1, 1, 2>>

\* Ranges that overlap at the shared key.
MCStickyRanges == [c \in Consumers |-> IF c = 1 THEN {<<0, 1>>} ELSE {<<1, 2>>}]

Policy(mode, block) == [mode |-> mode, block_hashes |-> block]
MCPolicies == {Policy("AutoSplit", TRUE), Policy("Sticky", TRUE)}

MCSymmetry == Permutations(Tasks)

=============================================================================
