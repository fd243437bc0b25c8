------------------------------ MODULE KeyRanges ------------------------------
(***************************************************************************)
(* How Key_Shared divides the space of key hashes between consumers.  The  *)
(* persistent dispatcher (dispatcher/key_shared.rs) and the non-persistent *)
(* one (non_persistent/dispatcher/sticky_key.rs) do it alike.  An          *)
(* assignment is <<first hash, last hash, consumer>>.                      *)
(***************************************************************************)
EXTENDS Integers, FiniteSets

CONSTANTS
    HashSpace,       \* RANGE_SIZE + 1: hashes are 0..HashSpace-1
    StickyRanges     \* StickyRanges[c]: the ranges a Sticky consumer asks for

ASSUME HashSpaceAssumption == HashSpace \in Nat \ {0}

\* The bounds of a range are i32; a client may ask for any.
IsI32(x) == x \in Int /\ -2147483647 - 1 <= x /\ x <= 2147483647

ASSUME RangesAssumption ==
    \A c \in DOMAIN StickyRanges : \A r \in StickyRanges[c] : IsI32(r[1]) /\ IsI32(r[2])

\* The place of c among the ids of S.
Index(c, S) == Cardinality({d \in S : d < c})

\* rebuild_auto_split_assignments: equal shares of the hash space, in id order.
auto_split(S) ==
    {<<(Index(c, S) * HashSpace) \div Cardinality(S),
       ((Index(c, S) + 1) * HashSpace) \div Cardinality(S) - 1, c>> : c \in S}

\* rebuild_sticky_assignments: what the consumers ask for, overlapping or not.
sticky(S) == UNION {{<<r[1], r[2], c>> : r \in StickyRanges[c]} : c \in S}

\* The assignments that hold hash h.
Holding(A, h) == {a \in A : a[1] <= h /\ h <= a[2]}

\* The order assignments are kept in.
Before(a, b) == \/ a[1] < b[1]
                \/ a[1] = b[1] /\ a[2] < b[2]
                \/ a[1] = b[1] /\ a[2] = b[2] /\ a[3] <= b[3]

FirstOf(A) == CHOOSE a \in A : \A b \in A : Before(a, b)

=============================================================================
