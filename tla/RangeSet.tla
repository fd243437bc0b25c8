------------------------------ MODULE RangeSet ------------------------------
(***************************************************************************)
(* storage/managed-ledger/src/range_set.rs: a set of positions kept as     *)
(* inclusive ranges, instantiated at ManagedLedgerPosition.                *)
(*                                                                         *)
(* A position is a pair <<ledger, entry>> ordered lexicographically (the   *)
(* partition is normalised to -1 before a position reaches a cursor).  A   *)
(* range is a pair <<start, end>>, a RangeSet a set of ranges.  Operators  *)
(* that the code writes as "the first/last range of a BTreeSet interval"   *)
(* return a set with at most one element, empty for Rust's None.           *)
(***************************************************************************)
EXTENDS Naturals

Lt(p, q) == p[1] < q[1] \/ (p[1] = q[1] /\ p[2] < q[2])

Leq(p, q) == p = q \/ Lt(p, q)

\* The successor used for adjacency: the next entry of the same ledger.
Succ(p) == <<p[1], p[2] + 1>>

\* The order of the pairs in the BTreeSet.
RangeLeq(r, s) == Lt(r[1], s[1]) \/ (r[1] = s[1] /\ Leq(r[2], s[2]))

\* range(..=(pos, pos)).next_back()
LastUpTo(ranges, pos) ==
    LET upTo == {r \in ranges : RangeLeq(r, <<pos, pos>>)}
    IN  {r \in upTo : \A s \in upTo : RangeLeq(s, r)}

\* The ranges that range((pos, pos)..) yields.
From(ranges, pos) == {r \in ranges : RangeLeq(<<pos, pos>>, r)}

Within(p, r) == Leq(r[1], p) /\ Leq(p, r[2])

contains(ranges, pos) ==
    \/ \E r \in LastUpTo(ranges, pos) : Within(pos, r)
    \/ \E r \in From(ranges, pos) : r[1] = pos

\* Mutant of Absorbed: the loop stops before a range that is only adjacent.
AbsorbedOverlapping(ranges, start, end) ==
    {r \in From(ranges, start) : r[1][1] = end[1] /\ r[1][2] <= end[2]}

\* The loop of insert_range absorbs, one after the other, the ranges at or
\* after start that begin no later than one entry past the growing end.  A
\* range is absorbed exactly when every entry between end and it is covered.
Absorbed(ranges, start, end) ==
    {r \in From(ranges, start) :
        /\ r[1][1] = end[1]
        /\ \A x \in (end[2] + 1)..(r[1][2] - 1) :
              \E q \in From(ranges, start) : Within(<<end[1], x>>, q)}

\* The left neighbour, merged only when it ends right before start.
LeftNeighbour(ranges, start) ==
    {r \in LastUpTo(ranges, start) : Succ(r[2]) = start}

InsertRange(ranges, start, end) ==
    LET right  == Absorbed(ranges, start, end)
        left   == LeftNeighbour(ranges \ right, start)
        starts == IF left = {} THEN {start} ELSE {r[1] : r \in left}
        ends   == {end} \cup {r[2] : r \in right}
        last   == {e \in ends : \A f \in ends : Leq(f, e)}
    IN  IF Lt(end, start) THEN ranges
        ELSE (ranges \ (right \cup left)) \cup (starts \X last)

Insert(ranges, pos) ==
    IF contains(ranges, pos) THEN ranges ELSE InsertRange(ranges, pos, pos)

\* Mutant of TakeCovering: the next range is taken without testing where it starts.
TakeNext(ranges, pos) == {r \in From(ranges, pos) : \A s \in From(ranges, pos) : RangeLeq(r, s)}

\* The range take_covering removes; its end is what take_covering returns.
\* The first probe tests start <= pos only, which its range bound implies.
TakeCovering(ranges, pos) ==
    LET below == LastUpTo(ranges, pos)
    IN  IF below # {} THEN below ELSE {r \in ranges : r[1] = pos}

----------------------------------------------------------------------------
(* What the data structure stands for. *)

Covered(ranges, p) == \E r \in ranges : Within(p, r)

\* Ranges are non-empty, stay in one ledger, and no two of them overlap or
\* touch: this is what "coalesced ranges" means.
Coalesced(ranges) ==
    /\ \A r \in ranges : r[1][1] = r[2][1] /\ Leq(r[1], r[2])
    /\ \A r, s \in ranges : r # s => Lt(Succ(r[2]), s[1]) \/ Lt(Succ(s[2]), r[1])

=============================================================================
