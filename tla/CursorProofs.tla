--------------------------- MODULE CursorProofs ---------------------------
(***************************************************************************)
(* The cursor of ManagedCursor, for every ledger size and every number of  *)
(* appends and resets.  In every mode: its type, its coalesced ranges, and *)
(* that the scan for the first unacknowledged entry is exact.  For clients *)
(* that do not mix cumulative acks with outstanding individual ones: that  *)
(* the ranges stay past the mark, that the frontier never moves back and   *)
(* at rest is the end of the acknowledged prefix, and that the cursor      *)
(* implements a set of acknowledged positions (AckLog).                    *)
(*                                                                         *)
(* Then the two storage backends side by side (Backends), acks mixed or    *)
(* not: they have the same cursors and, as far as Backends says, the same  *)
(* acknowledged messages, and the cursor in memory is a set of             *)
(* acknowledged positions but for the steps on which it forgets some.      *)
(***************************************************************************)
EXTENDS Backends, FiniteSetTheorems, WellFoundedInduction, TLAPS

Pos == Nat \X Nat
Ranges == SUBSET (Pos \X Pos)

\* Positions are ordered: Lt is irreflexive, transitive and total.
LEMMA LtOrder ==
    ASSUME NEW p \in Pos, NEW q \in Pos, NEW s \in Pos
    PROVE  /\ ~Lt(p, p)
           /\ Lt(p, q) /\ Lt(q, s) => Lt(p, s)
           /\ Lt(p, q) \/ Lt(q, p) \/ p = q
           /\ ~(Lt(p, q) /\ Lt(q, p))
<1>1. /\ p = <<p[1], p[2]>> /\ q = <<q[1], q[2]>> /\ s = <<s[1], s[2]>>
      /\ p[1] \in Nat /\ p[2] \in Nat /\ q[1] \in Nat /\ q[2] \in Nat
      /\ s[1] \in Nat /\ s[2] \in Nat
  BY DEF Pos
<1>. QED
  BY <1>1 DEF Lt

\* The successor is the least position past a position of its ledger.
LEMMA SuccNext ==
    ASSUME NEW p \in Pos, NEW q \in Pos
    PROVE  /\ Succ(p) \in Pos
           /\ Lt(p, Succ(p))
           /\ Lt(q, Succ(p)) => Leq(q, p)
           /\ Lt(p, q) /\ p[1] = q[1] => Leq(Succ(p), q)
           /\ Succ(p) = Succ(q) => p = q
<1>1. /\ p = <<p[1], p[2]>> /\ q = <<q[1], q[2]>>
      /\ p[1] \in Nat /\ p[2] \in Nat /\ q[1] \in Nat /\ q[2] \in Nat
  BY DEF Pos
<1>2. Succ(p) = <<p[1], p[2] + 1>> /\ Succ(p)[1] = p[1] /\ Succ(p)[2] = p[2] + 1
  BY Zenon DEF Succ
<1>3. Succ(p) \in Pos
  BY <1>1, <1>2 DEF Pos
<1>4. Lt(p, Succ(p))
  BY <1>1, <1>2 DEF Lt
<1>5. Lt(q, Succ(p)) => Leq(q, p)
  BY <1>1, <1>2 DEF Lt, Leq
<1>6. Lt(p, q) /\ p[1] = q[1] => Leq(Succ(p), q)
  BY <1>1, <1>2 DEF Lt, Leq
<1>7. Succ(p) = Succ(q) => p = q
  BY <1>1 DEF Succ
<1>. QED
  BY <1>3, <1>4, <1>5, <1>6, <1>7, Zenon

\* A coalesced range as its two ends.
LEMMA RangeEnds ==
    ASSUME NEW R \in Ranges, Coalesced(R), NEW r \in R
    PROVE  /\ r = <<r[1], r[2]>>
           /\ r[1] \in Pos /\ r[2] \in Pos
           /\ r[1][1] = r[2][1]
           /\ Leq(r[1], r[2])
BY DEF Ranges, Coalesced

\* Of two coalesced ranges the one that does not start after a position of the
\* other lies before it altogether.
LEMMA RangesApart ==
    ASSUME NEW R \in Ranges, Coalesced(R), NEW r \in R, NEW s \in R, r # s,
           NEW p \in Pos, Leq(p, Succ(r[2])), Leq(s[1], p)
    PROVE  Lt(Succ(s[2]), r[1]) /\ Lt(s[2], r[1]) /\ Lt(s[1], r[1])
<1>1. /\ r[1] \in Pos /\ r[2] \in Pos /\ s[1] \in Pos /\ s[2] \in Pos
      /\ Leq(r[1], r[2]) /\ Leq(s[1], s[2])
  BY RangeEnds, Zenon
<1>2. Succ(r[2]) \in Pos /\ Succ(s[2]) \in Pos /\ Lt(s[2], Succ(s[2]))
  BY <1>1, SuccNext, Zenon
<1>3. ~Lt(Succ(r[2]), s[1])
  BY <1>1, <1>2, LtOrder DEF Leq
<1>4. Lt(Succ(s[2]), r[1])
  BY <1>3, Zenon DEF Coalesced
<1>. QED
  BY <1>1, <1>2, <1>4, LtOrder DEF Leq

\* contains decides coverage: neither of its two probes misses a range.
LEMMA ContainsCovered ==
    ASSUME NEW R \in Ranges, Coalesced(R), NEW p \in Pos
    PROVE  contains(R, p) <=> Covered(R, p)
<1>1. ASSUME contains(R, p) PROVE Covered(R, p)
  <2>1. CASE \E r \in LastUpTo(R, p) : Within(p, r)
    BY <2>1, Zenon DEF LastUpTo, Covered
  <2>2. CASE \E r \in From(R, p) : r[1] = p
    BY <2>2, RangeEnds, Zenon DEF From, Covered, Within, Leq
  <2>. QED
    BY <1>1, <2>1, <2>2, Zenon DEF contains
<1>2. ASSUME Covered(R, p) PROVE contains(R, p)
  <2>1. PICK r \in R : Leq(r[1], p) /\ Leq(p, r[2])
    BY <1>2, Zenon DEF Covered, Within
  <2>2. r[1] \in Pos /\ r[2] \in Pos
    BY RangeEnds, Zenon
  <2>3. CASE r[1] = p
    <3>1. RangeLeq(<<p, p>>, r)
      BY <2>1, <2>3, Zenon DEF RangeLeq
    <3>. QED
      BY <2>3, <3>1, Zenon DEF contains, From
  <2>4. CASE Lt(r[1], p)
    <3>1. RangeLeq(r, <<p, p>>)
      BY <2>4, Zenon DEF RangeLeq
    <3>2. ASSUME NEW s \in R, RangeLeq(s, <<p, p>>) PROVE RangeLeq(s, r)
      <4>1. Leq(s[1], p)
        BY <3>2, Zenon DEF RangeLeq, Leq
      <4>2. Leq(p, Succ(r[2]))
        BY <2>1, <2>2, SuccNext, LtOrder DEF Leq
      <4>3. CASE s = r
        BY <4>3, Zenon DEF RangeLeq, Leq
      <4>4. CASE s # r
        BY <4>1, <4>2, <4>4, RangesApart, Zenon DEF RangeLeq
      <4>. QED
        BY <4>3, <4>4, Zenon
    <3>3. r \in LastUpTo(R, p)
      BY <3>1, <3>2, Zenon DEF LastUpTo
    <3>. QED
      BY <2>1, <3>3, Zenon DEF contains, Within
  <2>. QED
    BY <2>1, <2>3, <2>4, Zenon DEF Leq
<1>. QED
  BY <1>1, <1>2, Zenon

\* What insert removes around an uncovered position: on its right the range that
\* starts at the next entry, on its left the range that ends right before it.
Right(R, p) == {r \in R : r[1] = Succ(p)}
Left(R, p) == {r \in R : Succ(r[2]) = p}

\* A coalesced range and an uncovered position: one lies past the other.
LEMMA UncoveredApart ==
    ASSUME NEW R \in Ranges, Coalesced(R), NEW p \in Pos, ~Covered(R, p), NEW r \in R
    PROVE  Lt(p, r[1]) \/ Lt(r[2], p)
<1>1. r[1] \in Pos /\ r[2] \in Pos
  BY RangeEnds, Zenon
<1>2. ~(Leq(r[1], p) /\ Leq(p, r[2]))
  BY Zenon DEF Covered, Within
<1>. QED
  BY <1>1, <1>2, LtOrder, Zenon DEF Leq

\* The absorbing loop of insert_range takes the adjacent range and stops there.
LEMMA AbsorbedRight ==
    ASSUME NEW R \in Ranges, Coalesced(R), NEW p \in Pos, ~Covered(R, p)
    PROVE  Absorbed(R, p, p) = Right(R, p)
<1>0. p = <<p[1], p[2]>> /\ p[1] \in Nat /\ p[2] \in Nat
  BY DEF Pos
<1>1. ASSUME NEW r \in Absorbed(R, p, p) PROVE r \in Right(R, p)
  <2>1. /\ r \in R /\ RangeLeq(<<p, p>>, r) /\ r[1][1] = p[1]
        /\ \A x \in (p[2] + 1)..(r[1][2] - 1) : \E q \in R : Within(<<p[1], x>>, q)
    BY Zenon DEF Absorbed, From
  <2>2. r[1] \in Pos /\ r[2] \in Pos /\ Leq(r[1], r[2])
    BY <2>1, RangeEnds, Zenon
  <2>3. Leq(p, r[1])
    BY <2>1, Zenon DEF RangeLeq, Leq
  <2>4. Lt(p, r[1])
    BY <2>1, <2>2, <2>3, LtOrder, UncoveredApart DEF Leq
  <2>5. r[1][2] \in Nat /\ r[1] = <<p[1], r[1][2]>> /\ r[1][2] > p[2]
    BY <2>1, <2>2, <2>4, <1>0 DEF Pos, Lt
  <2>6. ASSUME r[1][2] # p[2] + 1 PROVE FALSE
    <3>. DEFINE x == r[1][2] - 1
    <3>. DEFINE y == <<p[1], x>>
    <3>1. x \in (p[2] + 1)..(r[1][2] - 1) /\ x \in Nat /\ r[1][2] = x + 1
      BY <2>5, <2>6, <1>0
    <3>2. y \in Pos /\ y[1] = p[1] /\ y[2] = x
      BY <3>1, <1>0, Zenon DEF Pos
    <3>3. Succ(y) = r[1]
      BY <3>1, <3>2, <2>5, Zenon DEF Succ
    <3>4. PICK q \in R : Leq(q[1], y) /\ Leq(y, q[2])
      BY <2>1, <3>1, Zenon DEF Within
    <3>5. q[1] \in Pos /\ q[2] \in Pos /\ Leq(q[1], q[2])
      BY RangeEnds, Zenon
    <3>6. Lt(y, r[1])
      BY <3>2, <3>3, SuccNext, Zenon
    <3>7. q # r
      BY <3>2, <3>4, <3>5, <3>6, <2>2, LtOrder, Zenon DEF Leq
    <3>8. Succ(r[2]) \in Pos /\ Succ(q[2]) \in Pos
      BY <2>2, <3>5, SuccNext, Zenon
    <3>9. Lt(y, Succ(r[2]))
      BY <2>2, <3>2, <3>6, <3>8, SuccNext, LtOrder DEF Leq
    <3>10. Lt(Succ(q[2]), r[1])
      BY <3>2, <3>4, <3>7, <3>9, <2>1, RangesApart, Zenon DEF Leq
    <3>11. Lt(q[2], r[1]) => Leq(q[2], y)
      BY <3>2, <3>3, <3>5, SuccNext
    <3>12. q[2] = y
      BY <3>2, <3>4, <3>5, <3>8, <3>10, <3>11, <2>2, SuccNext, LtOrder DEF Leq
    <3>. QED
      BY <3>3, <3>10, <3>12, <2>2, LtOrder, Zenon
  <2>. QED
    BY <2>1, <2>5, <2>6, Zenon DEF Right, Succ
<1>2. ASSUME NEW r \in Right(R, p) PROVE r \in Absorbed(R, p, p)
  <2>1. r \in R /\ r[1] = Succ(p) /\ r[1][1] = p[1] /\ r[1][2] = p[2] + 1
    BY DEF Right, Succ
  <2>2. RangeLeq(<<p, p>>, r)
    BY <2>1, SuccNext, Zenon DEF RangeLeq
  <2>3. (p[2] + 1)..(r[1][2] - 1) = {}
    BY <2>1, <1>0
  <2>. QED
    BY <2>1, <2>2, <2>3, Zenon DEF Absorbed, From
<1>. QED
  BY <1>1, <1>2, Zenon

\* The left probe of insert_range finds the range that ends right before p.
LEMMA LeftNeighbourLeft ==
    ASSUME NEW R \in Ranges, Coalesced(R), NEW p \in Pos, ~Covered(R, p)
    PROVE  LeftNeighbour(R \ Right(R, p), p) = Left(R, p)
<1>1. ASSUME NEW r \in Left(R, p) PROVE r \in LeftNeighbour(R \ Right(R, p), p)
  <2>1. r \in R /\ Succ(r[2]) = p
    BY Zenon DEF Left
  <2>2. r[1] \in Pos /\ r[2] \in Pos /\ Leq(r[1], r[2]) /\ Lt(r[2], p)
    BY <2>1, RangeEnds, SuccNext, Zenon
  <2>3. Lt(r[1], p) /\ Lt(p, Succ(p)) /\ Succ(p) \in Pos
    BY <2>2, LtOrder, SuccNext DEF Leq
  <2>4. r \in R \ Right(R, p) /\ RangeLeq(r, <<p, p>>)
    BY <2>1, <2>2, <2>3, LtOrder DEF Right, RangeLeq
  <2>5. ASSUME NEW s \in R, RangeLeq(s, <<p, p>>) PROVE RangeLeq(s, r)
    <3>1. Leq(s[1], p) /\ Leq(p, Succ(r[2]))
      BY <2>1, <2>5, Zenon DEF RangeLeq, Leq
    <3>. QED
      BY <3>1, <2>1, RangesApart, Zenon DEF RangeLeq, Leq
  <2>. QED
    BY <2>1, <2>4, <2>5, Zenon DEF LeftNeighbour, LastUpTo
<1>. QED
  BY <1>1, Zenon DEF LeftNeighbour, LastUpTo, Left

\* Both neighbours are unique.
LEMMA NeighboursUnique ==
    ASSUME NEW R \in Ranges, Coalesced(R), NEW p \in Pos
    PROVE  /\ \A r, s \in Left(R, p) : r = s
           /\ \A r, s \in Right(R, p) : r = s
<1>1. ASSUME NEW r \in Left(R, p), NEW s \in Left(R, p), r # s PROVE FALSE
  <2>1. /\ r \in R /\ s \in R /\ Succ(r[2]) = p /\ Succ(s[2]) = p
    BY Zenon DEF Left
  <2>2. /\ r[1] \in Pos /\ r[2] \in Pos /\ s[1] \in Pos /\ s[2] \in Pos
        /\ Leq(r[1], r[2]) /\ Leq(s[1], s[2])
    BY <2>1, RangeEnds, Zenon
  <2>3. Lt(p, s[1]) \/ Lt(p, r[1])
    BY <1>1, <2>1, Zenon DEF Coalesced
  <2>4. Lt(r[2], p) /\ Lt(s[2], p)
    BY <2>1, <2>2, SuccNext, Zenon
  <2>. QED
    BY <2>2, <2>3, <2>4, LtOrder, Zenon DEF Leq
<1>2. ASSUME NEW r \in Right(R, p), NEW s \in Right(R, p), r # s PROVE FALSE
  <2>1. r \in R /\ s \in R /\ r[1] = s[1]
    BY Zenon DEF Right
  <2>2. /\ r[1] \in Pos /\ r[2] \in Pos /\ s[2] \in Pos
        /\ Leq(r[1], r[2]) /\ Leq(s[1], s[2])
    BY <2>1, RangeEnds, Zenon
  <2>3. Lt(Succ(r[2]), r[1]) \/ Lt(Succ(s[2]), r[1])
    BY <1>2, <2>1, Zenon DEF Coalesced
  <2>4. /\ Lt(r[2], Succ(r[2])) /\ Lt(s[2], Succ(s[2]))
        /\ Succ(r[2]) \in Pos /\ Succ(s[2]) \in Pos
    BY <2>2, SuccNext, Zenon
  <2>. QED
    BY <2>1, <2>2, <2>3, <2>4, LtOrder DEF Leq
<1>. QED
  BY <1>1, <1>2, Zenon

\* The range insert puts in: from the start of the left neighbour, if any, to the
\* end of the right one.
Joined(R, p, a, b) ==
    /\ \/ Left(R, p) = {} /\ a = p
       \/ \E l \in Left(R, p) : a = l[1]
    /\ \/ Right(R, p) = {} /\ b = p
       \/ \E r \in Right(R, p) : b = r[2]

\* insert replaces the neighbours of an uncovered position by one joined range.
LEMMA InsertJoins ==
    ASSUME NEW R \in Ranges, Coalesced(R), NEW p \in Pos, ~Covered(R, p)
    PROVE  \E a, b : /\ Joined(R, p, a, b)
                     /\ Insert(R, p) = (R \ (Left(R, p) \cup Right(R, p))) \cup {<<a, b>>}
<1>. DEFINE starts == IF Left(R, p) = {} THEN {p} ELSE {r[1] : r \in Left(R, p)}
            ends == {p} \cup {r[2] : r \in Right(R, p)}
            lasts == {e \in ends : \A f \in ends : Leq(f, e)}
<1>1. ~contains(R, p) /\ ~Lt(p, p)
  BY ContainsCovered, LtOrder, Zenon
<1>2. Insert(R, p) = (R \ (Right(R, p) \cup Left(R, p))) \cup (starts \X lasts)
  BY <1>1, AbsorbedRight, LeftNeighbourLeft, Zenon DEF Insert, InsertRange
<1>3. PICK a : starts = {a} /\ ((Left(R, p) = {} /\ a = p) \/ \E l \in Left(R, p) : a = l[1])
  <2>1. CASE Left(R, p) = {}
    BY <2>1, Zenon
  <2>2. CASE Left(R, p) # {}
    <3>1. PICK l : l \in Left(R, p)
      BY <2>2, Zenon
    <3>2. Left(R, p) = {l}
      BY <3>1, NeighboursUnique
    <3>. QED
      BY <3>1, <3>2, Zenon
  <2>. QED
    BY <2>1, <2>2, Zenon
<1>4. PICK b : lasts = {b} /\ ((Right(R, p) = {} /\ b = p) \/ \E r \in Right(R, p) : b = r[2])
  <2>1. CASE Right(R, p) = {}
    <3>1. ends = {p}
      BY <2>1, Zenon
    <3>2. lasts = {p}
      BY <3>1, Zenon DEF Leq
    <3>. QED
      BY <2>1, <3>2, Zenon
  <2>2. CASE Right(R, p) # {}
    <3>1. PICK r : r \in Right(R, p)
      BY <2>2, Zenon
    <3>2. Right(R, p) = {r}
      BY <3>1, NeighboursUnique
    <3>3. r[1] = Succ(p) /\ r[1] \in Pos /\ r[2] \in Pos /\ Leq(r[1], r[2])
      BY <3>1, RangeEnds, Zenon DEF Right
    <3>4. Lt(p, r[2]) /\ ~Leq(r[2], p)
      BY <3>3, SuccNext, LtOrder DEF Leq
    <3>5. ends = {p, r[2]}
      BY <3>2, Zenon
    <3>6. lasts = {r[2]}
      BY <3>4, <3>5, Zenon DEF Leq
    <3>. QED
      BY <3>1, <3>6, Zenon
  <2>. QED
    BY <2>1, <2>2, Zenon
<1>5. starts \X lasts = {<<a, b>>}
  BY <1>3, <1>4
<1>6. Joined(R, p, a, b)
  BY <1>3, <1>4, Zenon DEF Joined
<1>7. Insert(R, p) = (R \ (Left(R, p) \cup Right(R, p))) \cup {<<a, b>>}
  BY <1>2, <1>5, Zenon
<1>. QED
  BY <1>6, <1>7, Zenon

\* The joined range covers its position, in that position's ledger, and touches
\* none of the ranges that stay.
LEMMA JoinedRange ==
    ASSUME NEW R \in Ranges, Coalesced(R), NEW p \in Pos, ~Covered(R, p),
           NEW a, NEW b, Joined(R, p, a, b)
    PROVE  /\ a \in Pos /\ b \in Pos /\ a[1] = p[1] /\ b[1] = p[1]
           /\ Leq(a, p) /\ Leq(p, b)
           /\ \A s \in R \ (Left(R, p) \cup Right(R, p)) :
                 Lt(Succ(b), s[1]) \/ Lt(Succ(s[2]), a)
<1>1. a \in Pos /\ a[1] = p[1] /\ Leq(a, p)
  <2>1. CASE a = p
    BY <2>1, Zenon DEF Leq, Pos
  <2>2. CASE \E l \in Left(R, p) : a = l[1]
    <3>1. PICK l \in R : Succ(l[2]) = p /\ a = l[1]
      BY <2>2, Zenon DEF Left
    <3>2. l[1] \in Pos /\ l[2] \in Pos /\ l[1][1] = l[2][1] /\ Leq(l[1], l[2])
      BY RangeEnds, Zenon
    <3>3. p[1] = l[2][1]
      BY <3>1, Zenon DEF Succ
    <3>4. Lt(l[2], p)
      BY <3>1, <3>2, SuccNext, Zenon
    <3>. QED
      BY <3>1, <3>2, <3>3, <3>4, LtOrder DEF Leq
  <2>. QED
    BY <2>1, <2>2, Zenon DEF Joined
<1>2. b \in Pos /\ b[1] = p[1] /\ Leq(p, b)
  <2>1. CASE b = p
    BY <2>1, Zenon DEF Leq, Pos
  <2>2. CASE \E r \in Right(R, p) : b = r[2]
    <3>1. PICK r \in R : r[1] = Succ(p) /\ b = r[2]
      BY <2>2, Zenon DEF Right
    <3>2. r[1] \in Pos /\ r[2] \in Pos /\ r[1][1] = r[2][1] /\ Leq(r[1], r[2])
      BY RangeEnds, Zenon
    <3>3. r[1][1] = p[1]
      BY <3>1 DEF Succ
    <3>4. Lt(p, r[1])
      BY <3>1, SuccNext, Zenon
    <3>. QED
      BY <3>1, <3>2, <3>3, <3>4, LtOrder, Zenon DEF Leq
  <2>. QED
    BY <2>1, <2>2, Zenon DEF Joined
<1>3. ASSUME NEW s \in R, s \notin Left(R, p), s \notin Right(R, p)
      PROVE  Lt(Succ(b), s[1]) \/ Lt(Succ(s[2]), a)
  <2>1. s[1] \in Pos /\ s[2] \in Pos /\ Leq(s[1], s[2]) /\ Succ(s[2]) \in Pos
    BY RangeEnds, SuccNext, Zenon
  <2>2. CASE Lt(p, s[1])
    <3>1. CASE b = p
      <4>1. Succ(p) \in Pos /\ (Lt(s[1], Succ(p)) => Leq(s[1], p))
        BY <2>1, SuccNext, Zenon
      <4>2. s[1] # Succ(p)
        BY <1>3, Zenon DEF Right
      <4>. QED
        BY <4>1, <4>2, <3>1, <2>1, <2>2, LtOrder, Zenon DEF Leq
    <3>2. CASE \E r \in Right(R, p) : b = r[2]
      <4>1. PICK r \in R : r[1] = Succ(p) /\ b = r[2] /\ r # s
        BY <3>2, <1>3, Zenon DEF Right
      <4>2. ASSUME Lt(Succ(s[2]), r[1]) PROVE FALSE
        <5>1. Lt(s[2], Succ(s[2])) /\ r[1] \in Pos
          BY <2>1, SuccNext, RangeEnds, Zenon
        <5>2. Lt(s[2], Succ(p))
          BY <4>1, <4>2, <5>1, <2>1, LtOrder
        <5>3. Leq(s[2], p)
          BY <5>2, <2>1, SuccNext, Zenon
        <5>. QED
          BY <5>3, <2>1, <2>2, LtOrder, Zenon DEF Leq
      <4>. QED
        BY <4>1, <4>2, Zenon DEF Coalesced
    <3>. QED
      BY <3>1, <3>2, Zenon DEF Joined
  <2>3. CASE Lt(s[2], p)
    <3>1. CASE a = p
      <4>1. CASE p[1] = s[2][1]
        <5>1. Leq(Succ(s[2]), p)
          BY <4>1, <2>1, <2>3, SuccNext, Zenon
        <5>2. Succ(s[2]) # p
          BY <1>3, Zenon DEF Left
        <5>. QED
          BY <5>1, <5>2, <3>1, Zenon DEF Leq
      <4>2. CASE p[1] # s[2][1]
        BY <4>2, <3>1, <2>1, <2>3, Zenon DEF Lt, Succ, Pos
      <4>. QED
        BY <4>1, <4>2, Zenon
    <3>2. CASE \E l \in Left(R, p) : a = l[1]
      <4>1. PICK l \in R : Succ(l[2]) = p /\ a = l[1] /\ l # s
        BY <3>2, <1>3, Zenon DEF Left
      <4>2. ~Lt(p, s[1])
        BY <2>1, <2>3, LtOrder, Zenon DEF Leq
      <4>. QED
        BY <4>1, <4>2, Zenon DEF Coalesced
    <3>. QED
      BY <3>1, <3>2, Zenon DEF Joined
  <2>. QED
    BY <2>2, <2>3, UncoveredApart, Zenon
<1>. QED
  BY <1>1, <1>2, <1>3, Zenon

\* insert keeps the ranges coalesced and makes them cover exactly one position
\* more; the ends of its ranges are old ends or the position.
THEOREM InsertAdds ==
    ASSUME NEW R \in Ranges, Coalesced(R), NEW p \in Pos
    PROVE  /\ Insert(R, p) \in Ranges
           /\ Coalesced(Insert(R, p))
           /\ \A q \in Pos : Covered(Insert(R, p), q) <=> Covered(R, q) \/ q = p
           /\ \A s \in Insert(R, p) :
                 /\ s[1] = p \/ \E r \in R : s[1] = r[1]
                 /\ s[2] = p \/ \E r \in R : s[2] = r[2]
<1>1. CASE Covered(R, p)
  <2>1. Insert(R, p) = R
    BY <1>1, ContainsCovered, Zenon DEF Insert
  <2>. QED
    BY <1>1, <2>1, Zenon
<1>2. CASE ~Covered(R, p)
  <2>. DEFINE stay == R \ (Left(R, p) \cup Right(R, p))
  <2>1. PICK a, b : Joined(R, p, a, b) /\ Insert(R, p) = stay \cup {<<a, b>>}
    BY <1>2, InsertJoins, Zenon
  <2>2. /\ a \in Pos /\ b \in Pos /\ a[1] = p[1] /\ b[1] = p[1]
        /\ Leq(a, p) /\ Leq(p, b) /\ Leq(a, b)
        /\ \A s \in stay : Lt(Succ(b), s[1]) \/ Lt(Succ(s[2]), a)
    BY <1>2, <2>1, JoinedRange, LtOrder DEF Leq
  <2>. DEFINE n == <<a, b>>
  <2>3. n[1] = a /\ n[2] = b /\ n \in Pos \X Pos
    BY <2>2, Zenon
  <2>4. Insert(R, p) \in Ranges
    BY <2>1, <2>3, Zenon DEF Ranges
  <2>5. Coalesced(Insert(R, p))
    <3>1. \A r \in Insert(R, p) : r[1][1] = r[2][1] /\ Leq(r[1], r[2])
      BY <2>1, <2>2, <2>3, RangeEnds, Zenon
    <3>2. ASSUME NEW r \in Insert(R, p), NEW s \in Insert(R, p), r # s
          PROVE  Lt(Succ(r[2]), s[1]) \/ Lt(Succ(s[2]), r[1])
      <4>. HIDE DEF n
      <4>1. CASE r \in stay /\ s \in stay
        BY <3>2, <4>1, Zenon DEF Coalesced
      <4>2. CASE r = n /\ s \in stay
        BY <2>2, <2>3, <4>2, Zenon
      <4>3. CASE r \in stay /\ s = n
        BY <2>2, <2>3, <4>3, Zenon
      <4>. QED
        BY <2>1, <3>2, <4>1, <4>2, <4>3, Zenon DEF n
    <3>. QED
      BY <3>1, <3>2, Zenon DEF Coalesced
  <2>6. ASSUME NEW q \in Pos, Covered(Insert(R, p), q) PROVE Covered(R, q) \/ q = p
    <3>1. CASE \E s \in stay : Within(q, s)
      BY <3>1, Zenon DEF Covered
    <3>2. CASE Leq(a, q) /\ Leq(q, b) /\ Lt(q, p)
      <4>1. PICK l \in R : Succ(l[2]) = p /\ a = l[1]
        BY <2>1, <2>2, <3>2, LtOrder, Zenon DEF Joined, Left, Leq
      <4>2. Leq(q, l[2])
        BY <3>2, <4>1, RangeEnds, SuccNext, Zenon
      <4>. QED
        BY <3>2, <4>1, <4>2, Zenon DEF Covered, Within
    <3>3. CASE Leq(a, q) /\ Leq(q, b) /\ Lt(p, q)
      <4>1. PICK r \in R : r[1] = Succ(p) /\ b = r[2]
        BY <2>1, <2>2, <3>3, LtOrder DEF Joined, Right, Leq
      <4>2. p[1] = q[1]
        BY <2>2, <3>3 DEF Lt, Leq, Pos
      <4>3. Leq(r[1], q)
        BY <3>3, <4>1, <4>2, SuccNext, Zenon
      <4>. QED
        BY <3>3, <4>1, <4>3, Zenon DEF Covered, Within
    <3>4. \/ \E s \in stay : Within(q, s)
          \/ Leq(a, q) /\ Leq(q, b)
      BY <2>1, <2>3, <2>6, Zenon DEF Covered, Within
    <3>. QED
      BY <3>1, <3>2, <3>3, <3>4, LtOrder, Zenon
  <2>7. Covered(Insert(R, p), p)
    BY <2>1, <2>2, <2>3, Zenon DEF Covered, Within
  <2>8. ASSUME NEW q \in Pos, NEW s \in R, Leq(s[1], q), Leq(q, s[2])
        PROVE  Covered(Insert(R, p), q)
    <3>0. s[1] \in Pos /\ s[2] \in Pos
      BY RangeEnds, Zenon
    <3>1. CASE s \in stay
      BY <2>1, <2>8, <3>1, Zenon DEF Covered, Within
    <3>2. CASE s \in Left(R, p)
      <4>1. a = s[1] /\ Lt(s[2], p)
        BY <2>1, <3>0, <3>2, NeighboursUnique, SuccNext DEF Joined, Left
      <4>2. Leq(a, q) /\ Leq(q, b)
        BY <2>2, <2>8, <3>0, <4>1, LtOrder DEF Leq
      <4>. QED
        BY <2>1, <2>3, <4>2, Zenon DEF Covered, Within
    <3>3. CASE s \in Right(R, p)
      <4>1. b = s[2] /\ Lt(p, s[1])
        BY <2>1, <3>3, NeighboursUnique, SuccNext DEF Joined, Right
      <4>2. Leq(a, q) /\ Leq(q, b)
        BY <2>2, <2>8, <3>0, <4>1, LtOrder DEF Leq
      <4>. QED
        BY <2>1, <2>3, <4>2, Zenon DEF Covered, Within
    <3>. QED
      BY <3>1, <3>2, <3>3, Zenon
  <2>9. \A q \in Pos : Covered(Insert(R, p), q) <=> Covered(R, q) \/ q = p
    BY <2>6, <2>7, <2>8, Zenon DEF Covered, Within
  <2>10. \A s \in Insert(R, p) : /\ s[1] = p \/ \E r \in R : s[1] = r[1]
                                 /\ s[2] = p \/ \E r \in R : s[2] = r[2]
    BY <2>1, <2>3, Zenon DEF Joined, Left, Right
  <2>. QED
    BY <2>4, <2>5, <2>9, <2>10, Zenon
<1>. QED
  BY <1>1, <1>2, Zenon


Sizes == 0..MaxEntriesPerLedger

\* What TypeOK needs besides itself to be inductive: there is a current ledger
\* and it is not full, the snapshot of an ack under way is a prefix of the log,
\* a cursor without a record is empty, and the holes are coalesced.
Shape ==
    /\ Len(ledgers) > 0 /\ ledgers[Len(ledgers)] < MaxEntriesPerLedger
    /\ holes \in Ranges
    /\ \A e \in Entries(ledgers) \ Entries(info), f \in Entries(info) : Lt(f, e)
    /\ ~stored => mark = NoMark /\ holes = {}
    /\ HolesCoalesced

CursorInv == TypeOK /\ Shape

----------------------------------------------------------------------------
(* Ledger lists. *)

\* The entries of a ledger list, position by position.
LEMMA EntriesIn ==
    ASSUME NEW ls \in Seq(Nat), NEW p
    PROVE  p \in Entries(ls) <=> p \in Pos /\ p[1] \in DOMAIN ls /\ p[2] < ls[p[1]]
<1>1. DOMAIN ls = 1..Len(ls) /\ \A l \in DOMAIN ls : ls[l] \in Nat
  OBVIOUS
<1>2. ASSUME p \in Entries(ls) PROVE p \in Pos /\ p[1] \in DOMAIN ls /\ p[2] < ls[p[1]]
  <2>1. PICK l \in DOMAIN ls : \E e \in 0..(ls[l] - 1) : p = <<l, e>>
    BY <1>2, Zenon DEF Entries
  <2>2. PICK e \in 0..(ls[l] - 1) : p = <<l, e>>
    BY <2>1, Zenon
  <2>. QED
    BY <1>1, <2>2 DEF Pos
<1>3. ASSUME p \in Pos, p[1] \in DOMAIN ls, p[2] < ls[p[1]] PROVE p \in Entries(ls)
  <2>1. p = <<p[1], p[2]>> /\ p[2] \in 0..(ls[p[1]] - 1)
    BY <1>1, <1>3 DEF Pos
  <2>. QED
    BY <2>1, <1>3 DEF Entries
<1>. QED
  BY <1>2, <1>3, Zenon

\* Entries are positions past NoMark.
LEMMA EntriesPos ==
    ASSUME NEW ls \in Seq(Sizes), NEW p \in Entries(ls)
    PROVE  p \in Pos /\ p[1] \in DOMAIN ls /\ p[1] > 0 /\ Lt(NoMark, p)
<1>1. ls \in Seq(Nat)
  BY LedgerSizeAssumption DEF Sizes
<1>2. p \in Pos /\ p[1] \in DOMAIN ls
  BY <1>1, EntriesIn, Zenon
<1>3. p[1] > 0
  BY <1>1, <1>2
<1>. QED
  BY <1>2, <1>3, Zenon DEF Lt, NoMark

\* NoMark is a pair of numbers as well.
LEMMA NoMarkPos == NoMark \in Pos
BY Zenon DEF NoMark, Pos

\* add_entries: the log grows by one position past all of its positions, and the
\* current ledger is again not full.
LEMMA AddEntryGrows ==
    ASSUME TypeOK, Shape, AddEntry
    PROVE  /\ ledgers' \in Seq(Sizes) /\ Len(ledgers') > 0
           /\ ledgers'[Len(ledgers')] < MaxEntriesPerLedger
           /\ \E p \in Pos : /\ Entries(ledgers') = Entries(ledgers) \cup {p}
                             /\ \A q \in Entries(ledgers) : Lt(q, p)
                             /\ Lt(NoMark, p)
                             /\ p \notin Entries(ledgers)
<1>. DEFINE n == Len(ledgers)
            old == ledgers[n]
            grown == [ledgers EXCEPT ![n] = @ + 1]
            p == <<n, old>>
<1>1. /\ ledgers \in Seq(Sizes) /\ n \in Nat /\ n > 0 /\ n \in DOMAIN ledgers
      /\ old \in Nat /\ old < MaxEntriesPerLedger /\ MaxEntriesPerLedger \in Nat \ {0}
  BY LedgerSizeAssumption DEF TypeOK, Shape, Sizes
<1>2. /\ grown \in Seq(Sizes) /\ Len(grown) = n /\ grown[n] = old + 1
      /\ \A l \in 1..n : l # n => grown[l] = ledgers[l]
  BY <1>1 DEF Sizes
<1>. HIDE DEF grown
<1>3. ledgers' = IF grown[n] >= MaxEntriesPerLedger THEN grown \o <<0>> ELSE grown
  BY Zenon DEF AddEntry, grown
<1>4. /\ ledgers' \in Seq(Sizes) /\ Len(ledgers') > 0
      /\ ledgers'[Len(ledgers')] < MaxEntriesPerLedger
  <2>1. CASE grown[n] >= MaxEntriesPerLedger
    <3>1. ledgers' = grown \o <<0>> /\ <<0>> \in Seq(Sizes)
      BY <1>1, <1>3, <2>1 DEF Sizes
    <3>. HIDE DEF n
    <3>2. ledgers' \in Seq(Sizes) /\ Len(ledgers') = n + 1 /\ ledgers'[n + 1] = 0
      BY <1>1, <1>2, <3>1
    <3>. QED
      BY <3>2, <1>1
  <2>2. CASE ~(grown[n] >= MaxEntriesPerLedger)
    BY <1>1, <1>2, <1>3, <2>2
  <2>. QED
    BY <2>1, <2>2, Zenon
<1>5. p \in Pos /\ p[1] = n /\ p[2] = old
  BY <1>1, Zenon DEF Pos
<1>6. ledgers \in Seq(Nat) /\ ledgers' \in Seq(Nat) /\ DOMAIN ledgers = 1..n
  BY <1>1, <1>4 DEF Sizes
<1>7. ASSUME NEW q \in Pos
      PROVE  (q[1] \in DOMAIN ledgers' /\ q[2] < ledgers'[q[1]])
                <=> (q[1] \in DOMAIN ledgers /\ q[2] < ledgers[q[1]]) \/ q = p
  <2>0. q = <<q[1], q[2]>> /\ q[1] \in Nat /\ q[2] \in Nat
    BY DEF Pos
  <2>1. q = p <=> q[1] = n /\ q[2] = old
    BY <2>0, <1>5, Zenon
  <2>2. /\ q[1] \in 1..n => q[1] \in DOMAIN ledgers' /\ ledgers'[q[1]] = grown[q[1]]
        /\ q[1] \in DOMAIN ledgers' /\ q[1] \notin 1..n => ledgers'[q[1]] = 0
    BY <1>1, <1>2, <1>3, <2>0
  <2>3. CASE q[1] \in 1..n
    BY <2>0, <2>1, <2>2, <2>3, <1>1, <1>2, <1>6
  <2>4. CASE q[1] \notin 1..n
    BY <2>0, <2>1, <2>2, <2>4, <1>1, <1>6
  <2>. QED
    BY <2>3, <2>4, Zenon
<1>8. Entries(ledgers') = Entries(ledgers) \cup {p}
  BY <1>5, <1>6, <1>7, EntriesIn, Zenon
<1>9. ASSUME NEW q \in Entries(ledgers) PROVE Lt(q, p) /\ q # p
  <2>1. q \in Pos /\ q[1] \in 1..n /\ q[2] < ledgers[q[1]]
    BY <1>6, EntriesIn, Zenon
  <2>. QED
    BY <2>1, <1>1, <1>5 DEF Lt, Pos
<1>10. Lt(NoMark, p)
  BY <1>1, <1>5, Zenon DEF Lt, NoMark
<1>. QED
  BY <1>4, <1>5, <1>8, <1>9, <1>10, Zenon

\* An Option of a position becomes its position or NoMark.
LEMMA AsMarkIn ==
    ASSUME NEW opt
    PROVE  AsMark(opt) \in opt \cup {NoMark}
<1>1. CASE opt = {}
  BY <1>1, Zenon DEF AsMark
<1>2. CASE opt # {}
  <2>1. \E p \in opt : TRUE
    BY <1>2, Zenon
  <2>2. (CHOOSE p \in opt : TRUE) \in opt
    BY <2>1, Zenon
  <2>. QED
    BY <1>2, <2>2, Zenon DEF AsMark
<1>. QED
  BY <1>1, <1>2, Zenon

\* The marks that open and seek set are entries or NoMark.
LEMMA MarksIn ==
    ASSUME TypeOK, NEW p \in Entries(ledgers)
    PROVE  /\ AsMark(last_position(ledgers)) \in Entries(ledgers) \cup {NoMark}
           /\ AsMark(previous_position(p, ledgers)) \in Entries(ledgers) \cup {NoMark}
<1>1. last_position(ledgers) \subseteq Entries(ledgers)
  BY Zenon DEF last_position, Greatest
<1>2. previous_position(p, ledgers) \subseteq Entries(ledgers)
  <2>1. CASE p[2] > 0
    <3>1. ledgers \in Seq(Nat)
      BY LedgerSizeAssumption DEF TypeOK
    <3>2. /\ p \in Pos /\ p[1] \in DOMAIN ledgers /\ p[2] < ledgers[p[1]]
          /\ p[1] \in Nat /\ p[2] \in Nat /\ ledgers[p[1]] \in Nat
      BY <3>1, EntriesIn DEF Pos
    <3>. DEFINE q == <<p[1], p[2] - 1>>
    <3>3. q \in Pos /\ q[1] = p[1] /\ q[2] = p[2] - 1
      BY <2>1, <3>2 DEF Pos
    <3>4. q \in Entries(ledgers)
      BY <3>1, <3>2, <3>3, EntriesIn
    <3>. QED
      BY <2>1, <3>4, Zenon DEF previous_position
  <2>2. CASE ~(p[2] > 0)
    BY <2>2, Zenon DEF previous_position, Greatest
  <2>. QED
    BY <2>1, <2>2, Zenon
<1>. QED
  BY <1>1, <1>2, AsMarkIn, Zenon

\* The shape and the type of the empty log.
LEMMA InitCursorInv == Init => CursorInv
<1>. SUFFICES ASSUME Init PROVE CursorInv
  BY Zenon
<1>1. ledgers \in Seq(Sizes) /\ Len(ledgers) = 1 /\ ledgers[1] = 0 /\ info \in Seq(Sizes)
  BY LedgerSizeAssumption DEF Init, Sizes
<1>2. Entries(info) = {}
  BY DEF Init, Entries
<1>3. /\ stored = FALSE /\ folding = FALSE /\ mark = NoMark /\ holes = {}
      /\ resets \in 0..MaxResets /\ interrupts \in 0..MaxInterrupts
  BY BoundAssumption DEF Init
<1>4. TypeOK
  BY <1>1, <1>2, <1>3, Zenon DEF TypeOK, Sizes
<1>5. Shape
  BY <1>1, <1>2, <1>3, LedgerSizeAssumption
     DEF Shape, Ranges, HolesCoalesced, Coalesced
<1>. QED
  BY <1>4, <1>5, Zenon DEF CursorInv

\* Any new record made of entries of an unchanged log keeps the invariant.
LEMMA RecordKeepsInv ==
    ASSUME CursorInv, UNCHANGED ledgers, folding' \in BOOLEAN, resets' \in 0..MaxResets,
           interrupts' \in 0..MaxInterrupts,
           stored' \in BOOLEAN, mark' \in Entries(ledgers) \cup {NoMark},
           info' \in {<<>>, info, ledgers},
           holes' \in Ranges, Coalesced(holes'),
           \A r \in holes' : {r[1], r[2]} \subseteq Entries(ledgers),
           ~stored' => mark' = NoMark /\ holes' = {}
    PROVE  CursorInv'
<1>1. Entries(<<>>) = {}
  BY DEF Entries
<1>2. Entries(ledgers') = Entries(ledgers)
  BY Zenon
<1>3. /\ info' \in Seq(Sizes) /\ Entries(info') \subseteq Entries(ledgers)
      /\ \A e \in Entries(ledgers) \ Entries(info'), f \in Entries(info') : Lt(f, e)
  <2>1. CASE info' = <<>>
    BY <1>1, <2>1
  <2>2. CASE info' = info
    BY <2>2, Zenon DEF CursorInv, TypeOK, Shape, Sizes
  <2>3. CASE info' = ledgers
    BY <2>3, Zenon DEF CursorInv, TypeOK, Sizes
  <2>. QED
    BY <2>1, <2>2, <2>3, Zenon
<1>4. TypeOK'
  BY <1>2, <1>3, Zenon DEF CursorInv, TypeOK, Sizes
<1>5. Shape'
  BY <1>2, <1>3, Zenon DEF CursorInv, Shape, HolesCoalesced
<1>. QED
  BY <1>4, <1>5, Zenon DEF CursorInv

\* Every step keeps the type and the coalesced ranges, in every mode.
LEMMA NextCursorInv ==
    ASSUME CursorInv, [Next]_vars
    PROVE  CursorInv'
<1>. USE DEF CursorInv
<1>0. /\ TypeOK /\ Shape /\ holes \in Ranges /\ Coalesced(holes)
      /\ mark \in Entries(ledgers) \cup {NoMark} /\ ledgers \in Seq(Sizes)
      /\ stored \in BOOLEAN /\ folding \in BOOLEAN /\ resets \in 0..MaxResets
      /\ interrupts \in 0..MaxInterrupts
      /\ \A r \in holes : {r[1], r[2]} \subseteq Entries(ledgers)
      /\ ~stored => mark = NoMark /\ holes = {}
      /\ {} \in Ranges /\ Coalesced({})
  BY Zenon DEF TypeOK, Shape, HolesCoalesced, Sizes, Ranges, Coalesced
<1>1. CASE AddEntry
  <2>1. PICK p \in Pos : /\ Entries(ledgers') = Entries(ledgers) \cup {p}
                         /\ \A q \in Entries(ledgers) : Lt(q, p)
    BY <1>0, <1>1, AddEntryGrows, Zenon
  <2>2. UNCHANGED <<stored, mark, holes, folding, info, resets, interrupts>>
    BY <1>1, Zenon DEF AddEntry, cursor
  <2>3. TypeOK'
    BY <1>0, <1>1, <2>1, <2>2, AddEntryGrows, Zenon DEF TypeOK, Sizes
  <2>4. \A e \in Entries(ledgers') \ Entries(info'), f \in Entries(info') : Lt(f, e)
    BY <2>1, <2>2, Zenon DEF TypeOK, Shape
  <2>5. Shape'
    BY <1>0, <1>1, <2>2, <2>4, AddEntryGrows, Zenon DEF Shape, HolesCoalesced
  <2>. QED
    BY <2>3, <2>5, Zenon
<1>2. CASE OpenEarliest \/ OpenLatest \/ \E p \in Entries(ledgers) : OpenAt(p)
  <2>1. PICK m \in Entries(ledgers) \cup {NoMark} : Created(m)
    <3>1. CASE OpenLatest
      <4>1. last_position(ledgers) \subseteq Entries(ledgers)
        BY Zenon DEF last_position, Greatest
      <4>. QED
        BY <3>1, <4>1, AsMarkIn, Zenon DEF OpenLatest
    <3>. QED
      BY <1>0, <1>2, <3>1, MarksIn, Zenon DEF OpenEarliest, OpenAt
  <2>2. /\ UNCHANGED <<ledgers, folding, info, interrupts>> /\ resets' \in 0..MaxResets
        /\ stored' = TRUE /\ mark' = m /\ holes' = holes
    BY <1>0, <2>1, BoundAssumption DEF Created, SetCursor
  <2>. QED
    BY <1>0, <2>2, RecordKeepsInv, Zenon
<1>3. CASE \E p \in Entries(ledgers) : seek_cursor(p)
  <2>1. /\ UNCHANGED <<ledgers, folding, info, interrupts>> /\ resets' \in 0..MaxResets
        /\ stored' = TRUE /\ mark' \in Entries(ledgers) \cup {NoMark} /\ holes' = {}
    BY <1>0, <1>3, MarksIn, BoundAssumption DEF seek_cursor, SetCursor
  <2>. QED
    BY <1>0, <2>1, RecordKeepsInv, Zenon
<1>4. CASE delete_cursor
  <2>1. /\ UNCHANGED <<ledgers, folding, info, interrupts>> /\ resets' \in 0..MaxResets
        /\ stored' = FALSE /\ mark' = NoMark /\ holes' = {}
    BY <1>0, <1>4, BoundAssumption DEF delete_cursor
  <2>. QED
    BY <1>0, <2>1, RecordKeepsInv, Zenon
<1>5. CASE \E p \in Entries(ledgers) : ack_message(p)
  <2>1. /\ UNCHANGED <<ledgers, folding, info, resets, interrupts>>
        /\ stored' = TRUE /\ mark' \in Entries(ledgers) /\ holes' = holes
    BY <1>5, Zenon DEF ack_message, SetCursor
  <2>. QED
    BY <1>0, <2>1, RecordKeepsInv, Zenon
<1>6. ASSUME NEW p \in Entries(ledgers), ack_message_shared(p) PROVE CursorInv'
  <2>1. /\ UNCHANGED <<ledgers, resets, interrupts>> /\ folding' = TRUE /\ info' = ledgers
        /\ stored' = TRUE
        /\ \/ mark' = p /\ holes' = holes
           \/ mark' = mark /\ holes' = Insert(holes, p)
    BY <1>6, Zenon DEF ack_message_shared, SetCursor
  <2>2. p \in Pos
    BY <1>0, EntriesPos, Zenon
  <2>3. /\ Insert(holes, p) \in Ranges /\ Coalesced(Insert(holes, p))
        /\ \A r \in Insert(holes, p) : {r[1], r[2]} \subseteq Entries(ledgers)
    BY <1>0, <2>2, InsertAdds
  <2>. QED
    BY <1>0, <2>1, <2>3, RecordKeepsInv, Zenon
<1>7. CASE Fold
  <2>1. PICK r \in Taken : SetCursor(r[2], holes \ {r})
    BY <1>7, Zenon DEF Fold
  <2>2. r \in holes
    BY <2>1, Zenon DEF Taken, TakeCovering, LastUpTo
  <2>3. /\ UNCHANGED <<ledgers, folding, info, resets, interrupts>>
        /\ stored' = TRUE /\ mark' = r[2] /\ holes' = holes \ {r}
    BY <1>7, <2>1, Zenon DEF Fold, SetCursor
  <2>4. holes' \in Ranges /\ Coalesced(holes')
    BY <1>0, <2>3, Zenon DEF Ranges, Coalesced
  <2>. QED
    BY <1>0, <2>2, <2>3, <2>4, RecordKeepsInv, Zenon
<1>8. CASE FoldDone \/ Interrupted
  <2>1. /\ UNCHANGED <<ledgers, stored, mark, holes, resets>>
        /\ folding' = FALSE /\ info' = <<>> /\ interrupts' \in 0..MaxInterrupts
    BY <1>0, <1>8, BoundAssumption DEF FoldDone, Interrupted, cursor
  <2>. QED
    BY <1>0, <2>1, RecordKeepsInv, Zenon
<1>9. CASE UNCHANGED vars
  BY <1>0, <1>9, RecordKeepsInv, Zenon DEF vars
<1>. QED
  BY <1>1, <1>2, <1>3, <1>4, <1>5, <1>6, <1>7, <1>8, <1>9 DEF Next

\* The record of a cursor is made of positions of the log, after every put, in
\* every mode and whatever fails.
THEOREM TypeCorrect == Spec => []TypeOK
<1>1. CursorInv => TypeOK
  BY Zenon DEF CursorInv
<1>. QED
  BY <1>1, InitCursorInv, NextCursorInv, PTL DEF Spec

\* The individually deleted entries are coalesced after every put, in every mode
\* and whatever fails.
THEOREM AlwaysCoalesced == Spec => []HolesCoalesced
<1>1. CursorInv => HolesCoalesced
  BY Zenon DEF CursorInv, Shape
<1>. QED
  BY <1>1, InitCursorInv, NextCursorInv, PTL DEF Spec

----------------------------------------------------------------------------
(* Acks that are not mixed. *)

IndividualInv == CursorInv /\ HolesPastMark

\* What the invariant says of the record, in terms of positions.
LEMMA RecordFacts ==
    ASSUME CursorInv
    PROVE  /\ ledgers \in Seq(Sizes) /\ info \in Seq(Sizes) /\ mark \in Pos
           /\ Entries(ledgers) \subseteq Pos /\ Entries(info) \subseteq Entries(ledgers)
           /\ holes \in Ranges /\ Coalesced(holes)
           /\ \A r \in holes : /\ r[1] \in Entries(ledgers) /\ r[2] \in Entries(ledgers)
                               /\ r[1] \in Pos /\ r[2] \in Pos /\ Leq(r[1], r[2])
           /\ mark # NoMark => mark \in Entries(ledgers) /\ mark[1] \in DOMAIN ledgers
           /\ \A p \in Pos : is_acknowledged(p) <=> Leq(p, mark) \/ Covered(holes, p)
<1>1. /\ ledgers \in Seq(Sizes) /\ info \in Seq(Sizes)
      /\ Entries(info) \subseteq Entries(ledgers)
      /\ holes \in Ranges /\ Coalesced(holes)
      /\ \A r \in holes : r[1] \in Entries(ledgers) /\ r[2] \in Entries(ledgers)
      /\ mark \in Entries(ledgers) \cup {NoMark}
  BY Zenon DEF CursorInv, TypeOK, Shape, HolesCoalesced, Sizes
<1>2. Entries(ledgers) \subseteq Pos
  BY <1>1, EntriesPos, Zenon
<1>3. mark \in Pos /\ (mark # NoMark => mark \in Entries(ledgers) /\ mark[1] \in DOMAIN ledgers)
  BY <1>1, <1>2, EntriesPos, NoMarkPos, Zenon
<1>4. \A r \in holes : r[1] \in Pos /\ r[2] \in Pos /\ Leq(r[1], r[2])
  BY <1>1, RangeEnds, Zenon
<1>5. \A p \in Pos : is_acknowledged(p) <=> Leq(p, mark) \/ Covered(holes, p)
  BY <1>1, ContainsCovered, Zenon DEF is_acknowledged
<1>. QED
  BY <1>1, <1>2, <1>3, <1>4, <1>5, Zenon

\* The range the frontier loop takes starts at the first entry past the mark, also
\* when the log has grown since the loop took its snapshot.
LEMMA TakenStartsNext ==
    ASSUME IndividualInv, NEW r \in Taken
    PROVE  /\ r \in holes /\ Lt(mark, r[1])
           /\ \A e \in Entries(ledgers) : Lt(mark, e) => Leq(r[1], e)
<1>0. CursorInv /\ \A s \in holes : Lt(mark, s[1])
  BY Zenon DEF IndividualInv, HolesPastMark
<1>1. PICK q \in next_position(mark, info) : r \in TakeCovering(holes, q)
  BY Zenon DEF Taken
<1>2. r \in holes
  BY <1>1, Zenon DEF TakeCovering, LastUpTo
<1>3. /\ q \in Entries(info) /\ Lt(mark, q)
      /\ \A e \in Entries(info) : Lt(mark, e) => Leq(q, e)
  BY <1>1, Zenon DEF next_position, Least
<1>4. \A e \in Entries(ledgers) : Lt(mark, e) => Leq(q, e)
  BY <1>0, <1>3, Zenon DEF CursorInv, Shape, Leq
<1>5. Leq(q, r[1])
  BY <1>0, <1>2, <1>4, RecordFacts, Zenon
<1>6. r[1] = q
  <2>1. CASE r[1] = q
    BY <2>1, Zenon
  <2>2. CASE RangeLeq(r, <<q, q>>)
    <3>1. Leq(r[1], q)
      BY <2>2, Zenon DEF RangeLeq, Leq
    <3>2. r[1] \in Pos /\ q \in Pos
      BY <1>0, <1>2, <1>3, RecordFacts, Zenon
    <3>. QED
      BY <3>1, <3>2, <1>5, LtOrder, Zenon DEF Leq
  <2>. QED
    BY <1>1, <2>1, <2>2, Zenon DEF TakeCovering, LastUpTo
<1>. QED
  BY <1>0, <1>2, <1>4, <1>6, Zenon

\* An entry that ack_message_shared puts at the frontier is the first past the mark.
LEMMA FrontierFirst ==
    ASSUME CursorInv, NEW p \in Entries(ledgers),
           p \in (IF mark = NoMark THEN first_position(ledgers)
                  ELSE next_position(mark, ledgers))
    PROVE  \A e \in Entries(ledgers) : Lt(mark, e) => Leq(p, e)
BY Zenon DEF first_position, next_position, Least

\* The holes stay past the mark in every step but a cumulative ack that finds some.
LEMMA UnmixedStep ==
    ASSUME IndividualInv, [Next]_vars, \A p \in Entries(ledgers) : ack_message(p) => holes = {}
    PROVE  IndividualInv'
<1>0. CursorInv /\ CursorInv' /\ \A r \in holes : Lt(mark, r[1])
  BY NextCursorInv, Zenon DEF IndividualInv, HolesPastMark
<1>. SUFFICES HolesPastMark'
  BY <1>0, Zenon DEF IndividualInv
<1>1. ASSUME UNCHANGED <<mark, holes>> PROVE HolesPastMark'
  BY <1>0, <1>1, Zenon DEF HolesPastMark
<1>2. ASSUME holes' = {} PROVE HolesPastMark'
  BY <1>2, Zenon DEF HolesPastMark
<1>3. CASE AddEntry
  BY <1>1, <1>3, Zenon DEF AddEntry, cursor
<1>4. ASSUME NEW m, Created(m) PROVE HolesPastMark'
  <2>1. holes = {} /\ holes' = holes
    BY <1>0, <1>4, Zenon DEF Created, SetCursor, CursorInv, Shape
  <2>. QED
    BY <1>2, <2>1, Zenon
<1>5. CASE delete_cursor \/ \E p \in Entries(ledgers) : seek_cursor(p)
  BY <1>2, <1>5, Zenon DEF delete_cursor, seek_cursor, SetCursor
<1>6. ASSUME NEW p \in Entries(ledgers), ack_message_shared(p) PROVE HolesPastMark'
  <2>1. p \in Pos /\ ~Leq(p, mark) /\ ~Covered(holes, p) /\ mark \in Pos
    BY <1>0, <1>6, RecordFacts, Zenon DEF ack_message_shared
  <2>2. Lt(mark, p)
    BY <2>1, LtOrder, Zenon DEF Leq
  <2>. DEFINE frontier == IF mark = NoMark THEN first_position(ledgers)
                          ELSE next_position(mark, ledgers)
  <2>3. CASE p \in frontier
    <3>1. mark' = p /\ holes' = holes
      BY <1>6, <2>3, Zenon DEF ack_message_shared, SetCursor
    <3>2. ASSUME NEW r \in holes PROVE Lt(p, r[1])
      <4>1. Leq(p, r[1])
        BY <1>0, <2>3, FrontierFirst, RecordFacts, Zenon
      <4>2. p # r[1]
        BY <1>0, <2>1, RecordFacts, Zenon DEF Covered, Within, Leq
      <4>. QED
        BY <4>1, <4>2, Zenon DEF Leq
    <3>. QED
      BY <3>1, <3>2, Zenon DEF HolesPastMark
  <2>4. CASE p \notin frontier
    <3>1. mark' = mark /\ holes' = Insert(holes, p)
      BY <1>6, <2>4, Zenon DEF ack_message_shared, SetCursor
    <3>2. \A s \in Insert(holes, p) : s[1] = p \/ \E r \in holes : s[1] = r[1]
      BY <1>0, <2>1, InsertAdds, RecordFacts, Zenon
    <3>. QED
      BY <1>0, <2>2, <3>1, <3>2, Zenon DEF HolesPastMark
  <2>. QED
    BY <2>3, <2>4, Zenon
<1>7. CASE Fold
  <2>1. PICK r \in Taken : mark' = r[2] /\ holes' = holes \ {r}
    BY <1>7, Zenon DEF Fold, SetCursor
  <2>2. ASSUME NEW s \in holes, s # r PROVE Lt(r[2], s[1])
    <3>1. r \in holes /\ Leq(r[1], s[1])
      BY <1>0, TakenStartsNext, RecordFacts, Zenon
    <3>2. /\ r[1] \in Pos /\ r[2] \in Pos /\ s[1] \in Pos /\ s[2] \in Pos
          /\ Leq(s[1], s[2]) /\ Coalesced(holes)
      BY <1>0, <3>1, RecordFacts, Zenon
    <3>3. /\ Succ(r[2]) \in Pos /\ Succ(s[2]) \in Pos
          /\ Lt(r[2], Succ(r[2])) /\ Lt(s[2], Succ(s[2]))
      BY <3>2, SuccNext, Zenon
    <3>4. ~Lt(Succ(s[2]), r[1])
      BY <3>1, <3>2, <3>3, LtOrder DEF Leq
    <3>5. Lt(Succ(r[2]), s[1])
      BY <2>2, <3>1, <3>2, <3>4 DEF Coalesced
    <3>. QED
      BY <3>2, <3>3, <3>5, LtOrder, Zenon
  <2>. QED
    BY <2>1, <2>2, Zenon DEF HolesPastMark
<1>8. CASE FoldDone \/ Interrupted \/ UNCHANGED vars
  BY <1>1, <1>8, Zenon DEF FoldDone, Interrupted, cursor, vars
<1>9. CASE \E p \in Entries(ledgers) : ack_message(p)
  BY <1>2, <1>9, Zenon DEF ack_message, SetCursor
<1>. QED
  BY <1>3, <1>4, <1>5, <1>6, <1>7, <1>8, <1>9
     DEF Next, OpenEarliest, OpenLatest, OpenAt

\* The holes stay past the mark in every step when acks are not mixed.
LEMMA NextIndividualInv ==
    ASSUME IndividualInv, MixedAcks = FALSE, [Next]_vars
    PROVE  IndividualInv'
BY UnmixedStep, Zenon DEF ack_message

\* At first there are no holes.
LEMMA InitIndividualInv == Init => IndividualInv
BY InitCursorInv, Zenon DEF IndividualInv, HolesPastMark, Init

\* Unless acks are mixed, out-of-order acknowledgements lie past the
\* mark-delete frontier after every put, whatever fails in between.
THEOREM AlwaysPastMark == (MixedAcks = FALSE) /\ Spec => []HolesPastMark
<1>1. IndividualInv => HolesPastMark
  BY Zenon DEF IndividualInv
<1>2. ASSUME MixedAcks = FALSE PROVE Spec => []HolesPastMark
  BY <1>1, <1>2, InitIndividualInv, NextIndividualInv, PTL DEF Spec
<1>. QED
  BY <1>2, Zenon

\* Unless acks are mixed, the frontier loop never moves the mark back.
THEOREM FrontierNeverBack == (MixedAcks = FALSE) /\ Spec => FrontierAdvances
<1>1. ASSUME IndividualInv, [Next]_vars
      PROVE  [folding /\ folding' => Leq(mark, mark')]_vars
  <2>0. CursorInv
    BY <1>1, Zenon DEF IndividualInv
  <2>1. CASE Fold
    <3>1. PICK r \in Taken : mark' = r[2]
      BY <2>1, Zenon DEF Fold, SetCursor
    <3>2. r \in holes /\ Lt(mark, r[1])
      BY <1>1, TakenStartsNext, Zenon
    <3>3. mark \in Pos /\ r[1] \in Pos /\ r[2] \in Pos /\ Leq(r[1], r[2])
      BY <2>0, <3>2, RecordFacts, Zenon
    <3>. QED
      BY <3>1, <3>2, <3>3, LtOrder, Zenon DEF Leq
  <2>2. CASE AddEntry
    BY <2>2, Zenon DEF AddEntry, cursor, Leq
  <2>3. CASE FoldDone \/ Interrupted
    BY <2>3, Zenon DEF FoldDone, Interrupted
  <2>4. ASSUME Idle PROVE ~folding
    BY <2>4, Zenon DEF Idle
  <2>5. CASE \/ OpenEarliest \/ OpenLatest \/ delete_cursor
             \/ \E p \in Entries(ledgers) : OpenAt(p) \/ seek_cursor(p)
                                            \/ ack_message(p) \/ ack_message_shared(p)
    BY <2>4, <2>5, Zenon DEF OpenEarliest, OpenLatest, OpenAt, Created, delete_cursor,
                      seek_cursor, ack_message, ack_message_shared, Acking
  <2>6. CASE UNCHANGED vars
    BY <2>6, Zenon
  <2>. QED
    BY <1>1, <2>1, <2>2, <2>3, <2>5, <2>6, Zenon DEF Next
<1>2. ASSUME MixedAcks = FALSE PROVE Spec => FrontierAdvances
  BY <1>1, <1>2, InitIndividualInv, NextIndividualInv, PTL DEF Spec, FrontierAdvances
<1>. QED
  BY <1>2, Zenon

----------------------------------------------------------------------------
(* Implementing AckLog. *)

\* Appending changes nothing that is acknowledged, in every mode.
LEMMA AddEntryAcked ==
    ASSUME CursorInv, AddEntry
    PROVE  Acked' = Acked
<1>0. CursorInv'
  BY NextCursorInv, Zenon DEF Next
<1>1. PICK p \in Pos : /\ Entries(ledgers') = Entries(ledgers) \cup {p}
                       /\ \A q \in Entries(ledgers) : Lt(q, p)
                       /\ Lt(NoMark, p)
  BY AddEntryGrows, Zenon DEF CursorInv
<1>2. mark' = mark /\ holes' = holes
  BY Zenon DEF AddEntry, cursor
<1>3. ~Leq(p, mark)
  <2>1. mark \in Pos /\ Lt(mark, p)
    BY <1>1, RecordFacts, Zenon
  <2>. QED
    BY <2>1, LtOrder, Zenon DEF Leq
<1>4. ~Covered(holes, p)
  <2>1. ASSUME NEW r \in holes PROVE ~Leq(p, r[2])
    <3>1. r[2] \in Pos /\ Lt(r[2], p)
      BY <1>1, RecordFacts, Zenon
    <3>. QED
      BY <3>1, LtOrder, Zenon DEF Leq
  <2>. QED
    BY <2>1, Zenon DEF Covered, Within
<1>5. ~is_acknowledged(p)
  BY <1>3, <1>4, RecordFacts, Zenon
<1>6. \A q : is_acknowledged(q)' <=> is_acknowledged(q)
  BY <1>2, Zenon DEF is_acknowledged
<1>. QED
  BY <1>1, <1>5, <1>6, Zenon DEF Acked

\* No entry is born acknowledged, in every mode and whatever the cursor went through.
THEOREM NeverBornAcked == Spec => BornUnacked
<1>1. ASSUME CursorInv, [Next]_vars
      PROVE  [ledgers' # ledgers => Acked' = Acked]_vars
  <2>1. CASE AddEntry
    BY <1>1, <2>1, AddEntryAcked, Zenon
  <2>2. CASE Next /\ ~AddEntry
    BY <2>2, Zenon DEF Next, OpenEarliest, OpenLatest, OpenAt, Created, delete_cursor,
                seek_cursor, ack_message, ack_message_shared, Fold, FoldDone, Interrupted
  <2>3. CASE UNCHANGED vars
    BY <2>3, Zenon
  <2>. QED
    BY <1>1, <2>1, <2>2, <2>3, Zenon
<1>. QED
  BY <1>1, InitCursorInv, NextCursorInv, PTL DEF Spec, BornUnacked

\* What is acknowledged, in terms of the mark and the covered positions.
AckedView ==
    /\ Acked = {e \in Entries(ledgers) : Leq(e, mark) \/ Covered(holes, e)}
    /\ mark \in Pos /\ Entries(ledgers) \subseteq Pos

\* The view holds of every record the invariant allows.
LEMMA AckedIs == CursorInv => AckedView
BY RecordFacts, Zenon DEF Acked, AckedView

\* The same of the record after a step.
LEMMA AckedIsNext == CursorInv' => AckedView'
BY AckedIs, PTL

\* AckLog orders positions as the cursor does.
LEMMA SameOrder == \A p, q : (AL!Lt(p, q) <=> Lt(p, q)) /\ (AL!Leq(p, q) <=> Leq(p, q))
BY Zenon DEF AL!Lt, Lt, AL!Leq, Leq

\* A record without holes acknowledges a prefix of the log.
LEMMA ResetIsPrefix ==
    ASSUME CursorInv, CursorInv', UNCHANGED ledgers, holes' = {}, resets' = resets + 1
    PROVE  AL!Reset
<1>1. /\ Acked' = {e \in Entries(ledgers) : Leq(e, mark')}
      /\ mark' \in Pos /\ Entries(ledgers) \subseteq Pos
  BY AckedIsNext, Zenon DEF AckedView, Covered
<1>2. \A p \in Acked', q \in Entries(ledgers) \ Acked' : AL!Lt(p, q)
  BY <1>1, LtOrder, SameOrder DEF Leq
<1>3. Acked' \in SUBSET Entries(ledgers) /\ Entries(ledgers)' = Entries(ledgers)
  BY <1>1, Zenon
<1>. QED
  BY <1>2, <1>3, Zenon DEF AL!Reset, AL!Prefix

\* The first put of an individual ack adds exactly its position.
LEMMA AckAddsOne ==
    ASSUME IndividualInv, CursorInv', NEW p \in Entries(ledgers), ack_message_shared(p)
    PROVE  Acked' = Acked \cup {p}
<1>0. CursorInv /\ AckedView /\ AckedView' /\ ledgers' = ledgers
  BY AckedIs, AckedIsNext, Zenon DEF IndividualInv, ack_message_shared
<1>1. p \in Pos /\ mark \in Pos /\ ~Leq(p, mark) /\ holes \in Ranges /\ Coalesced(holes)
  BY <1>0, RecordFacts, Zenon DEF ack_message_shared
<1>. DEFINE frontier == IF mark = NoMark THEN first_position(ledgers)
                        ELSE next_position(mark, ledgers)
<1>2. CASE p \in frontier
  <2>1. mark' = p /\ holes' = holes
    BY <1>2, Zenon DEF ack_message_shared, SetCursor
  <2>2. ASSUME NEW e \in Entries(ledgers) PROVE Leq(e, p) <=> Leq(e, mark) \/ e = p
    <3>1. e \in Pos /\ (Lt(mark, e) => Leq(p, e))
      BY <1>0, <1>2, FrontierFirst, Zenon DEF AckedView
    <3>2. Lt(mark, p)
      BY <1>1, LtOrder, Zenon DEF Leq
    <3>. QED
      BY <1>1, <3>1, <3>2, LtOrder, Zenon DEF Leq
  <2>. QED
    BY <1>0, <2>1, <2>2, Zenon DEF AckedView
<1>3. CASE p \notin frontier
  <2>1. mark' = mark /\ holes' = Insert(holes, p)
    BY <1>3, Zenon DEF ack_message_shared, SetCursor
  <2>2. \A q \in Pos : Covered(Insert(holes, p), q) <=> Covered(holes, q) \/ q = p
    BY <1>1, InsertAdds, Zenon
  <2>. QED
    BY <1>0, <2>1, <2>2, Zenon DEF AckedView
<1>. QED
  BY <1>2, <1>3, Zenon

\* A cumulative ack that finds no holes and does not go back adds the positions up
\* to its own.
LEMMA AckAddsThrough ==
    ASSUME CursorInv, CursorInv', MixedAcks = FALSE, NEW p \in Entries(ledgers), ack_message(p)
    PROVE  /\ Acked' = Acked \cup {q \in Entries(ledgers) : Leq(q, p)}
           /\ AL!Prefix(Acked)
<1>0. AckedView /\ AckedView'
  BY AckedIs, AckedIsNext, Zenon
<1>1. /\ ledgers' = ledgers /\ mark' = p /\ holes = {} /\ holes' = {}
      /\ Leq(mark, p)
  BY Zenon DEF ack_message, SetCursor
<1>2. ASSUME NEW e \in Entries(ledgers), Leq(e, mark) PROVE Leq(e, p)
  BY <1>0, <1>1, <1>2, LtOrder, Zenon DEF AckedView, Leq
<1>3. Acked' = Acked \cup {q \in Entries(ledgers) : Leq(q, p)}
  BY <1>0, <1>1, <1>2, Zenon DEF AckedView, Covered
<1>4. AL!Prefix(Acked)
  BY <1>0, <1>1, LtOrder, SameOrder DEF AckedView, Covered, AL!Prefix, Leq
<1>. QED
  BY <1>3, <1>4, Zenon

\* A round of the frontier loop acknowledges nothing and forgets nothing.
LEMMA FoldKeepsAcked ==
    ASSUME IndividualInv, CursorInv', Fold
    PROVE  Acked' = Acked
<1>0. CursorInv /\ AckedView /\ AckedView' /\ ledgers' = ledgers
  BY AckedIs, AckedIsNext, Zenon DEF IndividualInv, Fold
<1>1. PICK r \in Taken : mark' = r[2] /\ holes' = holes \ {r}
  BY Zenon DEF Fold, SetCursor
<1>2. /\ r \in holes /\ Lt(mark, r[1])
      /\ \A e \in Entries(ledgers) : Lt(mark, e) => Leq(r[1], e)
  BY TakenStartsNext, Zenon
<1>3. mark \in Pos /\ r[1] \in Pos /\ r[2] \in Pos /\ Leq(r[1], r[2])
  BY <1>0, <1>2, RecordFacts, Zenon
<1>4. ASSUME NEW e \in Entries(ledgers)
      PROVE  Leq(e, r[2]) \/ Covered(holes \ {r}, e) <=> Leq(e, mark) \/ Covered(holes, e)
  <2>0. e \in Pos
    BY <1>0, Zenon DEF AckedView
  <2>1. ASSUME Leq(e, r[2]) PROVE Leq(e, mark) \/ Covered(holes, e)
    <3>1. Leq(e, mark) \/ Leq(r[1], e)
      BY <1>2, <1>3, <2>0, LtOrder, Zenon DEF Leq
    <3>. QED
      BY <1>2, <2>1, <3>1, Zenon DEF Covered, Within
  <2>2. ASSUME Leq(e, mark) PROVE Leq(e, r[2])
    BY <1>2, <1>3, <2>0, <2>2, LtOrder DEF Leq
  <2>3. Covered(holes, e) => Leq(e, r[2]) \/ Covered(holes \ {r}, e)
    BY Zenon DEF Covered, Within
  <2>4. Covered(holes \ {r}, e) => Covered(holes, e)
    BY Zenon DEF Covered
  <2>. QED
    BY <2>1, <2>2, <2>3, <2>4, Zenon
<1>. QED
  BY <1>0, <1>1, <1>4, Zenon DEF AckedView

\* Every step of a cursor whose acks are not mixed is a step of AckLog or leaves
\* log, acknowledged positions and resets as they are.
LEMMA NextRefines ==
    ASSUME IndividualInv, MixedAcks = FALSE, [Next]_vars
    PROVE  [AL!Next]_(AL!vars)
<1>0. CursorInv /\ CursorInv'
  BY NextCursorInv, Zenon DEF IndividualInv
<1>1. CASE AddEntry
  <2>1. PICK p \in Pos : /\ Entries(ledgers') = Entries(ledgers) \cup {p}
                         /\ \A q \in Entries(ledgers) : Lt(q, p)
                         /\ p \notin Entries(ledgers)
    BY <1>0, <1>1, AddEntryGrows, Zenon DEF CursorInv
  <2>2. Acked' = Acked /\ resets' = resets
    BY <1>0, <1>1, AddEntryAcked, Zenon DEF AddEntry
  <2>3. AL!Append
    BY <2>1, <2>2, SameOrder, Zenon DEF AL!Append
  <2>. QED
    BY <2>3, Zenon DEF AL!Next
<1>2. ASSUME NEW m, Created(m) PROVE AL!Reset
  BY <1>0, <1>2, ResetIsPrefix, Zenon DEF Created, SetCursor, CursorInv, Shape
<1>3. ASSUME delete_cursor \/ \E p \in Entries(ledgers) : seek_cursor(p) PROVE AL!Reset
  BY <1>0, <1>3, ResetIsPrefix, Zenon DEF delete_cursor, seek_cursor, SetCursor
<1>4. ASSUME NEW p \in Entries(ledgers), ack_message_shared(p) PROVE AL!Ack
  <2>1. Acked' = Acked \cup {p}
    BY <1>0, <1>4, AckAddsOne, Zenon
  <2>2. Entries(ledgers)' = Entries(ledgers) /\ resets' = resets
    BY <1>4, Zenon DEF ack_message_shared
  <2>. QED
    BY <2>1, <2>2, Zenon DEF AL!Ack
<1>5. CASE Fold
  BY <1>0, <1>5, FoldKeepsAcked, Zenon DEF Fold, AL!vars
<1>6. CASE FoldDone \/ Interrupted \/ UNCHANGED vars
  <2>1. UNCHANGED <<ledgers, mark, holes, resets>>
    BY <1>6, Zenon DEF FoldDone, Interrupted, cursor, vars
  <2>. QED
    BY <2>1, Zenon DEF AL!vars, Acked, is_acknowledged
<1>7. ASSUME NEW p \in Entries(ledgers), ack_message(p) PROVE AL!AckThrough
  <2>1. Acked' = Acked \cup {q \in Entries(ledgers) : Leq(q, p)} /\ AL!Prefix(Acked)
    BY <1>0, <1>7, AckAddsThrough, Zenon
  <2>2. {q \in Entries(ledgers) : Leq(q, p)} = {q \in Entries(ledgers) : AL!Leq(q, p)}
    BY SameOrder, Zenon
  <2>3. Entries(ledgers)' = Entries(ledgers) /\ resets' = resets
    BY <1>7, Zenon DEF ack_message
  <2>. QED
    BY <2>1, <2>2, <2>3, Zenon DEF AL!AckThrough
<1>. QED
  BY <1>1, <1>2, <1>3, <1>4, <1>5, <1>6, <1>7, Zenon
     DEF Next, AL!Next, OpenEarliest, OpenLatest, OpenAt

\* The empty cursor of an empty log is AckLog's initial state.
LEMMA InitRefines == Init => AL!Init
<1>. SUFFICES ASSUME Init PROVE AL!Init
  BY Zenon
<1>1. Entries(ledgers) = {}
  BY DEF Init, Entries
<1>. QED
  BY <1>1, Zenon DEF Init, AL!Init, Acked

\* Unless acks are mixed, the cursor implements a set of acknowledged
\* positions, for every ledger size, whatever interleaves and whatever fails.
THEOREM ImplementsAckLog == (MixedAcks = FALSE) /\ Spec => AckLogSpec
<1>1. ASSUME MixedAcks = FALSE PROVE Spec => AL!Spec
  BY <1>1, InitIndividualInv, NextIndividualInv, InitRefines, NextRefines, PTL
     DEF Spec, AL!Spec
<1>. QED
  BY <1>1, Zenon DEF AckLogSpec

----------------------------------------------------------------------------
(* The mark is the end of the acknowledged prefix. *)

\* An ack in its frontier loop has seen every entry of the record.
SnapshotHasRecord ==
    folding => /\ mark \in Entries(info) \cup {NoMark}
               /\ \A r \in holes : r[1] \in Entries(info) /\ r[2] \in Entries(info)

NoHoles == holes = {}

FrontierInv == IndividualInv /\ SnapshotHasRecord /\ MarkIsFrontier

\* The entry after a position.
LEMMA NextIs ==
    ASSUME NEW p, NEW ls, NEW q \in next_position(p, ls)
    PROVE  q \in Entries(ls) /\ Lt(p, q) /\ \A e \in Entries(ls) : Lt(p, e) => Leq(q, e)
BY Zenon DEF next_position, Least

\* A record without holes.
LEMMA ClearWithoutHoles == CursorInv /\ NoHoles => MarkIsFrontier
<1>. SUFFICES ASSUME CursorInv, NoHoles, NEW q \in next_position(mark, ledgers),
                      is_acknowledged(q)
               PROVE  FALSE
  BY Zenon DEF MarkIsFrontier
<1>1. q \in Entries(ledgers) /\ Lt(mark, q)
  BY NextIs, Zenon
<1>2. q \in Pos /\ mark \in Pos /\ Leq(q, mark)
  BY <1>1, RecordFacts, Zenon DEF NoHoles, Covered
<1>. QED
  BY <1>1, <1>2, LtOrder, Zenon DEF Leq

\* The same of the record after a step.
LEMMA ClearWithoutHolesNext == CursorInv' /\ NoHoles' => MarkIsFrontier'
BY ClearWithoutHoles, PTL

\* An append does not put an acknowledged entry after the mark: the entry after the mark is
\* the same as before, or the new one, and that is past every range.
LEMMA AppendKeepsClear ==
    ASSUME FrontierInv, CursorInv', AddEntry
    PROVE  MarkIsFrontier'
<1>1. PICK p \in Pos : /\ Entries(ledgers') = Entries(ledgers) \cup {p}
                       /\ \A q \in Entries(ledgers) : Lt(q, p)
                       /\ p \notin Entries(ledgers)
  BY AddEntryGrows, Zenon DEF FrontierInv, IndividualInv, CursorInv
<1>2. UNCHANGED <<mark, holes, folding, interrupts>>
  BY Zenon DEF AddEntry, cursor
<1>3. Acked' = Acked
  BY AddEntryAcked, Zenon DEF FrontierInv, IndividualInv
<1>4. CursorInv
  BY Zenon DEF FrontierInv, IndividualInv
<1>5. SUFFICES ASSUME Idle, interrupts = 0, mark # NoMark,
                      NEW q \in next_position(mark, ledgers'), q \in Acked'
               PROVE  FALSE
  <2>1. \A q \in next_position(mark, ledgers') : is_acknowledged(q)' => q \in Acked'
    BY NextIs, Zenon DEF Acked
  <2>. QED
    BY <1>2, <2>1, Zenon DEF MarkIsFrontier, Idle
<1>6. q \in Entries(ledgers) /\ is_acknowledged(q)
  BY <1>3, <1>5, Zenon DEF Acked
<1>7. Lt(mark, q) /\ \A e \in Entries(ledgers) : Lt(mark, e) => Leq(q, e)
  BY <1>1, <1>5, NextIs, Zenon
<1>8. mark[1] \in DOMAIN ledgers
  BY <1>4, <1>5, RecordFacts, Zenon
<1>9. q \in next_position(mark, ledgers)
  BY <1>6, <1>7, <1>8, Zenon DEF next_position, Least
<1>. QED
  BY <1>5, <1>6, <1>9, Zenon DEF FrontierInv, MarkIsFrontier

\* The loop is over: no range starts after the mark in the snapshot, and what was
\* appended since is past every range.
LEMMA LoopLeavesClear ==
    ASSUME FrontierInv, FoldDone
    PROVE  MarkIsFrontier'
<1>1. /\ folding /\ Taken = {} /\ UNCHANGED <<ledgers, mark, holes, interrupts>> /\ CursorInv
  BY Zenon DEF FoldDone, cursor, FrontierInv, IndividualInv
<1>2. SUFFICES ASSUME mark # NoMark, NEW q \in next_position(mark, ledgers), is_acknowledged(q)
               PROVE  FALSE
  BY <1>1, Zenon DEF MarkIsFrontier, is_acknowledged
<1>3. q \in Entries(ledgers) /\ Lt(mark, q) /\ \A e \in Entries(ledgers) : Lt(mark, e) => Leq(q, e)
  BY <1>2, NextIs, Zenon
<1>4. /\ mark \in Entries(info) /\ q \in Pos /\ mark \in Pos
      /\ info \in Seq(Sizes) /\ Entries(info) \subseteq Entries(ledgers)
      /\ \A r \in holes : r[1] \in Entries(info) /\ r[2] \in Entries(info) /\ r[2] \in Pos
  BY <1>1, <1>2, <1>3, RecordFacts, Zenon DEF FrontierInv, SnapshotHasRecord
<1>5. ~Leq(q, mark)
  BY <1>3, <1>4, LtOrder, Zenon DEF Leq
<1>6. contains(holes, q)
  BY <1>2, <1>5, Zenon DEF is_acknowledged
<1>7. CASE q \in Entries(info)
  <2>1. mark[1] \in DOMAIN info
    BY <1>4, EntriesPos, Zenon
  <2>2. q \in next_position(mark, info)
    BY <1>3, <1>4, <1>7, <2>1, Zenon DEF next_position, Least
  <2>3. TakeCovering(holes, q) = {}
    BY <1>1, <1>2, <2>2, Zenon DEF Taken
  <2>4. LastUpTo(holes, q) = {} /\ \A r \in holes : r[1] # q
    BY <2>3, Zenon DEF TakeCovering
  <2>. QED
    BY <1>6, <2>4, Zenon DEF contains, From
<1>8. CASE q \notin Entries(info)
  <2>1. \A f \in Entries(info) : Lt(f, q)
    BY <1>1, <1>3, <1>8, Zenon DEF CursorInv, Shape
  <2>2. PICK r \in holes : Leq(q, r[2]) \/ r[1] = q
    BY <1>6, Zenon DEF contains, LastUpTo, From, Within
  <2>3. Lt(r[2], q) /\ r[1] # q
    BY <1>4, <1>8, <2>1, <2>2, Zenon
  <2>. QED
    BY <1>4, <2>2, <2>3, LtOrder, Zenon DEF Leq
<1>. QED
  BY <1>7, <1>8, Zenon

\* Every step keeps the mark at the end of the acknowledged prefix.
LEMMA NextFrontierInv ==
    ASSUME FrontierInv, MixedAcks = FALSE, [Next]_vars
    PROVE  FrontierInv'
<1>0. IndividualInv /\ IndividualInv' /\ CursorInv /\ CursorInv'
  BY NextIndividualInv, NextCursorInv, Zenon DEF FrontierInv, IndividualInv
<1>1. CASE AddEntry
  <2>1. UNCHANGED <<mark, holes, folding, info>>
    BY <1>1, Zenon DEF AddEntry, cursor
  <2>2. SnapshotHasRecord'
    BY <2>1, Zenon DEF FrontierInv, SnapshotHasRecord
  <2>. QED
    BY <1>0, <1>1, <2>2, AppendKeepsClear, Zenon DEF FrontierInv
<1>2. ASSUME holes' = {}, ~folding' PROVE FrontierInv'
  BY <1>0, <1>2, ClearWithoutHolesNext, Zenon DEF NoHoles, FrontierInv, SnapshotHasRecord
<1>3. CASE \/ OpenEarliest \/ OpenLatest \/ delete_cursor
           \/ \E p \in Entries(ledgers) : OpenAt(p) \/ seek_cursor(p) \/ ack_message(p)
  <2>1. ~stored => holes = {}
    BY <1>0, Zenon DEF CursorInv, Shape
  <2>2. holes' = {} /\ ~folding'
    BY <1>3, <2>1 DEF OpenEarliest, OpenLatest, OpenAt, Created, delete_cursor, seek_cursor,
         ack_message, SetCursor, Acking, Idle
  <2>. QED
    BY <1>2, <2>2, Zenon
<1>4. CASE \E p \in Entries(ledgers) : ack_message_shared(p)
  <2>1. folding' /\ info' = ledgers'
    BY <1>4, Zenon DEF ack_message_shared
  <2>2. /\ mark' \in Entries(ledgers') \cup {NoMark}
        /\ \A r \in holes' : {r[1], r[2]} \subseteq Entries(ledgers')
    BY <1>0, Zenon DEF CursorInv, TypeOK
  <2>3. SnapshotHasRecord'
    BY <2>1, <2>2, Zenon DEF SnapshotHasRecord
  <2>. QED
    BY <1>0, <2>1, <2>3, Zenon DEF FrontierInv, MarkIsFrontier, Idle
<1>5. CASE Fold
  <2>1. /\ folding /\ folding' /\ info' = info
        /\ \E r \in Taken : mark' = r[2] /\ holes' = holes \ {r}
    BY <1>5, Zenon DEF Fold, SetCursor
  <2>2. PICK r \in Taken : mark' = r[2] /\ holes' = holes \ {r}
    BY <2>1, Zenon
  <2>3. r \in holes
    BY <1>0, TakenStartsNext, Zenon
  <2>4. SnapshotHasRecord'
    BY <2>1, <2>2, <2>3, Zenon DEF FrontierInv, SnapshotHasRecord
  <2>. QED
    BY <1>0, <2>1, <2>4, Zenon DEF FrontierInv, MarkIsFrontier, Idle
<1>6. CASE FoldDone
  <2>1. SnapshotHasRecord'
    BY <1>6, Zenon DEF FoldDone, SnapshotHasRecord
  <2>. QED
    BY <1>0, <1>6, <2>1, LoopLeavesClear, Zenon DEF FrontierInv
<1>7. CASE Interrupted
  <2>1. ~folding' /\ interrupts' # 0
    BY <1>0, <1>7 DEF Interrupted, CursorInv, TypeOK
  <2>. QED
    BY <1>0, <2>1, Zenon DEF FrontierInv, SnapshotHasRecord, MarkIsFrontier
<1>8. CASE UNCHANGED vars
  BY <1>0, <1>8, Zenon DEF vars, FrontierInv, SnapshotHasRecord, MarkIsFrontier, Idle, is_acknowledged
<1>. QED
  BY <1>1, <1>3, <1>4, <1>5, <1>6, <1>7, <1>8, Zenon DEF Next

\* Unless acks are mixed or one was cut short, the mark at rest is the end of the
\* acknowledged prefix: the loop of ack_managed_cursor_shared, which works on a snapshot
\* of the ledger list, leaves no acknowledged entry right after it, also across rollovers and
\* when the log has grown since.
THEOREM MarkAlwaysFrontier == (MixedAcks = FALSE) /\ Spec => []MarkIsFrontier
<1>1. Init => FrontierInv
  BY InitIndividualInv, Zenon DEF FrontierInv, SnapshotHasRecord, MarkIsFrontier, Init
<1>2. FrontierInv => MarkIsFrontier
  BY Zenon DEF FrontierInv
<1>3. ASSUME MixedAcks = FALSE PROVE Spec => []MarkIsFrontier
  BY <1>1, <1>2, <1>3, NextFrontierInv, PTL DEF Spec
<1>. QED
  BY <1>3, Zenon

----------------------------------------------------------------------------
(* Where dispatch starts. *)

\* A non-empty set of numbers has a least element.
LEMMA LeastNumber ==
    ASSUME NEW S, S \subseteq Nat, S # {}
    PROVE  \E x \in S : \A y \in S : x <= y
<1>. DEFINE R == OpToRel(<, Nat)
<1>1. \A x, y \in Nat : y < x => <<y, x>> \in R
  BY Zenon DEF OpToRel
<1>2. IsWellFoundedOn(R, Nat)
  BY NatLessThanWellFounded, Zenon
<1>. HIDE DEF R
<1>3. PICK x \in S : \A y \in S : ~ (<<y, x>> \in R)
  BY <1>2, WFMin, Zenon
<1>4. x \in Nat /\ S \subseteq Nat
  BY Zenon
<1>5. \A y \in S : ~ (y < x)
  BY <1>1, <1>3, <1>4, Zenon
<1>. QED
  BY <1>4, <1>5

\* A non-empty set of positions has a least element: the least entry of its least ledger.
LEMMA LeastPosition ==
    ASSUME NEW S, S \subseteq Pos, S # {}
    PROVE  Least(S) # {}
<1>. DEFINE L == {p[1] : p \in S}
<1>1. L \subseteq Nat /\ L # {}
  BY Zenon DEF Pos
<1>. HIDE DEF L
<1>2. PICK l \in L : \A k \in L : l <= k
  BY <1>1, LeastNumber, Zenon
<1>. DEFINE E == {p[2] : p \in {q \in S : q[1] = l}}
<1>3. E \subseteq Nat /\ E # {}
  BY <1>2, Zenon DEF L, Pos
<1>. HIDE DEF E
<1>4. PICK e \in E : \A f \in E : e <= f
  BY <1>3, LeastNumber, Zenon
<1>5. PICK p \in S : p[1] = l /\ p[2] = e
  BY <1>4, Zenon DEF E
<1>6. ASSUME NEW q \in S PROVE Leq(p, q)
  <2>1. /\ p = <<p[1], p[2]>> /\ q = <<q[1], q[2]>>
        /\ p[1] \in Nat /\ p[2] \in Nat /\ q[1] \in Nat /\ q[2] \in Nat
    BY DEF Pos
  <2>2. q[1] \in L /\ (q[1] = l => q[2] \in E)
    BY Zenon DEF L, E
  <2>3. p[1] <= q[1] /\ (q[1] = p[1] => p[2] <= q[2])
    BY <1>2, <1>4, <1>5, <2>2, Zenon
  <2>. QED
    BY <2>1, <2>3 DEF Leq, Lt
<1>. QED
  BY <1>5, <1>6, Zenon DEF Least

\* The scan starts at the entry after the mark and misses none: what is not acknowledged is
\* past the mark, and if there is any, there is an entry after the mark.
LEMMA ScanMissesNone ==
    ASSUME CursorInv
    PROVE  FirstUnackedExact
<1>. DEFINE E == Entries(ledgers)
            scanned == IF mark = NoMark THEN E
                       ELSE UNION {{r \in E : Leq(q, r)} : q \in next_position(mark, ledgers)}
<1>1. E \subseteq Pos /\ mark \in Pos /\ (mark # NoMark => mark[1] \in DOMAIN ledgers)
  BY RecordFacts, Zenon
<1>2. ASSUME NEW p \in E, ~is_acknowledged(p) PROVE p \in scanned
  <2>1. CASE mark = NoMark
    BY <2>1, Zenon
  <2>2. CASE mark # NoMark
    <3>. DEFINE after == {q \in E : Lt(mark, q)}
    <3>1. p \in after
      BY <1>1, <1>2, LtOrder, Zenon DEF is_acknowledged, Leq
    <3>2. PICK q \in Least(after) : TRUE
      BY <1>1, <3>1, LeastPosition, Zenon
    <3>3. q \in next_position(mark, ledgers)
      BY <1>1, <2>2, <3>2, Zenon DEF next_position
    <3>4. Leq(q, p)
      BY <3>1, <3>2, Zenon DEF Least
    <3>. QED
      BY <2>2, <3>3, <3>4
  <2>. QED
    BY <2>1, <2>2, Zenon
<1>3. scanned \subseteq E
  BY Zenon
<1>4. first_unacked_position = Least({p \in scanned : ~is_acknowledged(p)})
  BY Zenon DEF first_unacked_position
<1>. HIDE DEF scanned
<1>5. {p \in scanned : ~is_acknowledged(p)} = E \ Acked
  BY <1>2, <1>3, Zenon DEF Acked
<1>. QED
  BY <1>4, <1>5, Zenon DEF FirstUnackedExact

\* The scan that positions a dispatcher after open, seek and ack finds the first entry that
\* is not acknowledged, and none only if there is none: in every mode, between the puts of
\* an ack and whatever was interrupted.
THEOREM ScanAlwaysExact == Spec => []FirstUnackedExact
BY InitCursorInv, NextCursorInv, ScanMissesNone, PTL DEF Spec

----------------------------------------------------------------------------
(* The two backends. *)

Size == Cardinality(Entries(ledgers))
Log == Entries(ledgers)

\* The entries of the RocksDB log, in order, are those of the log in memory.
IndexInv ==
    /\ IsFiniteSet(Log) /\ Size \in Nat
    /\ \A p \in Log : Index(p) \in 0..(Size - 1)
    /\ \A p, q \in Log : Lt(p, q) => Index(p) < Index(q)
    /\ \A e \in 0..(Size - 1) : \E p \in Log : Index(p) = e

\* The values the two maps can have.
Frontiers == {-2} \cup (-1)..(Size - 1)

MemInv ==
    /\ plain \in Frontiers /\ marked \in Frontiers /\ memHoles \subseteq 0..(Size - 1)
    /\ marked = -2 => memHoles = {}
    /\ holes # {} => marked # -2
    /\ apart \in BOOLEAN

\* Entry e is acknowledged by a plain frontier pl, or a frontier m with the holes H.
Has(pl, m, H, e) == IF m # -2 THEN e <= m \/ e \in H ELSE e <= pl

MemAcked(e) == Has(plain, marked, memHoles, e)

SameCursors == stored <=> plain # -2 \/ marked # -2

SameAcks == \A p \in Log : is_acknowledged(p) <=> MemAcked(Index(p))

\* The inductive invariant.
BothInv == /\ CursorInv /\ IndexInv /\ MemInv /\ SameCursors
           /\ apart \/ (HolesPastMark /\ SameAcks)

----------------------------------------------------------------------------
(* Entries and their numbers. *)

\* An appended entry gets the next number, and the others keep theirs.
LEMMA IndexGrows ==
    ASSUME CursorInv, IndexInv, NEW p \in Pos, Entries(ledgers') = Log \cup {p},
           \A q \in Log : Lt(q, p), p \notin Log
    PROVE  /\ IndexInv' /\ Size' = Size + 1 /\ Index(p)' = Size
           /\ \A q \in Log : Index(q)' = Index(q)
<1>1. Log \subseteq Pos /\ Log' = Log \cup {p} /\ IsFiniteSet(Log) /\ Size \in Nat
  BY RecordFacts, Zenon DEF Log, IndexInv
<1>2. IsFiniteSet(Log') /\ Size' = Size + 1
  <2>1. IsFiniteSet(Log \cup {p}) /\ Cardinality(Log \cup {p}) = Cardinality(Log) + 1
    BY <1>1, FS_AddElement, Zenon
  <2>. QED
    BY <1>1, <2>1, Zenon DEF Size, Log
<1>3. \A q \in Log : Index(q)' = Index(q)
  <2>. SUFFICES ASSUME NEW q \in Log
                PROVE  Index(q)' = Index(q)
    BY Zenon
  <2>1. ~ Lt(p, q)
    BY <1>1, LtOrder, Zenon
  <2>2. {r \in Log' : Lt(r, q)} = {r \in Log : Lt(r, q)}
    BY <1>1, <2>1, Zenon
  <2>. QED
    BY <2>2, Zenon DEF Index, Log
<1>4. Index(p)' = Size
  <2>1. {r \in Log' : Lt(r, p)} = Log
    BY <1>1, LtOrder, Zenon
  <2>. QED
    BY <2>1, Zenon DEF Index, Log, Size
<1>5. \A q \in Log' : Index(q)' \in 0..(Size' - 1)
  <2>1. \A q \in Log : Index(q) \in 0..(Size - 1)
    BY Zenon DEF IndexInv
  <2>2. \A q \in Log : Index(q)' \in 0..(Size' - 1)
    BY <1>1, <1>2, <1>3, <2>1
  <2>3. Index(p)' \in 0..(Size' - 1)
    BY <1>1, <1>2, <1>4
  <2>. QED
    BY <1>1, <2>2, <2>3, Zenon
<1>6. ASSUME NEW q \in Log', NEW r \in Log', Lt(q, r)
      PROVE  Index(q)' < Index(r)'
  <2>1. CASE q \in Log /\ r \in Log
    BY <1>3, <1>6, <2>1, Zenon DEF IndexInv
  <2>2. CASE q \in Log /\ r = p
    <3>1. Index(q) \in 0..(Size - 1)
      BY <2>2, Zenon DEF IndexInv
    <3>2. Index(q) < Size
      BY <1>1, <3>1
    <3>. QED
      BY <1>3, <1>4, <2>2, <3>2, Zenon
  <2>3. CASE q = p
    BY <1>1, <1>6, <2>3, LtOrder, Zenon
  <2>. QED
    BY <1>1, <2>1, <2>2, <2>3, Zenon
<1>7. ASSUME NEW e \in 0..(Size' - 1)
      PROVE  \E q \in Log' : Index(q)' = e
  <2>1. e \in 0..(Size - 1) \/ e = Size
    BY <1>1, <1>2
  <2>2. CASE e \in 0..(Size - 1)
    <3>1. PICK q \in Log : Index(q) = e
      BY <2>2, Zenon DEF IndexInv
    <3>. QED
      BY <1>1, <1>3, <3>1, Zenon
  <2>. QED
    BY <1>1, <1>4, <2>1, <2>2, Zenon
<1>8. Size' \in Nat
  BY <1>1, <1>2
<1>. QED
  BY <1>2, <1>3, <1>4, <1>5, <1>6, <1>7, <1>8, Zenon DEF IndexInv

\* An unchanged log.
LEMMA IndexSame ==
    ASSUME IndexInv, UNCHANGED ledgers
    PROVE  IndexInv' /\ Size' = Size /\ Log' = Log /\ \A p : Index(p)' = Index(p)
<1>1. Size' = Size /\ Log' = Log /\ \A p : Index(p)' = Index(p)
  BY Zenon DEF Size, Log, Index
<1>. QED
  BY <1>1, Zenon DEF IndexInv

\* Positions and their numbers are in the same order.
LEMMA IndexOrder ==
    ASSUME CursorInv, IndexInv, NEW p \in Log, NEW q \in Log
    PROVE  (Lt(p, q) <=> Index(p) < Index(q)) /\ (Leq(p, q) <=> Index(p) <= Index(q))
<1>1. p \in Pos /\ q \in Pos
  BY RecordFacts, Zenon DEF Log
<1>2. /\ Index(p) \in Nat /\ Index(q) \in Nat
      /\ Lt(p, q) => Index(p) < Index(q)
      /\ Lt(q, p) => Index(q) < Index(p)
  <2>1. Index(p) \in 0..(Size - 1) /\ Index(q) \in 0..(Size - 1) /\ Size \in Nat
    BY Zenon DEF IndexInv
  <2>2. Index(p) \in Nat /\ Index(q) \in Nat
    BY <2>1
  <2>. QED
    BY <2>2, Zenon DEF IndexInv
<1>3. Lt(p, q) \/ Lt(q, p) \/ p = q
  BY <1>1, LtOrder, Zenon
<1>. QED
  BY <1>2, <1>3 DEF Leq

\* Two entries have two numbers.
LEMMA IndexInjective ==
    ASSUME CursorInv, IndexInv, NEW p \in Log, NEW q \in Log
    PROVE  Index(q) = Index(p) <=> q = p
<1>1. p \in Pos /\ q \in Pos
  BY RecordFacts, Zenon DEF Log
<1>2. Lt(p, q) \/ Lt(q, p) \/ p = q
  BY <1>1, LtOrder, Zenon
<1>3. (Lt(p, q) <=> Index(p) < Index(q)) /\ (Lt(q, p) <=> Index(q) < Index(p))
  BY IndexOrder, Zenon
<1>4. Index(p) \in 0..(Size - 1) /\ Index(q) \in 0..(Size - 1)
  BY Zenon DEF IndexInv
<1>5. Index(q) = Index(p) => ~ (Index(p) < Index(q)) /\ ~ (Index(q) < Index(p))
  BY <1>4
<1>. QED
  BY <1>2, <1>3, <1>5, Zenon

\* A non-empty set of entries has a last one.
LEMMA GreatestExists ==
    ASSUME CursorInv, IndexInv, NEW S, S \subseteq Log, S # {}
    PROVE  Greatest(S) # {}
<1>1. PICK T : T = {Size - 1 - Index(q) : q \in S}
  BY Zenon
<1>2. \A q \in S : Index(q) \in 0..(Size - 1) /\ Size \in Nat
  BY Zenon DEF IndexInv
<1>3. \A q \in S : Size - 1 - Index(q) \in Nat
  BY <1>2
<1>4. T \subseteq Nat /\ T # {}
  BY <1>1, <1>3, Zenon
<1>5. PICK x \in T : \A y \in T : x <= y
  BY <1>4, LeastNumber, Zenon
<1>6. PICK g \in S : x = Size - 1 - Index(g)
  BY <1>1, <1>5, Zenon
<1>7. ASSUME NEW q \in S
      PROVE  Leq(q, g)
  <2>1. x <= Size - 1 - Index(q)
    BY <1>1, <1>5, Zenon
  <2>2. Index(q) <= Index(g)
    BY <1>2, <1>6, <2>1
  <2>. QED
    BY <2>2, IndexOrder, Zenon
<1>. QED
  BY <1>7, Zenon DEF Greatest

\* The mark of a cursor opened at the end of the log has everything behind it.
LEMMA LastMark ==
    ASSUME CursorInv, IndexInv, NEW q \in Log
    PROVE  Leq(q, AsMark(last_position(ledgers)))
<1>1. Greatest(Log) # {}
  BY GreatestExists, Zenon
<1>2. AsMark(Greatest(Log)) \in Greatest(Log)
  BY <1>1, Zenon DEF AsMark
<1>. QED
  BY <1>2, Zenon DEF Greatest, last_position, Log

\* The mark of a cursor opened at p, or moved there, has behind it what precedes p.
LEMMA PreviousMark ==
    ASSUME CursorInv, IndexInv, NEW p \in Log, NEW q \in Log
    PROVE  Leq(q, AsMark(previous_position(p, ledgers))) <=> Lt(q, p)
<1>1. p \in Pos /\ q \in Pos /\ Log \subseteq Pos /\ Lt(NoMark, q) /\ NoMark \in Pos
  BY RecordFacts, EntriesPos, NoMarkPos, Zenon DEF Log
<1>2. /\ p = <<p[1], p[2]>> /\ p[1] \in Nat /\ p[2] \in Nat
      /\ q = <<q[1], q[2]>> /\ q[1] \in Nat /\ q[2] \in Nat
  BY <1>1 DEF Pos
<1>3. CASE p[2] > 0
  <2>1. PICK m : m = <<p[1], p[2] - 1>>
    BY Zenon
  <2>2. m \in Pos /\ Succ(m) = p
    BY <1>2, <1>3, <2>1 DEF Pos, Succ
  <2>3. previous_position(p, ledgers) = {m}
    BY <1>3, <2>1, Zenon DEF previous_position
  <2>4. AsMark({m}) = m
    BY Zenon DEF AsMark
  <2>5. Lt(q, p) => Leq(q, m)
    BY <1>1, <2>2, SuccNext, Zenon
  <2>6. Leq(q, m) => Lt(q, p)
    BY <1>1, <2>2, SuccNext, LtOrder, Zenon DEF Leq
  <2>. QED
    BY <2>3, <2>4, <2>5, <2>6, Zenon
<1>4. CASE ~ (p[2] > 0)
  <2>1. PICK S : S = {r \in Log : r[1] < p[1]}
    BY Zenon
  <2>2. previous_position(p, ledgers) = Greatest(S)
    BY <1>4, <2>1, Zenon DEF previous_position, Log
  <2>3. q \in S <=> Lt(q, p)
    BY <1>2, <1>4, <2>1 DEF Lt
  <2>4. CASE S = {}
    <3>1. AsMark(Greatest(S)) = NoMark
      BY <2>4, Zenon DEF Greatest, AsMark
    <3>2. ~ Leq(q, NoMark)
      BY <1>1, LtOrder, Zenon DEF Leq
    <3>. QED
      BY <2>2, <2>3, <2>4, <3>1, <3>2, Zenon
  <2>5. CASE S # {}
    <3>1. Greatest(S) # {}
      BY <2>1, <2>5, GreatestExists, Zenon
    <3>2. PICK g : g = AsMark(Greatest(S)) /\ g \in Greatest(S)
      BY <3>1, Zenon DEF AsMark
    <3>3. g \in S /\ \A r \in S : Leq(r, g)
      BY <3>2, Zenon DEF Greatest
    <3>4. g \in Pos /\ g[1] < p[1]
      BY <1>1, <2>1, <3>3, Zenon
    <3>5. Leq(q, g) => q[1] < p[1]
      BY <1>2, <3>4 DEF Leq, Lt, Pos
    <3>6. Leq(q, g) => q \in S
      BY <2>1, <3>5, Zenon
    <3>. QED
      BY <2>2, <2>3, <3>2, <3>3, <3>6, Zenon
  <2>. QED
    BY <2>4, <2>5, Zenon
<1>. QED
  BY <1>3, <1>4, Zenon

----------------------------------------------------------------------------
(* The cursor in memory. *)

\* What the provers need of the maps, spelled out.
LEMMA MemFacts ==
    ASSUME IndexInv, MemInv
    PROVE  /\ Size \in Nat
           /\ plain \in Int /\ plain >= -2 /\ plain < Size
           /\ marked \in Int /\ marked >= -2 /\ marked < Size
           /\ memHoles \subseteq 0..(Size - 1) /\ (marked = -2 => memHoles = {})
<1>1. Size \in Nat /\ plain \in Frontiers /\ marked \in Frontiers
  BY Zenon DEF IndexInv, MemInv
<1>2. plain \in Int /\ plain >= -2 /\ plain < Size
  BY <1>1 DEF Frontiers
<1>3. marked \in Int /\ marked >= -2 /\ marked < Size
  BY <1>1 DEF Frontiers
<1>. QED
  BY <1>1, <1>2, <1>3, Zenon DEF MemInv

\* Which frontier is_acknowledged_inner looks at.
LEMMA MemAckedIs ==
    ASSUME NEW e
    PROVE  /\ MemAcked(e) <=> Mem!is_acknowledged_inner(e)
           /\ marked # -2 => (MemAcked(e) <=> e <= marked \/ e \in memHoles)
           /\ marked = -2 => (MemAcked(e) <=> e <= plain)
BY Zenon DEF MemAcked, Has, Mem!is_acknowledged_inner, Mem!is_message_acknowledged, Mem!Absent

\* The same after a step.
LEMMA MemAckedNext ==
    ASSUME NEW e
    PROVE  /\ MemAcked(e)' <=> Has(plain', marked', memHoles', e)
           /\ marked' # -2 => (MemAcked(e)' <=> e <= marked' \/ e \in memHoles')
           /\ marked' = -2 => (MemAcked(e)' <=> e <= plain')
BY Zenon DEF MemAcked, Has

\* advance_mark_delete takes the frontier to the end of the holes right after it; the
\* frontier and the holes together stand for the same entries.
LEMMA Advances ==
    ASSUME IndexInv, NEW m \in 0..(Size - 1), NEW H, H \subseteq 0..(Size - 1)
    PROVE  LET r == Mem!advance_mark_delete(m, H)
           IN  /\ r.mark \in 0..(Size - 1) /\ r.holes \subseteq 0..(Size - 1)
               /\ \A e \in 0..(Size - 1) : e <= r.mark \/ e \in r.holes <=> e <= m \/ e \in H
<1>1. Size \in Nat /\ m \in Nat /\ m < Size
  BY DEF IndexInv
<1>2. PICK T : T = {k \in Nat : k >= m /\ k + 1 \notin H}
  BY Zenon
<1>3. Size - 1 \in T
  BY <1>1, <1>2
<1>4. T \subseteq Nat
  BY <1>2, Zenon
<1>5. PICK k \in T : \A j \in T : k <= j
  BY <1>3, <1>4, LeastNumber, Zenon
<1>6. k \in Nat /\ k >= m /\ k + 1 \notin H /\ k <= Size - 1
  BY <1>2, <1>3, <1>5, Zenon
<1>7. ASSUME NEW x \in (m + 1)..k
      PROVE  x \in H
  <2>1. x - 1 \in Nat /\ x - 1 >= m /\ ~ (k <= x - 1) /\ (x - 1) + 1 = x
    BY <1>1, <1>6
  <2>2. x - 1 \notin T
    BY <1>5, <2>1, Zenon
  <2>. QED
    BY <1>2, <2>1, <2>2, Zenon
<1>8. k \in m..Size /\ (m + 1)..k \subseteq H /\ k + 1 \notin H
  <2>1. k \in m..Size
    BY <1>1, <1>6
  <2>. QED
    BY <1>6, <1>7, <2>1, Zenon
<1>9. PICK end : end = CHOOSE e \in m..Size : (m + 1)..e \subseteq H /\ e + 1 \notin H
  BY Zenon
<1>10. end \in m..Size /\ (m + 1)..end \subseteq H
  BY <1>8, <1>9, Zenon
<1>11. Mem!advance_mark_delete(m, H) = [mark |-> end, holes |-> H \ (m + 1)..end]
  BY <1>9, Zenon DEF Mem!advance_mark_delete, Size
<1>12. end \in 0..(Size - 1)
  <2>1. CASE end = m
    BY <2>1, Zenon
  <2>2. CASE end # m
    <3>1. end \in (m + 1)..end
      BY <1>1, <1>10, <2>2
    <3>. QED
      BY <1>10, <3>1, Zenon
  <2>. QED
    BY <2>1, <2>2, Zenon
<1>13. ASSUME NEW e \in 0..(Size - 1)
       PROVE  e <= end \/ e \in H \ (m + 1)..end <=> e <= m \/ e \in H
  <2>1. e \in (m + 1)..end => e \in H
    BY <1>10, Zenon
  <2>2. e \in (m + 1)..end <=> m < e /\ e <= end
    BY <1>1, <1>12
  <2>3. m <= end
    BY <1>1, <1>10
  <2>. QED
    BY <1>1, <1>12, <2>1, <2>2, <2>3
<1>14. H \ (m + 1)..end \subseteq 0..(Size - 1)
  BY Zenon
<1>15. PICK r : r = [mark |-> end, holes |-> H \ (m + 1)..end]
  BY Zenon
<1>16. r.mark = end /\ r.holes = H \ (m + 1)..end
  BY <1>15, Zenon
<1>. QED
  BY <1>11, <1>12, <1>13, <1>14, <1>15, <1>16, Zenon

\* ack_message_shared in memory: unless a plain frontier is hidden, the entry is added.
LEMMA MemAcks ==
    ASSUME IndexInv, MemInv, NEW e \in 0..(Size - 1), Mem!ack_message_shared(e)
    PROVE  /\ marked' \in (-1)..(Size - 1) /\ memHoles' \subseteq 0..(Size - 1) /\ plain' = plain
           /\ (marked = -2 => plain < 0) =>
                 \A x \in 0..(Size - 1) : MemAcked(x)' <=> MemAcked(x) \/ x = e
<1>1. /\ Size \in Nat /\ plain \in Int /\ plain >= -2 /\ plain < Size
      /\ marked \in Int /\ marked >= -2 /\ marked < Size
      /\ memHoles \subseteq 0..(Size - 1) /\ (marked = -2 => memHoles = {})
  BY MemFacts, Zenon
<1>2. PICK m : m = IF marked = -2 THEN -1 ELSE marked
  BY Zenon
<1>3. m \in (-1)..(Size - 1)
  BY <1>1, <1>2
<1>4. PICK r : r = IF e <= marked \/ e \in memHoles THEN [mark |-> m, holes |-> memHoles]
                   ELSE IF e = m + 1 THEN Mem!advance_mark_delete(e, memHoles)
                   ELSE [mark |-> m, holes |-> memHoles \cup {e}]
  BY Zenon
<1>5. marked' = r.mark /\ memHoles' = r.holes /\ plain' = plain
  BY <1>2, <1>4, Zenon DEF Mem!ack_message_shared, Mem!is_message_acknowledged,
     Mem!ack_shared, Mem!Absent, Mem!None
<1>6. /\ r.mark \in (-1)..(Size - 1) /\ r.holes \subseteq 0..(Size - 1)
      /\ \A x \in 0..(Size - 1) : x <= r.mark \/ x \in r.holes <=> x <= m \/ x \in memHoles \/ x = e
  <2>1. CASE e <= marked \/ e \in memHoles
    <3>1. r.mark = m /\ r.holes = memHoles
      BY <1>4, <2>1, Zenon
    <3>2. e <= m \/ e \in memHoles
      BY <1>1, <1>2, <2>1
    <3>. QED
      BY <1>1, <1>3, <3>1, <3>2, Zenon
  <2>2. CASE ~ (e <= marked \/ e \in memHoles) /\ e = m + 1
    <3>1. r = Mem!advance_mark_delete(e, memHoles)
      BY <1>4, <2>2, Zenon
    <3>2. /\ r.mark \in 0..(Size - 1) /\ r.holes \subseteq 0..(Size - 1)
          /\ \A x \in 0..(Size - 1) : x <= r.mark \/ x \in r.holes <=> x <= e \/ x \in memHoles
      BY <1>1, <3>1, Advances, Zenon
    <3>3. \A x \in 0..(Size - 1) : x <= e <=> x <= m \/ x = e
      BY <1>3, <2>2
    <3>4. r.mark \in (-1)..(Size - 1)
      BY <1>1, <3>2
    <3>. QED
      BY <3>2, <3>3, <3>4, Zenon
  <2>3. CASE ~ (e <= marked \/ e \in memHoles) /\ e # m + 1
    <3>1. r = [mark |-> m, holes |-> memHoles \cup {e}]
      BY <1>4, <2>3, Zenon
    <3>2. r.mark = m /\ r.holes = memHoles \cup {e}
      BY <3>1, Zenon
    <3>. QED
      BY <1>1, <1>3, <3>2, Zenon
  <2>. QED
    BY <2>1, <2>2, <2>3, Zenon
<1>7. marked' \in (-1)..(Size - 1) /\ marked' # -2
  BY <1>1, <1>5, <1>6
<1>8. ASSUME marked = -2 => plain < 0, NEW x \in 0..(Size - 1)
      PROVE  MemAcked(x)' <=> MemAcked(x) \/ x = e
  <2>1. MemAcked(x)' <=> x <= marked' \/ x \in memHoles'
    BY <1>7, MemAckedNext, Zenon
  <2>2. MemAcked(x)' <=> x <= m \/ x \in memHoles \/ x = e
    BY <1>5, <1>6, <2>1, Zenon
  <2>3. CASE marked # -2
    BY <1>2, <2>2, <2>3, MemAckedIs, Zenon
  <2>4. CASE marked = -2
    <3>1. m = -1 /\ memHoles = {} /\ plain < 0
      BY <1>1, <1>2, <1>8, <2>4, Zenon
    <3>2. ~ (x <= m) /\ ~ (x <= plain)
      BY <1>1, <3>1
    <3>. QED
      BY <2>2, <2>4, <3>1, <3>2, MemAckedIs, Zenon
  <2>. QED
    BY <2>3, <2>4, Zenon
<1>. QED
  BY <1>5, <1>6, <1>7, <1>8, Zenon

----------------------------------------------------------------------------
(* The steps. *)

\* To the RocksDB cursor a call of both backends is a step of its own.
LEMMA BothIsNext ==
    ASSUME [BothNext]_bothVars
    PROVE  [Next]_vars
BY Zenon DEF BothNext, BothAppend, BothOpen, BothMove, RocksOnly, BothCumulative, BothIndividual,
   Next, bothVars

\* The log as it was, for the maps and their frontiers.
LEMMA SameLog ==
    ASSUME IndexInv, UNCHANGED ledgers
    PROVE  /\ IndexInv' /\ Size' = Size /\ Log' = Log /\ Frontiers' = Frontiers
           /\ \A p : Index(p)' = Index(p)
<1>1. IndexInv' /\ Size' = Size /\ Log' = Log /\ \A p : Index(p)' = Index(p)
  BY IndexSame, Zenon
<1>. QED
  BY <1>1, Zenon DEF Frontiers

\* append_message
LEMMA AppendKeeps ==
    ASSUME BothInv, CursorInv', BothAppend
    PROVE  BothInv'
<1>0. CursorInv /\ IndexInv /\ MemInv
  BY Zenon DEF BothInv
<1>1. /\ AddEntry /\ UNCHANGED <<plain, marked, memHoles, shared, resets, apart>>
      /\ UNCHANGED <<stored, mark, holes>>
  BY Zenon DEF BothAppend, Mem!append_message, AddEntry, cursor
<1>2. PICK p \in Pos : /\ Entries(ledgers') = Log \cup {p} /\ \A q \in Log : Lt(q, p)
                       /\ p \notin Log
  BY <1>0, <1>1, AddEntryGrows, Zenon DEF CursorInv, Log
<1>3. /\ IndexInv' /\ Size' = Size + 1 /\ Index(p)' = Size
      /\ \A q \in Log : Index(q)' = Index(q)
  BY <1>0, <1>2, IndexGrows, Zenon
<1>4. Log' = Log \cup {p}
  BY <1>2, Zenon DEF Log
<1>5. /\ Size \in Nat /\ plain \in Int /\ plain >= -2 /\ plain < Size
      /\ marked \in Int /\ marked >= -2 /\ marked < Size
      /\ memHoles \subseteq 0..(Size - 1) /\ (marked = -2 => memHoles = {})
  BY <1>0, MemFacts, Zenon
<1>6. MemInv'
  <2>1. plain \in {-2} \cup (-1)..(Size' - 1) /\ marked \in {-2} \cup (-1)..(Size' - 1)
    BY <1>3, <1>5
  <2>2. 0..(Size - 1) \subseteq 0..(Size' - 1)
    BY <1>3, <1>5
  <2>. QED
    BY <1>0, <1>1, <1>5, <2>1, <2>2, Zenon DEF MemInv, Frontiers
<1>7. SameCursors'
  BY <1>1, Zenon DEF BothInv, SameCursors
<1>8. ASSUME ~ apart
      PROVE  HolesPastMark' /\ SameAcks'
  <2>1. HolesPastMark /\ SameAcks
    BY <1>8, Zenon DEF BothInv
  <2>2. HolesPastMark'
    BY <1>1, <2>1, Zenon DEF HolesPastMark
  <2>3. \A e : MemAcked(e)' <=> MemAcked(e)
    BY <1>1, Zenon DEF MemAcked, Has
  <2>4. \A q : is_acknowledged(q)' <=> is_acknowledged(q)
    BY <1>1, Zenon DEF is_acknowledged
  <2>5. \A q \in Log : is_acknowledged(q)' <=> Has(plain', marked', memHoles', Index(q)')
    BY <1>3, <2>1, <2>3, <2>4, MemAckedNext, Zenon DEF SameAcks
  <2>6. ~ is_acknowledged(p)'
    <3>1. Acked' = Acked
      BY <1>0, <1>1, AddEntryAcked, Zenon
    <3>2. p \in Log' /\ p \notin Log
      BY <1>2, <1>4, Zenon
    <3>. QED
      BY <3>1, <3>2, Zenon DEF Acked, Log
  <2>7. ~ MemAcked(Size)
    <3>1. ~ (Size <= marked) /\ ~ (Size <= plain) /\ Size \notin 0..(Size - 1)
      BY <1>5
    <3>. QED
      BY <1>5, <3>1, MemAckedIs, Zenon
  <2>8. ASSUME NEW q \in Log'
        PROVE  is_acknowledged(q)' <=> Has(plain', marked', memHoles', Index(q)')
    <3>1. CASE q \in Log
      BY <2>5, <3>1, Zenon
    <3>2. CASE q = p
      BY <1>3, <2>3, <2>6, <2>7, <3>2, MemAckedNext, Zenon
    <3>. QED
      BY <1>4, <3>1, <3>2, Zenon
  <2>. QED
    BY <2>2, <2>8, Zenon DEF SameAcks, MemAcked, Has
<1>. QED
  BY <1>1, <1>3, <1>6, <1>7, <1>8, Zenon DEF BothInv

\* A step that leaves the log alone.
LEMMA StepKeeps ==
    ASSUME BothInv, CursorInv', UNCHANGED ledgers,
           plain' \in Frontiers, marked' \in Frontiers, memHoles' \subseteq 0..(Size - 1),
           marked' = -2 => memHoles' = {}, holes' # {} => marked' # -2, apart' \in BOOLEAN,
           stored' <=> plain' # -2 \/ marked' # -2,
           apart' \/ ( /\ HolesPastMark'
                       /\ \A p \in Log : is_acknowledged(p)' <=>
                                            Has(plain', marked', memHoles', Index(p)) )
    PROVE  BothInv'
<1>1. /\ IndexInv' /\ Size' = Size /\ Log' = Log /\ Frontiers' = Frontiers
      /\ \A p : Index(p)' = Index(p)
  BY SameLog, Zenon DEF BothInv
<1>2. MemInv'
  BY <1>1, Zenon DEF MemInv
<1>3. SameCursors'
  BY Zenon DEF SameCursors
<1>4. ASSUME ~ apart'
      PROVE  HolesPastMark' /\ SameAcks'
  <2>1. \A p \in Log' : is_acknowledged(p)' <=> Has(plain', marked', memHoles', Index(p)')
    BY <1>1, <1>4, Zenon
  <2>. QED
    BY <1>4, <2>1, Zenon DEF SameAcks, MemAcked, Has
<1>. QED
  BY <1>1, <1>2, <1>3, <1>4, Zenon DEF BothInv

\* Neither record changes.
LEMMA SameRecord ==
    ASSUME BothInv, CursorInv', UNCHANGED <<ledgers, plain, marked, memHoles, apart>>,
           UNCHANGED <<stored, mark, holes>>
    PROVE  BothInv'
<1>1. HolesPastMark => HolesPastMark'
  BY Zenon DEF HolesPastMark
<1>2. \A q : is_acknowledged(q)' <=> is_acknowledged(q)
  BY Zenon DEF is_acknowledged
<1>3. SameAcks => \A q \in Log : is_acknowledged(q)' <=> Has(plain', marked', memHoles', Index(q))
  BY <1>2, Zenon DEF SameAcks, MemAcked
<1>4. MemInv /\ SameCursors /\ (apart \/ (HolesPastMark /\ SameAcks))
  BY Zenon DEF BothInv
<1>5. stored' <=> plain' # -2 \/ marked' # -2
  BY <1>4, Zenon DEF SameCursors
<1>. QED
  BY <1>1, <1>3, <1>4, <1>5, StepKeeps, Zenon DEF MemInv

\* A step that leaves one frontier, f, in one of the maps, and no holes in either backend.
LEMMA FrontierKeeps ==
    ASSUME BothInv, CursorInv', UNCHANGED ledgers, stored' = TRUE, holes' = {}, memHoles' = {},
           apart' \in BOOLEAN, NEW f \in (-1)..(Size - 1),
           (plain' = f /\ marked' = -2) \/ (plain' = -2 /\ marked' = f),
           \A q \in Log : Leq(q, mark') <=> Index(q) <= f
    PROVE  BothInv'
<1>1. f # -2 /\ f \in Frontiers /\ -2 \in Frontiers
  <2>1. Size \in Nat
    BY Zenon DEF BothInv, IndexInv
  <2>. QED
    BY <2>1 DEF Frontiers
<1>2. plain' \in Frontiers /\ marked' \in Frontiers /\ (plain' # -2 \/ marked' # -2)
  BY <1>1
<1>3. HolesPastMark'
  BY Zenon DEF HolesPastMark
<1>4. Log \subseteq Pos
  BY RecordFacts, Zenon DEF BothInv, Log
<1>5. ASSUME NEW q \in Log
      PROVE  is_acknowledged(q)' <=> Has(plain', marked', memHoles', Index(q))
  <2>1. is_acknowledged(q)' <=> Leq(q, mark')
    BY <1>4, Zenon DEF is_acknowledged, contains, LastUpTo, From
  <2>2. Has(plain', marked', memHoles', Index(q)) <=> Index(q) <= f
    BY <1>1, Zenon DEF Has
  <2>. QED
    BY <2>1, <2>2, Zenon
<1>. QED
  BY <1>2, <1>3, <1>5, StepKeeps, Zenon

\* Before the first ack, in either backend.
LEMMA WithoutCursor ==
    ASSUME BothInv, ~ stored
    PROVE  mark = NoMark /\ holes = {} /\ plain = -2 /\ marked = -2 /\ memHoles = {}
<1>1. mark = NoMark /\ holes = {}
  BY Zenon DEF BothInv, CursorInv, Shape
<1>2. plain = -2 /\ marked = -2
  BY Zenon DEF BothInv, SameCursors
<1>. QED
  BY <1>1, <1>2, Zenon DEF BothInv, MemInv

\* Nothing is at or before NoMark.
LEMMA NothingMarked ==
    ASSUME BothInv, NEW q \in Log
    PROVE  ~ Leq(q, NoMark) /\ Index(q) \in Nat /\ Index(q) < Size /\ Size \in Nat
<1>1. q \in Pos /\ Lt(NoMark, q) /\ NoMark \in Pos
  BY RecordFacts, EntriesPos, NoMarkPos, Zenon DEF BothInv, Log
<1>2. ~ Leq(q, NoMark)
  BY <1>1, LtOrder, Zenon DEF Leq
<1>3. Index(q) \in 0..(Size - 1) /\ Size \in Nat
  BY Zenon DEF BothInv, IndexInv
<1>4. Index(q) \in Nat /\ Index(q) < Size
  BY <1>3
<1>. QED
  BY <1>2, <1>3, <1>4, Zenon

\* The mark before an entry is the frontier before its number.
LEMMA BeforeEntry ==
    ASSUME BothInv, NEW p \in Log, NEW q \in Log
    PROVE  Leq(q, AsMark(previous_position(p, ledgers))) <=> Index(q) <= Index(p) - 1
<1>0. CursorInv /\ IndexInv
  BY Zenon DEF BothInv
<1>1. Leq(q, AsMark(previous_position(p, ledgers))) <=> Lt(q, p)
  BY <1>0, PreviousMark, Zenon
<1>2. Lt(q, p) <=> Index(q) < Index(p)
  BY <1>0, IndexOrder, Zenon
<1>3. Index(p) \in Nat /\ Index(q) \in Nat
  BY NothingMarked, Zenon
<1>4. Index(q) < Index(p) <=> Index(q) <= Index(p) - 1
  BY <1>3
<1>. QED
  BY <1>1, <1>2, <1>4, Zenon

\* initialize_or_open_cursor
LEMMA OpenKeeps ==
    ASSUME BothInv, CursorInv', BothOpen
    PROVE  BothInv'
<1>0. CursorInv /\ IndexInv /\ MemInv /\ Size \in Nat /\ apart' \in BOOLEAN
  BY Zenon DEF BothInv, BothOpen, MemInv, IndexInv
<1>1. ASSUME NEW m, NEW f, Created(m), Mem!Create(f)
      PROVE  /\ UNCHANGED ledgers /\ stored' = TRUE /\ holes' = {} /\ memHoles' = {}
             /\ plain' = f /\ marked' = -2 /\ mark' = m /\ mark = NoMark
  BY <1>1, WithoutCursor, Zenon DEF Created, SetCursor, Mem!Create
<1>2. CASE OpenEarliest /\ Mem!ensure_exclusive_cursor
  <2>1. Created(mark) /\ Mem!Create(-1)
    BY <1>2, Zenon DEF OpenEarliest, Mem!ensure_exclusive_cursor, Mem!None
  <2>2. -1 \in (-1)..(Size - 1)
    BY <1>0
  <2>3. ASSUME NEW q \in Log
        PROVE  ~ Leq(q, NoMark) /\ ~ (Index(q) <= -1)
    <3>1. ~ Leq(q, NoMark) /\ Index(q) \in Nat
      BY NothingMarked, Zenon
    <3>. QED
      BY <3>1
  <2>. QED
    BY <1>0, <1>1, <2>1, <2>2, <2>3, FrontierKeeps, Zenon
<1>3. CASE OpenLatest /\ Mem!apply_latest_exclusive
  <2>1. Created(AsMark(last_position(ledgers))) /\ Mem!Create(Size - 1)
    BY <1>3, Zenon DEF OpenLatest, Mem!apply_latest_exclusive, Size
  <2>2. Size - 1 \in (-1)..(Size - 1)
    BY <1>0
  <2>3. ASSUME NEW q \in Log
        PROVE  Leq(q, AsMark(last_position(ledgers))) /\ Index(q) <= Size - 1
    <3>1. Index(q) \in Nat /\ Index(q) < Size /\ Size \in Nat
      BY NothingMarked, Zenon
    <3>2. Index(q) <= Size - 1
      BY <3>1
    <3>. QED
      BY <1>0, <3>2, LastMark, Zenon
  <2>. QED
    BY <1>0, <1>1, <2>1, <2>2, <2>3, FrontierKeeps, Zenon
<1>4. ASSUME NEW p \in Log, OpenAt(p), Mem!apply_start_message_id_exclusive(Index(p))
      PROVE  BothInv'
  <2>1. Created(AsMark(previous_position(p, ledgers))) /\ Mem!Create(Index(p) - 1)
    BY <1>4, Zenon DEF OpenAt, Mem!apply_start_message_id_exclusive
  <2>2. Index(p) - 1 \in (-1)..(Size - 1)
    <3>1. Index(p) \in Nat /\ Index(p) < Size
      BY NothingMarked, Zenon
    <3>. QED
      BY <1>0, <3>1
  <2>3. \A q \in Log : Leq(q, AsMark(previous_position(p, ledgers))) <=> Index(q) <= Index(p) - 1
    BY BeforeEntry, Zenon
  <2>4. PICK f : f = Index(p) - 1
    BY Zenon
  <2>5. PICK m : m = AsMark(previous_position(p, ledgers))
    BY Zenon
  <2>6. /\ UNCHANGED ledgers /\ stored' = TRUE /\ holes' = {} /\ memHoles' = {}
        /\ plain' = f /\ marked' = -2 /\ mark' = m
    BY <1>1, <2>1, <2>4, <2>5, Zenon
  <2>7. f \in (-1)..(Size - 1) /\ \A q \in Log : Leq(q, mark') <=> Index(q) <= f
    BY <2>2, <2>3, <2>4, <2>5, <2>6, Zenon
  <2>. QED
    BY <1>0, <2>6, <2>7, FrontierKeeps, Zenon
<1>. QED
  BY <1>2, <1>3, <1>4, Zenon DEF BothOpen, Log

\* delete_cursor and seek_cursor
LEMMA MoveKeeps ==
    ASSUME BothInv, CursorInv', BothMove
    PROVE  BothInv'
<1>0. CursorInv /\ IndexInv /\ MemInv /\ Size \in Nat /\ apart' = FALSE /\ apart' \in BOOLEAN
  BY Zenon DEF BothInv, BothMove, MemInv, IndexInv
<1>1. CASE delete_cursor /\ Mem!delete_cursor
  <2>1. /\ UNCHANGED ledgers /\ stored' = FALSE /\ mark' = NoMark /\ holes' = {}
        /\ plain' = -2 /\ marked' = -2 /\ memHoles' = {}
    BY <1>1, Zenon DEF delete_cursor, Mem!delete_cursor, Mem!Absent
  <2>2. plain' \in Frontiers /\ marked' \in Frontiers
    BY <2>1, Zenon DEF Frontiers
  <2>3. HolesPastMark'
    BY <2>1, Zenon DEF HolesPastMark
  <2>4. ASSUME NEW q \in Log
        PROVE  is_acknowledged(q)' <=> Has(plain', marked', memHoles', Index(q))
    <3>1. ~ Leq(q, NoMark) /\ Index(q) \in Nat
      BY NothingMarked, Zenon
    <3>2. ~ (Index(q) <= -2)
      BY <3>1
    <3>3. ~ is_acknowledged(q)'
      BY <2>1, <3>1, Zenon DEF is_acknowledged, contains, LastUpTo, From
    <3>. QED
      BY <2>1, <3>2, <3>3, Zenon DEF Has
  <2>. QED
    BY <1>0, <2>1, <2>2, <2>3, <2>4, StepKeeps, Zenon
<1>2. ASSUME NEW p \in Log, seek_cursor(p), Mem!seek_cursor(Index(p))
      PROVE  BothInv'
  <2>1. PICK m : m = AsMark(previous_position(p, ledgers))
    BY Zenon
  <2>2. PICK f : f = Index(p) - 1
    BY Zenon
  <2>3. /\ UNCHANGED ledgers /\ stored' = TRUE /\ mark' = m /\ holes' = {} /\ memHoles' = {}
        /\ (plain' = f /\ marked' = -2) \/ (plain' = -2 /\ marked' = f)
    BY <1>2, <2>1, <2>2, Zenon DEF seek_cursor, SetCursor, Mem!seek_cursor, Mem!Absent
  <2>4. f \in (-1)..(Size - 1)
    <3>1. Index(p) \in Nat /\ Index(p) < Size
      BY NothingMarked, Zenon
    <3>. QED
      BY <1>0, <2>2, <3>1
  <2>5. \A q \in Log : Leq(q, mark') <=> Index(q) <= f
    BY <2>1, <2>2, <2>3, BeforeEntry, Zenon
  <2>. QED
    BY <1>0, <2>3, <2>4, <2>5, FrontierKeeps, Zenon
<1>. QED
  BY <1>1, <1>2, Zenon DEF BothMove, Log

\* ack_message
LEMMA CumulativeKeeps ==
    ASSUME BothInv, CursorInv', NEW p \in Log, BothCumulative(p)
    PROVE  BothInv'
<1>0. CursorInv /\ IndexInv /\ MemInv
  BY Zenon DEF BothInv
<1>1. /\ UNCHANGED <<ledgers, marked, memHoles, holes>> /\ stored' = TRUE /\ mark' = p
      /\ plain' = Index(p)
  BY Zenon DEF BothCumulative, ack_message, SetCursor, Mem!ack_message
<1>2. apart' \in BOOLEAN /\ (apart' <=> apart \/ marked # -2)
  BY <1>0, Zenon DEF BothCumulative, Mem!Absent, MemInv
<1>3. Index(p) \in (-1)..(Size - 1) /\ Index(p) # -2
  <2>1. Index(p) \in Nat /\ Index(p) < Size /\ Size \in Nat
    BY NothingMarked, Zenon
  <2>. QED
    BY <2>1
<1>4. CASE marked = -2
  <2>1. holes' = {} /\ memHoles' = {} /\ marked' = -2
    BY <1>0, <1>1, <1>4, Zenon DEF MemInv
  <2>2. \A q \in Log : Leq(q, p) <=> Index(q) <= Index(p)
    BY <1>0, IndexOrder, Zenon
  <2>. QED
    BY <1>1, <1>2, <1>3, <2>1, <2>2, FrontierKeeps, Zenon
<1>5. CASE marked # -2
  <2>1. plain' \in Frontiers /\ marked' \in Frontiers /\ memHoles' \subseteq 0..(Size - 1)
    BY <1>0, <1>1, <1>3, Zenon DEF MemInv, Frontiers
  <2>. QED
    BY <1>0, <1>1, <1>2, <1>3, <1>5, <2>1, StepKeeps, Zenon
<1>. QED
  BY <1>4, <1>5, Zenon

\* In a step of an individual ack the holes stay past the mark.
LEMMA PastMarkKept ==
    ASSUME BothInv, [Next]_vars, ~ apart, folding \/ folding' = TRUE \/ UNCHANGED vars
    PROVE  HolesPastMark'
<1>1. IndividualInv
  BY Zenon DEF BothInv, IndividualInv
<1>2. CASE UNCHANGED vars
  BY <1>1, <1>2, Zenon DEF IndividualInv, HolesPastMark, vars
<1>3. CASE folding \/ folding' = TRUE
  <2>1. ASSUME NEW p, ack_message(p)
        PROVE  FALSE
    <3>1. ~ folding /\ folding' = folding
      BY <2>1, Zenon DEF ack_message, Acking, Idle
    <3>. QED
      BY <1>3, <3>1, Zenon
  <2>. QED
    BY <1>1, <2>1, UnmixedStep, Zenon DEF IndividualInv
<1>. QED
  BY <1>2, <1>3, Zenon

\* An entry is acknowledged only where there is a record.
LEMMA AckedStored ==
    ASSUME BothInv, NEW p \in Log, is_acknowledged(p)
    PROVE  stored
<1>. SUFFICES ASSUME ~ stored
              PROVE  FALSE
  BY Zenon
<1>1. mark = NoMark /\ holes = {}
  BY WithoutCursor, Zenon
<1>2. ~ Leq(p, NoMark)
  BY NothingMarked, Zenon
<1>. QED
  BY <1>1, <1>2, Zenon DEF is_acknowledged, contains, LastUpTo, From

\* ack_message_shared
LEMMA IndividualKeeps ==
    ASSUME BothInv, CursorInv', [Next]_vars, NEW p \in Log, BothIndividual(p)
    PROVE  BothInv'
<1>0. CursorInv /\ IndexInv /\ MemInv
  BY Zenon DEF BothInv
<1>1. PICK e : e = Index(p)
  BY Zenon
<1>2. e \in 0..(Size - 1) /\ Mem!ack_message_shared(e)
  BY <1>0, <1>1, Zenon DEF IndexInv, BothIndividual
<1>3. /\ marked' \in (-1)..(Size - 1) /\ memHoles' \subseteq 0..(Size - 1) /\ plain' = plain
      /\ (marked = -2 => plain < 0) =>
            \A x \in 0..(Size - 1) : MemAcked(x)' <=> MemAcked(x) \/ x = e
  BY <1>0, <1>2, MemAcks, Zenon
<1>4. plain' \in Frontiers /\ marked' \in Frontiers /\ marked' # -2
  <2>1. marked' # -2
    <3>1. Size \in Nat
      BY <1>0, Zenon DEF IndexInv
    <3>. QED
      BY <1>3, <3>1
  <2>. QED
    BY <1>0, <1>3, <2>1, Zenon DEF MemInv, Frontiers
<1>5. UNCHANGED ledgers /\ stored' = TRUE
  <2>1. CASE ack_message_shared(p)
    BY <2>1, Zenon DEF ack_message_shared, SetCursor
  <2>2. CASE is_acknowledged(p) /\ UNCHANGED vars
    <3>1. stored
      BY <2>2, AckedStored, Zenon
    <3>2. stored \in BOOLEAN
      BY <1>0, Zenon DEF CursorInv, TypeOK
    <3>. QED
      BY <2>2, <3>1, <3>2, Zenon DEF vars
  <2>. QED
    BY <2>1, <2>2, Zenon DEF BothIndividual
<1>6. apart' \in BOOLEAN /\ (apart' <=> apart \/ Mem!Forgets)
  BY <1>0, Zenon DEF BothIndividual, MemInv
<1>7. ASSUME ~ apart'
      PROVE  /\ HolesPastMark'
             /\ \A q \in Log : is_acknowledged(q)' <=> Has(plain', marked', memHoles', Index(q))
  <2>1. ~ apart /\ ~ Mem!Forgets /\ HolesPastMark /\ SameAcks
    BY <1>6, <1>7, Zenon DEF BothInv
  <2>2. marked = -2 => plain < 0
    <3>1. resets' = resets
      BY <1>2, Zenon DEF Mem!ack_message_shared
    <3>2. ~ (marked = -2 /\ plain >= 0)
      BY <1>4, <2>1, <3>1, Zenon DEF Mem!Forgets, Mem!Absent
    <3>3. plain \in Int
      BY <1>0, MemFacts, Zenon
    <3>. QED
      BY <3>2, <3>3
  <2>3. \A x \in 0..(Size - 1) : Has(plain', marked', memHoles', x) <=> MemAcked(x) \/ x = e
    BY <1>3, <2>2, MemAckedNext, Zenon
  <2>4. HolesPastMark'
    BY <2>1, PastMarkKept, Zenon DEF BothIndividual, ack_message_shared
  <2>5. ASSUME NEW q \in Log
        PROVE  is_acknowledged(q)' <=> is_acknowledged(q) \/ q = p
    <3>1. CASE ack_message_shared(p)
      <4>1. Acked' = Acked \cup {p}
        BY <1>0, <2>1, <3>1, AckAddsOne, Zenon DEF IndividualInv, Log
      <4>2. q \in Acked' <=> is_acknowledged(q)'
        BY <1>5, Zenon DEF Acked, Log
      <4>3. q \in Acked <=> is_acknowledged(q)
        BY Zenon DEF Acked, Log
      <4>. QED
        BY <4>1, <4>2, <4>3, Zenon
    <3>2. CASE is_acknowledged(p) /\ UNCHANGED vars
      <4>1. is_acknowledged(q)' <=> is_acknowledged(q)
        BY <3>2, Zenon DEF is_acknowledged, vars
      <4>. QED
        BY <3>2, <4>1, Zenon
    <3>. QED
      BY <3>1, <3>2, Zenon DEF BothIndividual
  <2>6. ASSUME NEW q \in Log
        PROVE  is_acknowledged(q)' <=> Has(plain', marked', memHoles', Index(q))
    <3>1. Index(q) \in 0..(Size - 1)
      BY <1>0, Zenon DEF IndexInv
    <3>2. Index(q) = e <=> q = p
      BY <1>0, <1>1, IndexInjective, Zenon
    <3>3. is_acknowledged(q) <=> MemAcked(Index(q))
      BY <2>1, Zenon DEF SameAcks
    <3>. QED
      BY <2>3, <2>5, <3>1, <3>2, <3>3, Zenon
  <2>. QED
    BY <2>4, <2>6, Zenon
<1>. QED
  BY <1>3, <1>4, <1>5, <1>6, <1>7, StepKeeps, Zenon

\* The puts of RocksDB after the first, and the end of them.
LEMMA RocksOnlyKeeps ==
    ASSUME BothInv, CursorInv', [Next]_vars, RocksOnly
    PROVE  BothInv'
<1>0. CursorInv /\ IndexInv /\ MemInv
  BY Zenon DEF BothInv
<1>1. UNCHANGED <<ledgers, plain, marked, memHoles, apart>> /\ folding
  BY Zenon DEF RocksOnly, Fold, FoldDone, Interrupted, memory
<1>2. CASE Fold
  <2>1. PICK r \in Taken : stored' = TRUE /\ mark' = r[2] /\ holes' = holes \ {r}
    BY <1>2, Zenon DEF Fold, SetCursor
  <2>2. r \in holes
    BY <2>1, Zenon DEF Taken, TakeCovering, LastUpTo
  <2>3. marked # -2
    BY <1>0, <2>2, Zenon DEF MemInv
  <2>4. ASSUME ~ apart
        PROVE  /\ HolesPastMark'
               /\ \A q \in Log : is_acknowledged(q)' <=> Has(plain', marked', memHoles', Index(q))
    <3>1. HolesPastMark'
      BY <1>1, <2>4, PastMarkKept, Zenon
    <3>2. IndividualInv /\ SameAcks
      BY <2>4, Zenon DEF BothInv, IndividualInv
    <3>3. Acked' = Acked
      BY <1>2, <3>2, FoldKeepsAcked, Zenon
    <3>4. \A q \in Log : is_acknowledged(q)' <=> is_acknowledged(q)
      BY <1>1, <3>3, Zenon DEF Acked, Log
    <3>. QED
      BY <1>1, <3>1, <3>2, <3>4, Zenon DEF SameAcks, MemAcked
  <2>. QED
    BY <1>0, <1>1, <2>1, <2>3, <2>4, StepKeeps, Zenon DEF MemInv
<1>3. CASE FoldDone \/ Interrupted
  <2>1. UNCHANGED <<stored, mark, holes>>
    BY <1>3, Zenon DEF FoldDone, Interrupted, cursor
  <2>. QED
    BY <1>0, <1>1, <2>1, SameRecord, Zenon
<1>. QED
  BY <1>2, <1>3, Zenon DEF RocksOnly

\* The invariant is inductive.
LEMMA BothInvNext ==
    ASSUME BothInv, [BothNext]_bothVars
    PROVE  BothInv'
<1>1. [Next]_vars
  BY BothIsNext, Zenon
<1>2. CursorInv'
  BY <1>1, NextCursorInv, Zenon DEF BothInv
<1>3. CASE UNCHANGED bothVars
  BY <1>2, <1>3, SameRecord, Zenon DEF bothVars, vars, memory
<1>4. CASE BothAppend
  BY <1>2, <1>4, AppendKeeps, Zenon
<1>5. CASE BothOpen
  BY <1>2, <1>5, OpenKeeps, Zenon
<1>6. CASE BothMove
  BY <1>2, <1>6, MoveKeeps, Zenon
<1>7. CASE RocksOnly
  BY <1>1, <1>2, <1>7, RocksOnlyKeeps, Zenon
<1>8. ASSUME NEW p \in Log, BothCumulative(p) \/ BothIndividual(p)
      PROVE  BothInv'
  BY <1>1, <1>2, <1>8, CumulativeKeeps, IndividualKeeps, Zenon
<1>. QED
  BY <1>3, <1>4, <1>5, <1>6, <1>7, <1>8, Zenon DEF BothNext, Log

\* At first there is no entry and no cursor.
LEMMA BothInvInit == BothInit => BothInv
<1>. SUFFICES ASSUME BothInit
              PROVE  BothInv
  BY Zenon
<1>1. CursorInv
  BY InitCursorInv, Zenon DEF BothInit
<1>2. /\ plain = -2 /\ marked = -2 /\ memHoles = {} /\ holes = {} /\ stored = FALSE
      /\ apart = FALSE /\ ledgers = <<0>>
  BY Zenon DEF BothInit, Init, Mem!Init, Mem!Absent
<1>3. Log = {}
  BY <1>2 DEF Log, Entries
<1>4. IsFiniteSet(Log) /\ Size = 0
  BY <1>3, FS_EmptySet, Zenon DEF Log, Size
<1>5. IndexInv
  <2>1. 0..(Size - 1) = {} /\ Size \in Nat
    BY <1>4
  <2>. QED
    BY <1>3, <1>4, <2>1, Zenon DEF IndexInv
<1>6. MemInv /\ SameCursors
  BY <1>2, Zenon DEF MemInv, SameCursors, Frontiers
<1>7. HolesPastMark /\ SameAcks
  BY <1>2, <1>3, Zenon DEF HolesPastMark, SameAcks
<1>. QED
  BY <1>1, <1>5, <1>6, <1>7, Zenon DEF BothInv

\* What the invariant says of the backends.
LEMMA BothInvAgree == BothInv => BackendsAgree
<1>. SUFFICES ASSUME BothInv
              PROVE  BackendsAgree
  BY Zenon
<1>0. CursorInv /\ IndexInv /\ stored \in BOOLEAN
  BY Zenon DEF BothInv, CursorInv, TypeOK
<1>1. stored = Mem!cursor_exists
  BY <1>0, Zenon DEF BothInv, SameCursors, Mem!cursor_exists, Mem!Absent
<1>2. ASSUME ~ apart
      PROVE  {Index(p) : p \in Acked} = Mem!Acked
  <2>0. SameAcks
    BY <1>2, Zenon DEF BothInv
  <2>1. Mem!Acked = {e \in 0..(Size - 1) : MemAcked(e)}
    BY MemAckedIs, Zenon DEF Mem!Acked, Mem!Entries, Size
  <2>2. ASSUME NEW p \in Acked
        PROVE  Index(p) \in Mem!Acked
    BY <1>0, <2>0, <2>1, <2>2, Zenon DEF Acked, SameAcks, IndexInv, Log
  <2>3. ASSUME NEW e \in Mem!Acked
        PROVE  \E p \in Acked : Index(p) = e
    <3>1. e \in 0..(Size - 1) /\ MemAcked(e)
      BY <2>1, <2>3, Zenon
    <3>2. PICK p \in Log : Index(p) = e
      BY <1>0, <3>1, Zenon DEF IndexInv
    <3>. QED
      BY <2>0, <3>1, <3>2, Zenon DEF Acked, SameAcks, Log
  <2>. QED
    BY <2>2, <2>3, Zenon
<1>. QED
  BY <1>1, <1>2, Zenon DEF BackendsAgree

\* The two backends of ManagedLedgerStorage always have the same cursors; and, until a
\* call that they answer differently, the same messages acknowledged, for every ledger
\* size, whatever mixes or interrupts the acks.
THEOREM BackendsAlwaysAgree == BothSpec => []BackendsAgree
<1>1. BothInit => BothInv
  BY BothInvInit, Zenon
<1>2. BothInv /\ [BothNext]_bothVars => BothInv'
  BY BothInvNext, Zenon
<1>3. BothInv => BackendsAgree
  BY BothInvAgree, Zenon
<1>. QED
  BY <1>1, <1>2, <1>3, PTL DEF BothSpec

----------------------------------------------------------------------------
(* The cursor in memory as a set of acknowledged positions. *)

\* The entries of the log in memory, a set of them as positions of its only ledger, and
\* the acknowledged ones.
Numbers == 0..(Size - 1)
At(S) == {<<0, e>> : e \in S}
MemSet == {e \in Numbers : MemAcked(e)}

\* AckLog orders positions as Backends does, and sees this log and these entries.
LEMMA MemView ==
    /\ Mem!Entries = Numbers /\ Mem!Acked = MemSet
    /\ \A p, q : (Mem!AL!Lt(p, q) <=> Lt(p, q)) /\ (Mem!AL!Leq(p, q) <=> Leq(p, q))
<1>1. Mem!Entries = Numbers
  BY Zenon DEF Mem!Entries, Numbers, Size
<1>2. Mem!Acked = MemSet
  BY <1>1, MemAckedIs, Zenon DEF Mem!Acked, MemSet
<1>3. \A p, q : (Mem!AL!Lt(p, q) <=> Lt(p, q)) /\ (Mem!AL!Leq(p, q) <=> Leq(p, q))
  BY Zenon DEF Mem!AL!Lt, Lt, Mem!AL!Leq, Leq
<1>. QED
  BY <1>1, <1>2, <1>3, Zenon

\* The same after a step.
LEMMA MemViewNext ==
    /\ Mem!Entries' = Numbers' /\ Mem!Acked' = MemSet'
    /\ \A e : e \in MemSet' <=> e \in Numbers' /\ Has(plain', marked', memHoles', e)
<1>1. Mem!Entries' = Numbers'
  BY Zenon DEF Mem!Entries, Numbers, Size
<1>2. (\A e : MemAcked(e)' <=> Mem!is_acknowledged_inner(e)') /\ (Numbers' = Numbers')
  BY Zenon DEF MemAcked, Has, Mem!is_acknowledged_inner, Mem!is_message_acknowledged, Mem!Absent
<1>3. Mem!Acked' = MemSet'
  BY <1>1, <1>2, Zenon DEF Mem!Acked, MemSet
<1>4. \A e : e \in MemSet' <=> e \in Numbers' /\ Has(plain', marked', memHoles', e)
  BY MemAckedNext, Zenon DEF MemSet
<1>. QED
  BY <1>1, <1>3, <1>4, Zenon

\* Positions of one ledger are in the order of their numbers.
LEMMA AtOrder ==
    ASSUME NEW d \in Int, NEW e \in Int
    PROVE  (Lt(<<0, d>>, <<0, e>>) <=> d < e) /\ (Leq(<<0, d>>, <<0, e>>) <=> d <= e)
BY DEF Lt, Leq

\* A position stands for its number.
LEMMA AtIn ==
    ASSUME NEW S, NEW p
    PROVE  /\ p \in At(S) <=> \E e \in S : p = <<0, e>>
           /\ \A e : <<0, e>> \in At(S) <=> e \in S
<1>1. \A d, e : <<0, d>> = <<0, e>> => d = e
  BY Zenon
<1>. QED
  BY <1>1, Zenon DEF At

\* Every position of S is before every other one of the log L.
LowerPart(S, L) == \A p \in S, q \in L \ S : Lt(p, q)

\* One position more.
LEMMA AtUnion ==
    ASSUME NEW S, NEW e
    PROVE  At(S \cup {e}) = At(S) \cup {<<0, e>>} /\ (<<0, e>> \in At(S) <=> e \in S)
<1>1. \A d : <<0, d>> = <<0, e>> => d = e
  BY Zenon
<1>2. <<0, e>> \in At(S) <=> e \in S
  BY <1>1, Zenon DEF At
<1>3. At(S \cup {e}) = At(S) \cup {<<0, e>>}
  BY Zenon DEF At
<1>. QED
  BY <1>2, <1>3, Zenon

\* A frontier stands for a prefix of the log.
LEMMA FrontierPrefix ==
    ASSUME NEW n \in Nat, NEW f \in Int
    PROVE  LowerPart(At({e \in 0..(n - 1) : e <= f}), At(0..(n - 1)))
<1>. SUFFICES ASSUME NEW S, S = {e \in 0..(n - 1) : e <= f},
                     NEW p \in At(S), NEW q \in At(0..(n - 1)) \ At(S)
              PROVE  Lt(p, q)
  BY Zenon DEF LowerPart
<1>1. PICK d \in S : p = <<0, d>>
  BY Zenon DEF At
<1>2. PICK e \in 0..(n - 1) : q = <<0, e>> /\ e \notin S
  BY Zenon DEF At
<1>3. d \in Int /\ e \in Int /\ d < e
  BY <1>1, <1>2
<1>. QED
  BY <1>1, <1>2, <1>3, AtOrder, Zenon

\* An append, in memory.
LEMMA MemAppendRefines ==
    ASSUME BothInv, BothAppend
    PROVE  Mem!AL!Append
<1>0. IndexInv /\ MemInv /\ Size \in Nat
  BY Zenon DEF BothInv, IndexInv
<1>1. UNCHANGED <<plain, marked, memHoles, resets>> /\ Size' = Size + 1
  BY Zenon DEF BothAppend, Mem!append_message, Size
<1>2. Numbers' = Numbers \cup {Size} /\ Size \notin Numbers /\ \A e \in Numbers : e < Size
  BY <1>0, <1>1 DEF Numbers
<1>3. ~ MemAcked(Size)
  <2>1. /\ plain \in Int /\ plain < Size /\ marked \in Int /\ marked < Size
        /\ memHoles \subseteq Numbers
    BY <1>0, MemFacts, Zenon DEF Numbers
  <2>2. ~ (Size <= marked) /\ ~ (Size <= plain)
    BY <1>0, <2>1
  <2>. QED
    BY <1>2, <2>1, <2>2, MemAckedIs, Zenon
<1>4. MemSet' = MemSet
  <2>1. \A e : MemAcked(e)' <=> MemAcked(e)
    BY <1>1, Zenon DEF MemAcked, Has
  <2>. QED
    BY <1>2, <1>3, <2>1, Zenon DEF MemSet
<1>5. PICK p : p = <<0, Size>>
  BY Zenon
<1>6. At(Numbers') = At(Numbers) \cup {p} /\ p \notin At(Numbers)
  BY <1>2, <1>5, AtUnion, Zenon
<1>7. ASSUME NEW q \in At(Numbers)
      PROVE  Lt(q, p)
  <2>1. PICK e \in Numbers : q = <<0, e>>
    BY AtIn, Zenon
  <2>2. e \in Int /\ Size \in Int
    BY <1>0, <2>1 DEF Numbers
  <2>. QED
    BY <1>2, <1>5, <2>1, <2>2, AtOrder, Zenon
<1>. QED
  BY <1>1, <1>4, <1>6, <1>7, MemView, MemViewNext, Zenon DEF Mem!AL!Append, At

\* Opening, seeking and deleting, in memory: the cursor becomes one frontier.
LEMMA MemFrontierRefines ==
    ASSUME BothInv, UNCHANGED ledgers, memHoles' = {}, NEW f \in Int,
           (plain' = f /\ marked' = -2) \/ (marked' = f /\ f # -2),
           resets' = resets + 1
    PROVE  Mem!AL!Reset
<1>0. IndexInv /\ Size \in Nat
  BY Zenon DEF BothInv, IndexInv
<1>1. Numbers' = Numbers
  BY Zenon DEF Numbers, Size
<1>2. PICK S : S = {e \in Numbers : e <= f}
  BY Zenon
<1>3. \A e : Has(plain', marked', memHoles', e) <=> e <= f
  BY Zenon DEF Has
<1>4. MemSet' = S
  BY <1>1, <1>2, <1>3, MemViewNext, Zenon
<1>5. At(S) \in SUBSET At(Numbers)
  BY <1>2, Zenon DEF At
<1>6. LowerPart(At(S), At(Numbers))
  BY <1>0, <1>2, FrontierPrefix, Zenon DEF Numbers
<1>7. Mem!AL!Prefix(At(S))
  BY <1>6, MemView, Zenon DEF Mem!AL!Prefix, At, LowerPart
<1>. QED
  BY <1>1, <1>4, <1>5, <1>7, MemView, MemViewNext, Zenon DEF Mem!AL!Reset, At

\* A cumulative ack, in memory: everything up to it, or nothing, or a forgetting step.
LEMMA MemCumulativeRefines ==
    ASSUME BothInv, NEW p \in Log, BothCumulative(p)
    PROVE  Mem!Forgets \/ Mem!AL!AckThrough \/ UNCHANGED <<Size, MemSet, resets>>
<1>0. IndexInv /\ MemInv /\ Size \in Nat
  BY Zenon DEF BothInv, IndexInv
<1>1. PICK e : e = Index(p)
  BY Zenon
<1>2. UNCHANGED <<ledgers, marked, memHoles, resets>> /\ plain' = e
  BY <1>1, Zenon DEF BothCumulative, ack_message, Mem!ack_message
<1>3. Numbers' = Numbers /\ Size' = Size
  BY <1>2, Zenon DEF Numbers, Size
<1>4. e \in Numbers /\ e \in Int
  <2>1. e \in Numbers
    BY <1>0, <1>1, Zenon DEF IndexInv, Numbers
  <2>. QED
    BY <2>1 DEF Numbers
<1>5. CASE marked # -2
  <2>1. \A x : MemAcked(x)' <=> MemAcked(x)
    BY <1>2, <1>5, Zenon DEF MemAcked, Has
  <2>. QED
    BY <1>2, <1>3, <2>1, Zenon DEF MemSet
<1>6. CASE marked = -2 /\ plain >= 0 /\ plain' < plain
  BY <1>2, <1>6, Zenon DEF Mem!Forgets, Mem!Absent
<1>7. CASE marked = -2 /\ ~ (plain >= 0 /\ plain' < plain)
  <2>1. plain \in Int
    BY <1>0, MemFacts, Zenon
  <2>2. MemSet = {x \in Numbers : x <= plain} /\ MemSet' = {x \in Numbers : x <= e}
    BY <1>2, <1>3, <1>7, Zenon DEF MemSet, MemAcked, Has
  <2>3. MemSet' = MemSet \cup {x \in Numbers : x <= e}
    <3>1. \A x \in Numbers : x <= plain => x <= e
      BY <1>0, <1>2, <1>4, <1>7, <2>1 DEF Numbers
    <3>. QED
      BY <2>2, <3>1, Zenon
  <2>4. LowerPart(At(MemSet), At(Numbers))
    BY <1>0, <2>1, <2>2, FrontierPrefix, Zenon DEF Numbers
  <2>5. Mem!AL!Prefix(At(MemSet))
    BY <2>4, MemView, Zenon DEF Mem!AL!Prefix, At, LowerPart
  <2>6. PICK c : c = <<0, e>>
    BY Zenon
  <2>7. c \in At(Numbers)
    BY <1>4, <2>6, AtIn, Zenon
  <2>8. \A q \in At(Numbers) : Leq(q, c) <=> \E x \in Numbers : q = <<0, x>> /\ x <= e
    <3>. SUFFICES ASSUME NEW q \in At(Numbers)
                  PROVE  Leq(q, c) <=> \E x \in Numbers : q = <<0, x>> /\ x <= e
      BY Zenon
    <3>1. PICK x \in Numbers : q = <<0, x>>
      BY AtIn, Zenon
    <3>2. x \in Int
      BY <1>0 DEF Numbers
    <3>3. Leq(q, c) <=> x <= e
      BY <1>4, <2>6, <3>1, <3>2, AtOrder, Zenon
    <3>4. \A y : q = <<0, y>> => y = x
      BY <3>1, Zenon
    <3>. QED
      BY <3>1, <3>3, <3>4, Zenon
  <2>9. At(MemSet') = At(MemSet) \cup {q \in At(Numbers) : Leq(q, c)}
    <3>1. ASSUME NEW q
          PROVE  q \in At(MemSet') <=> q \in At(MemSet) \/ (q \in At(Numbers) /\ Leq(q, c))
      <4>1. q \in At(MemSet') <=> \E x \in MemSet' : q = <<0, x>>
        BY Zenon DEF At
      <4>2. q \in At(MemSet) <=> \E x \in MemSet : q = <<0, x>>
        BY Zenon DEF At
      <4>3. q \in At(Numbers) <=> \E x \in Numbers : q = <<0, x>>
        BY Zenon DEF At
      <4>. QED
        BY <2>3, <2>8, <4>1, <4>2, <4>3, Zenon
    <3>. QED
      BY <3>1, Zenon
  <2>10. Mem!AL!AckThrough
    BY <1>2, <1>3, <2>5, <2>7, <2>9, MemView, MemViewNext, Zenon DEF Mem!AL!AckThrough, At
  <2>. QED
    BY <2>10, Zenon
<1>. QED
  BY <1>5, <1>6, <1>7, Zenon

\* An ack of a single message, in memory: that message, or a forgetting step.
LEMMA MemIndividualRefines ==
    ASSUME BothInv, NEW p \in Log, BothIndividual(p)
    PROVE  Mem!Forgets \/ Mem!AL!Ack
<1>0. IndexInv /\ MemInv /\ Size \in Nat
  BY Zenon DEF BothInv, IndexInv
<1>1. PICK e : e = Index(p)
  BY Zenon
<1>2. e \in 0..(Size - 1) /\ Mem!ack_message_shared(e)
  BY <1>0, <1>1, Zenon DEF IndexInv, BothIndividual
<1>3. /\ marked' \in (-1)..(Size - 1)
      /\ (marked = -2 => plain < 0) =>
            \A x \in 0..(Size - 1) : MemAcked(x)' <=> MemAcked(x) \/ x = e
  BY <1>0, <1>2, MemAcks, Zenon
<1>4. UNCHANGED <<ledgers, resets>>
  BY Zenon DEF BothIndividual, ack_message_shared, vars
<1>5. Numbers' = Numbers
  BY <1>4, Zenon DEF Numbers, Size
<1>6. plain \in Int /\ marked' # -2
  <2>1. plain \in Int
    BY <1>0, MemFacts, Zenon
  <2>. QED
    BY <1>0, <1>3, <2>1
<1>7. CASE marked = -2 /\ plain >= 0
  BY <1>4, <1>6, <1>7, Zenon DEF Mem!Forgets, Mem!Absent
<1>8. CASE ~ (marked = -2 /\ plain >= 0)
  <2>1. marked = -2 => plain < 0
    BY <1>6, <1>8
  <2>2. MemSet' = MemSet \cup {e}
    BY <1>2, <1>3, <1>5, <2>1, Zenon DEF MemSet, Numbers
  <2>3. At(MemSet') = At(MemSet) \cup {<<0, e>>} /\ <<0, e>> \in At(Numbers)
    BY <1>2, <2>2, AtUnion, AtIn, Zenon DEF Numbers
  <2>4. Mem!AL!Ack
    BY <1>4, <1>5, <2>3, MemView, MemViewNext, Zenon DEF Mem!AL!Ack, At
  <2>. QED
    BY <2>4, Zenon
<1>. QED
  BY <1>7, <1>8, Zenon

\* Every step of the two backends is, to the one in memory, a step of AckLog, or a step
\* on which it forgets, or none.
LEMMA MemRefines ==
    ASSUME BothInv, [BothNext]_bothVars
    PROVE  [Mem!Forgets \/ Mem!AL!Next]_<<Cardinality(Entries(ledgers)), Mem!Acked, resets>>
<1>0. CursorInv /\ IndexInv /\ MemInv /\ Size \in Nat
  BY Zenon DEF BothInv, IndexInv
<1>1. ASSUME UNCHANGED <<Size, MemSet, resets>>
      PROVE  UNCHANGED <<Cardinality(Entries(ledgers)), Mem!Acked, resets>>
  BY <1>1, MemView, MemViewNext, Zenon DEF Size
<1>2. ASSUME UNCHANGED <<ledgers, plain, marked, memHoles, resets>>
      PROVE  UNCHANGED <<Size, MemSet, resets>>
  BY <1>2, Zenon DEF Size, MemSet, Numbers, MemAcked, Has
<1>3. CASE UNCHANGED bothVars
  BY <1>1, <1>2, <1>3, Zenon DEF bothVars, vars, memory
<1>4. CASE RocksOnly
  BY <1>1, <1>2, <1>4, Zenon DEF RocksOnly, Fold, FoldDone, Interrupted, memory
<1>5. CASE BothAppend
  BY <1>5, MemAppendRefines, Zenon DEF Mem!AL!Next
<1>6. ASSUME NEW m, NEW f \in Int, Created(m), Mem!Create(f)
      PROVE  Mem!AL!Reset
  <2>1. UNCHANGED ledgers /\ memHoles' = {} /\ plain' = f /\ marked' = -2 /\ resets' = resets + 1
    BY <1>6, WithoutCursor, Zenon DEF Created, Mem!Create
  <2>. QED
    BY <2>1, MemFrontierRefines, Zenon
<1>7. CASE BothOpen
  <2>1. -1 \in Int /\ Size - 1 \in Int /\ \A p \in Log : Index(p) - 1 \in Int
    <3>1. \A p \in Log : Index(p) \in 0..(Size - 1)
      BY <1>0, Zenon DEF IndexInv
    <3>. QED
      BY <1>0, <3>1
  <2>2. Mem!AL!Reset
    <3>1. CASE OpenEarliest /\ Mem!ensure_exclusive_cursor
      BY <1>6, <2>1, <3>1, Zenon DEF OpenEarliest, Mem!ensure_exclusive_cursor, Mem!None
    <3>2. CASE OpenLatest /\ Mem!apply_latest_exclusive
      BY <1>6, <2>1, <3>2, Zenon DEF OpenLatest, Mem!apply_latest_exclusive, Size
    <3>3. ASSUME NEW p \in Log, OpenAt(p), Mem!apply_start_message_id_exclusive(Index(p))
          PROVE  Mem!AL!Reset
      BY <1>6, <2>1, <3>3, Zenon DEF OpenAt, Mem!apply_start_message_id_exclusive
    <3>. QED
      BY <1>7, <3>1, <3>2, <3>3, Zenon DEF BothOpen, Log
  <2>. QED
    BY <2>2, Zenon DEF Mem!AL!Next
<1>8. CASE BothMove
  <2>1. CASE delete_cursor /\ Mem!delete_cursor
    <3>1. /\ UNCHANGED ledgers /\ memHoles' = {} /\ plain' = -2 /\ marked' = -2
          /\ resets' = resets + 1 /\ -2 \in Int
      BY <2>1 DEF delete_cursor, Mem!delete_cursor, Mem!Absent
    <3>. QED
      BY <3>1, MemFrontierRefines, Zenon DEF Mem!AL!Next
  <2>2. ASSUME NEW p \in Log, seek_cursor(p), Mem!seek_cursor(Index(p))
        PROVE  Mem!AL!Reset
    <3>1. PICK f : f = Index(p) - 1
      BY Zenon
    <3>2. f \in Int /\ f # -2
      <4>1. Index(p) \in 0..(Size - 1)
        BY <1>0, Zenon DEF IndexInv
      <4>. QED
        BY <1>0, <3>1, <4>1
    <3>3. /\ UNCHANGED ledgers /\ memHoles' = {} /\ resets' = resets + 1
          /\ (plain' = f /\ marked' = -2) \/ (marked' = f /\ f # -2)
      BY <2>2, <3>1, <3>2, Zenon DEF seek_cursor, Mem!seek_cursor, Mem!Absent
    <3>. QED
      BY <3>2, <3>3, MemFrontierRefines, Zenon
  <2>. QED
    BY <1>8, <2>1, <2>2, Zenon DEF BothMove, Log, Mem!AL!Next
<1>9. ASSUME NEW p \in Log, BothCumulative(p)
      PROVE  [Mem!Forgets \/ Mem!AL!Next]_<<Cardinality(Entries(ledgers)), Mem!Acked, resets>>
  BY <1>1, <1>9, MemCumulativeRefines, Zenon DEF Mem!AL!Next
<1>10. ASSUME NEW p \in Log, BothIndividual(p)
       PROVE  [Mem!Forgets \/ Mem!AL!Next]_<<Cardinality(Entries(ledgers)), Mem!Acked, resets>>
  BY <1>10, MemIndividualRefines, Zenon DEF Mem!AL!Next
<1>. QED
  BY <1>3, <1>4, <1>5, <1>7, <1>8, <1>9, <1>10, Zenon DEF BothNext, Log

\* The cursor in memory starts as AckLog does.
LEMMA MemInitRefines == BothInit => Mem!AL!Init
<1>. SUFFICES ASSUME BothInit
              PROVE  Mem!AL!Init
  BY Zenon
<1>1. Log = {} /\ resets = 0
  <2>1. ledgers = <<0>> /\ resets = 0
    BY Zenon DEF BothInit, Init
  <2>. QED
    BY <2>1 DEF Log, Entries
<1>2. Size = 0
  BY <1>1, FS_EmptySet, Zenon DEF Size, Log
<1>3. Numbers = {}
  BY <1>2 DEF Numbers
<1>4. MemSet = {}
  BY <1>3, Zenon DEF MemSet
<1>. QED
  BY <1>1, <1>3, <1>4, MemView, Zenon DEF Mem!AL!Init

\* The cursor in memory is a set of acknowledged positions: each ack adds its entry, or
\* everything up to it, only opening, seeking and deleting replace the set, by a prefix
\* of the log, and no entry is born acknowledged; except on the two kinds of steps
\* Forgets names.
THEOREM MemoryIsAckLog == BothSpec => MemoryAckLog
<1>1. BothInit => BothInv /\ Mem!AL!Init
  BY BothInvInit, MemInitRefines, Zenon
<1>2. BothInv /\ [BothNext]_bothVars => BothInv'
  BY BothInvNext, Zenon
<1>3. BothInv /\ [BothNext]_bothVars =>
        [Mem!Forgets \/ Mem!AL!Next]_<<Cardinality(Entries(ledgers)), Mem!Acked, resets>>
  BY MemRefines, Zenon
<1>. QED
  BY <1>1, <1>2, <1>3, PTL DEF BothSpec, MemoryAckLog, Mem!AckLogUnlessForgets

----------------------------------------------------------------------------
(* The backlog in memory. *)

\* Past a frontier f there are Size - f - 1 entries.
LEMMA PastFrontier ==
    ASSUME IndexInv, NEW f \in Int, f >= -1, f < Size, NEW S, S \subseteq (f + 1)..(Size - 1)
    PROVE  /\ Cardinality(S) <= Size - f - 1 /\ Cardinality(S) \in Nat
           /\ Cardinality((f + 1)..(Size - 1)) = Size - f - 1
<1>0. Size \in Nat
  BY Zenon DEF IndexInv
<1>1. f + 1 \in Int /\ Size - 1 \in Int
  BY <1>0
<1>2. PICK T : T = (f + 1)..(Size - 1)
  BY Zenon
<1>3. IsFiniteSet(T) /\ Cardinality(T) = IF f + 1 > Size - 1 THEN 0 ELSE (Size - 1) - (f + 1) + 1
  BY <1>1, <1>2, FS_Interval, Zenon
<1>4. Cardinality(T) = Size - f - 1
  BY <1>0, <1>3
<1>5. IsFiniteSet(S) /\ Cardinality(S) <= Cardinality(T)
  BY <1>2, <1>3, FS_Subset, Zenon
<1>6. Cardinality(S) \in Nat
  BY <1>5, FS_CardinalityType, Zenon
<1>. QED
  BY <1>2, <1>4, <1>5, <1>6, Zenon

\* What is reported in memory, from the invariant.
LEMMA BacklogInMemory == BothInv => Mem!BacklogNeverShort
<1>. SUFFICES ASSUME BothInv
              PROVE  Mem!BacklogNeverShort
  BY Zenon
<1>0. IndexInv /\ MemInv
  BY Zenon DEF BothInv
<1>1. /\ Size \in Nat /\ plain \in Int /\ plain >= -2 /\ plain < Size
      /\ marked \in Int /\ marked >= -2 /\ marked < Size
      /\ memHoles \subseteq 0..(Size - 1) /\ (marked = -2 => memHoles = {})
  BY <1>0, MemFacts, Zenon
<1>2. PICK f : f = IF marked # -2 THEN marked ELSE IF plain # -2 THEN plain ELSE -1
  BY Zenon
<1>3. f \in Int /\ f >= -1 /\ f < Size
  BY <1>1, <1>2
<1>4. PICK b : b = Mem!backlog_entries
  BY Zenon
<1>5. b = Size - f - 1
  <2>1. b = Mem!SaturatingSub(Size, IF marked # -2 THEN marked + 1
                                    ELSE IF plain # -2 THEN plain + 1 ELSE 0)
    BY <1>4, Zenon DEF Mem!backlog_entries, Mem!Absent, Size
  <2>2. b = Mem!SaturatingSub(Size, f + 1)
    BY <1>1, <1>2, <2>1
  <2>. QED
    BY <1>1, <1>3, <2>2 DEF Mem!SaturatingSub
<1>6. PICK S : S = Numbers \ MemSet
  BY Zenon
<1>7. ASSUME NEW e \in Numbers
      PROVE  /\ e <= f => MemAcked(e)
             /\ memHoles = {} /\ MemAcked(e) => e <= f
  <2>1. CASE marked # -2
    BY <1>2, <2>1, MemAckedIs, Zenon
  <2>2. CASE marked = -2
    <3>1. e \in Nat
      BY <1>1 DEF Numbers
    <3>2. e <= f <=> e <= plain
      BY <1>1, <1>2, <2>2, <3>1
    <3>. QED
      BY <2>2, <3>2, MemAckedIs, Zenon
  <2>. QED
    BY <2>1, <2>2, Zenon
<1>8. \A e \in Numbers : ~ (e <= f) => e \in (f + 1)..(Size - 1)
  BY <1>1, <1>3 DEF Numbers
<1>9. \A e \in (f + 1)..(Size - 1) : e \in Numbers /\ ~ (e <= f)
  BY <1>1, <1>3 DEF Numbers
<1>10. S \subseteq (f + 1)..(Size - 1)
  BY <1>6, <1>7, <1>8, Zenon DEF MemSet
<1>11. memHoles = {} => S = (f + 1)..(Size - 1)
  BY <1>6, <1>7, <1>9, <1>10, Zenon DEF MemSet
<1>12. PICK c : c = Cardinality(S)
  BY Zenon
<1>13. c \in Nat /\ c <= Size - f - 1 /\ (memHoles = {} => c = Size - f - 1)
  BY <1>0, <1>3, <1>10, <1>11, <1>12, PastFrontier, Zenon
<1>14. b >= c /\ (memHoles = {} => b = c)
  BY <1>1, <1>3, <1>5, <1>13, Zenon
<1>15. Cardinality(Mem!Entries \ Mem!Acked) = c
  BY <1>6, <1>12, MemView, Zenon
<1>16. \A T : Mem!Cardinality(T) = Cardinality(T)
  BY Zenon DEF Mem!Cardinality, Cardinality
<1>. QED
  BY <1>4, <1>14, <1>15, <1>16, Zenon DEF Mem!BacklogNeverShort

\* What the backends report of the log: the position at which RocksDB starts a dispatcher
\* is always the first entry that is not acknowledged, and the backlog reported in memory
\* is never short of the entries still to be acknowledged, and exact without holes.
THEOREM ReportsNeverShort == BothSpec => [](FirstUnackedExact /\ Mem!BacklogNeverShort)
<1>1. BothInit => BothInv
  BY BothInvInit, Zenon
<1>2. BothInv /\ [BothNext]_bothVars => BothInv'
  BY BothInvNext, Zenon
<1>3. BothInv => FirstUnackedExact /\ Mem!BacklogNeverShort
  BY BacklogInMemory, ScanMissesNone, Zenon DEF BothInv
<1>. QED
  BY <1>1, <1>2, <1>3, PTL DEF BothSpec

=============================================================================
