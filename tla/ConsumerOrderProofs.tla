------------------------ MODULE ConsumerOrderProofs ------------------------
(***************************************************************************)
(* Proofs about the choice of the next consumer (ConsumerOrder): whatever   *)
(* consumers join and leave, and whatever permits they send, the best level *)
(* that has permits is served and its consumers take turns.                 *)
(***************************************************************************)
EXTENDS ConsumerOrder, WellFoundedInduction, TLAPS

Typed == /\ order \in Seq(Consumers) /\ rr \in Nat
         /\ permits \in [Consumers -> Nat]
         /\ passed \in [Consumers -> SUBSET Consumers]

\* The index is the one of a consumer, as far as there is one.
InTurn == rr < Len(order) \/ (rr = 0 /\ Len(order) = 0)

\* Better levels come first, and nobody comes twice.
Sorted == \A i, j \in Indices : i < j => Level(i) <= Level(j) /\ At(i) # At(j)

\* From the index rr and around, i comes before j.
Earlier(r, i, j) == IF i >= r <=> j >= r THEN i < j ELSE i >= r

\* Who was passed over comes before whoever was picked meanwhile.
PassedInv == /\ \A d \in Consumers : passed[d] \subseteq Connected
             /\ \A d \in Consumers : d \notin Connected => passed[d] = {}
             /\ \A i, j \in Indices : At(i) \in passed[At(j)] => Earlier(rr, j, i)

\* The inductive invariant.
OrderInv == Typed /\ InTurn /\ Sorted /\ PassedInv

----------------------------------------------------------------------------
(* Sequences and sets. *)

\* A non-empty set of indices has a first one.
LEMMA FirstExists ==
    ASSUME NEW S, S \subseteq Nat, S # {}
    PROVE  First(S) # {}
<1>. DEFINE R == OpToRel(<, Nat)
<1>1. \A x, y \in Nat : y < x => <<y, x>> \in R
  BY Zenon DEF OpToRel
<1>2. IsWellFoundedOn(R, Nat)
  BY NatLessThanWellFounded, Zenon
<1>. HIDE DEF R
<1>3. PICK x \in S : \A y \in S : ~ (<<y, x>> \in R)
  BY <1>2, WFMin, Zenon
<1>4. \A y \in S : ~ (y < x)
  BY <1>1, <1>3, Zenon
<1>5. \A y \in S : x <= y
  BY <1>4
<1>. QED
  BY <1>5, Zenon DEF First

\* The index that consumer_order.insert is given.
LEMMA MinOf ==
    ASSUME NEW S, S \subseteq Nat, S # {}
    PROVE  Min(S) \in S /\ \A x \in S : Min(S) <= x
<1>1. PICK x : x \in First(S)
  BY FirstExists, Zenon
<1>2. x \in S /\ \A y \in S : x <= y
  BY <1>1, Zenon DEF First
<1>. QED
  BY <1>2, Zenon DEF Min

\* What follows the first n elements.
LEMMA Dropped ==
    ASSUME NEW C, NEW s \in Seq(C), NEW n \in 0..Len(s)
    PROVE  /\ SubSeq(s, n + 1, Len(s)) \in Seq(C)
           /\ Len(SubSeq(s, n + 1, Len(s))) = Len(s) - n
           /\ \A i \in 1..(Len(s) - n) : SubSeq(s, n + 1, Len(s))[i] = s[n + i]
<1>1. SubSeq(s, n + 1, Len(s)) \in Seq(C)
  OBVIOUS
<1>2. Len(SubSeq(s, n + 1, Len(s))) = Len(s) - n
  OBVIOUS
<1>3. \A i \in 1..(Len(s) - n) : SubSeq(s, n + 1, Len(s))[i] = s[n + i]
  OBVIOUS
<1>. QED
  BY <1>1, <1>2, <1>3

\* One sequence after the other.
LEMMA Joined ==
    ASSUME NEW C, NEW s \in Seq(C), NEW u \in Seq(C)
    PROVE  /\ s \o u \in Seq(C) /\ Len(s \o u) = Len(s) + Len(u)
           /\ \A i \in 1..Len(s) : (s \o u)[i] = s[i]
           /\ \A i \in 1..Len(u) : (s \o u)[Len(s) + i] = u[i]
<1>1. s \o u \in Seq(C)
  OBVIOUS
<1>2. Len(s \o u) = Len(s) + Len(u)
  OBVIOUS
<1>3. \A i \in 1..Len(s) : (s \o u)[i] = s[i]
  OBVIOUS
<1>4. \A i \in 1..Len(u) : (s \o u)[Len(s) + i] = u[i]
  OBVIOUS
<1>. QED
  BY <1>1, <1>2, <1>3, <1>4

\* An index of the order is not changed by taking it around.
LEMMA Around ==
    ASSUME NEW i \in Nat, NEW n \in Nat, i < n
    PROVE  i % n = i
OBVIOUS

\* t is s with c put in at index x.
InsertedAt(C, s, x, c, t) ==
    /\ t \in Seq(C) /\ Len(t) = Len(s) + 1 /\ t[x + 1] = c
    /\ \A i \in 0..(Len(s) - 1) : t[(IF i < x THEN i ELSE i + 1) + 1] = s[i + 1]

\* What consumer_order.insert does.
LEMMA Inserted ==
    ASSUME NEW C, NEW s \in Seq(C), NEW x \in 0..Len(s), NEW c \in C
    PROVE  InsertedAt(C, s, x, c, InsertAt(s, x + 1, c))
<1>. SUFFICES ASSUME NEW t, t = InsertAt(s, x + 1, c)
              PROVE  InsertedAt(C, s, x, c, t)
  BY Zenon
<1>0. PICK u, v : u = SubSeq(s, 1, x) /\ v = SubSeq(s, x + 1, Len(s))
  BY Zenon
<1>1. Len(s) \in Nat /\ x \in Nat /\ x <= Len(s)
  OBVIOUS
<1>2. u \in Seq(C) /\ Len(u) = x /\ \A i \in 1..x : u[i] = s[i]
  BY <1>0, <1>1
<1>3. v \in Seq(C) /\ Len(v) = Len(s) - x /\ \A i \in 1..(Len(s) - x) : v[i] = s[x + i]
  BY <1>0, Dropped, Zenon
<1>4. t = (u \o <<c>>) \o v
  <2>1. (x + 1) - 1 = x
    BY <1>1
  <2>. QED
    BY <1>0, <2>1, Zenon DEF InsertAt
<1>5. PICK w : w = u \o <<c>>
  BY Zenon
<1>6. w \in Seq(C) /\ Len(w) = x + 1 /\ w[x + 1] = c /\ \A i \in 1..x : w[i] = s[i]
  BY <1>1, <1>2, <1>5
<1>7. /\ t \in Seq(C) /\ Len(t) = Len(s) + 1
      /\ \A i \in 1..(x + 1) : t[i] = w[i]
      /\ \A i \in 1..(Len(s) - x) : t[x + 1 + i] = s[x + i]
  <2>1. w \in Seq(C) /\ v \in Seq(C)
    BY <1>3, <1>4, <1>5, <1>6, Zenon
  <2>2. /\ w \o v \in Seq(C) /\ Len(w \o v) = Len(w) + Len(v)
        /\ \A i \in 1..Len(w) : (w \o v)[i] = w[i]
        /\ \A i \in 1..Len(v) : (w \o v)[Len(w) + i] = v[i]
    BY <2>1, Joined
  <2>3. t = w \o v
    BY <1>4, <1>5, Zenon
  <2>4. Len(t) = Len(s) + 1
    <3>1. Len(w) = x + 1 /\ Len(v) = Len(s) - x /\ Len(t) = Len(w) + Len(v)
      BY <1>3, <1>6, <2>2, <2>3, Zenon
    <3>. QED
      BY <1>1, <3>1
  <2>. QED
    BY <1>3, <1>6, <2>2, <2>3, <2>4, Zenon
<1>8. t[x + 1] = c
  BY <1>1, <1>6, <1>7
<1>9. ASSUME NEW i \in 0..(Len(s) - 1), i < x
      PROVE  t[i + 1] = s[i + 1]
  BY <1>1, <1>6, <1>7, <1>9
<1>10. ASSUME NEW i \in 0..(Len(s) - 1), ~ (i < x)
       PROVE  t[i + 1 + 1] = s[i + 1]
  <2>1. PICK k : k = i + 1 - x
    OBVIOUS
  <2>2. k \in 1..(Len(s) - x) /\ x + 1 + k = i + 1 + 1 /\ x + k = i + 1
    BY <1>1, <1>10, <2>1
  <2>. QED
    BY <1>7, <2>2, Zenon
<1>. QED
  BY <1>7, <1>8, <1>9, <1>10 DEF InsertedAt

\* t is s without what is at index x.
RemovedAt(C, s, x, t) ==
    /\ t \in Seq(C) /\ Len(t) = Len(s) - 1
    /\ \A i \in 0..(Len(s) - 2) : t[i + 1] = s[(IF i < x THEN i ELSE i + 1) + 1]

\* What consumer_order.remove does.
LEMMA Removed ==
    ASSUME NEW C, NEW s \in Seq(C), NEW x \in 0..(Len(s) - 1)
    PROVE  RemovedAt(C, s, x, RemoveAt(s, x + 1))
<1>. SUFFICES ASSUME NEW t, t = RemoveAt(s, x + 1)
              PROVE  RemovedAt(C, s, x, t)
  BY Zenon
<1>0. PICK u, v : u = SubSeq(s, 1, x) /\ v = SubSeq(s, (x + 1) + 1, Len(s))
  BY Zenon
<1>1. Len(s) \in Nat /\ x \in Nat /\ x < Len(s)
  OBVIOUS
<1>2. u \in Seq(C) /\ Len(u) = x /\ \A i \in 1..x : u[i] = s[i]
  BY <1>0, <1>1
<1>3. /\ v \in Seq(C) /\ Len(v) = Len(s) - (x + 1)
      /\ \A i \in 1..(Len(s) - (x + 1)) : v[i] = s[x + 1 + i]
  <2>1. x + 1 \in 0..Len(s)
    BY <1>1
  <2>. QED
    BY <1>0, <2>1, Dropped, Zenon
<1>4. t = u \o v
  <2>1. (x + 1) - 1 = x
    BY <1>1
  <2>. QED
    BY <1>0, <2>1, Zenon DEF RemoveAt
<1>5. /\ t \in Seq(C) /\ Len(t) = Len(s) - 1
      /\ \A i \in 1..x : t[i] = s[i]
      /\ \A i \in 1..(Len(s) - (x + 1)) : t[x + i] = s[x + 1 + i]
  <2>1. u \in Seq(C) /\ v \in Seq(C)
    BY <1>2, <1>3, <1>4, Zenon
  <2>2. /\ u \o v \in Seq(C) /\ Len(u \o v) = Len(u) + Len(v)
        /\ \A i \in 1..Len(u) : (u \o v)[i] = u[i]
        /\ \A i \in 1..Len(v) : (u \o v)[Len(u) + i] = v[i]
    BY <2>1, Joined
  <2>3. t = u \o v
    BY <1>4, Zenon
  <2>4. Len(t) = Len(s) - 1
    <3>1. Len(u) = x /\ Len(v) = Len(s) - (x + 1) /\ Len(t) = Len(u) + Len(v)
      BY <1>2, <1>3, <2>2, <2>3, Zenon
    <3>. QED
      BY <1>1, <3>1
  <2>. QED
    BY <1>2, <1>3, <2>2, <2>3, <2>4, Zenon
<1>6. ASSUME NEW i \in 0..(Len(s) - 2), i < x
      PROVE  t[i + 1] = s[i + 1]
  BY <1>1, <1>5, <1>6
<1>7. ASSUME NEW i \in 0..(Len(s) - 2), ~ (i < x)
      PROVE  t[i + 1] = s[i + 1 + 1]
  <2>1. PICK k : k = i + 1 - x
    OBVIOUS
  <2>2. k \in 1..(Len(s) - (x + 1)) /\ x + k = i + 1 /\ x + 1 + k = i + 1 + 1
    BY <1>1, <1>7, <2>1
  <2>. QED
    BY <1>5, <2>2, Zenon
<1>. QED
  BY <1>5, <1>6, <1>7 DEF RemovedAt

----------------------------------------------------------------------------
(* The choice. *)

\* What the provers need of the order at every step.
LEMMA Ranks ==
    ASSUME Typed
    PROVE  /\ Len(order) \in Nat /\ Indices \subseteq Nat
           /\ \A i \in Indices : At(i) \in Consumers /\ Level(i) \in Nat /\ permits[At(i)] \in Nat
<1>1. Len(order) \in Nat
  BY DEF Typed
<1>2. \A i \in Indices : i \in Nat /\ i + 1 \in 1..Len(order)
  BY <1>1 DEF Indices
<1>3. \A i \in Indices : At(i) \in Consumers
  BY <1>2 DEF Typed, At
<1>. QED
  BY <1>1, <1>2, <1>3, PriorityAssumption, Zenon DEF Level, Typed

\* i is what the rules allow to be picked: nobody available is on a better level, and
\* nobody available on the same level comes earlier.
Fair(i) ==
    /\ i \in Indices /\ Available(i)
    /\ \A j \in Indices : Available(j) =>
          Level(i) <= Level(j) /\ (Level(i) = Level(j) => i = j \/ Earlier(rr, i, j))

\* The four scans of get_next_available_consumer, one after the other.
LEMMA Choice ==
    ASSUME Typed, InTurn, Sorted
    PROVE  /\ \A i \in NextIndex : Fair(i)
           /\ (\E i \in Indices : Available(i)) => NextIndex # {}
<1>1. /\ Len(order) \in Nat /\ Indices \subseteq Nat /\ rr \in Nat
      /\ \A i \in Indices : At(i) \in Consumers /\ Level(i) \in Nat
  BY Ranks, Zenon DEF Typed
<1>2. CASE order = <<>>
  BY <1>1, <1>2 DEF NextIndex, Indices
<1>3. CASE order # <<>>
  <2>1. Len(order) # 0
    BY <1>3 DEF Typed
  <2>2. rr \in Indices /\ rr % Len(order) = rr
    <3>1. rr < Len(order) /\ rr \in Nat
      BY <1>1, <2>1 DEF InTurn
    <3>. QED
      BY <1>1, <3>1, Around DEF Indices
  <2>3. PICK higher : higher = IF Level(rr) # 0 THEN Higher(rr) ELSE {}
    BY Zenon
  <2>4. higher = Higher(rr)
    <3>1. Level(rr) = 0 => Higher(rr) = {}
      <4>1. \A i \in Indices : Level(i) \in Nat
        BY <1>1, Zenon
      <4>2. Level(rr) = 0 => \A i \in Indices : ~ (Level(i) < Level(rr))
        BY <4>1
      <4>. QED
        BY <4>2, Zenon DEF Higher
    <3>. QED
      BY <2>3, <3>1
  <2>5. NextIndex = IF Higher(rr) # {} THEN First(Higher(rr))
                    ELSE IF SameAfter(rr) # {} THEN First(SameAfter(rr))
                    ELSE IF SameBefore(rr) # {} THEN First(SameBefore(rr))
                    ELSE First(Past(rr))
    BY <1>3, <2>2, <2>3, <2>4, Zenon DEF NextIndex
  <2>6. \A i, j \in Indices : i <= j => Level(i) <= Level(j)
    BY <1>1 DEF Sorted
  <2>7. /\ Higher(rr) \subseteq Nat /\ SameAfter(rr) \subseteq Nat
        /\ SameBefore(rr) \subseteq Nat /\ Past(rr) \subseteq Nat
    BY <1>1, Zenon DEF Higher, SameAfter, SameBefore, Past
  <2>8. CASE Higher(rr) # {}
    <3>1. NextIndex = First(Higher(rr))
      BY <2>5, <2>8, Zenon
    <3>2. ASSUME NEW i \in First(Higher(rr))
          PROVE  Fair(i)
      <4>1. /\ i \in Indices /\ i < rr /\ Level(i) < Level(rr) /\ Available(i)
            /\ \A j \in Higher(rr) : i <= j
        BY Zenon DEF First, Higher
      <4>2. ASSUME NEW j \in Indices, Available(j), j < i
            PROVE  FALSE
        <5>1. Level(j) <= Level(i) /\ i \in Nat /\ j \in Nat
          BY <1>1, <2>6, <4>1, <4>2
        <5>2. j < rr /\ Level(j) < Level(rr)
          BY <1>1, <2>2, <4>1, <4>2, <5>1
        <5>3. j \in Higher(rr)
          BY <4>2, <5>2, Zenon DEF Higher
        <5>. QED
          BY <4>1, <4>2, <5>1, <5>3
      <4>3. ASSUME NEW j \in Indices, Available(j)
            PROVE  i <= j /\ Level(i) <= Level(j) /\ (i = j \/ Earlier(rr, i, j) \/ Level(i) # Level(j))
        <5>1. i \in Nat /\ j \in Nat /\ i <= j
          BY <1>1, <4>1, <4>2, <4>3
        <5>2. Level(i) <= Level(j)
          BY <2>6, <4>1, <5>1
        <5>3. Level(i) = Level(j) => j < rr
          BY <1>1, <2>2, <2>6, <4>1, <5>1
        <5>. QED
          BY <1>1, <4>1, <5>1, <5>2, <5>3 DEF Earlier
      <4>. QED
        BY <4>1, <4>3, Zenon DEF Fair
    <3>. QED
      BY <2>7, <2>8, <3>1, <3>2, FirstExists, Zenon
  <2>9. CASE Higher(rr) = {}
    \* Nobody available is on a better level than the consumer at the index.
    <3>1. \A j \in Indices : Available(j) => Level(rr) <= Level(j)
      <4>. SUFFICES ASSUME NEW j \in Indices, Available(j), ~ (Level(rr) <= Level(j))
                    PROVE  FALSE
        OBVIOUS
      <4>1. Level(j) < Level(rr) /\ j < rr
        BY <1>1, <2>2, <2>6
      <4>. QED
        BY <2>9, <4>1, Zenon DEF Higher
    <3>2. CASE SameAfter(rr) # {}
      <4>1. NextIndex = First(SameAfter(rr))
        BY <2>5, <2>9, <3>2, Zenon
      <4>2. ASSUME NEW i \in First(SameAfter(rr))
            PROVE  Fair(i)
        <5>1. /\ i \in Indices /\ i >= rr /\ Level(i) = Level(rr) /\ Available(i)
              /\ \A j \in SameAfter(rr) : i <= j
          BY Zenon DEF First, SameAfter
        <5>2. ASSUME NEW j \in Indices, Available(j)
              PROVE  Level(i) <= Level(j) /\ (i = j \/ Earlier(rr, i, j) \/ Level(i) # Level(j))
          <6>1. Level(i) <= Level(j)
            BY <3>1, <5>1, <5>2
          <6>2. j >= rr /\ Level(i) = Level(j) => i <= j
            BY <5>1, <5>2, Zenon DEF SameAfter
          <6>. QED
            BY <1>1, <5>1, <6>1, <6>2 DEF Earlier
        <5>. QED
          BY <5>1, <5>2, Zenon DEF Fair
      <4>. QED
        BY <2>7, <3>2, <4>1, <4>2, FirstExists, Zenon
    <3>3. CASE SameAfter(rr) = {} /\ SameBefore(rr) # {}
      <4>1. NextIndex = First(SameBefore(rr))
        BY <2>5, <2>9, <3>3, Zenon
      <4>2. ASSUME NEW i \in First(SameBefore(rr))
            PROVE  Fair(i)
        <5>1. /\ i \in Indices /\ i < rr /\ Level(i) = Level(rr) /\ Available(i)
              /\ \A j \in SameBefore(rr) : i <= j
          BY Zenon DEF First, SameBefore
        <5>2. ASSUME NEW j \in Indices, Available(j)
              PROVE  Level(i) <= Level(j) /\ (i = j \/ Earlier(rr, i, j) \/ Level(i) # Level(j))
          <6>1. Level(i) <= Level(j)
            BY <3>1, <5>1, <5>2
          <6>2. ~ (j >= rr /\ Level(i) = Level(j))
            BY <3>3, <5>1, <5>2, Zenon DEF SameAfter
          <6>3. j < rr /\ Level(i) = Level(j) => i <= j
            BY <5>1, <5>2, Zenon DEF SameBefore
          <6>. QED
            BY <1>1, <5>1, <6>1, <6>2, <6>3 DEF Earlier
        <5>. QED
          BY <5>1, <5>2, Zenon DEF Fair
      <4>. QED
        BY <2>7, <3>3, <4>1, <4>2, FirstExists, Zenon
    <3>4. CASE SameAfter(rr) = {} /\ SameBefore(rr) = {}
      <4>1. NextIndex = First(Past(rr))
        BY <2>5, <2>9, <3>4, Zenon
      <4>2. \A j \in Indices : Available(j) => j \in Past(rr)
        <5>. SUFFICES ASSUME NEW j \in Indices, Available(j)
                      PROVE  j \in Past(rr)
          OBVIOUS
        <5>1. ~ (j >= rr /\ Level(j) = Level(rr)) /\ ~ (j < rr /\ Level(j) = Level(rr))
          BY <3>4, Zenon DEF SameAfter, SameBefore
        <5>2. j > rr /\ Level(j) # Level(rr)
          BY <1>1, <2>2, <2>6, <3>1, <5>1
        <5>. QED
          BY <5>2, Zenon DEF Past
      <4>3. ASSUME NEW i \in First(Past(rr))
            PROVE  Fair(i)
        <5>1. /\ i \in Indices /\ i > rr /\ Available(i)
              /\ \A j \in Past(rr) : i <= j /\ j > rr
          BY Zenon DEF First, Past
        <5>2. ASSUME NEW j \in Indices, Available(j)
              PROVE  Level(i) <= Level(j) /\ (i = j \/ Earlier(rr, i, j))
          <6>1. i <= j /\ j > rr
            BY <4>2, <5>1, <5>2
          <6>. QED
            BY <1>1, <2>6, <5>1, <6>1 DEF Earlier
        <5>. QED
          BY <5>1, <5>2, Zenon DEF Fair
      <4>. QED
        BY <2>7, <4>1, <4>2, <4>3, FirstExists, Zenon
    <3>. QED
      BY <3>2, <3>3, <3>4, Zenon
  <2>. QED
    BY <2>8, <2>9, Zenon
<1>. QED
  BY <1>2, <1>3, Zenon

----------------------------------------------------------------------------
(* The actions. *)

\* A dispatcher without consumers.
LEMMA InitKeeps == Init => OrderInv
<1>. SUFFICES ASSUME Init
              PROVE  OrderInv
  OBVIOUS
<1>1. order = <<>> /\ Len(order) = 0 /\ rr = 0 /\ Indices = {}
  BY DEF Init, Indices
<1>2. Typed
  BY <1>1 DEF Init, Typed
<1>3. PassedInv
  BY <1>1, Zenon DEF Init, PassedInv
<1>. QED
  BY <1>1, <1>2, <1>3 DEF OrderInv, InTurn, Sorted

\* add_consumer: before the first consumer of a worse level, after all others.
LEMMA AddKeeps ==
    ASSUME OrderInv, NEW c \in Consumers, add_consumer(c)
    PROVE  OrderInv'
<1>1. /\ Len(order) \in Nat /\ Indices \subseteq Nat
      /\ \A i \in Indices : At(i) \in Consumers /\ Level(i) \in Nat
      /\ Priority[c] \in Nat
  BY Ranks, PriorityAssumption, Zenon DEF OrderInv
<1>2. PICK x : x = InsertIndex(c)
  BY Zenon
<1>3. /\ x \in 0..Len(order)
      /\ \A i \in Indices : i < x => Level(i) <= Priority[c]
      /\ \A i \in Indices : i >= x => Level(i) > Priority[c]
  <2>1. PICK later : later = {i \in Indices : Level(i) > Priority[c]}
    BY Zenon
  <2>2. x = IF later = {} THEN Len(order) ELSE Min(later)
    BY <1>2, <2>1, Zenon DEF InsertIndex
  <2>3. CASE later = {}
    <3>1. \A i \in Indices : ~ (Level(i) > Priority[c])
      BY <2>1, <2>3, Zenon
    <3>2. x = Len(order)
      BY <2>2, <2>3, Zenon
    <3>. QED
      BY <1>1, <3>1, <3>2 DEF Indices
  <2>4. CASE later # {}
    <3>1. later \subseteq Nat
      BY <1>1, <2>1, Zenon
    <3>2. x \in later /\ \A y \in later : x <= y
      BY <2>2, <2>4, <3>1, MinOf, Zenon
    <3>3. x \in Indices /\ Level(x) > Priority[c]
      BY <2>1, <3>2, Zenon
    <3>4. \A i \in Indices : Level(i) > Priority[c] => x <= i
      BY <2>1, <3>2, Zenon
    <3>5. \A i \in Indices : i >= x => Level(i) >= Level(x)
      BY <1>1, <3>3 DEF OrderInv, Sorted
    <3>6. x \in 0..Len(order)
      BY <1>1, <3>3 DEF Indices
    <3>7. \A i \in Indices : i < x => Level(i) <= Priority[c]
      BY <1>1, <3>3, <3>4
    <3>. QED
      BY <1>1, <3>3, <3>5, <3>6, <3>7
  <2>. QED
    BY <2>3, <2>4, Zenon
<1>4. /\ c \notin Connected /\ order' = InsertAt(order, x + 1, c) /\ rr' = rr
      /\ permits' = [permits EXCEPT ![c] = 0] /\ passed' = [d \in Consumers |-> {}]
  BY <1>2, Zenon DEF add_consumer
<1>5. /\ order' \in Seq(Consumers) /\ Len(order') = Len(order) + 1 /\ order'[x + 1] = c
      /\ \A i \in Indices : order'[(IF i < x THEN i ELSE i + 1) + 1] = At(i)
  <2>1. order \in Seq(Consumers)
    BY Zenon DEF OrderInv, Typed
  <2>2. InsertedAt(Consumers, order, x, c, InsertAt(order, x + 1, c))
    BY <1>3, <2>1, Inserted, Zenon
  <2>3. InsertedAt(Consumers, order, x, c, order')
    BY <1>4, <2>2, Zenon
  <2>. QED
    BY <2>3, Zenon DEF InsertedAt, Indices, At
<1>6. Typed'
  BY <1>4, <1>5, Zenon DEF OrderInv, Typed
<1>7. InTurn'
  BY <1>1, <1>4, <1>5 DEF OrderInv, InTurn, Typed
<1>8. \A i \in Indices' : i = x \/ \E k \in Indices : i = (IF k < x THEN k ELSE k + 1)
  <2>. SUFFICES ASSUME NEW i \in 0..Len(order), i # x
                PROVE  \E k \in 0..(Len(order) - 1) : i = (IF k < x THEN k ELSE k + 1)
    BY <1>1, <1>5 DEF Indices
  <2>1. CASE i < x
    BY <1>1, <1>3, <2>1
  <2>2. CASE i > x
    BY <1>1, <1>3, <2>2
  <2>. QED
    BY <1>1, <1>3, <2>1, <2>2
<1>9. Sorted'
  <2>. SUFFICES ASSUME NEW i \in Indices', NEW j \in Indices', i < j
                PROVE  /\ Priority[order'[i + 1]] <= Priority[order'[j + 1]]
                       /\ order'[i + 1] # order'[j + 1]
    BY Zenon DEF Sorted, Level, At
  <2>1. CASE i = x
    <3>1. PICK k \in Indices : j = (IF k < x THEN k ELSE k + 1)
      BY <1>3, <1>8, <2>1
    <3>2. k >= x
      BY <1>1, <1>3, <2>1, <3>1
    <3>3. Level(k) > Priority[c] /\ order'[j + 1] = At(k) /\ At(k) # c
      BY <1>1, <1>3, <1>4, <1>5, <3>1, <3>2 DEF Connected, At, Indices
    <3>. QED
      BY <1>1, <1>5, <2>1, <3>3 DEF Level
  <2>2. CASE j = x
    <3>1. PICK k \in Indices : i = (IF k < x THEN k ELSE k + 1)
      BY <1>3, <1>8, <2>2
    <3>2. k < x
      BY <1>1, <1>3, <2>2, <3>1
    <3>3. Level(k) <= Priority[c] /\ order'[i + 1] = At(k) /\ At(k) # c
      BY <1>1, <1>3, <1>4, <1>5, <3>1, <3>2 DEF Connected, At, Indices
    <3>. QED
      BY <1>1, <1>5, <2>2, <3>3 DEF Level
  <2>3. CASE i # x /\ j # x
    <3>1. PICK k \in Indices, l \in Indices : i = (IF k < x THEN k ELSE k + 1)
                                              /\ j = (IF l < x THEN l ELSE l + 1)
      BY <1>8, <2>3
    <3>2. k < l
      BY <1>1, <1>3, <3>1
    <3>3. order'[i + 1] = At(k) /\ order'[j + 1] = At(l)
      BY <1>5, <3>1, Zenon
    <3>4. Level(k) <= Level(l) /\ At(k) # At(l)
      BY <3>2, Zenon DEF OrderInv, Sorted
    <3>. QED
      BY <3>3, <3>4, Zenon DEF Level
  <2>. QED
    BY <2>1, <2>2, <2>3, Zenon
<1>10. PassedInv'
  <2>1. \A d \in Consumers : passed'[d] = {}
    BY <1>4, Zenon
  <2>2. \A i \in Indices' : order'[i + 1] \in Consumers
    BY <1>1, <1>5 DEF Indices
  <2>. QED
    BY <2>1, <2>2, Zenon DEF PassedInv, At
<1>. QED
  BY <1>6, <1>7, <1>9, <1>10, Zenon DEF OrderInv

\* The index r once the consumer at x has left len others (RrWithout).
Moved(r, x, len) == IF len = 0 THEN 0 ELSE IF r > x THEN r - 1 ELSE IF r >= len THEN r % len ELSE r

\* Where a consumer was that is at i now.
Was(i, x) == IF i < x THEN i ELSE i + 1

\* remove_consumer_order leaves whose turn it is, and everybody's rank, alone.
LEMMA EarlierWithout ==
    ASSUME NEW n \in Nat, NEW x \in 0..(n - 1), NEW r \in 0..(n - 1),
           NEW i \in 0..(n - 2), NEW j \in 0..(n - 2)
    PROVE  /\ Moved(r, x, n - 1) \in 0..(n - 2)
           /\ Earlier(r, Was(i, x), Was(j, x)) => Earlier(Moved(r, x, n - 1), i, j)
<1>. SUFFICES ASSUME NEW s, s = Moved(r, x, n - 1)
              PROVE  s \in 0..(n - 2) /\ (Earlier(r, Was(i, x), Was(j, x)) => Earlier(s, i, j))
  BY Zenon
<1>1. n - 1 \in Nat /\ n - 1 > 0
  OBVIOUS
<1>2. CASE r > x
  <2>1. s = r - 1
    BY <1>1, <1>2 DEF Moved
  <2>. QED
    BY <1>1, <1>2, <2>1 DEF Earlier, Was
<1>3. CASE ~ (r > x) /\ r >= n - 1
  <2>1. r = n - 1 /\ r \in Nat \ {0}
    BY <1>1, <1>3
  <2>2. (n - 1) % (n - 1) = 0
    BY <1>1
  <2>3. s = 0
    BY <1>1, <1>3, <2>1, <2>2 DEF Moved
  <2>. QED
    BY <1>1, <1>3, <2>1, <2>3 DEF Earlier, Was
<1>4. CASE ~ (r > x) /\ ~ (r >= n - 1)
  <2>1. s = r
    BY <1>1, <1>4 DEF Moved
  <2>. QED
    BY <1>1, <1>4, <2>1 DEF Earlier, Was
<1>. QED
  BY <1>2, <1>3, <1>4, Zenon

\* remove_consumer
LEMMA RemoveKeeps ==
    ASSUME OrderInv, NEW c \in Consumers, remove_consumer(c)
    PROVE  OrderInv'
<1>1. /\ Len(order) \in Nat /\ Indices \subseteq Nat /\ rr \in Nat
      /\ \A i \in Indices : At(i) \in Consumers
      /\ order \in Seq(Consumers) /\ permits \in [Consumers -> Nat]
      /\ passed \in [Consumers -> SUBSET Consumers]
  BY Ranks, Zenon DEF OrderInv, Typed
<1>2. PICK x \in Indices : /\ At(x) = c /\ order' = RemoveAt(order, x + 1)
                           /\ rr' = RrWithout(x, Len(order) - 1)
                           /\ passed' = [d \in Consumers |-> IF d = c THEN {} ELSE passed[d] \ {c}]
                           /\ permits' = permits
  BY Zenon DEF remove_consumer
<1>3. x \in 0..(Len(order) - 1) /\ rr \in 0..(Len(order) - 1)
  BY <1>1, <1>2 DEF OrderInv, InTurn, Indices
<1>4. RemovedAt(Consumers, order, x, order')
  <2>1. RemovedAt(Consumers, order, x, RemoveAt(order, x + 1))
    BY <1>1, <1>3, Removed, Zenon
  <2>. QED
    BY <1>2, <2>1, Zenon
<1>5. order' \in Seq(Consumers) /\ Len(order') = Len(order) - 1
  BY <1>4, Zenon DEF RemovedAt
<1>6. Indices' = 0..(Len(order) - 2)
  BY <1>1, <1>5 DEF Indices
<1>7. ASSUME NEW i \in 0..(Len(order) - 2)
      PROVE  /\ Was(i, x) \in Indices
             /\ order'[i + 1] = At(Was(i, x))
  <2>1. Was(i, x) \in Indices
    BY <1>1, <1>3 DEF Indices, Was
  <2>. QED
    BY <1>4, <2>1, Zenon DEF RemovedAt, At, Was
<1>8. Typed' /\ InTurn'
  <2>1. passed' \in [Consumers -> SUBSET Consumers]
    BY <1>1, <1>2
  <2>2. rr' \in Nat /\ (rr' < Len(order) - 1 \/ (rr' = 0 /\ Len(order) - 1 = 0))
    <3>1. CASE Len(order) - 1 = 0
      BY <1>1, <1>2, <3>1 DEF RrWithout
    <3>2. CASE Len(order) - 1 # 0
      <4>1. PICK n : n = Len(order)
        BY Zenon
      <4>2. n \in Nat /\ x \in 0..(n - 1) /\ rr \in 0..(n - 1) /\ n - 1 # 0
        BY <1>1, <1>3, <3>2, <4>1, Zenon
      <4>3. 0 \in 0..(n - 2)
        BY <4>2
      <4>4. rr' = Moved(rr, x, n - 1)
        BY <1>2, <4>1, Zenon DEF RrWithout, Moved
      <4>5. rr' \in 0..(n - 2)
        BY <4>2, <4>3, <4>4, EarlierWithout, Zenon
      <4>6. rr' \in Nat /\ rr' < n - 1
        BY <4>2, <4>5
      <4>. QED
        BY <4>1, <4>6, Zenon
    <3>. QED
      BY <3>1, <3>2, Zenon
  <2>. QED
    BY <1>1, <1>2, <1>5, <2>1, <2>2, Zenon DEF Typed, InTurn
<1>9. Sorted'
  <2>. SUFFICES ASSUME NEW i \in 0..(Len(order) - 2), NEW j \in 0..(Len(order) - 2), i < j
                PROVE  /\ Priority[order'[i + 1]] <= Priority[order'[j + 1]]
                       /\ order'[i + 1] # order'[j + 1]
    BY <1>6, Zenon DEF Sorted, Level, At
  <2>1. PICK k \in Indices, l \in Indices : /\ k = Was(i, x)
                                            /\ l = Was(j, x)
    BY <1>7, Zenon
  <2>2. k < l
    <3>1. i \in Nat /\ j \in Nat /\ x \in Nat
      BY <1>1, <1>3
    <3>. QED
      BY <2>1, <3>1 DEF Was
  <2>3. order'[i + 1] = At(k) /\ order'[j + 1] = At(l)
    BY <1>7, <2>1, Zenon
  <2>4. Level(k) <= Level(l) /\ At(k) # At(l)
    BY <2>2, Zenon DEF OrderInv, Sorted
  <2>. QED
    BY <2>3, <2>4, Zenon DEF Level
<1>10. \A e : e \in Connected /\ e # c => e \in Connected'
  <2>. SUFFICES ASSUME NEW k \in DOMAIN order, order[k] # c
                PROVE  \E l \in DOMAIN order' : order'[l] = order[k]
    BY Zenon DEF Connected
  <2>1. k \in 1..Len(order) /\ k # x + 1
    BY <1>1, <1>2 DEF At
  <2>2. PICK i : i = IF k - 1 < x THEN k - 1 ELSE k - 2
    BY Zenon
  <2>3. i \in 0..(Len(order) - 2) /\ Was(i, x) = k - 1
    <3>1. PICK n : n = Len(order)
      BY Zenon
    <3>2. n \in Nat /\ x \in 0..(n - 1) /\ k \in 1..n
      BY <1>1, <1>3, <2>1, <3>1, Zenon
    <3>3. i \in 0..(n - 2) /\ Was(i, x) = k - 1
      BY <2>1, <2>2, <3>2 DEF Was
    <3>. QED
      BY <3>1, <3>3, Zenon
  <2>4. order'[i + 1] = order[k - 1 + 1]
    BY <1>7, <2>3, Zenon DEF At
  <2>5. k - 1 + 1 = k
    BY <2>1
  <2>6. i + 1 \in DOMAIN order'
    <3>1. PICK n : n = Len(order)
      BY Zenon
    <3>2. n \in Nat /\ i \in 0..(n - 2) /\ Len(order') = n - 1
      BY <1>1, <1>5, <2>3, <3>1, Zenon
    <3>3. i + 1 \in 1..(n - 1)
      BY <3>2
    <3>. QED
      BY <1>5, <3>2, <3>3
  <2>. QED
    BY <2>4, <2>5, <2>6, Zenon
<1>11. PassedInv'
  <2>1. \A d \in Consumers : passed'[d] \subseteq Connected'
    BY <1>2, <1>10, Zenon DEF OrderInv, PassedInv
  <2>2. ASSUME NEW d \in Consumers, d \notin Connected'
        PROVE  passed'[d] = {}
    <3>1. d = c \/ passed[d] = {}
      BY <1>10, <2>2, Zenon DEF OrderInv, PassedInv
    <3>. QED
      BY <1>2, <3>1, Zenon
  <2>3. ASSUME NEW i \in 0..(Len(order) - 2), NEW j \in 0..(Len(order) - 2),
               order'[i + 1] \in passed'[order'[j + 1]]
        PROVE  Earlier(rr', j, i)
    <3>1. PICK k \in Indices, l \in Indices : /\ k = Was(i, x)
                                              /\ l = Was(j, x)
      BY <1>7, Zenon
    <3>2. order'[i + 1] = At(k) /\ order'[j + 1] = At(l)
      BY <1>7, <3>1, Zenon
    <3>3. At(k) \in passed[At(l)]
      <4>1. At(l) \in Consumers
        BY <1>1, Zenon
      <4>2. passed'[At(l)] = IF At(l) = c THEN {} ELSE passed[At(l)] \ {c}
        BY <1>2, <4>1, Zenon
      <4>. QED
        BY <2>3, <3>2, <4>2, Zenon
    <3>4. Earlier(rr, l, k)
      BY <3>3, Zenon DEF OrderInv, PassedInv
    <3>5. rr' = Moved(rr, x, Len(order) - 1)
      BY <1>2, Zenon DEF RrWithout, Moved
    <3>6. Earlier(rr, Was(j, x), Was(i, x)) => Earlier(Moved(rr, x, Len(order) - 1), j, i)
      BY <1>1, <1>3, EarlierWithout, Zenon
    <3>. QED
      BY <3>1, <3>4, <3>5, <3>6, Zenon
  <2>. QED
    BY <1>6, <2>1, <2>2, <2>3, Zenon DEF PassedInv, At
<1>. QED
  BY <1>8, <1>9, <1>11, Zenon DEF OrderInv

\* consumer_flow
LEMMA FlowKeeps ==
    ASSUME OrderInv, NEW c \in Consumers, consumer_flow(c)
    PROVE  OrderInv'
<1>1. permits' \in [Consumers -> Nat] /\ UNCHANGED <<order, rr, passed>>
  BY DEF consumer_flow, OrderInv, Typed
<1>2. Typed' /\ InTurn'
  BY <1>1, Zenon DEF OrderInv, Typed, InTurn
<1>3. Sorted'
  BY <1>1, Zenon DEF OrderInv, Sorted, Indices, Level, At
<1>4. PassedInv'
  BY <1>1, Zenon DEF OrderInv, PassedInv, Indices, Connected, At
<1>. QED
  BY <1>2, <1>3, <1>4, Zenon DEF OrderInv

\* Past i the ranks are what they were, and i itself comes last.
LEMMA EarlierAfter ==
    ASSUME NEW n \in Nat, NEW r \in 0..(n - 1), NEW i \in 0..(n - 1), NEW j \in 0..(n - 1),
           NEW k \in 0..(n - 1)
    PROVE  /\ (i + 1) % n \in Nat /\ (i + 1) % n < n
           /\ j # i => Earlier((i + 1) % n, j, i)
           /\ Earlier(r, i, j) /\ Earlier(r, j, k) => Earlier((i + 1) % n, j, k)
<1>. SUFFICES ASSUME NEW s, s = (i + 1) % n
              PROVE  /\ s \in Nat /\ s < n /\ (j # i => Earlier(s, j, i))
                     /\ (Earlier(r, i, j) /\ Earlier(r, j, k) => Earlier(s, j, k))
  BY Zenon
<1>1. n > 0 /\ i \in Nat
  OBVIOUS
<1>2. CASE i + 1 < n
  <2>1. s = i + 1
    BY <1>1, <1>2, Around
  <2>. QED
    BY <1>1, <1>2, <2>1 DEF Earlier
<1>3. CASE ~ (i + 1 < n)
  <2>1. i + 1 = n /\ n % n = 0
    BY <1>1, <1>3
  <2>2. s = 0
    BY <2>1
  <2>. QED
    BY <1>1, <1>3, <2>1, <2>2 DEF Earlier
<1>. QED
  BY <1>2, <1>3, Zenon

\* get_next_available_consumer with the permit it costs.
LEMMA PickKeeps ==
    ASSUME OrderInv, NEW i \in Indices, pick(i)
    PROVE  OrderInv'
<1>1. /\ Len(order) \in Nat /\ rr \in Nat
      /\ \A j \in Indices : At(j) \in Consumers /\ Level(j) \in Nat /\ permits[At(j)] \in Nat
      /\ permits \in [Consumers -> Nat] /\ passed \in [Consumers -> SUBSET Consumers]
  BY Ranks, Zenon DEF OrderInv, Typed
<1>2. Fair(i)
  BY Choice, Zenon DEF pick, OrderInv
<1>3. /\ rr' = (i + 1) % Len(order) /\ permits' = [permits EXCEPT ![At(i)] = @ - 1]
      /\ passed' = PassedBy(At(i)) /\ order' = order
  BY Zenon DEF pick
<1>4. Indices = 0..(Len(order) - 1) /\ i \in 0..(Len(order) - 1) /\ rr \in 0..(Len(order) - 1)
  BY <1>1 DEF Indices, OrderInv, InTurn
<1>5. permits' \in [Consumers -> Nat]
  <2>1. permits[At(i)] - 1 \in Nat
    BY <1>1, <1>2 DEF Fair, Available
  <2>. QED
    BY <1>1, <1>3, <2>1
<1>6. \A d \in Consumers : passed'[d] = {} \/ passed'[d] = passed[d] \cup {At(i)}
  BY <1>3, Zenon DEF PassedBy
<1>7. passed' \in [Consumers -> SUBSET Consumers]
  BY <1>1, <1>3 DEF PassedBy
<1>8. rr' \in Nat /\ rr' < Len(order)
  BY <1>1, <1>3, <1>4, EarlierAfter, Zenon
<1>9. Typed' /\ InTurn'
  BY <1>3, <1>5, <1>7, <1>8, Zenon DEF OrderInv, Typed, InTurn
<1>10. Sorted'
  BY <1>3, Zenon DEF OrderInv, Sorted, Indices, Level, At
<1>11. Connected' = Connected /\ Indices' = Indices
  BY <1>3, Zenon DEF Connected, Indices
<1>12. At(i) \in Connected
  BY <1>1, <1>4 DEF At, Connected, OrderInv, Typed
<1>13. \A d \in Consumers : passed'[d] \subseteq Connected
  BY <1>6, <1>12, Zenon DEF OrderInv, PassedInv
<1>14. \A d \in Consumers : d \notin Connected => passed'[d] = {}
  BY <1>3, Zenon DEF PassedBy
<1>15. ASSUME NEW k \in Indices, NEW j \in Indices, At(k) \in passed'[At(j)]
       PROVE  Earlier(rr', j, k)
  <2>1. At(j) \in Consumers /\ passed'[At(j)] # {}
    BY <1>1, <1>15, Zenon
  <2>2. /\ At(j) # At(i) /\ permits[At(j)] # 0 /\ Priority[At(j)] = Priority[At(i)]
        /\ passed'[At(j)] = passed[At(j)] \cup {At(i)}
    BY <1>3, <2>1, Zenon DEF PassedBy
  <2>3. j # i /\ Available(j) /\ Level(i) = Level(j)
    BY <1>1, <2>2 DEF Available, Level
  <2>4. Earlier(rr, i, j)
    BY <1>2, <2>3, Zenon DEF Fair
  <2>5. CASE k = i
    <3>1. Earlier((i + 1) % Len(order), j, i)
      BY <1>1, <1>4, <2>3, EarlierAfter, Zenon
    <3>. QED
      BY <1>3, <2>5, <3>1, Zenon
  <2>6. CASE k # i
    <3>1. At(k) # At(i)
      BY <1>1, <1>4, <2>6 DEF OrderInv, Sorted
    <3>2. At(k) \in passed[At(j)]
      BY <1>15, <2>2, <3>1, Zenon
    <3>3. Earlier(rr, j, k)
      BY <3>2, Zenon DEF OrderInv, PassedInv
    <3>. QED
      <4>1. Earlier((i + 1) % Len(order), j, k)
        BY <1>1, <1>4, <2>4, <3>3, EarlierAfter, Zenon
      <4>. QED
        BY <1>3, <4>1, Zenon
  <2>. QED
    BY <2>5, <2>6, Zenon
<1>16. PassedInv'
  <2>1. \A k \in Indices : At(k)' = At(k)
    BY <1>3, Zenon DEF At
  <2>. QED
    BY <1>11, <1>13, <1>14, <1>15, <2>1, Zenon DEF PassedInv
<1>. QED
  BY <1>9, <1>10, <1>16, Zenon DEF OrderInv

----------------------------------------------------------------------------
(* The theorems. *)

\* Every step of the dispatcher's order keeps the inductive invariant.
LEMMA NextKeeps == OrderInv /\ [Next]_vars => OrderInv'
<1>. SUFFICES ASSUME OrderInv, [Next]_vars
              PROVE  OrderInv'
  OBVIOUS
<1>1. ASSUME NEW c \in Consumers, add_consumer(c) \/ remove_consumer(c) \/ consumer_flow(c)
      PROVE  OrderInv'
  BY <1>1, AddKeeps, RemoveKeeps, FlowKeeps, Zenon
<1>2. ASSUME NEW i \in Indices, pick(i)
      PROVE  OrderInv'
  BY <1>2, PickKeeps, Zenon
<1>3. CASE UNCHANGED vars
  <2>1. UNCHANGED <<order, rr, permits, passed>>
    BY <1>3, Zenon DEF vars
  <2>2. Typed' /\ InTurn'
    BY <2>1, Zenon DEF OrderInv, Typed, InTurn
  <2>3. Sorted'
    BY <2>1, Zenon DEF OrderInv, Sorted, Indices, Level, At
  <2>4. PassedInv'
    BY <2>1, Zenon DEF OrderInv, PassedInv, Indices, Connected, At
  <2>. QED
    BY <2>2, <2>3, <2>4, Zenon DEF OrderInv
<1>. QED
  BY <1>1, <1>2, <1>3, Zenon DEF Next

\* The invariant holds of every reachable state: the order is sorted by level without
\* repetition, the index is one of its indices, and whoever was passed over ranks
\* before those that were picked meanwhile.
THEOREM OrderAlwaysKept == Spec => []OrderInv
<1>. QED
  BY InitKeeps, NextKeeps, PTL DEF Spec

\* What the invariant says of the next pick's level.
LEMMA InvBest == OrderInv => BestLevel
<1>. SUFFICES ASSUME OrderInv
              PROVE  BestLevel
  OBVIOUS
<1>1. /\ \A i \in NextIndex : Fair(i)
      /\ (\E i \in Indices : Available(i)) => NextIndex # {}
  BY Choice, Zenon DEF OrderInv
<1>2. NextIndex = {} <=> {i \in Indices : Available(i)} = {}
  BY <1>1, Zenon DEF Fair
<1>3. \A i \in NextIndex : \A j \in {l \in Indices : Available(l)} : Level(i) <= Level(j)
  BY <1>1, Zenon DEF Fair
<1>. QED
  BY <1>2, <1>3, Zenon DEF BestLevel

\* get_next_available_consumer always finds a consumer if one has permits, and always
\* one of the best level that has any, whatever the consumers, their levels and the
\* steps that led here.
THEOREM AlwaysBestLevel == Spec => []BestLevel
<1>. QED
  BY OrderAlwaysKept, InvBest, PTL

\* A consumer ranks before those that were picked since its turn: none of them is next.
LEMMA InvTurns == OrderInv => TakeTurns
<1>. SUFFICES ASSUME OrderInv, NEW i \in NextIndex, NEW j \in Indices, Available(j),
                     Level(i) = Level(j), At(i) \in passed[At(j)]
              PROVE  FALSE
  BY Zenon DEF TakeTurns
<1>1. Fair(i)
  BY Choice, Zenon DEF OrderInv
<1>2. i \in Indices /\ (i = j \/ Earlier(rr, i, j))
  BY <1>1, Zenon DEF Fair
<1>3. Earlier(rr, j, i)
  BY <1>2, Zenon DEF OrderInv, PassedInv
<1>4. i \in Nat /\ j \in Nat /\ rr \in Nat
  BY <1>2, Ranks, Zenon DEF OrderInv, Typed
<1>. QED
  BY <1>2, <1>3, <1>4 DEF Earlier

\* The consumers of a level always take turns: while only they are served, none is
\* picked twice before another one that could be picked, for any number of consumers
\* and whoever leaves meanwhile (remove_consumer_order moves the index along).
THEOREM AlwaysTakeTurns == Spec => []TakeTurns
<1>. QED
  BY OrderAlwaysKept, InvTurns, PTL

=============================================================================
