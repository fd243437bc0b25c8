--------------------------- MODULE KeySharedProofs ---------------------------
(***************************************************************************)
(* KeyShared, for every number of consumers, dispatch tasks, messages and  *)
(* hashes, whatever ranges the consumers ask for: the blocked hashes are   *)
(* counted exactly, no message is lost, the messages of a key are first    *)
(* delivered in order, and each goes to an owner of its key, of which      *)
(* there is exactly one where the hash space is split automatically.       *)
(***************************************************************************)
EXTENDS KeyShared, FiniteSetTheorems, WellFoundedInduction, TLAPS

RcFields == {"block_hashes", "entries", "in_flight", "blocked"}
Messages == 1..MaxMessages

\* The messages of S whose key has hash x.
Keyed(S, x) == {m \in S : HashOf[m] = x}

\* A controller that blocks hashes if b, with the messages E queued and F in flight:
\* each is filed under its own hash, and a hash is blocked once for each.
Holds(r, b, E, F) ==
    /\ DOMAIN r = RcFields /\ r.block_hashes = b /\ b \in BOOLEAN
    /\ DOMAIN r.entries = E /\ E \subseteq Messages
    /\ DOMAIN r.in_flight = F /\ F \subseteq Messages
    /\ \A m \in E : r.entries[m].hash = HashOf[m]
    /\ \A m \in F : r.in_flight[m] = HashOf[m]
    /\ DOMAIN r.blocked = Hashes
    /\ \A x \in Hashes : r.blocked[x] \in Nat
    /\ b => \A x \in Hashes : r.blocked[x] = Cardinality(Keyed(E, x)) + Cardinality(Keyed(F, x))

----------------------------------------------------------------------------
(* Counting. *)

\* A set of messages is finite, and so are those of one hash.
LEMMA FiniteKeyed ==
    ASSUME NEW S, S \subseteq Messages, NEW x
    PROVE  IsFiniteSet(S) /\ IsFiniteSet(Keyed(S, x)) /\ Cardinality(Keyed(S, x)) \in Nat
<1>1. IsFiniteSet(Messages)
  BY FS_Interval, MessagesAssumption DEF Messages
<1>2. IsFiniteSet(S)
  BY <1>1, FS_Subset, Zenon
<1>3. IsFiniteSet(Keyed(S, x))
  BY <1>2, FS_Subset, Zenon DEF Keyed
<1>. QED
  BY <1>2, <1>3, FS_CardinalityType, Zenon

SplitAt(S, T, x) ==
    Cardinality(Keyed(S, x)) = Cardinality(Keyed(S \ T, x)) + Cardinality(Keyed(S \cap T, x))

\* The messages of a hash are those outside T and those in T.
LEMMA SplitKeyed ==
    ASSUME NEW S, S \subseteq Messages, NEW T, NEW x
    PROVE  SplitAt(S, T, x)
<1>1. IsFiniteSet(Keyed(S \ T, x)) /\ IsFiniteSet(Keyed(S \cap T, x))
  <2>1. S \ T \subseteq Messages /\ S \cap T \subseteq Messages
    BY Zenon
  <2>. QED
    BY <2>1, FiniteKeyed, Zenon
<1>2. Keyed(S \ T, x) \cup Keyed(S \cap T, x) = Keyed(S, x)
  BY Zenon DEF Keyed
<1>3. Keyed(S \ T, x) \cap Keyed(S \cap T, x) = {}
  BY Zenon DEF Keyed
<1>4. Cardinality(Keyed(S \ T, x) \cup Keyed(S \cap T, x))
        = Cardinality(Keyed(S \ T, x)) + Cardinality(Keyed(S \cap T, x))
  <2>1. Cardinality(Keyed(S \ T, x) \cup Keyed(S \cap T, x))
          = Cardinality(Keyed(S \ T, x)) + Cardinality(Keyed(S \cap T, x))
            - Cardinality(Keyed(S \ T, x) \cap Keyed(S \cap T, x))
    BY <1>1, FS_Union, Zenon
  <2>2. Cardinality(Keyed(S \ T, x) \cap Keyed(S \cap T, x)) = 0
    BY <1>3, FS_EmptySet, Zenon
  <2>3. Cardinality(Keyed(S \ T, x)) \in Nat /\ Cardinality(Keyed(S \cap T, x)) \in Nat
    BY <1>1, FS_CardinalityType, Zenon
  <2>. QED
    BY <2>1, <2>2, <2>3
<1>. QED
  BY <1>2, <1>4, Zenon DEF SplitAt

\* One message counts for its own hash and no other.
LEMMA OneKeyed ==
    ASSUME NEW m, NEW x
    PROVE  /\ HashOf[m] = x => Cardinality(Keyed({m}, x)) = 1
           /\ HashOf[m] # x => Cardinality(Keyed({m}, x)) = 0
<1>1. HashOf[m] = x => Keyed({m}, x) = {m}
  BY Zenon DEF Keyed
<1>2. HashOf[m] # x => Keyed({m}, x) = {}
  BY Zenon DEF Keyed
<1>3. Cardinality({m}) = 1
  BY FS_Singleton, Zenon
<1>. QED
  BY <1>1, <1>2, <1>3, FS_EmptySet, Zenon

\* A message that joins S.
LEMMA JoinKeyed ==
    ASSUME NEW S, S \subseteq Messages, NEW m \in Messages, m \notin S, NEW x
    PROVE  /\ HashOf[m] = x =>
                 Cardinality(Keyed(S \cup {m}, x)) = Cardinality(Keyed(S, x)) + 1
           /\ HashOf[m] # x => Cardinality(Keyed(S \cup {m}, x)) = Cardinality(Keyed(S, x))
<1>1. PICK T : T = S \cup {m}
  BY Zenon
<1>2. T \subseteq Messages /\ T \ S = {m} /\ T \cap S = S
  BY <1>1, Zenon
<1>3. Cardinality(Keyed(T, x)) = Cardinality(Keyed({m}, x)) + Cardinality(Keyed(S, x))
  <2>1. SplitAt(T, S, x)
    BY <1>2, SplitKeyed, Zenon
  <2>. QED
    BY <1>2, <2>1, Zenon DEF SplitAt
<1>4. Cardinality(Keyed(S, x)) \in Nat
  BY FiniteKeyed, Zenon
<1>5. /\ HashOf[m] = x => Cardinality(Keyed({m}, x)) = 1
      /\ HashOf[m] # x => Cardinality(Keyed({m}, x)) = 0
  BY OneKeyed, Zenon
<1>. QED
  BY <1>1, <1>3, <1>4, <1>5

\* A message that leaves S.
LEMMA LeaveKeyed ==
    ASSUME NEW S, S \subseteq Messages, NEW m \in S, NEW x
    PROVE  /\ HashOf[m] = x => /\ Cardinality(Keyed(S, x)) > 0
                               /\ Cardinality(Keyed(S \ {m}, x)) = Cardinality(Keyed(S, x)) - 1
           /\ HashOf[m] # x => Cardinality(Keyed(S \ {m}, x)) = Cardinality(Keyed(S, x))
<1>1. S \ {m} \subseteq Messages /\ S \cap {m} = {m}
  BY Zenon
<1>2. Cardinality(Keyed(S, x)) = Cardinality(Keyed(S \ {m}, x)) + Cardinality(Keyed({m}, x))
  <2>1. SplitAt(S, {m}, x)
    BY SplitKeyed, Zenon
  <2>. QED
    BY <1>1, <2>1, Zenon DEF SplitAt
<1>3. Cardinality(Keyed(S \ {m}, x)) \in Nat
  BY <1>1, FiniteKeyed, Zenon
<1>4. /\ HashOf[m] = x => Cardinality(Keyed({m}, x)) = 1
      /\ HashOf[m] # x => Cardinality(Keyed({m}, x)) = 0
  BY OneKeyed, Zenon
<1>. QED
  BY <1>2, <1>3, <1>4

----------------------------------------------------------------------------
(* The controller's operations. *)

Made(q, b, e, f, v) ==
    /\ DOMAIN q = RcFields /\ q.block_hashes = b
    /\ q.entries = e /\ q.in_flight = f /\ q.blocked = v

\* The fields of a controller are independent of each other.
LEMMA FieldSet ==
    ASSUME NEW r, DOMAIN r = RcFields, NEW v
    PROVE  /\ Made([r EXCEPT !.entries = v], r.block_hashes, v, r.in_flight, r.blocked)
           /\ Made([r EXCEPT !.in_flight = v], r.block_hashes, r.entries, v, r.blocked)
BY Zenon DEF RcFields, Made

LEMMA BlockedSet ==
    ASSUME NEW r, DOMAIN r = RcFields, NEW h
    PROVE  /\ Made([r EXCEPT !.blocked[h] = @ + 1], r.block_hashes, r.entries, r.in_flight,
                   [r.blocked EXCEPT ![h] = @ + 1])
           /\ Made([r EXCEPT !.blocked[h] = @ - 1], r.block_hashes, r.entries, r.in_flight,
                   [r.blocked EXCEPT ![h] = @ - 1])
BY Zenon DEF RcFields, Made

\* The hash of a message is a hash.
LEMMA HashKnown ==
    ASSUME NEW m \in Messages
    PROVE  HashOf[m] \in Hashes /\ HashOf[m] # NoHash
BY MessagesAssumption, HashAssumption, Zenon DEF Messages

\* Everything of a controller but its counts.
Files(r, b, E, F) ==
    /\ DOMAIN r = RcFields /\ r.block_hashes = b /\ b \in BOOLEAN
    /\ DOMAIN r.entries = E /\ E \subseteq Messages
    /\ DOMAIN r.in_flight = F /\ F \subseteq Messages
    /\ \A m \in E : r.entries[m].hash = HashOf[m]
    /\ \A m \in F : r.in_flight[m] = HashOf[m]
    /\ DOMAIN r.blocked = Hashes
    /\ \A x \in Hashes : r.blocked[x] \in Nat

\* The counts are off by d for hash h.
OffBy(r, b, E, F, h, d) ==
    b => \A x \in Hashes : r.blocked[x] + (IF x = h THEN d ELSE 0)
                             = Cardinality(Keyed(E, x)) + Cardinality(Keyed(F, x))

\* increment_hash puts a missing count right.
LEMMA Increments ==
    ASSUME NEW r, NEW b, NEW E, NEW F, Files(r, b, E, F), NEW h \in Hashes,
           OffBy(r, b, E, F, h, 1)
    PROVE  Holds(increment_hash(r, h), b, E, F)
<1>1. h # NoHash
  BY HashAssumption, Zenon
<1>2. CASE b
  <2>1. increment_hash(r, h) = [r EXCEPT !.blocked[h] = @ + 1]
    BY <1>1, <1>2, Zenon DEF Files, increment_hash
  <2>2. PICK q : q = increment_hash(r, h)
    BY Zenon
  <2>3. PICK v : v = [r.blocked EXCEPT ![h] = @ + 1]
    BY Zenon
  <2>4. Made(q, r.block_hashes, r.entries, r.in_flight, v)
    <3>1. DOMAIN r = RcFields
      BY Zenon DEF Files
    <3>2. Made([r EXCEPT !.blocked[h] = @ + 1], r.block_hashes, r.entries, r.in_flight,
               [r.blocked EXCEPT ![h] = @ + 1])
      BY <3>1, BlockedSet, Zenon
    <3>. QED
      BY <2>1, <2>2, <2>3, <3>2, Zenon
  <2>5. DOMAIN v = Hashes /\ \A x \in Hashes : v[x] = r.blocked[x] + (IF x = h THEN 1 ELSE 0)
    BY <2>3 DEF Files
  <2>6. \A x \in Hashes : v[x] \in Nat
    BY <2>5 DEF Files
  <2>7. \A x \in Hashes : v[x] = Cardinality(Keyed(E, x)) + Cardinality(Keyed(F, x))
    BY <1>2, <2>5, Zenon DEF OffBy
  <2>8. Holds(q, b, E, F)
    BY <2>4, <2>5, <2>6, <2>7, Zenon DEF Holds, Files, Made
  <2>. QED
    BY <2>2, <2>8, Zenon
<1>3. CASE ~b
  <2>1. increment_hash(r, h) = r
    BY <1>3, Zenon DEF Files, increment_hash
  <2>. QED
    BY <1>3, <2>1, Zenon DEF Files, Holds
<1>. QED
  BY <1>2, <1>3, Zenon DEF Files

\* decrement_hash puts a count right that is one too many.
LEMMA Decrements ==
    ASSUME NEW r, NEW b, NEW E, NEW F, Files(r, b, E, F), NEW h \in Hashes,
           OffBy(r, b, E, F, h, -1)
    PROVE  Holds(decrement_hash(r, h), b, E, F)
<1>1. h # NoHash
  BY HashAssumption, Zenon
<1>2. CASE b
  <2>0. r.blocked[h] > 0
    <3>1. Cardinality(Keyed(E, h)) \in Nat /\ Cardinality(Keyed(F, h)) \in Nat
      BY FiniteKeyed, Zenon DEF Files
    <3>2. r.blocked[h] - 1 = Cardinality(Keyed(E, h)) + Cardinality(Keyed(F, h))
      BY <1>2, Zenon DEF OffBy, Files
    <3>3. r.blocked[h] \in Nat
      BY Zenon DEF Files
    <3>. QED
      BY <3>1, <3>2, <3>3
  <2>1. decrement_hash(r, h) = [r EXCEPT !.blocked[h] = @ - 1]
    BY <1>1, <1>2, <2>0, Zenon DEF Files, decrement_hash
  <2>2. PICK q : q = decrement_hash(r, h)
    BY Zenon
  <2>3. PICK v : v = [r.blocked EXCEPT ![h] = @ - 1]
    BY Zenon
  <2>4. Made(q, r.block_hashes, r.entries, r.in_flight, v)
    <3>1. DOMAIN r = RcFields
      BY Zenon DEF Files
    <3>2. Made([r EXCEPT !.blocked[h] = @ - 1], r.block_hashes, r.entries, r.in_flight,
               [r.blocked EXCEPT ![h] = @ - 1])
      BY <3>1, BlockedSet, Zenon
    <3>. QED
      BY <2>1, <2>2, <2>3, <3>2, Zenon
  <2>5. DOMAIN v = Hashes /\ \A x \in Hashes : v[x] = r.blocked[x] + (IF x = h THEN -1 ELSE 0)
    BY <2>3 DEF Files
  <2>6. \A x \in Hashes : v[x] \in Nat
    BY <2>0, <2>5 DEF Files
  <2>7. \A x \in Hashes : v[x] = Cardinality(Keyed(E, x)) + Cardinality(Keyed(F, x))
    BY <1>2, <2>5, Zenon DEF OffBy
  <2>8. Holds(q, b, E, F)
    BY <2>4, <2>5, <2>6, <2>7, Zenon DEF Holds, Files, Made
  <2>. QED
    BY <2>2, <2>8, Zenon
<1>3. CASE ~b
  <2>1. decrement_hash(r, h) = r
    BY <1>3, Zenon DEF Files, decrement_hash
  <2>. QED
    BY <1>3, <2>1, Zenon DEF Files, Holds
<1>. QED
  BY <1>2, <1>3, Zenon DEF Files


\* What a controller holds, apart from its counts.
LEMMA HoldsFiles ==
    ASSUME NEW r, NEW b, NEW E, NEW F, Holds(r, b, E, F)
    PROVE  Files(r, b, E, F)
BY Zenon DEF Holds, Files

\* add files a message and blocks its hash once, unless it is queued already.
LEMMA Adds ==
    ASSUME NEW r, NEW b, NEW E, NEW F, Holds(r, b, E, F), NEW m \in Messages, NEW k
    PROVE  Holds(add(r, m, k, HashOf[m]), b, E \cup {m}, F)
<1>1. HashOf[m] \in Hashes /\ HashOf[m] # NoHash
  BY HashKnown, Zenon
<1>2. DOMAIN r = RcFields /\ DOMAIN r.entries = E
  BY Zenon DEF Holds
<1>3. CASE m \in E
  <2>1. r.entries[m].hash = HashOf[m]
    BY <1>3, Zenon DEF Holds
  <2>2. PICK e : e = Entry(Max({r.entries[m].count, k}), HashOf[m])
    BY Zenon
  <2>3. e.hash = HashOf[m]
    BY <2>2, Zenon DEF Entry
  <2>4. add(r, m, k, HashOf[m]) = [r EXCEPT !.entries[m] = e]
    BY <1>1, <1>2, <1>3, <2>1, <2>2, Zenon DEF add, increment_hash
  <2>5. Made([r EXCEPT !.entries[m] = e], r.block_hashes, [r.entries EXCEPT ![m] = e],
             r.in_flight, r.blocked)
    BY <1>2, Zenon DEF RcFields, Made
  <2>6. PICK f : f = [r.entries EXCEPT ![m] = e]
    BY Zenon
  <2>7. DOMAIN f = E /\ \A n \in E : f[n].hash = HashOf[n]
    BY <1>2, <2>3, <2>6, Zenon DEF Holds
  <2>8. PICK q : q = [r EXCEPT !.entries[m] = e]
    BY Zenon
  <2>9. Made(q, r.block_hashes, f, r.in_flight, r.blocked)
    BY <2>5, <2>6, <2>8, Zenon
  <2>10. Holds(q, b, E, F)
    BY <2>7, <2>9, Zenon DEF Holds, Made
  <2>11. E \cup {m} = E
    BY <1>3, Zenon
  <2>. QED
    BY <2>4, <2>8, <2>10, <2>11, Zenon
<1>4. CASE m \notin E
  <2>1. PICK e : e = Entry(k, HashOf[m])
    BY Zenon
  <2>2. e.hash = HashOf[m]
    BY <2>1, Zenon DEF Entry
  <2>3. PICK f : f = With(r.entries, m, e)
    BY Zenon
  <2>4. PICK q : q = [r EXCEPT !.entries = f]
    BY Zenon
  <2>5. add(r, m, k, HashOf[m]) = increment_hash(q, HashOf[m])
    BY <1>2, <1>4, <2>1, <2>3, <2>4, Zenon DEF add
  <2>6. Made(q, r.block_hashes, f, r.in_flight, r.blocked)
    BY <1>2, <2>4, FieldSet, Zenon
  <2>7. DOMAIN f = E \cup {m} /\ \A n \in E \cup {m} : f[n].hash = HashOf[n]
    BY <1>2, <2>2, <2>3, Zenon DEF Holds, With
  <2>8. Files(q, b, E \cup {m}, F)
    BY <2>6, <2>7, Zenon DEF Holds, Files, Made
  <2>9. OffBy(q, b, E \cup {m}, F, HashOf[m], 1)
    <3>1. SUFFICES ASSUME b, NEW x \in Hashes
                   PROVE  q.blocked[x] + (IF x = HashOf[m] THEN 1 ELSE 0)
                            = Cardinality(Keyed(E \cup {m}, x)) + Cardinality(Keyed(F, x))
      BY Zenon DEF OffBy
    <3>2. E \subseteq Messages /\ F \subseteq Messages
      BY Zenon DEF Holds
    <3>3. Cardinality(Keyed(E, x)) \in Nat /\ Cardinality(Keyed(F, x)) \in Nat
      BY <3>2, FiniteKeyed, Zenon
    <3>4. /\ HashOf[m] = x =>
                Cardinality(Keyed(E \cup {m}, x)) = Cardinality(Keyed(E, x)) + 1
          /\ HashOf[m] # x => Cardinality(Keyed(E \cup {m}, x)) = Cardinality(Keyed(E, x))
      BY <1>4, <3>2, JoinKeyed, Zenon
    <3>5. q.blocked[x] = Cardinality(Keyed(E, x)) + Cardinality(Keyed(F, x))
      BY <2>6, <3>1, Zenon DEF Made, Holds
    <3>. QED
      BY <3>3, <3>4, <3>5
  <2>. QED
    BY <1>1, <2>5, <2>8, <2>9, Increments, Zenon
<1>. QED
  BY <1>3, <1>4, Zenon

\* release_in_flight_hash takes a message out of flight and unblocks its hash once.
LEMMA Releases ==
    ASSUME NEW r, NEW b, NEW E, NEW F, Holds(r, b, E, F), NEW m
    PROVE  Holds(release_in_flight_hash(r, m), b, E, F \ {m})
<1>1. DOMAIN r = RcFields /\ DOMAIN r.in_flight = F
  BY Zenon DEF Holds
<1>2. CASE m \in F
  <2>1. r.in_flight[m] = HashOf[m] /\ m \in Messages
    BY <1>2, Zenon DEF Holds
  <2>2. HashOf[m] \in Hashes
    BY <2>1, HashKnown, Zenon
  <2>3. PICK f : f = Without(r.in_flight, m)
    BY Zenon
  <2>4. PICK q : q = [r EXCEPT !.in_flight = f]
    BY Zenon
  <2>5. release_in_flight_hash(r, m) = decrement_hash(q, HashOf[m])
    BY <1>1, <1>2, <2>1, <2>3, <2>4, Zenon DEF release_in_flight_hash
  <2>6. Made(q, r.block_hashes, r.entries, f, r.blocked)
    BY <1>1, <2>4, FieldSet, Zenon
  <2>7. DOMAIN f = F \ {m} /\ \A n \in F \ {m} : f[n] = HashOf[n]
    BY <1>1, <2>3, Zenon DEF Holds, Without, Restrict
  <2>8. Files(q, b, E, F \ {m})
    BY <2>6, <2>7, Zenon DEF Holds, Files, Made
  <2>9. OffBy(q, b, E, F \ {m}, HashOf[m], -1)
    <3>1. SUFFICES ASSUME b, NEW x \in Hashes
                   PROVE  q.blocked[x] + (IF x = HashOf[m] THEN -1 ELSE 0)
                            = Cardinality(Keyed(E, x)) + Cardinality(Keyed(F \ {m}, x))
      BY Zenon DEF OffBy
    <3>2. E \subseteq Messages /\ F \subseteq Messages
      BY Zenon DEF Holds
    <3>3. Cardinality(Keyed(E, x)) \in Nat /\ Cardinality(Keyed(F, x)) \in Nat
      BY <3>2, FiniteKeyed, Zenon
    <3>4. /\ HashOf[m] = x =>
                Cardinality(Keyed(F \ {m}, x)) = Cardinality(Keyed(F, x)) - 1
          /\ HashOf[m] # x => Cardinality(Keyed(F \ {m}, x)) = Cardinality(Keyed(F, x))
      BY <1>2, <3>2, LeaveKeyed, Zenon
    <3>5. q.blocked[x] = Cardinality(Keyed(E, x)) + Cardinality(Keyed(F, x))
      BY <2>6, <3>1, Zenon DEF Made, Holds
    <3>. QED
      BY <3>3, <3>4, <3>5
  <2>. QED
    BY <2>2, <2>5, <2>8, <2>9, Decrements, Zenon
<1>3. CASE m \notin F
  <2>1. release_in_flight_hash(r, m) = r /\ F \ {m} = F
    BY <1>1, <1>3, Zenon DEF release_in_flight_hash
  <2>. QED
    BY <2>1, Zenon
<1>. QED
  BY <1>2, <1>3, Zenon


\* restore puts a message in flight back into the queue.
LEMMA Restores ==
    ASSUME NEW r, NEW b, NEW E, NEW F, Holds(r, b, E, F), NEW m \in Messages, NEW k
    PROVE  Holds(restore(r, m, k, HashOf[m]), b, E \cup {m}, F \ {m})
BY Releases, Adds, Zenon DEF restore

\* remove takes a message out of the queue and out of flight.
LEMMA Removes ==
    ASSUME NEW r, NEW b, NEW E, NEW F, Holds(r, b, E, F), NEW m
    PROVE  Holds(remove(r, m), b, E \ {m}, F \ {m})
<1>1. PICK s : s = release_in_flight_hash(r, m)
  BY Zenon
<1>2. PICK G : G = F \ {m}
  BY Zenon
<1>3. Holds(s, b, E, G)
  BY <1>1, <1>2, Releases, Zenon
<1>4. DOMAIN s = RcFields /\ DOMAIN s.entries = E
  BY <1>3, Zenon DEF Holds
<1>5. CASE m \in E
  <2>1. s.entries[m].hash = HashOf[m] /\ m \in Messages
    BY <1>3, <1>5, Zenon DEF Holds
  <2>2. HashOf[m] \in Hashes
    BY <2>1, HashKnown, Zenon
  <2>3. PICK f : f = Without(s.entries, m)
    BY Zenon
  <2>4. PICK q : q = [s EXCEPT !.entries = f]
    BY Zenon
  <2>5. remove(r, m) = decrement_hash(q, HashOf[m])
    BY <1>1, <1>4, <1>5, <2>1, <2>3, <2>4, Zenon DEF remove
  <2>6. Made(q, s.block_hashes, f, s.in_flight, s.blocked)
    BY <1>4, <2>4, FieldSet, Zenon
  <2>7. DOMAIN f = E \ {m} /\ \A n \in E \ {m} : f[n].hash = HashOf[n]
    BY <1>3, <1>4, <2>3, Zenon DEF Holds, Without, Restrict
  <2>8. Files(q, b, E \ {m}, G)
    BY <1>3, <2>6, <2>7, Zenon DEF Holds, Files, Made
  <2>9. OffBy(q, b, E \ {m}, G, HashOf[m], -1)
    <3>1. SUFFICES ASSUME b, NEW x \in Hashes
                   PROVE  q.blocked[x] + (IF x = HashOf[m] THEN -1 ELSE 0)
                            = Cardinality(Keyed(E \ {m}, x)) + Cardinality(Keyed(G, x))
      BY Zenon DEF OffBy
    <3>2. E \subseteq Messages /\ G \subseteq Messages
      BY <1>3, Zenon DEF Holds
    <3>3. Cardinality(Keyed(E, x)) \in Nat /\ Cardinality(Keyed(G, x)) \in Nat
      BY <3>2, FiniteKeyed, Zenon
    <3>4. /\ HashOf[m] = x =>
                Cardinality(Keyed(E \ {m}, x)) = Cardinality(Keyed(E, x)) - 1
          /\ HashOf[m] # x => Cardinality(Keyed(E \ {m}, x)) = Cardinality(Keyed(E, x))
      BY <1>5, <3>2, LeaveKeyed, Zenon
    <3>5. q.blocked[x] = Cardinality(Keyed(E, x)) + Cardinality(Keyed(G, x))
      BY <1>3, <2>6, <3>1, Zenon DEF Made, Holds
    <3>. QED
      BY <3>3, <3>4, <3>5
  <2>. QED
    BY <1>2, <2>2, <2>5, <2>8, <2>9, Decrements, Zenon
<1>6. CASE m \notin E
  <2>1. remove(r, m) = s
    BY <1>1, <1>4, <1>6, Zenon DEF remove
  <2>2. E \ {m} = E
    BY <1>6, Zenon
  <2>. QED
    BY <1>2, <1>3, <2>1, <2>2, Zenon
<1>. QED
  BY <1>5, <1>6, Zenon

\* A message taken for delivery goes from the queue into flight, where hashes are
\* blocked, and its hash stays blocked as often.
LEMMA Takes ==
    ASSUME NEW r, NEW b, NEW E, NEW F, Holds(r, b, E, F), NEW m \in E, m \notin F
    PROVE  Holds(take_for_delivery_with_hash(r, m, HashOf[m]), b, E \ {m},
                 IF b THEN F \cup {m} ELSE F)
<1>1. DOMAIN r = RcFields /\ r.block_hashes = b /\ DOMAIN r.entries = E /\ DOMAIN r.in_flight = F
  BY Zenon DEF Holds
<1>2. E \subseteq Messages /\ F \subseteq Messages /\ b \in BOOLEAN
  BY Zenon DEF Holds
<1>3. r.entries[m].hash = HashOf[m] /\ HashOf[m] \in Hashes /\ HashOf[m] # NoHash
  BY <1>2, HashKnown, Zenon DEF Holds
<1>4. PICK e : e = Without(r.entries, m)
  BY Zenon
<1>5. PICK q : q = [r EXCEPT !.entries = e]
  BY Zenon
<1>6. Made(q, b, e, r.in_flight, r.blocked)
  BY <1>1, <1>5, FieldSet, Zenon
<1>7. DOMAIN e = E \ {m} /\ \A n \in E \ {m} : e[n].hash = HashOf[n]
  BY <1>1, <1>4, Zenon DEF Holds, Without, Restrict
<1>8. CASE ~b
  <2>1. take_for_delivery_with_hash(r, m, HashOf[m]) = decrement_hash(q, HashOf[m])
    BY <1>1, <1>3, <1>4, <1>5, <1>8, Zenon DEF take_for_delivery_with_hash
  <2>2. decrement_hash(q, HashOf[m]) = q
    BY <1>6, <1>8, Zenon DEF Made, decrement_hash
  <2>3. Holds(q, b, E \ {m}, F)
    BY <1>6, <1>7, <1>8, Zenon DEF Holds, Made
  <2>. QED
    BY <1>8, <2>1, <2>2, <2>3, Zenon
<1>9. CASE b
  <2>1. PICK f : f = With(q.in_flight, m, HashOf[m])
    BY Zenon
  <2>2. PICK p : p = [q EXCEPT !.in_flight = f]
    BY Zenon
  <2>3. take_for_delivery_with_hash(r, m, HashOf[m]) = p
    BY <1>1, <1>3, <1>4, <1>5, <1>9, <2>1, <2>2, Zenon
    DEF take_for_delivery_with_hash, increment_hash
  <2>4. Made(p, b, e, f, r.blocked)
    BY <1>6, <2>2, FieldSet DEF Made
  <2>5. DOMAIN f = F \cup {m} /\ \A n \in F \cup {m} : f[n] = HashOf[n]
    BY <1>1, <1>6, <2>1, Zenon DEF Holds, Made, With
  <2>6. \A x \in Hashes : r.blocked[x] = Cardinality(Keyed(E \ {m}, x))
                                           + Cardinality(Keyed(F \cup {m}, x))
    <3>1. TAKE x \in Hashes
    <3>2. Cardinality(Keyed(E, x)) \in Nat /\ Cardinality(Keyed(F, x)) \in Nat
      BY <1>2, FiniteKeyed, Zenon
    <3>3. /\ HashOf[m] = x =>
                Cardinality(Keyed(E \ {m}, x)) = Cardinality(Keyed(E, x)) - 1
          /\ HashOf[m] # x => Cardinality(Keyed(E \ {m}, x)) = Cardinality(Keyed(E, x))
      BY <1>2, LeaveKeyed, Zenon
    <3>4. /\ HashOf[m] = x =>
                Cardinality(Keyed(F \cup {m}, x)) = Cardinality(Keyed(F, x)) + 1
          /\ HashOf[m] # x => Cardinality(Keyed(F \cup {m}, x)) = Cardinality(Keyed(F, x))
      <4>1. m \in Messages
        BY <1>2, Zenon
      <4>. QED
        BY <1>2, <4>1, JoinKeyed, Zenon
    <3>5. r.blocked[x] = Cardinality(Keyed(E, x)) + Cardinality(Keyed(F, x))
      BY <1>9, Zenon DEF Holds
    <3>. QED
      BY <3>2, <3>3, <3>4, <3>5
  <2>7. Holds(p, b, E \ {m}, F \cup {m})
    BY <1>2, <1>7, <2>4, <2>5, <2>6, Zenon DEF Holds, Made
  <2>. QED
    BY <1>9, <2>3, <2>7, Zenon
<1>. QED
  BY <1>2, <1>8, <1>9, Zenon

\* A cleared controller, and a new one, hold nothing.
LEMMA Clears ==
    ASSUME NEW b \in BOOLEAN
    PROVE  /\ Holds(new(b), b, {}, {})
           /\ \A r : r.block_hashes = b => Holds(clear(r), b, {}, {})
<1>1. \A x : Cardinality(Keyed({}, x)) = 0
  <2>1. \A x : Keyed({}, x) = {}
    BY Zenon DEF Keyed
  <2>. QED
    BY <2>1, FS_EmptySet, Zenon
<1>2. Holds(new(b), b, {}, {})
  BY <1>1 DEF Holds, new, RcFields
<1>. QED
  BY <1>2, Zenon DEF clear


\* add_all files all the messages of S.
LEMMA AddsAll ==
    ASSUME NEW r, NEW b, NEW E, NEW F, Holds(r, b, E, F), NEW S, S \subseteq Messages, NEW k
    PROVE  Holds(add_all(r, S, k, HashOf), b, E \cup S, F)
<1>. DEFINE D(x) == {m \in S : add(r, m, k[m], HashOf[m]).blocked[x] # r.blocked[x]}
<1>1. DOMAIN r = RcFields /\ r.block_hashes = b /\ DOMAIN r.entries = E /\ DOMAIN r.in_flight = F
  BY Zenon DEF Holds
<1>2. E \subseteq Messages /\ F \subseteq Messages /\ b \in BOOLEAN
  BY Zenon DEF Holds
<1>3. PICK e : e = [m \in E \cup S |-> IF m \in S THEN add(r, m, k[m], HashOf[m]).entries[m]
                                       ELSE r.entries[m]]
  BY Zenon
<1>4. PICK v : v = [x \in Hashes |-> r.blocked[x] + Cardinality(D(x))]
  BY Zenon
<1>5. PICK q : q = add_all(r, S, k, HashOf)
  BY Zenon
<1>6. Made(q, b, e, r.in_flight, v)
  <2>1. q = [r EXCEPT !.entries = e, !.blocked = v]
    BY <1>1, <1>3, <1>4, <1>5, Zenon DEF add_all
  <2>. QED
    BY <1>1, <2>1, Zenon DEF Made, RcFields
<1>7. \A m \in S : Holds(add(r, m, k[m], HashOf[m]), b, E \cup {m}, F)
  BY Adds, Zenon
<1>8. DOMAIN e = E \cup S /\ \A m \in E \cup S : e[m].hash = HashOf[m]
  <2>1. DOMAIN e = E \cup S
    BY <1>3, Zenon
  <2>2. \A m \in S : e[m].hash = HashOf[m]
    <3>1. TAKE m \in S
    <3>2. e[m] = add(r, m, k[m], HashOf[m]).entries[m]
      BY <1>3, Zenon
    <3>3. \A n \in E \cup {m} : add(r, m, k[m], HashOf[m]).entries[n].hash = HashOf[n]
      BY <1>7, Zenon DEF Holds
    <3>4. m \in E \cup {m}
      BY Zenon
    <3>. QED
      BY <3>2, <3>3, <3>4, Zenon
  <2>3. \A m \in E \ S : e[m].hash = HashOf[m]
    BY <1>3, Zenon DEF Holds
  <2>. QED
    BY <2>1, <2>2, <2>3, Zenon
<1>9. \A x \in Hashes : D(x) \subseteq Messages /\ Cardinality(D(x)) \in Nat
  <2>1. TAKE x \in Hashes
  <2>2. D(x) \subseteq Messages
    BY Zenon
  <2>3. IsFiniteSet(D(x))
    BY <2>2, FiniteKeyed, Zenon
  <2>. QED
    BY <2>2, <2>3, FS_CardinalityType, Zenon
<1>10. ASSUME b, NEW x \in Hashes
       PROVE  D(x) = Keyed(S \ E, x)
  <2>1. ASSUME NEW m \in S
        PROVE  add(r, m, k[m], HashOf[m]).blocked[x] # r.blocked[x]
                 <=> m \notin E /\ HashOf[m] = x
    <3>1. add(r, m, k[m], HashOf[m]).blocked[x]
            = Cardinality(Keyed(E \cup {m}, x)) + Cardinality(Keyed(F, x))
      BY <1>7, <1>10, Zenon DEF Holds
    <3>2. r.blocked[x] = Cardinality(Keyed(E, x)) + Cardinality(Keyed(F, x))
      BY <1>10, Zenon DEF Holds
    <3>3. Cardinality(Keyed(E, x)) \in Nat /\ Cardinality(Keyed(F, x)) \in Nat
      BY <1>2, FiniteKeyed, Zenon
    <3>4. CASE m \in E
      <4>1. E \cup {m} = E
        BY <3>4, Zenon
      <4>. QED
        BY <3>1, <3>2, <3>4, <4>1, Zenon
    <3>5. CASE m \notin E
      <4>1. /\ HashOf[m] = x =>
                  Cardinality(Keyed(E \cup {m}, x)) = Cardinality(Keyed(E, x)) + 1
            /\ HashOf[m] # x => Cardinality(Keyed(E \cup {m}, x)) = Cardinality(Keyed(E, x))
        BY <1>2, <3>5, JoinKeyed, Zenon
      <4>. QED
        BY <3>1, <3>2, <3>3, <3>5, <4>1
    <3>. QED
      BY <3>4, <3>5, Zenon
  <2>. QED
    BY <2>1, Zenon DEF Keyed
<1>. HIDE DEF D
<1>11. ASSUME b, NEW x \in Hashes
       PROVE  v[x] = Cardinality(Keyed(E \cup S, x)) + Cardinality(Keyed(F, x))
  <2>1. PICK T : T = E \cup S
    BY Zenon
  <2>2. SplitAt(T, E, x)
    BY <1>2, <2>1, SplitKeyed, Zenon
  <2>3. T \ E = S \ E /\ T \cap E = E
    BY <2>1, Zenon
  <2>4. Cardinality(Keyed(T, x)) = Cardinality(Keyed(S \ E, x)) + Cardinality(Keyed(E, x))
    BY <2>2, <2>3, Zenon DEF SplitAt
  <2>5. Cardinality(Keyed(S \ E, x)) = Cardinality(D(x))
    BY <1>10, <1>11, Zenon
  <2>6. r.blocked[x] = Cardinality(Keyed(E, x)) + Cardinality(Keyed(F, x))
    BY <1>11, Zenon DEF Holds
  <2>7. v[x] = r.blocked[x] + Cardinality(D(x))
    BY <1>4, Zenon
  <2>8. Cardinality(Keyed(E, x)) \in Nat /\ Cardinality(Keyed(F, x)) \in Nat
    BY <1>2, FiniteKeyed, Zenon
  <2>. QED
    BY <1>9, <2>1, <2>4, <2>5, <2>6, <2>7, <2>8
<1>12. DOMAIN v = Hashes /\ \A x \in Hashes : v[x] \in Nat
  BY <1>4, <1>9 DEF Holds
<1>13. Holds(q, b, E \cup S, F)
  <2>1. PICK T : T = E \cup S
    BY Zenon
  <2>2. T \subseteq Messages
    BY <1>2, <2>1, Zenon
  <2>3. Holds(q, b, T, F)
    BY <1>2, <1>6, <1>8, <1>11, <1>12, <2>1, <2>2, Zenon DEF Holds, Made
  <2>. QED
    BY <2>1, <2>3, Zenon
<1>. QED
  BY <1>5, <1>13, Zenon

\* A number and 0, whichever is larger.
LEMMA MaxZero ==
    ASSUME NEW n \in Nat
    PROVE  Max({n, 0}) = n
<1>1. n \in {n, 0} /\ \A y \in {n, 0} : n >= y
  OBVIOUS
<1>2. \A x \in {n, 0} : (\A y \in {n, 0} : x >= y) => x = n
  OBVIOUS
<1>. QED
  BY <1>1, <1>2, Zenon DEF Max

\* remove_all takes all the messages of S out of the queue and out of flight.
LEMMA RemovesAll ==
    ASSUME NEW r, NEW b, NEW E, NEW F, Holds(r, b, E, F), NEW S
    PROVE  Holds(remove_all(r, S), b, E \ S, F \ S)
<1>1. DOMAIN r = RcFields /\ r.block_hashes = b /\ DOMAIN r.entries = E /\ DOMAIN r.in_flight = F
  BY Zenon DEF Holds
<1>2. E \subseteq Messages /\ F \subseteq Messages /\ b \in BOOLEAN
  BY Zenon DEF Holds
<1>3. PICK e : e = Restrict(r.entries, E \ S)
  BY Zenon
<1>4. PICK f : f = Restrict(r.in_flight, F \ S)
  BY Zenon
<1>5. PICK v : v = [x \in Hashes |-> IF b THEN Max({r.blocked[x] - Blocks(r, S, x), 0})
                                     ELSE r.blocked[x]]
  BY Zenon
<1>6. PICK q : q = remove_all(r, S)
  BY Zenon
<1>7. Made(q, b, e, f, v)
  <2>1. q = [r EXCEPT !.entries = e, !.in_flight = f, !.blocked = v]
    BY <1>1, <1>3, <1>4, <1>5, <1>6, Zenon DEF remove_all
  <2>. QED
    BY <1>1, <2>1, Zenon DEF Made, RcFields
<1>8. DOMAIN e = E \ S /\ \A m \in E \ S : e[m].hash = HashOf[m]
  BY <1>3, Zenon DEF Restrict, Holds
<1>9. DOMAIN f = F \ S /\ \A m \in F \ S : f[m] = HashOf[m]
  BY <1>4, Zenon DEF Restrict, Holds
<1>10. ASSUME b, NEW x \in Hashes
       PROVE  /\ v[x] = Cardinality(Keyed(E \ S, x)) + Cardinality(Keyed(F \ S, x))
              /\ v[x] \in Nat
  <2>1. Blocks(r, S, x) = Cardinality(Keyed(E \cap S, x)) + Cardinality(Keyed(F \cap S, x))
    <3>1. {m \in S \cap E : r.entries[m].hash = x} = Keyed(E \cap S, x)
      BY Zenon DEF Holds, Keyed
    <3>2. {m \in S \cap F : r.in_flight[m] = x} = Keyed(F \cap S, x)
      BY Zenon DEF Holds, Keyed
    <3>. QED
      BY <1>1, <3>1, <3>2, Zenon DEF Blocks
  <2>2. SplitAt(E, S, x) /\ SplitAt(F, S, x)
    BY <1>2, SplitKeyed, Zenon
  <2>3. /\ Cardinality(Keyed(E \ S, x)) \in Nat /\ Cardinality(Keyed(E \cap S, x)) \in Nat
        /\ Cardinality(Keyed(F \ S, x)) \in Nat /\ Cardinality(Keyed(F \cap S, x)) \in Nat
    <3>1. /\ E \ S \subseteq Messages /\ E \cap S \subseteq Messages
          /\ F \ S \subseteq Messages /\ F \cap S \subseteq Messages
      BY <1>2, Zenon
    <3>. QED
      BY <3>1, FiniteKeyed, Zenon
  <2>4. r.blocked[x] = Cardinality(Keyed(E, x)) + Cardinality(Keyed(F, x))
    BY <1>10, Zenon DEF Holds
  <2>5. r.blocked[x] - Blocks(r, S, x)
          = Cardinality(Keyed(E \ S, x)) + Cardinality(Keyed(F \ S, x))
    BY <2>1, <2>2, <2>3, <2>4 DEF SplitAt
  <2>6. PICK n : n = r.blocked[x] - Blocks(r, S, x)
    BY Zenon
  <2>7. n \in Nat
    BY <2>3, <2>5, <2>6
  <2>8. v[x] = Max({n, 0})
    BY <1>5, <1>10, <2>6, Zenon
  <2>. QED
    BY <2>5, <2>6, <2>7, <2>8, MaxZero, Zenon
<1>11. ASSUME ~b, NEW x \in Hashes
       PROVE  v[x] \in Nat
  BY <1>5, <1>11, Zenon DEF Holds
<1>12. DOMAIN v = Hashes
  BY <1>5, Zenon
<1>13. Holds(q, b, E \ S, F \ S)
  <2>1. PICK T, U : T = E \ S /\ U = F \ S
    BY Zenon
  <2>2. T \subseteq Messages /\ U \subseteq Messages
    BY <1>2, <2>1, Zenon
  <2>3. Holds(q, b, T, U)
    BY <1>2, <1>7, <1>8, <1>9, <1>10, <1>11, <1>12, <2>1, <2>2, Zenon DEF Holds, Made
  <2>. QED
    BY <2>1, <2>3, Zenon
<1>. QED
  BY <1>6, <1>13, Zenon

\* What the controller holds is what it counts.
LEMMA HoldsCounts ==
    ASSUME NEW r, NEW b, NEW E, NEW F, Holds(r, b, E, F)
    PROVE  Counted(r)
<1>1. SUFFICES ASSUME r.block_hashes, NEW x \in Hashes
               PROVE  r.blocked[x] = Blocks(r, DOMAIN r.entries \cup DOMAIN r.in_flight, x)
  BY Zenon DEF Counted
<1>2. b /\ DOMAIN r.entries = E /\ DOMAIN r.in_flight = F
  BY <1>1, Zenon DEF Holds
<1>3. {m \in (E \cup F) \cap E : r.entries[m].hash = x} = Keyed(E, x)
  BY Zenon DEF Holds, Keyed
<1>4. {m \in (E \cup F) \cap F : r.in_flight[m] = x} = Keyed(F, x)
  BY Zenon DEF Holds, Keyed
<1>5. r.blocked[x] = Cardinality(Keyed(E, x)) + Cardinality(Keyed(F, x))
  BY <1>2, Zenon DEF Holds
<1>. QED
  BY <1>2, <1>3, <1>4, <1>5, Zenon DEF Blocks

\* A hash that is not blocked has no message queued or in flight.
LEMMA UnblockedNone ==
    ASSUME NEW r, NEW E, NEW F, Holds(r, TRUE, E, F), NEW m \in E \cup F
    PROVE  is_hash_blocked(r, HashOf[m])
<1>1. E \subseteq Messages /\ F \subseteq Messages
  BY Zenon DEF Holds
<1>2. PICK x : x = HashOf[m]
  BY Zenon
<1>3. x \in Hashes
  BY <1>1, <1>2, HashKnown, Zenon
<1>4. Cardinality(Keyed(E, x)) \in Nat /\ Cardinality(Keyed(F, x)) \in Nat
  BY <1>1, FiniteKeyed, Zenon
<1>5. m \in E => Cardinality(Keyed(E, x)) > 0
  BY <1>1, <1>2, LeaveKeyed, Zenon
<1>6. m \in F => Cardinality(Keyed(F, x)) > 0
  BY <1>1, <1>2, LeaveKeyed, Zenon
<1>7. r.blocked[x] = Cardinality(Keyed(E, x)) + Cardinality(Keyed(F, x))
  BY <1>3, Zenon DEF Holds
<1>8. r.blocked[x] > 0
  BY <1>4, <1>5, <1>6, <1>7
<1>. QED
  BY <1>2, <1>8, Zenon DEF is_hash_blocked


----------------------------------------------------------------------------
(* The invariant. *)

Fields == {"pc", "write", "cons", "msg", "count", "fresh", "scan", "left", "any"}

Queue == DOMAIN rc.entries
Flight == DOMAIN rc.in_flight

Typed ==
    /\ policy \in Policies
    /\ last \in Nat /\ last <= MaxMessages /\ acked \subseteq 1..last
    /\ readPos \in Nat /\ readPos <= last + 1
    /\ connected \subseteq Consumers /\ IsFiniteSet(connected)
    /\ DOMAIN pending = Consumers /\ DOMAIN handler = Consumers
    /\ \A c \in Consumers : DOMAIN pending[c] \subseteq (1..last) \cap given
    /\ DOMAIN task = Tasks /\ \A t \in Tasks : DOMAIN task[t] = Fields

Controller ==
    /\ Holds(rc, policy.block_hashes, Queue, Flight)
    /\ Queue \subseteq 1..last /\ Flight \subseteq 1..last

\* A task s between steps: it has a message and a consumer where it needs them, and
\* remembers no message of the log anywhere else.
TaskOk(s, L, S) ==
    /\ s.pc \in {"check", "permit", "send", "refund", "commit"} => s.msg \in 1..L
    /\ s.pc \in {"permit", "send", "refund"} => s.cons \in S
    /\ s.pc \notin {"send", "refund", "commit"} => s.fresh = FALSE
    /\ s.scan \subseteq 1..L /\ (s.pc = "scan" => s.scan # {})

TasksOk == \A t \in Tasks : TaskOk(task[t], last, connected)

\* Where a message that has been read and is not acknowledged may be.
Hands == {task[t].msg : t \in {u \in Tasks : task[u].pc \in {"permit", "send"}}}
Out == UNION {DOMAIN pending[c] : c \in connected}
AckedSoon == {m \in 1..last : \E c \in connected : handler[c] = Acking(m)}
Safe == acked \cup dropped \cup Hands \cup Queue \cup Out \cup AckedSoon

\* Where one may be that a later message of its key has to wait for.
Placed == acked \cup given \cup Queue \cup Flight

\* How far a task has read: up to its message, or past it once that is sent or queued.
Passed(s) == IF s.pc = "check" \/ (s.pc = "send" /\ s.fresh) THEN s.msg - 1
             ELSE IF s.pc = "commit" \/ (s.pc = "refund" /\ s.fresh) THEN s.msg
             ELSE 0

Below(m) == m < readPos \/ \E t \in Tasks : m <= Passed(task[t])

\* Whatever the read position or a task has gone past is somewhere.
Frontier == \A m \in 1..last : Below(m) => m \in Safe /\ (policy.block_hashes => m \in Placed)

\* A message on its way from the log to its consumer has no earlier one to wait for.
Turn(s, A, G) == s.pc = "send" /\ s.fresh =>
                   \A m \in (1..(s.msg - 1)) \ A : SameKey(m, s.msg) => m \in G
Turns == policy.block_hashes => \A t \in Tasks : Turn(task[t], acked, given)

KeyInv == Typed /\ Controller /\ TasksOk /\ Frontier /\ Turns

----------------------------------------------------------------------------
(* The consumer of a hash. *)

\* A non-empty set of numbers has a least element.
LEMMA LeastOf ==
    ASSUME NEW S, S \subseteq Nat, S # {}
    PROVE  \E x \in S : \A y \in S : x <= y
<1>. DEFINE R == OpToRel(<, Nat)
<1>1. \A x, y \in Nat : y < x => <<y, x>> \in R
  BY Zenon DEF OpToRel
<1>2. IsWellFoundedOn(R, Nat)
  BY NatLessThanWellFounded, Zenon
<1>. HIDE DEF R
<1>3. PICK x \in S : \A y \in S : ~ (<<y, x>> \in R)
  BY <1>2, WFMin, Zenon
<1>4. x \in Nat /\ S \subseteq Nat
  BY Zenon
<1>5. \A y \in S : ~ (y < x)
  BY <1>1, <1>3, <1>4, Zenon
<1>6. \A y \in S : x <= y
  BY <1>4, <1>5
<1>. QED
  BY <1>6, Zenon

LEMMA MinIn ==
    ASSUME NEW S, S \subseteq Nat, S # {}
    PROVE  Min(S) \in S /\ \A y \in S : Min(S) <= y
BY LeastOf, Zenon DEF Min

Low == -2147483647 - 1

Assignment(a) == /\ a[1] \in Int /\ a[2] \in Int /\ a[3] \in Nat
                 /\ a[1] >= Low /\ a[2] >= Low

\* Assignments have a first one in their order.
LEMMA FirstIn ==
    ASSUME NEW A, A # {}, \A a \in A : Assignment(a)
    PROVE  FirstOf(A) \in A
<1>1. PICK a1 \in A : \A b \in A : a1[1] <= b[1]
  <2>1. PICK S : S = {b[1] - Low : b \in A}
    BY Zenon
  <2>2. S \subseteq Nat /\ S # {}
    BY <2>1 DEF Assignment, Low
  <2>3. PICK x \in S : \A y \in S : x <= y
    BY <2>2, LeastOf, Zenon
  <2>4. PICK a \in A : x = a[1] - Low
    BY <2>1, <2>3, Zenon
  <2>5. \A b \in A : b[1] - Low \in S
    BY <2>1, Zenon
  <2>6. \A b \in A : a[1] - Low <= b[1] - Low
    BY <2>3, <2>4, <2>5, Zenon
  <2>7. \A b \in A : a[1] <= b[1]
    BY <2>6 DEF Assignment, Low
  <2>. QED
    BY <2>7, Zenon
<1>2. PICK B : B = {b \in A : b[1] = a1[1]}
  BY Zenon
<1>3. PICK a2 \in B : \A b \in B : a2[2] <= b[2]
  <2>1. PICK S : S = {b[2] - Low : b \in B}
    BY Zenon
  <2>2. S \subseteq Nat /\ S # {}
    BY <1>2, <2>1 DEF Assignment, Low
  <2>3. PICK x \in S : \A y \in S : x <= y
    BY <2>2, LeastOf, Zenon
  <2>4. PICK a \in B : x = a[2] - Low
    BY <2>1, <2>3, Zenon
  <2>5. \A b \in B : b[2] - Low \in S
    BY <2>1, Zenon
  <2>6. \A b \in B : a[2] - Low <= b[2] - Low
    BY <2>3, <2>4, <2>5, Zenon
  <2>7. \A b \in B : a[2] <= b[2]
    BY <1>2, <2>6 DEF Assignment, Low
  <2>. QED
    BY <2>7, Zenon
<1>4. PICK C : C = {b \in B : b[2] = a2[2]}
  BY Zenon
<1>5. PICK a3 \in C : \A b \in C : a3[3] <= b[3]
  <2>1. PICK S : S = {b[3] : b \in C}
    BY Zenon
  <2>2. S \subseteq Nat /\ S # {}
    BY <1>2, <1>4, <2>1, Zenon DEF Assignment
  <2>3. PICK x \in S : \A y \in S : x <= y
    BY <2>2, LeastOf, Zenon
  <2>4. PICK a \in C : x = a[3]
    BY <2>1, <2>3, Zenon
  <2>5. \A b \in C : b[3] \in S
    BY <2>1, Zenon
  <2>6. \A b \in C : a[3] <= b[3]
    BY <2>3, <2>4, <2>5, Zenon
  <2>. QED
    BY <2>6, Zenon
<1>6. a3 \in A /\ a3[1] = a1[1] /\ a3[2] = a2[2]
  BY <1>2, <1>4, Zenon
<1>7. ASSUME NEW b \in A
      PROVE  Before(a3, b)
  <2>1. /\ a3[1] \in Int /\ a3[2] \in Int /\ a3[3] \in Nat
        /\ b[1] \in Int /\ b[2] \in Int /\ b[3] \in Nat
    BY <1>6, Zenon DEF Assignment
  <2>2. a3[1] <= b[1]
    BY <1>1, <1>6, Zenon
  <2>3. CASE a3[1] < b[1]
    BY <2>3, Zenon DEF Before
  <2>4. CASE a3[1] = b[1]
    <3>1. b \in B
      BY <1>2, <1>6, <2>4, Zenon
    <3>2. a3[2] <= b[2]
      BY <1>3, <1>6, <3>1, Zenon
    <3>3. CASE a3[2] < b[2]
      BY <2>4, <3>3, Zenon DEF Before
    <3>4. CASE a3[2] = b[2]
      <4>1. b \in C
        BY <1>4, <1>6, <3>1, <3>4, Zenon
      <4>2. a3[3] <= b[3]
        BY <1>5, <4>1, Zenon
      <4>. QED
        BY <2>4, <3>4, <4>2, Zenon DEF Before
    <3>. QED
      BY <2>1, <3>2, <3>3, <3>4
  <2>. QED
    BY <2>1, <2>2, <2>3, <2>4
<1>. QED
  BY <1>6, <1>7, Zenon DEF FirstOf

\* A share of the hash space is a natural number.
LEMMA Share ==
    ASSUME NEW i \in Nat, NEW n \in Nat \ {0}
    PROVE  (i * HashSpace) \div n \in Nat
<1>1. HashSpace \in Nat
  BY HashSpaceAssumption, Zenon
<1>2. i * HashSpace \in Nat
  BY <1>1
<1>3. ASSUME NEW a \in Nat
      PROVE  a \div n \in Nat
  OBVIOUS
<1>. QED
  BY <1>2, <1>3, Zenon

\* The assignments of connected consumers, by either policy.
LEMMA Assignments ==
    ASSUME Typed, NEW a \in active_assignments
    PROVE  Assignment(a) /\ a[3] \in connected
<1>1. connected \subseteq Nat /\ connected \subseteq Consumers /\ IsFiniteSet(connected)
  BY ConsumersAssumption, Zenon DEF Typed
<1>2. CASE a \in auto_split(connected)
  <2>1. PICK c \in connected :
          a = <<(Index(c, connected) * HashSpace) \div Cardinality(connected),
                ((Index(c, connected) + 1) * HashSpace) \div Cardinality(connected) - 1, c>>
    BY <1>2, Zenon DEF auto_split
  <2>2. Cardinality(connected) \in Nat \ {0}
    <3>1. Cardinality(connected) \in Nat /\ connected # {}
      BY <1>1, FS_CardinalityType, Zenon
    <3>2. Cardinality(connected) # 0
      BY <1>1, <3>1, FS_EmptySet, Zenon
    <3>. QED
      BY <3>1, <3>2, Zenon
  <2>3. Index(c, connected) \in Nat
    <3>1. IsFiniteSet({d \in connected : d < c})
      BY <1>1, FS_Subset, Zenon
    <3>. QED
      BY <3>1, FS_CardinalityType, Zenon DEF Index
  <2>4. PICK x, y : /\ x = (Index(c, connected) * HashSpace) \div Cardinality(connected)
                    /\ y = ((Index(c, connected) + 1) * HashSpace) \div Cardinality(connected)
    BY Zenon
  <2>5. x \in Nat /\ y \in Nat
    <3>1. Index(c, connected) + 1 \in Nat
      BY <2>3
    <3>. QED
      BY <2>2, <2>3, <2>4, <3>1, Share, Zenon
  <2>6. a[1] = x /\ a[2] = y - 1 /\ a[3] = c
    BY <2>1, <2>4, Zenon
  <2>. QED
    BY <1>1, <2>5, <2>6 DEF Assignment, Low
<1>3. CASE a \in sticky(connected)
  <2>0. PICK c \in connected : \E r \in StickyRanges[c] : a = <<r[1], r[2], c>>
    BY <1>3, Zenon DEF sticky
  <2>1. PICK r \in StickyRanges[c] : a = <<r[1], r[2], c>>
    BY <2>0, Zenon
  <2>2. IsI32(r[1]) /\ IsI32(r[2])
    BY <1>1, <2>1, RangesAssumption, ConsumersAssumption, Zenon
  <2>4. a[1] = r[1] /\ a[2] = r[2] /\ a[3] = c
    BY <2>1, Zenon
  <2>. QED
    BY <1>1, <2>2, <2>4 DEF Assignment, Low, IsI32
<1>. QED
  BY <1>2, <1>3, Zenon DEF active_assignments

\* A consumer found for a hash is connected.
LEMMA SelectedConnected ==
    ASSUME Typed, NEW h, select_consumer_for_hash(h) # Nobody
    PROVE  select_consumer_for_hash(h) \in connected
<1>1. PICK A : A = {a \in Holding(active_assignments, h) : permits[a[3]] > 0}
  BY Zenon
<1>2. select_consumer_for_hash(h) = (IF A = {} THEN Nobody ELSE FirstOf(A)[3])
  BY <1>1, Zenon DEF select_consumer_for_hash
<1>3. A # {} /\ select_consumer_for_hash(h) = FirstOf(A)[3]
  BY <1>2, Zenon
<1>4. A \subseteq active_assignments
  BY <1>1, Zenon DEF Holding
<1>5. \A a \in A : Assignment(a) /\ a[3] \in connected
  BY <1>4, Assignments, Zenon
<1>6. FirstOf(A) \in A
  BY <1>3, <1>5, FirstIn, Zenon
<1>. QED
  BY <1>3, <1>5, <1>6, Zenon


----------------------------------------------------------------------------
(* Steps of a dispatch task. *)

\* Only task t moves.
Moves(t) ==
    /\ DOMAIN task' = Tasks /\ DOMAIN task'[t] = Fields
    /\ \A u \in Tasks : u # t => task'[u] = task[u]

\* What a task step leaves alone.
taskVars == <<policy, last, acked, connected, handler, dropped>>

\* m is accounted for after the step.
Fine(m) == m \in Safe' /\ (policy.block_hashes => m \in Placed')

\* If nothing goes missing, what task t has gone past is accounted for and it is the
\* turn of what it sends, a task step keeps the invariant.
LEMMA TaskStep ==
    ASSUME KeyInv, NEW t \in Tasks, Moves(t), UNCHANGED taskVars,
           TaskOk(task'[t], last, connected),
           readPos' \in Nat, readPos' <= last + 1,
           DOMAIN pending' = Consumers,
           \A c \in Consumers : DOMAIN pending'[c] \subseteq (1..last) \cap given',
           given \subseteq given', Controller',
           Safe \subseteq Safe', policy.block_hashes => Placed \subseteq Placed',
           \A m \in 1..last : m < readPos' \/ m <= Passed(task'[t]) => Below(m) \/ Fine(m),
           policy.block_hashes => Turn(task'[t], acked, given')
    PROVE  KeyInv'
<1>1. /\ policy' = policy /\ last' = last /\ acked' = acked /\ connected' = connected
      /\ handler' = handler /\ dropped' = dropped
  BY Zenon DEF taskVars
<1>2. Typed /\ TasksOk /\ Frontier /\ Turns
  BY Zenon DEF KeyInv
<1>3. Typed'
  <2>1. \A u \in Tasks : DOMAIN task'[u] = Fields
    BY <1>2, Zenon DEF Moves, Typed
  <2>2. DOMAIN task' = Tasks
    BY Zenon DEF Moves
  <2>. QED
    BY <1>1, <1>2, <2>1, <2>2, Zenon DEF Typed
<1>4. TasksOk'
  BY <1>1, <1>2, Zenon DEF Moves, TasksOk
<1>5. Frontier'
  <2>1. SUFFICES ASSUME NEW m \in 1..last, Below(m)'
                 PROVE  Fine(m)
    BY <1>1, Zenon DEF Frontier, Fine
  <2>2. Below(m) \/ Fine(m)
    <3>1. m < readPos' \/ \E u \in Tasks : m <= Passed(task'[u])
      BY <2>1, Zenon DEF Below
    <3>2. ASSUME NEW u \in Tasks, u # t, m <= Passed(task'[u])
          PROVE  Below(m)
      BY <3>2, Zenon DEF Moves, Below
    <3>. QED
      BY <3>1, <3>2, Zenon
  <2>. QED
    BY <1>2, <2>2, Zenon DEF Frontier, Fine
<1>6. Turns'
  <2>1. SUFFICES ASSUME policy.block_hashes, NEW u \in Tasks
                 PROVE  Turn(task'[u], acked, given')
    BY <1>1, Zenon DEF Turns
  <2>2. CASE u # t
    <3>1. task'[u] = task[u] /\ Turn(task[u], acked, given)
      BY <1>2, <2>1, <2>2, Zenon DEF Moves, Turns
    <3>. QED
      BY <3>1, Zenon DEF Turn
  <2>. QED
    BY <2>1, <2>2, Zenon
<1>. QED
  BY <1>3, <1>4, <1>5, <1>6, Zenon DEF KeyInv

\* A task keeps the message in its hand, or leaves it in a safe place.
LEMMA HandsStay ==
    ASSUME NEW t \in Tasks, Moves(t),
           task[t].pc \in {"permit", "send"} =>
              task[t].msg \in Safe' \/ (/\ task'[t].pc \in {"permit", "send"}
                                        /\ task'[t].msg = task[t].msg)
    PROVE  Hands \subseteq Safe'
<1>1. SUFFICES ASSUME NEW u \in Tasks, task[u].pc \in {"permit", "send"}
               PROVE  task[u].msg \in Safe'
  BY Zenon DEF Hands
<1>2. \A v \in Tasks : task'[v].pc \in {"permit", "send"} => task'[v].msg \in Safe'
  BY Zenon DEF Hands, Safe
<1>3. CASE u # t
  <2>1. task'[u] = task[u]
    BY <1>3, Zenon DEF Moves
  <2>. QED
    BY <1>1, <1>2, <2>1, Zenon
<1>. QED
  BY <1>1, <1>2, <1>3, Zenon

\* A step of a task that touches neither the queue nor anything pending.
LEMMA QuietStep ==
    ASSUME KeyInv, NEW t \in Tasks, Moves(t), UNCHANGED taskVars, UNCHANGED <<rc, pending, given>>,
           TaskOk(task'[t], last, connected),
           readPos' \in Nat, readPos' <= last + 1,
           task[t].pc \in {"permit", "send"} => /\ task'[t].pc \in {"permit", "send"}
                                                /\ task'[t].msg = task[t].msg,
           \A m \in 1..last : m < readPos' \/ m <= Passed(task'[t]) =>
              Below(m) \/ (m \in Safe /\ (policy.block_hashes => m \in Placed)),
           policy.block_hashes => Turn(task'[t], acked, given)
    PROVE  KeyInv'
<1>1. /\ policy' = policy /\ last' = last /\ acked' = acked /\ connected' = connected
      /\ handler' = handler /\ dropped' = dropped
      /\ rc' = rc /\ pending' = pending /\ given' = given
  BY Zenon DEF taskVars
<1>2. Hands \subseteq Safe'
  BY HandsStay, Zenon
<1>3. Safe \subseteq Safe'
  <2>1. Queue' = Queue /\ Out' = Out /\ AckedSoon' = AckedSoon
    BY <1>1, Zenon DEF Queue, Out, AckedSoon
  <2>. QED
    BY <1>1, <1>2, <2>1, Zenon DEF Safe
<1>4. Placed' = Placed
  BY <1>1, Zenon DEF Placed, Queue, Flight
<1>5. Controller'
  BY <1>1, Zenon DEF KeyInv, Controller, Queue, Flight
<1>6. \A m \in 1..last : m < readPos' \/ m <= Passed(task'[t]) => Below(m) \/ Fine(m)
  BY <1>3, <1>4, Zenon DEF Fine
<1>7. /\ DOMAIN pending' = Consumers
      /\ \A c \in Consumers : DOMAIN pending'[c] \subseteq (1..last) \cap given'
      /\ given \subseteq given'
  BY <1>1, Zenon DEF KeyInv, Typed
<1>8. policy.block_hashes => Turn(task'[t], acked, given')
  BY <1>1, Zenon
<1>. QED
  BY <1>3, <1>4, <1>5, <1>6, <1>7, <1>8, TaskStep, Zenon


\* A task with nothing in hand.
Rest(s) ==
    /\ s.pc \in {"idle", "spawned", "batch", "pop", "scan", "read"} /\ s.fresh = FALSE
    /\ s.scan \subseteq 1..last /\ (s.pc = "scan" => s.scan # {})

LEMMA RestFacts ==
    ASSUME NEW s, Rest(s)
    PROVE  /\ Passed(s) = 0
           /\ \A L, S : L = last => TaskOk(s, L, S)
           /\ \A A, G : Turn(s, A, G)
<1>1. s.pc \notin {"check", "permit", "send", "refund", "commit"}
  BY Zenon DEF Rest
<1>2. Passed(s) = 0
  BY <1>1, Zenon DEF Passed
<1>3. \A L, S : L = last => TaskOk(s, L, S)
  BY <1>1, Zenon DEF TaskOk, Rest
<1>4. \A A, G : Turn(s, A, G)
  BY <1>1, Zenon DEF Turn
<1>. QED
  BY <1>2, <1>3, <1>4, Zenon

\* A step after which a task that had nothing in hand has nothing in hand.
LEMMA RestStep ==
    ASSUME KeyInv, NEW t \in Tasks, Moves(t), UNCHANGED taskVars, UNCHANGED <<rc, pending, given>>,
           Rest(task'[t]), task[t].pc \notin {"permit", "send"},
           readPos' \in Nat, readPos' <= last + 1,
           \A m \in 1..last : m < readPos' =>
              Below(m) \/ (m \in Safe /\ (policy.block_hashes => m \in Placed))
    PROVE  KeyInv'
<1>1. /\ Passed(task'[t]) = 0 /\ TaskOk(task'[t], last, connected)
      /\ Turn(task'[t], acked, given)
  BY RestFacts, Zenon
<1>2. \A m \in 1..last : ~(m <= 0)
  BY DEF KeyInv, Typed
<1>3. \A m \in 1..last : m < readPos' \/ m <= Passed(task'[t]) =>
         Below(m) \/ (m \in Safe /\ (policy.block_hashes => m \in Placed))
  BY <1>1, <1>2, Zenon
<1>. QED
  BY <1>1, <1>3, QuietStep, Zenon

\* A batch or a task that ends.
LEMMA Ends ==
    ASSUME Typed, NEW t \in Tasks, Return(t) \/ \E n : BatchEnd(t, n)
    PROVE  Moves(t) /\ Rest(task'[t])
<1>1. PICK s : /\ task' = [task EXCEPT ![t] = s]
               /\ s = IdleTask \/ \E w : s = [IdleTask EXCEPT !.pc = "batch", !.write = w]
  BY Zenon DEF Return, BatchEnd
<1>2. DOMAIN s = Fields /\ s.pc \in {"idle", "batch"} /\ s.fresh = FALSE /\ s.scan = {}
  <2>1. CASE s = IdleTask
    BY <2>1, Zenon DEF IdleTask, Fields
  <2>2. CASE \E w : s = [IdleTask EXCEPT !.pc = "batch", !.write = w]
    <3>1. PICK w : s = [IdleTask EXCEPT !.pc = "batch", !.write = w]
      BY <2>2, Zenon
    <3>. QED
      BY <3>1, Zenon DEF IdleTask, Fields
  <2>. QED
    BY <1>1, <2>1, <2>2, Zenon
<1>3. DOMAIN task' = Tasks /\ task'[t] = s /\ \A u \in Tasks : u # t => task'[u] = task[u]
  BY <1>1, Zenon DEF Typed
<1>4. Moves(t)
  BY <1>2, <1>3, Zenon DEF Moves
<1>5. Rest(s)
  BY <1>2, Zenon DEF Rest
<1>. QED
  BY <1>3, <1>4, <1>5, Zenon

\* The read position alone tells nothing new.
LEMMA ReadPosSame ==
    ASSUME KeyInv, UNCHANGED readPos
    PROVE  /\ readPos' \in Nat /\ readPos' <= last + 1
           /\ \A m \in 1..last : m < readPos' =>
                 Below(m) \/ (m \in Safe /\ (policy.block_hashes => m \in Placed))
<1>1. readPos' = readPos /\ readPos \in Nat /\ readPos <= last + 1
  BY Zenon DEF KeyInv, Typed
<1>2. \A m \in 1..last : m < readPos => Below(m)
  BY Zenon DEF Below
<1>. QED
  BY <1>1, <1>2, Zenon

LEMMA Batches ==
    ASSUME KeyInv, NEW t \in Tasks, Batch(t)
    PROVE  KeyInv'
<1>1. UNCHANGED taskVars /\ UNCHANGED <<rc, pending, given>> /\ UNCHANGED readPos
  BY Zenon DEF Batch, taskVars, logVars, histVars
<1>2. task[t].pc \in {"spawned", "batch"}
  BY Zenon DEF Batch
<1>3. Typed /\ TaskOk(task[t], last, connected)
  BY Zenon DEF KeyInv, TasksOk
<1>4. Moves(t) /\ Rest(task'[t])
  <2>1. CASE total <= 0
    <3>1. Return(t)
      BY <2>1, Zenon DEF Batch
    <3>. QED
      BY <1>3, <3>1, Ends, Zenon
  <2>2. CASE ~(total <= 0)
    <3>1. PICK n : task' = [task EXCEPT ![t].pc = "pop", ![t].left = n]
      BY <2>2, Zenon DEF Batch
    <3>2. /\ DOMAIN task' = Tasks /\ DOMAIN task'[t] = Fields
          /\ \A u \in Tasks : u # t => task'[u] = task[u]
          /\ task'[t].pc = "pop" /\ task'[t].fresh = task[t].fresh /\ task'[t].scan = task[t].scan
      BY <1>3, <3>1, Zenon DEF Typed, Fields
    <3>3. task[t].fresh = FALSE /\ task[t].scan \subseteq 1..last
      BY <1>2, <1>3, Zenon DEF TaskOk
    <3>. QED
      BY <3>2, <3>3, Zenon DEF Moves, Rest
  <2>. QED
    BY <2>1, <2>2, Zenon
<1>5. task[t].pc \notin {"permit", "send"}
  BY <1>2, Zenon
<1>. QED
  BY <1>1, <1>4, <1>5, RestStep, ReadPosSame, Zenon

LEMMA Pops ==
    ASSUME KeyInv, NEW t \in Tasks, Pop(t)
    PROVE  KeyInv'
<1>1. UNCHANGED taskVars /\ UNCHANGED <<rc, pending, given>> /\ UNCHANGED readPos
  BY Zenon DEF Pop, taskVars, logVars, histVars
<1>2. task[t].pc = "pop"
  BY Zenon DEF Pop
<1>3. Typed /\ TaskOk(task[t], last, connected) /\ Queue \subseteq 1..last
  BY Zenon DEF KeyInv, TasksOk, Controller
<1>4. Moves(t) /\ Rest(task'[t])
  <2>1. CASE task[t].left = 0
    <3>1. BatchEnd(t, total)
      BY <2>1, Zenon DEF Pop
    <3>. QED
      BY <1>3, <3>1, Ends, Zenon
  <2>2. CASE task[t].left # 0
    <3>1. PICK p : /\ task' = [task EXCEPT ![t].scan = Queue, ![t].pc = p]
                   /\ p = IF Queue = {} THEN "read" ELSE "scan"
      BY <2>2, Zenon DEF Pop, Queue, queued_message_ids
    <3>2. /\ DOMAIN task' = Tasks /\ DOMAIN task'[t] = Fields
          /\ \A u \in Tasks : u # t => task'[u] = task[u]
          /\ task'[t].pc = p /\ task'[t].fresh = task[t].fresh /\ task'[t].scan = Queue
      BY <1>3, <3>1, Zenon DEF Typed, Fields
    <3>3. task[t].fresh = FALSE
      BY <1>2, <1>3, Zenon DEF TaskOk
    <3>. QED
      BY <1>3, <3>1, <3>2, <3>3 DEF Moves, Rest
  <2>. QED
    BY <2>1, <2>2, Zenon
<1>5. task[t].pc \notin {"permit", "send"}
  BY <1>2, Zenon
<1>. QED
  BY <1>1, <1>4, <1>5, RestStep, ReadPosSame, Zenon

LEMMA Failures ==
    ASSUME KeyInv, NEW t \in Tasks, StorageError(t) \/ Unwritable(t)
    PROVE  KeyInv'
<1>1. UNCHANGED taskVars /\ UNCHANGED <<rc, pending, given>> /\ UNCHANGED readPos
  BY Zenon DEF StorageError, Unwritable, taskVars, logVars, histVars
<1>2. task[t].pc \in {"scan", "read", "check"}
  BY Zenon DEF StorageError, Unwritable
<1>3. Moves(t) /\ Rest(task'[t])
  <2>1. Return(t) \/ \E n : BatchEnd(t, n)
    BY Zenon DEF StorageError, Unwritable
  <2>. QED
    BY <2>1, Ends, Zenon DEF KeyInv
<1>5. task[t].pc \notin {"permit", "send"}
  BY <1>2, Zenon
<1>. QED
  BY <1>1, <1>3, <1>5, RestStep, ReadPosSame, Zenon


\* What is acknowledged is accounted for.
LEMMA AckedFine ==
    ASSUME NEW m \in acked
    PROVE  m \in Safe /\ m \in Placed
BY Zenon DEF Safe, Placed

LEMMA FirstUnackedIs ==
    ASSUME last \in Nat, NEW A
    PROVE  /\ FirstUnacked(A) \in Nat /\ FirstUnacked(A) <= last
           /\ FirstUnacked(A) = 0 => 1..last \subseteq A
           /\ FirstUnacked(A) # 0 => \A m \in 1..last : m < FirstUnacked(A) => m \in A
<1>1. CASE 1..last \subseteq A
  <2>1. FirstUnacked(A) = 0
    BY <1>1, Zenon DEF FirstUnacked
  <2>. QED
    BY <1>1, <2>1
<1>2. CASE ~(1..last \subseteq A)
  <2>1. PICK S : S = (1..last) \ A
    BY Zenon
  <2>2. PICK x : x = FirstUnacked(A)
    BY Zenon
  <2>3. S \subseteq Nat /\ S # {}
    BY <1>2, <2>1
  <2>4. x = Min(S)
    BY <1>2, <2>1, <2>2, Zenon DEF FirstUnacked
  <2>5. x \in S /\ \A y \in S : x <= y
    BY <2>3, <2>4, MinIn, Zenon
  <2>6. x \in 1..last
    BY <2>1, <2>5, Zenon
  <2>7. ASSUME NEW m \in 1..last, m < x
        PROVE  m \in A
    <3>1. ~(x <= m)
      BY <2>6, <2>7
    <3>. QED
      BY <2>1, <2>5, <3>1, Zenon
  <2>8. x \in Nat /\ x <= last /\ x # 0
    BY <2>6
  <2>. QED
    BY <2>2, <2>7, <2>8, Zenon
<1>. QED
  BY <1>1, <1>2, Zenon

\* Where a task has got to.
LEMMA PassedAt ==
    ASSUME KeyInv, NEW t \in Tasks, NEW m \in 1..last
    PROVE  /\ task[t].pc = "check" /\ m < task[t].msg => Below(m)
           /\ task[t].pc = "send" /\ task[t].fresh /\ m < task[t].msg => Below(m)
           /\ task[t].pc = "commit" /\ m <= task[t].msg => Below(m)
           /\ task[t].pc = "refund" /\ task[t].fresh /\ m <= task[t].msg => Below(m)
<1>1. TaskOk(task[t], last, connected) /\ last \in Nat /\ m \in Nat
  BY DEF KeyInv, Typed, TasksOk
<1>2. m <= Passed(task[t]) => Below(m)
  BY Zenon DEF Below
<1>3. task[t].pc \in {"check", "send", "commit", "refund"} => task[t].msg \in Nat
  BY <1>1 DEF TaskOk
<1>4. task[t].pc = "check" /\ m < task[t].msg => m <= Passed(task[t])
  BY <1>1, <1>3 DEF Passed
<1>5. task[t].pc = "send" /\ task[t].fresh /\ m < task[t].msg => m <= Passed(task[t])
  BY <1>1, <1>3 DEF Passed
<1>6. task[t].pc = "commit" /\ m <= task[t].msg => m <= Passed(task[t])
  BY <1>1, <1>3, Zenon DEF Passed
<1>7. task[t].pc = "refund" /\ task[t].fresh /\ m <= task[t].msg => m <= Passed(task[t])
  BY <1>1, <1>3, Zenon DEF Passed
<1>. QED
  BY <1>2, <1>4, <1>5, <1>6, <1>7, Zenon

LEMMA Commits ==
    ASSUME KeyInv, NEW t \in Tasks, Commit(t)
    PROVE  KeyInv'
<1>1. UNCHANGED taskVars /\ UNCHANGED <<rc, pending, given>>
  BY Zenon DEF Commit, taskVars, logVars, histVars
<1>2. task[t].pc = "commit" /\ readPos' = task[t].msg + 1
  BY Zenon DEF Commit
<1>3. Typed /\ TaskOk(task[t], last, connected) /\ last \in Nat
  BY Zenon DEF KeyInv, TasksOk, Typed
<1>4. task[t].msg \in 1..last /\ task[t].scan \subseteq 1..last
  BY <1>2, <1>3, Zenon DEF TaskOk
<1>5. Moves(t) /\ Rest(task'[t])
  <2>1. task' = [task EXCEPT ![t].pc = "pop", ![t].msg = 0, ![t].fresh = FALSE]
    BY Zenon DEF Commit
  <2>2. /\ DOMAIN task' = Tasks /\ DOMAIN task'[t] = Fields
        /\ \A u \in Tasks : u # t => task'[u] = task[u]
        /\ task'[t].pc = "pop" /\ task'[t].fresh = FALSE /\ task'[t].scan = task[t].scan
    BY <1>3, <2>1, Zenon DEF Typed, Fields
  <2>. QED
    BY <1>4, <2>2, Zenon DEF Moves, Rest
<1>6. readPos' \in Nat /\ readPos' <= last + 1
  BY <1>2, <1>3, <1>4
<1>7. ASSUME NEW m \in 1..last, m < readPos'
      PROVE  Below(m)
  <2>1. m <= task[t].msg
    BY <1>2, <1>3, <1>4, <1>7
  <2>. QED
    BY <1>2, <2>1, PassedAt, Zenon
<1>8. task[t].pc \notin {"permit", "send"}
  BY <1>2, Zenon
<1>. QED
  BY <1>1, <1>5, <1>6, <1>7, <1>8, RestStep, Zenon

LEMMA PassesPending ==
    ASSUME KeyInv, NEW t \in Tasks, PassPending(t)
    PROVE  KeyInv'
<1>1. UNCHANGED taskVars /\ UNCHANGED <<rc, pending, given>>
  BY Zenon DEF PassPending, taskVars, logVars, histVars
<1>2. task[t].pc = "check" /\ readPos' = task[t].msg + 1 /\ Held(task[t].msg)
  BY Zenon DEF PassPending
<1>3. Typed /\ TaskOk(task[t], last, connected) /\ last \in Nat
  BY Zenon DEF KeyInv, TasksOk, Typed
<1>4. task[t].msg \in 1..last /\ task[t].scan \subseteq 1..last /\ task[t].fresh = FALSE
  BY <1>2, <1>3, Zenon DEF TaskOk
<1>5. Moves(t) /\ Rest(task'[t])
  <2>1. task' = [task EXCEPT ![t].pc = "read", ![t].msg = 0]
    BY Zenon DEF PassPending
  <2>2. /\ DOMAIN task' = Tasks /\ DOMAIN task'[t] = Fields
        /\ \A u \in Tasks : u # t => task'[u] = task[u]
        /\ task'[t].pc = "read" /\ task'[t].fresh = task[t].fresh /\ task'[t].scan = task[t].scan
    BY <1>3, <2>1, Zenon DEF Typed, Fields
  <2>. QED
    BY <1>4, <2>2, Zenon DEF Moves, Rest
<1>6. readPos' \in Nat /\ readPos' <= last + 1
  BY <1>2, <1>3, <1>4
<1>7. task[t].msg \in Safe /\ task[t].msg \in Placed
  <2>1. PICK c \in connected : task[t].msg \in DOMAIN pending[c]
    BY <1>2, Zenon DEF Held
  <2>2. task[t].msg \in Out
    BY <2>1, Zenon DEF Out
  <2>3. task[t].msg \in given
    BY <1>3, <2>1, Zenon DEF Typed
  <2>. QED
    BY <2>2, <2>3, Zenon DEF Safe, Placed
<1>8. ASSUME NEW m \in 1..last, m < readPos'
      PROVE  Below(m) \/ m = task[t].msg
  <2>1. m < task[t].msg \/ m = task[t].msg
    BY <1>2, <1>3, <1>4, <1>8
  <2>. QED
    BY <1>2, <2>1, PassedAt, Zenon
<1>9. \A m \in 1..last : m < readPos' =>
         Below(m) \/ (m \in Safe /\ (policy.block_hashes => m \in Placed))
  BY <1>7, <1>8, Zenon
<1>10. task[t].pc \notin {"permit", "send"}
  BY <1>2, Zenon
<1>. QED
  BY <1>1, <1>5, <1>6, <1>9, <1>10, RestStep, Zenon

LEMMA Refunds ==
    ASSUME KeyInv, NEW t \in Tasks, Refund(t)
    PROVE  KeyInv'
<1>1. UNCHANGED taskVars /\ UNCHANGED <<rc, pending, given>>
  BY Zenon DEF Refund, taskVars, logVars, histVars
<1>2. /\ task[t].pc = "refund"
      /\ readPos' = (IF task[t].fresh THEN task[t].msg + 1 ELSE readPos)
      /\ BatchEnd(t, total')
  BY Zenon DEF Refund
<1>3. Typed /\ TaskOk(task[t], last, connected) /\ last \in Nat
  BY Zenon DEF KeyInv, TasksOk, Typed
<1>4. task[t].msg \in 1..last
  BY <1>2, <1>3, Zenon DEF TaskOk
<1>5. Moves(t) /\ Rest(task'[t])
  BY <1>2, <1>3, Ends, Zenon
<1>6. task[t].pc \notin {"permit", "send"}
  BY <1>2, Zenon
<1>7. CASE task[t].fresh
  <2>1. readPos' \in Nat /\ readPos' <= last + 1
    BY <1>2, <1>3, <1>4, <1>7
  <2>2. ASSUME NEW m \in 1..last, m < readPos'
        PROVE  Below(m)
    <3>1. m <= task[t].msg
      BY <1>2, <1>3, <1>4, <1>7, <2>2
    <3>. QED
      BY <1>2, <1>7, <3>1, PassedAt, Zenon
  <2>. QED
    BY <1>1, <1>5, <1>6, <2>1, <2>2, RestStep, Zenon
<1>8. CASE ~task[t].fresh
  <2>1. UNCHANGED readPos
    BY <1>2, <1>8, Zenon
  <2>. QED
    BY <1>1, <1>5, <1>6, <2>1, RestStep, ReadPosSame, Zenon
<1>. QED
  BY <1>7, <1>8, Zenon


LEMMA Reads ==
    ASSUME KeyInv, NEW t \in Tasks, Read(t)
    PROVE  KeyInv'
<1>1. UNCHANGED taskVars /\ UNCHANGED <<rc, pending, given>>
  BY Zenon DEF Read, taskVars, logVars, histVars
<1>2. PICK from : from = IF readPos = 0 THEN FirstUnacked(acked) ELSE readPos
  BY Zenon
<1>3. PICK U : U = IF from = 0 THEN {} ELSE (from..last) \ acked
  BY Zenon
<1>4. /\ task[t].pc = "read"
      /\ U = {} => readPos' = (IF from = 0 THEN 0 ELSE last + 1) /\ BatchEnd(t, total)
      /\ U # {} => /\ readPos' = Min(U)
                   /\ task' = [task EXCEPT ![t].pc = "check", ![t].msg = Min(U)]
  BY <1>2, <1>3, Zenon DEF Read
<1>5. Typed /\ TaskOk(task[t], last, connected) /\ last \in Nat /\ readPos \in Nat
  BY Zenon DEF KeyInv, TasksOk, Typed
<1>6. task[t].scan \subseteq 1..last /\ task[t].fresh = FALSE
  BY <1>4, <1>5, Zenon DEF TaskOk
<1>7. from \in Nat
  BY <1>2, <1>5, FirstUnackedIs, Zenon
<1>8. ASSUME NEW m \in 1..last, m < from
      PROVE  Below(m) \/ m \in acked
  <2>1. CASE readPos = 0
    <3>1. from = FirstUnacked(acked)
      BY <1>2, <2>1, Zenon
    <3>2. from # 0
      BY <1>7, <1>8
    <3>. QED
      BY <1>5, <1>8, <3>1, <3>2, FirstUnackedIs, Zenon
  <2>2. CASE readPos # 0
    BY <1>2, <1>8, <2>2, Zenon DEF Below
  <2>. QED
    BY <2>1, <2>2, Zenon
<1>9. \A m \in acked : m \in Safe /\ m \in Placed
  BY AckedFine, Zenon
<1>10. task[t].pc \notin {"permit", "send"}
  BY <1>4, Zenon
<1>11. CASE U = {}
  <2>1. Moves(t) /\ Rest(task'[t])
    BY <1>4, <1>5, <1>11, Ends, Zenon
  <2>2. readPos' \in Nat /\ readPos' <= last + 1
    BY <1>4, <1>5, <1>11
  <2>3. ASSUME NEW m \in 1..last, m < readPos'
        PROVE  Below(m) \/ m \in acked
    <3>1. from # 0
      BY <1>4, <1>11, <2>3
    <3>2. (from..last) \subseteq acked
      BY <1>3, <1>11, <3>1, Zenon
    <3>3. m < from \/ m \in from..last
      BY <1>5, <1>7
    <3>. QED
      BY <1>8, <3>2, <3>3, Zenon
  <2>4. \A m \in 1..last : m < readPos' =>
           Below(m) \/ (m \in Safe /\ (policy.block_hashes => m \in Placed))
    BY <1>9, <2>3, Zenon
  <2>. QED
    BY <1>1, <1>10, <2>1, <2>2, <2>4, RestStep, Zenon
<1>12. CASE U # {}
  <2>1. from # 0 /\ U = (from..last) \ acked
    BY <1>3, <1>12, Zenon
  <2>2. U \subseteq Nat /\ U \subseteq from..last
    BY <1>7, <2>1
  <2>3. PICK x : x = Min(U)
    BY Zenon
  <2>4. x \in U /\ \A y \in U : x <= y
    BY <1>12, <2>2, <2>3, MinIn, Zenon
  <2>5. x \in from..last /\ x \in 1..last /\ readPos' = x
    BY <1>4, <1>7, <1>12, <2>1, <2>2, <2>3, <2>4
  <2>6. task' = [task EXCEPT ![t].pc = "check", ![t].msg = x]
    BY <1>4, <1>12, <2>3, Zenon
  <2>7. /\ DOMAIN task' = Tasks /\ DOMAIN task'[t] = Fields
        /\ \A u \in Tasks : u # t => task'[u] = task[u]
        /\ task'[t].pc = "check" /\ task'[t].msg = x
        /\ task'[t].fresh = task[t].fresh /\ task'[t].scan = task[t].scan
    BY <1>5, <2>6, Zenon DEF Typed, Fields
  <2>8. Moves(t)
    BY <2>7, Zenon DEF Moves
  <2>9. TaskOk(task'[t], last, connected)
    BY <1>6, <2>5, <2>7, Zenon DEF TaskOk
  <2>10. Turn(task'[t], acked, given)
    BY <2>7, Zenon DEF Turn
  <2>11. Passed(task'[t]) = x - 1
    BY <2>7, Zenon DEF Passed
  <2>12. ASSUME NEW m \in 1..last, m < readPos' \/ m <= Passed(task'[t])
         PROVE  Below(m) \/ m \in acked
    <3>1. m < x
      BY <1>5, <2>5, <2>11, <2>12
    <3>2. m < from \/ m \in from..last
      BY <1>5, <1>7
    <3>3. m \notin U
      <4>1. ~(x <= m)
        BY <1>5, <2>5, <3>1
      <4>. QED
        BY <2>4, <4>1, Zenon
    <3>. QED
      BY <1>8, <2>1, <3>2, <3>3, Zenon
  <2>13. \A m \in 1..last : m < readPos' \/ m <= Passed(task'[t]) =>
            Below(m) \/ (m \in Safe /\ (policy.block_hashes => m \in Placed))
    BY <1>9, <2>12, Zenon
  <2>14. readPos' \in Nat /\ readPos' <= last + 1
    BY <1>5, <2>5
  <2>. QED
    BY <1>1, <1>10, <2>8, <2>9, <2>10, <2>13, <2>14, QuietStep, Zenon
<1>. QED
  BY <1>11, <1>12, Zenon

LEMMA Routes ==
    ASSUME KeyInv, NEW t \in Tasks, Route(t)
    PROVE  KeyInv'
<1>1. UNCHANGED taskVars /\ UNCHANGED <<rc, pending, given>> /\ UNCHANGED readPos
  BY Zenon DEF Route, taskVars, logVars, histVars
<1>2. PICK m, c : m = task[t].msg /\ c = select_consumer_for_hash(HashOf[m])
  BY Zenon
<1>3. /\ task[t].pc = "check" /\ ~Blocked(m)
      /\ c = Nobody => BatchEnd(t, total)
      /\ c # Nobody => \E n : task' = [task EXCEPT ![t].pc = "send", ![t].cons = c,
                                           ![t].fresh = TRUE, ![t].count = 0, ![t].left = n]
  BY <1>2, Zenon DEF Route
<1>4. Typed /\ TaskOk(task[t], last, connected) /\ last \in Nat
  BY Zenon DEF KeyInv, TasksOk, Typed
<1>5. m \in 1..last /\ task[t].scan \subseteq 1..last
  BY <1>2, <1>3, <1>4, Zenon DEF TaskOk
<1>6. task[t].pc \notin {"permit", "send"}
  BY <1>3, Zenon
<1>7. CASE c = Nobody
  <2>1. Moves(t) /\ Rest(task'[t])
    BY <1>3, <1>4, <1>7, Ends, Zenon
  <2>. QED
    BY <1>1, <1>6, <2>1, RestStep, ReadPosSame, Zenon
<1>8. CASE c # Nobody
  <2>1. c \in connected
    BY <1>2, <1>4, <1>8, SelectedConnected, Zenon
  <2>2. PICK n : task' = [task EXCEPT ![t].pc = "send", ![t].cons = c, ![t].fresh = TRUE,
                              ![t].count = 0, ![t].left = n]
    BY <1>3, <1>8, Zenon
  <2>3. /\ DOMAIN task' = Tasks /\ DOMAIN task'[t] = Fields
        /\ \A u \in Tasks : u # t => task'[u] = task[u]
        /\ task'[t].pc = "send" /\ task'[t].msg = m /\ task'[t].cons = c
        /\ task'[t].fresh = TRUE /\ task'[t].scan = task[t].scan
    BY <1>2, <1>4, <2>2 DEF Typed, Fields
  <2>4. Moves(t)
    BY <2>3, Zenon DEF Moves
  <2>5. TaskOk(task'[t], last, connected)
    BY <1>5, <2>1, <2>3, Zenon DEF TaskOk
  <2>6. Passed(task'[t]) = m - 1
    BY <2>3, Zenon DEF Passed
  <2>7. ASSUME NEW x \in 1..last, x <= m - 1
        PROVE  Below(x)
    <3>1. x < m
      BY <1>4, <1>5, <2>7
    <3>. QED
      BY <1>2, <1>3, <3>1, PassedAt, Zenon
  <2>8. ASSUME policy.block_hashes
        PROVE  Turn(task'[t], acked, given)
    <3>1. SUFFICES ASSUME NEW x \in (1..(m - 1)) \ acked, SameKey(x, m)
                   PROVE  x \in given
      BY <2>3, Zenon DEF Turn
    <3>2. x \in 1..last /\ x <= m - 1
      BY <1>4, <1>5
    <3>3. x \in Placed
      BY <2>7, <2>8, <3>2, Zenon DEF KeyInv, Frontier
    <3>4. ASSUME x \in Queue \cup Flight
          PROVE  FALSE
      <4>1. Holds(rc, TRUE, Queue, Flight)
        BY <2>8, Zenon DEF KeyInv, Controller, Holds
      <4>2. is_hash_blocked(rc, HashOf[x])
        BY <3>4, <4>1, UnblockedNone, Zenon
      <4>. QED
        BY <1>3, <3>1, <4>2, Zenon DEF Blocked, SameKey
    <3>. QED
      BY <3>3, <3>4, Zenon DEF Placed
  <2>. QED
    BY <1>1, <1>6, <2>4, <2>5, <2>6, <2>7, <2>8, QuietStep, ReadPosSame, Zenon
<1>. QED
  BY <1>7, <1>8, Zenon


\* What the controller holds after a step.
LEMMA ControllerNext ==
    ASSUME NEW E, NEW F, Holds(rc', policy.block_hashes, E, F), UNCHANGED <<policy, last>>,
           E \subseteq 1..last, F \subseteq 1..last
    PROVE  Queue' = E /\ Flight' = F /\ Controller'
<1>1. policy' = policy /\ last' = last
  BY Zenon
<1>2. Queue' = E /\ Flight' = F
  BY Zenon DEF Holds, Queue, Flight
<1>. QED
  BY <1>1, <1>2, Zenon DEF Controller

\* A step of a task that moves messages between the queue, its hand and flight.
LEMMA QueueStep ==
    ASSUME KeyInv, NEW t \in Tasks, Moves(t), UNCHANGED taskVars, UNCHANGED <<pending, given>>,
           NEW E, NEW F, Holds(rc', policy.block_hashes, E, F),
           E \subseteq 1..last, F \subseteq 1..last,
           TaskOk(task'[t], last, connected),
           readPos' \in Nat, readPos' <= last + 1,
           Queue \subseteq E \cup acked \cup Hands',
           policy.block_hashes => Queue \cup Flight \subseteq E \cup F \cup acked,
           task[t].pc \in {"permit", "send"} => task[t].msg \in E,
           \A m \in 1..last : m < readPos' \/ m <= Passed(task'[t]) => Below(m) \/ m \in E,
           policy.block_hashes => Turn(task'[t], acked, given)
    PROVE  KeyInv'
<1>1. /\ policy' = policy /\ last' = last /\ acked' = acked /\ connected' = connected
      /\ handler' = handler /\ dropped' = dropped
      /\ pending' = pending /\ given' = given
  BY Zenon DEF taskVars
<1>2. Queue' = E /\ Flight' = F /\ Controller'
  BY <1>1, ControllerNext, Zenon
<1>3. E \subseteq Safe' /\ E \subseteq Placed' /\ F \subseteq Placed'
  BY <1>2, Zenon DEF Safe, Placed
<1>4. acked \subseteq Safe' /\ acked \subseteq Placed' /\ Hands' \subseteq Safe'
  BY <1>1, Zenon DEF Safe, Placed
<1>5. Hands \subseteq Safe'
  BY <1>3, HandsStay, Zenon
<1>6. Safe \subseteq Safe'
  <2>1. Out' = Out /\ AckedSoon' = AckedSoon
    BY <1>1, Zenon DEF Out, AckedSoon
  <2>2. Queue \subseteq Safe'
    BY <1>3, <1>4, Zenon
  <2>. QED
    BY <1>1, <1>5, <2>1, <2>2, Zenon DEF Safe
<1>7. policy.block_hashes => Placed \subseteq Placed'
  <2>1. given \subseteq Placed'
    BY <1>1, Zenon DEF Placed
  <2>2. policy.block_hashes => Queue \cup Flight \subseteq Placed'
    BY <1>3, <1>4, Zenon
  <2>. QED
    BY <1>4, <2>1, <2>2, Zenon DEF Placed
<1>8. \A m \in 1..last : m < readPos' \/ m <= Passed(task'[t]) => Below(m) \/ Fine(m)
  BY <1>3, Zenon DEF Fine
<1>9. /\ DOMAIN pending' = Consumers
      /\ \A c \in Consumers : DOMAIN pending'[c] \subseteq (1..last) \cap given'
      /\ given \subseteq given'
  BY <1>1, Zenon DEF KeyInv, Typed
<1>10. policy.block_hashes => Turn(task'[t], acked, given')
  BY <1>1, Zenon
<1>. QED
  BY <1>2, <1>6, <1>7, <1>8, <1>9, <1>10, TaskStep, Zenon

\* The controller before a step.
LEMMA ControllerNow ==
    ASSUME KeyInv
    PROVE  /\ Holds(rc, policy.block_hashes, Queue, Flight)
           /\ Queue \subseteq 1..last /\ Flight \subseteq 1..last
           /\ 1..last \subseteq Messages
<1>1. 1..last \subseteq Messages
  BY MessagesAssumption DEF KeyInv, Typed, Messages
<1>. QED
  BY <1>1, Zenon DEF KeyInv, Controller

LEMMA Permits ==
    ASSUME KeyInv, NEW t \in Tasks, PermitQueued(t)
    PROVE  KeyInv'
<1>1. UNCHANGED taskVars /\ UNCHANGED <<pending, given>> /\ UNCHANGED readPos
  BY Zenon DEF PermitQueued, taskVars, logVars, histVars
<1>2. PICK m, k : m = task[t].msg /\ k = task[t].count
  BY Zenon
<1>3. /\ task[t].pc = "permit"
      /\ \/ /\ \E n : task' = [task EXCEPT ![t].pc = "send", ![t].left = n]
            /\ UNCHANGED rc
         \/ rc' = restore(rc, m, k, HashOf[m]) /\ BatchEnd(t, total)
  BY <1>2, Zenon DEF PermitQueued
<1>4. Typed /\ TaskOk(task[t], last, connected) /\ last \in Nat
  BY Zenon DEF KeyInv, TasksOk, Typed
<1>5. m \in 1..last /\ task[t].scan \subseteq 1..last /\ task[t].fresh = FALSE
      /\ task[t].cons \in connected
  BY <1>2, <1>3, <1>4, Zenon DEF TaskOk
<1>6. \A x \in 1..last : ~(x <= 0)
  OBVIOUS
<1>7. CASE \E n : task' = [task EXCEPT ![t].pc = "send", ![t].left = n] /\ UNCHANGED rc
  <2>1. PICK n : task' = [task EXCEPT ![t].pc = "send", ![t].left = n]
    BY <1>7, Zenon
  <2>2. /\ DOMAIN task' = Tasks /\ DOMAIN task'[t] = Fields
        /\ \A u \in Tasks : u # t => task'[u] = task[u]
        /\ task'[t].pc = "send" /\ task'[t].msg = task[t].msg /\ task'[t].cons = task[t].cons
        /\ task'[t].fresh = task[t].fresh /\ task'[t].scan = task[t].scan
    BY <1>4, <2>1, Zenon DEF Typed, Fields
  <2>3. Moves(t)
    BY <2>2, Zenon DEF Moves
  <2>4. TaskOk(task'[t], last, connected)
    BY <1>2, <1>5, <2>2, Zenon DEF TaskOk
  <2>5. Passed(task'[t]) = 0
    BY <1>5, <2>2, Zenon DEF Passed
  <2>6. Turn(task'[t], acked, given)
    BY <1>5, <2>2, Zenon DEF Turn
  <2>7. UNCHANGED <<rc, pending, given>>
    BY <1>1, <1>7, Zenon
  <2>8. task'[t].pc \in {"permit", "send"}
    BY <2>2, Zenon
  <2>. QED
    BY <1>1, <1>6, <2>2, <2>3, <2>4, <2>5, <2>6, <2>7, <2>8, QuietStep, ReadPosSame, Zenon
<1>8. CASE rc' = restore(rc, m, k, HashOf[m]) /\ BatchEnd(t, total)
  <2>1. Moves(t) /\ Rest(task'[t])
    BY <1>4, <1>8, Ends, Zenon
  <2>2. /\ Passed(task'[t]) = 0 /\ TaskOk(task'[t], last, connected)
        /\ Turn(task'[t], acked, given)
    BY <2>1, RestFacts, Zenon
  <2>3. PICK E, F : E = Queue \cup {m} /\ F = Flight \ {m}
    BY Zenon
  <2>4. Holds(rc', policy.block_hashes, E, F)
    BY <1>5, <1>8, <2>3, ControllerNow, Restores, Zenon
  <2>5. E \subseteq 1..last /\ F \subseteq 1..last
    BY <1>5, <2>3, ControllerNow, Zenon
  <2>6. Queue \subseteq E \cup acked \cup Hands' /\ Queue \cup Flight \subseteq E \cup F \cup acked
    BY <2>3, Zenon
  <2>7. task[t].msg \in E
    BY <1>2, <2>3, Zenon
  <2>8. \A x \in 1..last : x < readPos' => Below(x)
    BY <1>1, Zenon DEF Below
  <2>9. readPos' \in Nat /\ readPos' <= last + 1
    BY <1>1, ReadPosSame, Zenon
  <2>. QED
    BY <1>1, <1>6, <2>1, <2>2, <2>4, <2>5, <2>6, <2>7, <2>8, <2>9, QueueStep, Zenon
<1>. QED
  BY <1>3, <1>7, <1>8, Zenon

LEMMA SetsAside ==
    ASSUME KeyInv, NEW t \in Tasks, SetAside(t)
    PROVE  KeyInv'
<1>1. UNCHANGED taskVars /\ UNCHANGED <<pending, given>>
  BY Zenon DEF SetAside, taskVars, logVars, histVars
<1>2. PICK m : m = task[t].msg
  BY Zenon
<1>3. /\ task[t].pc = "check" /\ rc' = add(rc, m, 0, HashOf[m]) /\ readPos' = m + 1
      /\ task' = [task EXCEPT ![t].pc = "pop", ![t].msg = 0, ![t].any = TRUE]
  BY <1>2, Zenon DEF SetAside
<1>4. Typed /\ TaskOk(task[t], last, connected) /\ last \in Nat
  BY Zenon DEF KeyInv, TasksOk, Typed
<1>5. m \in 1..last /\ task[t].scan \subseteq 1..last /\ task[t].fresh = FALSE
  BY <1>2, <1>3, <1>4, Zenon DEF TaskOk
<1>6. Moves(t) /\ Rest(task'[t])
  <2>1. /\ DOMAIN task' = Tasks /\ DOMAIN task'[t] = Fields
        /\ \A u \in Tasks : u # t => task'[u] = task[u]
        /\ task'[t].pc = "pop" /\ task'[t].fresh = task[t].fresh /\ task'[t].scan = task[t].scan
    BY <1>3, <1>4, Zenon DEF Typed, Fields
  <2>. QED
    BY <1>5, <2>1, Zenon DEF Moves, Rest
<1>7. /\ Passed(task'[t]) = 0 /\ TaskOk(task'[t], last, connected)
      /\ Turn(task'[t], acked, given)
  BY <1>6, RestFacts, Zenon
<1>8. PICK E : E = Queue \cup {m}
  BY Zenon
<1>9. Holds(rc', policy.block_hashes, E, Flight)
  BY <1>3, <1>5, <1>8, ControllerNow, Adds, Zenon
<1>10. E \subseteq 1..last /\ Flight \subseteq 1..last
  BY <1>5, <1>8, ControllerNow, Zenon
<1>11. Queue \subseteq E \cup acked \cup Hands' /\ Queue \cup Flight \subseteq E \cup Flight \cup acked
  BY <1>8, Zenon
<1>12. readPos' \in Nat /\ readPos' <= last + 1
  BY <1>3, <1>4, <1>5
<1>13. ASSUME NEW x \in 1..last, x < readPos' \/ x <= Passed(task'[t])
       PROVE  Below(x) \/ x \in E
  <2>1. x < m \/ x = m
    BY <1>3, <1>4, <1>5, <1>7, <1>13
  <2>2. CASE x < m
    BY <1>2, <1>3, <2>2, PassedAt, Zenon
  <2>3. CASE x = m
    BY <1>8, <2>3, Zenon
  <2>. QED
    BY <2>1, <2>2, <2>3, Zenon
<1>14. task[t].pc \notin {"permit", "send"}
  BY <1>3, Zenon
<1>. QED
  BY <1>1, <1>6, <1>7, <1>9, <1>10, <1>11, <1>12, <1>13, <1>14, QueueStep, Zenon


LEMMA Scans ==
    ASSUME KeyInv, NEW t \in Tasks, Scan(t)
    PROVE  KeyInv'
<1>1. UNCHANGED taskVars /\ UNCHANGED <<pending, given>> /\ UNCHANGED readPos
  BY Zenon DEF Scan, taskVars, logVars, histVars
<1>2. PICK m, rest : m = Min(task[t].scan) /\ rest = task[t].scan \ {m}
  BY Zenon
<1>. DEFINE over == task' = [task EXCEPT ![t].scan = rest,
                                 ![t].pc = IF rest = {} THEN "read" ELSE "scan"]
<1>4. /\ task[t].pc = "scan"
      /\ \/ m \in acked /\ rc' = remove(rc, m) /\ over
         \/ /\ CanTake(m) /\ m \in Queue /\ rc' = take_for_delivery_with_hash(rc, m, HashOf[m])
            /\ task' = [task EXCEPT ![t].pc = "permit", ![t].scan = {}, ![t].msg = m,
                            ![t].count = rc.entries[m].count,
                            ![t].cons = select_consumer_for_hash(HashOf[m])]
         \/ UNCHANGED rc /\ over
  BY <1>2, Zenon DEF Scan, Queue, queued_message_ids
<1>5. Typed /\ TaskOk(task[t], last, connected) /\ last \in Nat
  BY Zenon DEF KeyInv, TasksOk, Typed
<1>6. task[t].scan \subseteq 1..last /\ task[t].scan # {} /\ task[t].fresh = FALSE
  BY <1>4, <1>5, Zenon DEF TaskOk
<1>7. m \in 1..last /\ rest \subseteq 1..last
  <2>1. task[t].scan \subseteq Nat
    BY <1>6
  <2>2. m \in task[t].scan
    BY <1>2, <1>6, <2>1, MinIn, Zenon
  <2>. QED
    BY <1>2, <1>6, <2>2, Zenon
<1>8. ASSUME over
      PROVE  Moves(t) /\ Rest(task'[t])
  <2>1. PICK p : /\ task' = [task EXCEPT ![t].scan = rest, ![t].pc = p]
                 /\ p = IF rest = {} THEN "read" ELSE "scan"
    BY <1>8, Zenon
  <2>2. /\ DOMAIN task' = Tasks /\ DOMAIN task'[t] = Fields
        /\ \A u \in Tasks : u # t => task'[u] = task[u]
        /\ task'[t].pc = p /\ task'[t].fresh = task[t].fresh /\ task'[t].scan = rest
    BY <1>5, <2>1, Zenon DEF Typed, Fields
  <2>. QED
    BY <1>6, <1>7, <2>1, <2>2 DEF Moves, Rest
<1>9. task[t].pc \notin {"permit", "send"}
  BY <1>4, Zenon
<1>10. \A x \in 1..last : ~(x <= 0)
  BY <1>5
<1>11. \A x \in 1..last : x < readPos' => Below(x)
  BY <1>1, Zenon DEF Below
<1>12. readPos' \in Nat /\ readPos' <= last + 1
  BY <1>1, ReadPosSame, Zenon
<1>. HIDE DEF over
<1>13. CASE m \in acked /\ rc' = remove(rc, m) /\ over
  <2>1. Moves(t) /\ Rest(task'[t])
    BY <1>8, <1>13, Zenon
  <2>2. /\ Passed(task'[t]) = 0 /\ TaskOk(task'[t], last, connected)
        /\ Turn(task'[t], acked, given)
    BY <2>1, RestFacts, Zenon
  <2>3. PICK E, F : E = Queue \ {m} /\ F = Flight \ {m}
    BY Zenon
  <2>4. Holds(rc', policy.block_hashes, E, F)
    BY <1>13, <2>3, ControllerNow, Removes, Zenon
  <2>5. E \subseteq 1..last /\ F \subseteq 1..last
    BY <2>3, ControllerNow, Zenon
  <2>6. Queue \subseteq E \cup acked \cup Hands' /\ Queue \cup Flight \subseteq E \cup F \cup acked
    BY <1>13, <2>3, Zenon
  <2>. QED
    BY <1>1, <1>9, <1>10, <1>11, <1>12, <2>1, <2>2, <2>4, <2>5, <2>6, QueueStep, Zenon
<1>14. CASE /\ CanTake(m) /\ m \in Queue /\ rc' = take_for_delivery_with_hash(rc, m, HashOf[m])
            /\ task' = [task EXCEPT ![t].pc = "permit", ![t].scan = {}, ![t].msg = m,
                            ![t].count = rc.entries[m].count,
                            ![t].cons = select_consumer_for_hash(HashOf[m])]
  <2>1. PICK c, k : c = select_consumer_for_hash(HashOf[m]) /\ k = rc.entries[m].count
    BY Zenon
  <2>2. c \in connected
    BY <1>5, <1>14, <2>1, SelectedConnected, Zenon DEF CanTake
  <2>3. task' = [task EXCEPT ![t].pc = "permit", ![t].scan = {}, ![t].msg = m,
                     ![t].count = k, ![t].cons = c]
    BY <1>14, <2>1, Zenon
  <2>4. /\ DOMAIN task' = Tasks /\ DOMAIN task'[t] = Fields
        /\ \A u \in Tasks : u # t => task'[u] = task[u]
        /\ task'[t].pc = "permit" /\ task'[t].msg = m /\ task'[t].cons = c
        /\ task'[t].fresh = task[t].fresh /\ task'[t].scan = {}
    BY <1>5, <2>3 DEF Typed, Fields
  <2>5. Moves(t)
    BY <2>4, Zenon DEF Moves
  <2>6. TaskOk(task'[t], last, connected)
    BY <1>6, <1>7, <2>2, <2>4, Zenon DEF TaskOk
  <2>7. Passed(task'[t]) = 0 /\ Turn(task'[t], acked, given)
    BY <2>4, Zenon DEF Passed, Turn
  <2>8. m \notin Flight
    <3>1. \A x \in Flight : rc.in_flight[x] = HashOf[x]
      BY ControllerNow, Zenon DEF Holds
    <3>. QED
      BY <1>14, <3>1, Zenon DEF CanTake, has_in_flight_hash, Flight
  <2>9. PICK E, F : E = Queue \ {m} /\ F = IF policy.block_hashes THEN Flight \cup {m} ELSE Flight
    BY Zenon
  <2>10. Holds(rc', policy.block_hashes, E, F)
    BY <1>14, <2>8, <2>9, ControllerNow, Takes, Zenon
  <2>11. E \subseteq 1..last /\ F \subseteq 1..last
    BY <1>7, <2>9, ControllerNow, Zenon
  <2>12. m \in Hands'
    <3>1. task'[t].pc \in {"permit", "send"} /\ task'[t].msg = m
      BY <2>4, Zenon
    <3>. QED
      BY <3>1, Zenon DEF Hands
  <2>13. /\ Queue \subseteq E \cup acked \cup Hands'
         /\ policy.block_hashes => Queue \cup Flight \subseteq E \cup F \cup acked
    BY <2>9, <2>12, Zenon
  <2>. QED
    BY <1>1, <1>9, <1>10, <1>11, <1>12, <2>5, <2>6, <2>7, <2>10, <2>11, <2>13, QueueStep, Zenon
<1>15. CASE UNCHANGED rc /\ over
  <2>1. Moves(t) /\ Rest(task'[t])
    BY <1>8, <1>15, Zenon
  <2>2. UNCHANGED <<rc, pending, given>>
    BY <1>1, <1>15, Zenon
  <2>. QED
    BY <1>1, <1>9, <2>1, <2>2, RestStep, ReadPosSame, Zenon
<1>. QED
  BY <1>4, <1>13, <1>14, <1>15, Zenon

LEMMA Sends ==
    ASSUME KeyInv, NEW t \in Tasks, Send(t)
    PROVE  KeyInv'
<1>1. UNCHANGED taskVars /\ UNCHANGED rc /\ UNCHANGED readPos
  BY Zenon DEF Send, taskVars, logVars
<1>2. PICK m, c, k : m = task[t].msg /\ c = task[t].cons /\ k = task[t].count
  BY Zenon
<1>3. PICK p, n : /\ p = IF task[t].fresh THEN "commit" ELSE "read"
                  /\ n = IF task[t].fresh THEN task[t].msg ELSE 0
  BY Zenon
<1>4. /\ task[t].pc = "send" /\ given' = given \cup {m}
      /\ pending' = [pending EXCEPT ![c] = With(@, m, k)]
      /\ task' = [task EXCEPT ![t].pc = p, ![t].any = TRUE, ![t].cons = Nobody,
                      ![t].count = 0, ![t].msg = n]
  BY <1>2, <1>3, Zenon DEF Send
<1>5. Typed /\ TaskOk(task[t], last, connected) /\ last \in Nat /\ connected \subseteq Consumers
  BY Zenon DEF KeyInv, TasksOk, Typed
<1>6. m \in 1..last /\ c \in connected /\ task[t].scan \subseteq 1..last
  BY <1>2, <1>4, <1>5, Zenon DEF TaskOk
<1>7. /\ DOMAIN task' = Tasks /\ DOMAIN task'[t] = Fields
      /\ \A u \in Tasks : u # t => task'[u] = task[u]
      /\ task'[t].pc = p /\ task'[t].msg = n
      /\ task'[t].fresh = task[t].fresh /\ task'[t].scan = task[t].scan
  BY <1>4, <1>5 DEF Typed, Fields
<1>8. Moves(t)
  BY <1>7, Zenon DEF Moves
<1>9. TaskOk(task'[t], last, connected)
  <2>1. CASE task[t].fresh
    BY <1>2, <1>3, <1>6, <1>7, <2>1 DEF TaskOk
  <2>2. CASE ~task[t].fresh
    <3>1. task[t].fresh = FALSE \/ task[t].pc \in {"send", "refund", "commit"}
      BY <1>4, Zenon
    <3>2. p = "read"
      BY <1>3, <2>2, Zenon
    <3>. QED
      BY <1>6, <1>7, <2>2, <3>2 DEF TaskOk
  <2>. QED
    BY <2>1, <2>2, Zenon
<1>10. DOMAIN pending' = Consumers
  BY <1>4, <1>5, Zenon DEF Typed
<1>11. /\ DOMAIN pending'[c] = DOMAIN pending[c] \cup {m}
       /\ \A d \in Consumers : d # c => pending'[d] = pending[d]
  <2>1. c \in Consumers /\ DOMAIN pending = Consumers
    BY <1>5, <1>6, Zenon DEF Typed
  <2>2. pending'[c] = With(pending[c], m, k) /\ \A d \in Consumers : d # c => pending'[d] = pending[d]
    BY <1>4, <2>1, Zenon
  <2>. QED
    BY <2>2, Zenon DEF With
<1>12. \A d \in Consumers : DOMAIN pending'[d] \subseteq (1..last) \cap given'
  <2>1. \A d \in Consumers : DOMAIN pending[d] \subseteq (1..last) \cap given
    BY <1>5, Zenon DEF Typed
  <2>. QED
    BY <1>4, <1>6, <1>11, <2>1, Zenon
<1>13. Out \subseteq Out' /\ m \in Out'
  <2>1. connected' = connected
    BY <1>1, Zenon DEF taskVars
  <2>. QED
    BY <1>5, <1>6, <1>11, <2>1, Zenon DEF Out
<1>14. /\ Out' \subseteq Safe' /\ given' \subseteq Placed'
  BY Zenon DEF Safe, Placed
<1>15. Hands \subseteq Safe'
  BY <1>2, <1>8, <1>13, <1>14, HandsStay, Zenon
<1>16. Safe \subseteq Safe'
  <2>1. Queue' = Queue /\ AckedSoon' = AckedSoon /\ acked' = acked /\ dropped' = dropped
    BY <1>1, Zenon DEF Queue, AckedSoon, taskVars
  <2>. QED
    BY <1>13, <1>15, <2>1, Zenon DEF Safe
<1>17. Placed \subseteq Placed' /\ given \subseteq given'
  <2>1. Queue' = Queue /\ Flight' = Flight /\ acked' = acked
    BY <1>1, Zenon DEF Queue, Flight, taskVars
  <2>. QED
    BY <1>4, <2>1, Zenon DEF Placed
<1>18. Controller'
  BY <1>1, Zenon DEF KeyInv, Controller, Queue, Flight, taskVars
<1>19. ASSUME NEW x \in 1..last, x < readPos' \/ x <= Passed(task'[t])
       PROVE  Below(x) \/ Fine(x)
  <2>1. CASE x < readPos'
    BY <1>1, <2>1, Zenon DEF Below
  <2>2. CASE x <= Passed(task'[t]) /\ task[t].fresh
    <3>1. Passed(task'[t]) = m
      BY <1>2, <1>3, <1>7, <2>2, Zenon DEF Passed
    <3>2. x < m \/ x = m
      BY <1>5, <1>6, <2>2, <3>1
    <3>3. CASE x < m
      BY <1>2, <1>4, <2>2, <3>3, PassedAt, Zenon
    <3>4. CASE x = m
      <4>1. m \in Safe' /\ m \in Placed'
        BY <1>4, <1>13, <1>14, Zenon
      <4>. QED
        BY <3>4, <4>1, Zenon DEF Fine
    <3>. QED
      BY <3>2, <3>3, <3>4, Zenon
  <2>3. CASE x <= Passed(task'[t]) /\ ~task[t].fresh
    <3>1. Passed(task'[t]) = 0
      BY <1>3, <1>7, <2>3, Zenon DEF Passed
    <3>. QED
      BY <1>5, <2>3, <3>1
  <2>. QED
    BY <1>19, <2>1, <2>2, <2>3, Zenon
<1>20. Turn(task'[t], acked, given')
  BY <1>3, <1>7, Zenon DEF Turn
<1>21. readPos' \in Nat /\ readPos' <= last + 1
  BY <1>1, ReadPosSame, Zenon
<1>. QED
  BY <1>1, <1>8, <1>9, <1>10, <1>12, <1>16, <1>17, <1>18, <1>19, <1>20, <1>21, TaskStep, Zenon


LEMMA Refusals ==
    ASSUME KeyInv, NEW t \in Tasks, SendRefused(t)
    PROVE  KeyInv'
<1>1. UNCHANGED taskVars /\ UNCHANGED given /\ UNCHANGED readPos
  BY Zenon DEF SendRefused, taskVars, logVars, histVars
<1>2. PICK m, c, k : m = task[t].msg /\ c = task[t].cons /\ k = task[t].count + 1
  BY Zenon
<1>3. /\ task[t].pc = "send" /\ rc' = restore(rc, m, k, HashOf[m])
      /\ pending' = pending \/ pending' = [pending EXCEPT ![c] = Without(@, m)]
      /\ task' = [task EXCEPT ![t].pc = "refund"]
  BY <1>2, Zenon DEF SendRefused
<1>4. Typed /\ TaskOk(task[t], last, connected) /\ last \in Nat /\ connected \subseteq Consumers
  BY Zenon DEF KeyInv, TasksOk, Typed
<1>5. m \in 1..last /\ c \in connected /\ task[t].scan \subseteq 1..last
  BY <1>2, <1>3, <1>4, Zenon DEF TaskOk
<1>6. /\ DOMAIN task' = Tasks /\ DOMAIN task'[t] = Fields
      /\ \A u \in Tasks : u # t => task'[u] = task[u]
      /\ task'[t].pc = "refund" /\ task'[t].msg = task[t].msg /\ task'[t].cons = task[t].cons
      /\ task'[t].fresh = task[t].fresh /\ task'[t].scan = task[t].scan
  BY <1>3, <1>4, Zenon DEF Typed, Fields
<1>7. Moves(t)
  BY <1>6, Zenon DEF Moves
<1>8. TaskOk(task'[t], last, connected)
  BY <1>2, <1>5, <1>6, Zenon DEF TaskOk
<1>9. Turn(task'[t], acked, given')
  BY <1>6, Zenon DEF Turn
<1>10. PICK E, F : E = Queue \cup {m} /\ F = Flight \ {m}
  BY Zenon
<1>11. Holds(rc', policy.block_hashes, E, F)
  BY <1>3, <1>5, <1>10, ControllerNow, Restores, Zenon
<1>12. E \subseteq 1..last /\ F \subseteq 1..last
  BY <1>5, <1>10, ControllerNow, Zenon
<1>13. Queue' = E /\ Flight' = F /\ Controller'
  <2>1. UNCHANGED <<policy, last>>
    BY <1>1, Zenon DEF taskVars
  <2>. QED
    BY <1>11, <1>12, <2>1, ControllerNext, Zenon
<1>14. E \subseteq Safe' /\ E \subseteq Placed' /\ F \subseteq Placed'
  BY <1>13, Zenon DEF Safe, Placed
<1>15. /\ DOMAIN pending' = Consumers
       /\ \A d \in Consumers : DOMAIN pending[d] \subseteq DOMAIN pending'[d] \cup {m}
       /\ \A d \in Consumers : DOMAIN pending'[d] \subseteq DOMAIN pending[d]
  <2>1. DOMAIN pending = Consumers /\ c \in Consumers
    BY <1>4, <1>5, Zenon DEF Typed
  <2>2. CASE pending' = pending
    BY <2>1, <2>2, Zenon
  <2>3. CASE pending' = [pending EXCEPT ![c] = Without(@, m)]
    <3>1. /\ DOMAIN pending' = Consumers /\ pending'[c] = Without(pending[c], m)
          /\ \A d \in Consumers : d # c => pending'[d] = pending[d]
      BY <2>1, <2>3, Zenon
    <3>2. DOMAIN Without(pending[c], m) = DOMAIN pending[c] \ {m}
      BY Zenon DEF Without, Restrict
    <3>. QED
      BY <3>1, <3>2, Zenon
  <2>. QED
    BY <1>3, <2>2, <2>3, Zenon
<1>16. \A d \in Consumers : DOMAIN pending'[d] \subseteq (1..last) \cap given'
  <2>1. \A d \in Consumers : DOMAIN pending[d] \subseteq (1..last) \cap given
    BY <1>4, Zenon DEF Typed
  <2>. QED
    BY <1>1, <1>15, <2>1, Zenon
<1>17. m \in Safe' /\ m \in Placed'
  BY <1>10, <1>14, Zenon
<1>18. Hands \subseteq Safe'
  BY <1>2, <1>7, <1>17, HandsStay, Zenon
<1>19. Out \subseteq Safe'
  <2>1. connected' = connected
    BY <1>1, Zenon DEF taskVars
  <2>2. Out \subseteq Out' \cup {m}
    BY <1>4, <1>15, <2>1, Zenon DEF Out
  <2>3. Out' \subseteq Safe'
    BY Zenon DEF Safe
  <2>. QED
    BY <1>17, <2>2, <2>3, Zenon
<1>20. Safe \subseteq Safe'
  <2>1. AckedSoon' = AckedSoon /\ acked' = acked /\ dropped' = dropped
    BY <1>1, Zenon DEF AckedSoon, taskVars
  <2>2. AckedSoon' \subseteq Safe' /\ acked' \subseteq Safe' /\ dropped' \subseteq Safe'
    BY Zenon DEF Safe
  <2>3. Queue \subseteq Safe'
    BY <1>10, <1>14, Zenon
  <2>. QED
    BY <1>18, <1>19, <2>1, <2>2, <2>3, Zenon DEF Safe
<1>21. Placed \subseteq Placed'
  <2>1. acked' = acked /\ given' = given
    BY <1>1, Zenon DEF taskVars
  <2>2. acked' \subseteq Placed' /\ given' \subseteq Placed'
    BY Zenon DEF Placed
  <2>3. Queue \cup Flight \subseteq Placed'
    BY <1>10, <1>14, <1>17, Zenon
  <2>. QED
    BY <2>1, <2>2, <2>3, Zenon DEF Placed
<1>22. ASSUME NEW x \in 1..last, x < readPos' \/ x <= Passed(task'[t])
       PROVE  Below(x) \/ Fine(x)
  <2>1. CASE x < readPos'
    BY <1>1, <2>1, Zenon DEF Below
  <2>2. CASE x <= Passed(task'[t]) /\ task[t].fresh
    <3>1. Passed(task'[t]) = m
      BY <1>2, <1>6, <2>2, Zenon DEF Passed
    <3>2. x < m \/ x = m
      BY <1>4, <1>5, <2>2, <3>1
    <3>3. CASE x < m
      BY <1>2, <1>3, <2>2, <3>3, PassedAt, Zenon
    <3>4. CASE x = m
      BY <1>17, <3>4, Zenon DEF Fine
    <3>. QED
      BY <3>2, <3>3, <3>4, Zenon
  <2>3. CASE x <= Passed(task'[t]) /\ ~task[t].fresh
    <3>1. Passed(task'[t]) = 0
      BY <1>6, <2>3, Zenon DEF Passed
    <3>. QED
      BY <1>4, <2>3, <3>1
  <2>. QED
    BY <1>22, <2>1, <2>2, <2>3, Zenon
<1>23. readPos' \in Nat /\ readPos' <= last + 1 /\ given \subseteq given'
  BY <1>1, ReadPosSame, Zenon
<1>. QED
  BY <1>1, <1>7, <1>8, <1>9, <1>13, <1>15, <1>16, <1>20, <1>21, <1>22, <1>23, TaskStep, Zenon

\* A dispatch step keeps the invariant.
LEMMA Dispatches ==
    ASSUME KeyInv, NEW t \in Tasks, Dispatch(t)
    PROVE  KeyInv'
BY Batches, Pops, Scans, Permits, Reads, PassesPending, SetsAside, Routes, Failures, Sends,
   Refusals, Refunds, Commits, Zenon DEF Dispatch

----------------------------------------------------------------------------
(* Handlers. *)

\* A task spawned.
LEMMA Spawned ==
    ASSUME KeyInv, NEW t \in Tasks, Spawn(t)
    PROVE  Moves(t) /\ Rest(task'[t]) /\ task[t].pc \notin {"permit", "send"}
<1>1. Typed /\ TaskOk(task[t], last, connected)
  BY Zenon DEF KeyInv, TasksOk
<1>2. task[t].pc = "idle" /\ task' = [task EXCEPT ![t].pc = "spawned"]
  BY Zenon DEF Spawn
<1>3. /\ DOMAIN task' = Tasks /\ DOMAIN task'[t] = Fields
      /\ \A u \in Tasks : u # t => task'[u] = task[u]
      /\ task'[t].pc = "spawned" /\ task'[t].fresh = task[t].fresh
      /\ task'[t].scan = task[t].scan
  BY <1>1, <1>2, Zenon DEF Typed, Fields
<1>4. task[t].fresh = FALSE /\ task[t].scan \subseteq 1..last
  BY <1>1, <1>2, Zenon DEF TaskOk
<1>5. task[t].pc \notin {"permit", "send"}
  BY <1>2, Zenon
<1>. QED
  BY <1>3, <1>4, <1>5, Zenon DEF Moves, Rest

LEMMA Flows ==
    ASSUME KeyInv, NEW c \in Consumers, NEW t \in Tasks, handle_flow(c, t)
    PROVE  KeyInv'
<1>1. UNCHANGED taskVars /\ UNCHANGED <<rc, pending, given>> /\ UNCHANGED readPos
  BY Zenon DEF handle_flow, taskVars, logVars, histVars
<1>2. Spawn(t)
  BY Zenon DEF handle_flow
<1>. QED
  BY <1>1, <1>2, Spawned, RestStep, ReadPosSame, Zenon


\* No task has gone past the end of the log.
LEMMA PassedBounded ==
    ASSUME KeyInv, NEW t \in Tasks
    PROVE  Passed(task[t]) <= last
<1>1. TaskOk(task[t], last, connected) /\ last \in Nat
  BY Zenon DEF KeyInv, TasksOk, Typed
<1>2. task[t].pc \in {"check", "send", "commit", "refund"} => task[t].msg \in 1..last
  BY <1>1, Zenon DEF TaskOk
<1>. QED
  BY <1>1, <1>2 DEF Passed

LEMMA Publishes ==
    ASSUME KeyInv, NEW t \in Tasks, Publish(t)
    PROVE  KeyInv'
<1>1. /\ policy' = policy /\ acked' = acked /\ readPos' = readPos /\ rc' = rc
      /\ connected' = connected /\ pending' = pending /\ handler' = handler
      /\ given' = given /\ dropped' = dropped
  BY Zenon DEF Publish, histVars
<1>2. last' = last + 1 /\ last < MaxMessages /\ Spawn(t)
  BY Zenon DEF Publish
<1>3. Typed /\ TasksOk /\ Frontier /\ Turns /\ Controller
  BY Zenon DEF KeyInv
<1>4. last \in Nat /\ last' \in Nat /\ last' <= MaxMessages /\ 1..last \subseteq 1..last'
  BY <1>2, <1>3, MessagesAssumption DEF Typed
<1>5. Moves(t) /\ Rest(task'[t]) /\ task[t].pc \notin {"permit", "send"}
  BY <1>2, Spawned, Zenon
<1>6. Typed'
  <2>1. \A u \in Tasks : DOMAIN task'[u] = Fields
    BY <1>3, <1>5, Zenon DEF Moves, Typed
  <2>2. DOMAIN task' = Tasks
    BY <1>5, Zenon DEF Moves
  <2>3. readPos' \in Nat /\ readPos' <= last' + 1
    BY <1>1, <1>2, <1>3 DEF Typed
  <2>4. acked' \subseteq 1..last' /\ \A c \in Consumers : DOMAIN pending'[c] \subseteq (1..last') \cap given'
    BY <1>1, <1>3, <1>4, Zenon DEF Typed
  <2>. QED
    BY <1>1, <1>3, <1>4, <2>1, <2>2, <2>3, <2>4, Zenon DEF Typed
<1>7. Controller'
  BY <1>1, <1>3, <1>4, Zenon DEF Controller, Queue, Flight
<1>8. \A s : TaskOk(s, last, connected) => TaskOk(s, last', connected')
  BY <1>1, <1>4, Zenon DEF TaskOk
<1>9. TasksOk'
  <2>1. TaskOk(task'[t], last, connected)
    BY <1>5, RestFacts, Zenon
  <2>2. \A u \in Tasks : TaskOk(task'[u], last, connected)
    BY <1>3, <1>5, <2>1, Zenon DEF Moves, TasksOk
  <2>. QED
    BY <1>8, <2>2, Zenon DEF TasksOk
<1>10. Safe \subseteq Safe' /\ Placed' = Placed
  <2>1. Hands \subseteq Safe'
    BY <1>5, HandsStay, Zenon
  <2>2. Queue' = Queue /\ Flight' = Flight /\ Out' = Out /\ AckedSoon \subseteq AckedSoon'
    BY <1>1, <1>4, Zenon DEF Queue, Flight, Out, AckedSoon
  <2>. QED
    BY <1>1, <2>1, <2>2, Zenon DEF Safe, Placed
<1>11. Frontier'
  <2>1. SUFFICES ASSUME NEW m \in 1..last', Below(m)'
                 PROVE  m \in Safe' /\ (policy'.block_hashes => m \in Placed')
    BY Zenon DEF Frontier
  <2>2. Below(m)
    <3>1. m < readPos' \/ \E u \in Tasks : m <= Passed(task'[u])
      BY <2>1, Zenon DEF Below
    <3>2. CASE m < readPos'
      BY <1>1, <3>2, Zenon DEF Below
    <3>3. ASSUME NEW u \in Tasks, m <= Passed(task'[u])
          PROVE  Below(m)
      <4>1. CASE u = t
        <5>1. Passed(task'[t]) = 0
          BY <1>5, RestFacts, Zenon
        <5>. QED
          BY <1>4, <3>3, <4>1, <5>1
      <4>2. CASE u # t
        BY <1>5, <3>3, <4>2, Zenon DEF Moves, Below
      <4>. QED
        BY <4>1, <4>2, Zenon
    <3>. QED
      BY <3>1, <3>2, <3>3, Zenon
  <2>3. m <= last
    <3>1. CASE m < readPos
      BY <1>3, <1>4, <3>1 DEF Typed
    <3>2. ASSUME NEW u \in Tasks, m <= Passed(task[u])
          PROVE  m <= last
      <4>1. Passed(task[u]) <= last
        BY PassedBounded, Zenon
      <4>2. Passed(task[u]) \in Int
        <5>1. TaskOk(task[u], last, connected)
          BY <1>3, Zenon DEF TasksOk
        <5>2. task[u].pc \in {"check", "send", "commit", "refund"} => task[u].msg \in Int
          BY <1>4, <5>1 DEF TaskOk
        <5>. QED
          BY <5>2 DEF Passed
      <4>. QED
        BY <1>4, <3>2, <4>1, <4>2
    <3>. QED
      BY <2>2, <3>1, <3>2, Zenon DEF Below
  <2>4. m \in 1..last
    BY <1>4, <2>3
  <2>. QED
    BY <1>1, <1>3, <1>10, <2>2, <2>4, Zenon DEF Frontier
<1>12. Turns'
  <2>1. SUFFICES ASSUME policy.block_hashes, NEW u \in Tasks
                 PROVE  Turn(task'[u], acked, given)
    BY <1>1, Zenon DEF Turns
  <2>2. CASE u = t
    BY <1>5, <2>2, RestFacts, Zenon
  <2>3. CASE u # t
    BY <1>3, <1>5, <2>1, <2>3, Zenon DEF Moves, Turns
  <2>. QED
    BY <2>2, <2>3, Zenon
<1>. QED
  BY <1>6, <1>7, <1>9, <1>11, <1>12, Zenon DEF KeyInv

\* The tasks around a step under the write lock: nothing is in their hands.
LEMMA Locked ==
    ASSUME KeyInv, WriteLockFree, UNCHANGED <<policy, last>>,
           UNCHANGED task \/ \E t \in Tasks : DispatchLocked(t)
    PROVE  /\ Hands = {}
           /\ DOMAIN task' = Tasks /\ \A u \in Tasks : DOMAIN task'[u] = Fields
           /\ TasksOk' /\ Turns'
           /\ \A m \in 1..last : Below(m)' => m < readPos'
<1>1. Typed /\ TasksOk
  BY Zenon DEF KeyInv
<1>2. policy' = policy /\ last' = last
  BY Zenon
<1>3. \A u \in Tasks : task[u].pc \in {"idle", "spawned"}
  BY Zenon DEF WriteLockFree, Running
<1>4. Hands = {}
  <2>1. \A u \in Tasks : task[u].pc \notin {"permit", "send"}
    BY <1>3, Zenon
  <2>. QED
    BY <2>1, Zenon DEF Hands
<1>5. \A u \in Tasks : Rest(task[u])
  <2>1. TAKE u \in Tasks
  <2>2. TaskOk(task[u], last, connected) /\ task[u].pc \in {"idle", "spawned"}
    BY <1>1, <1>3, Zenon DEF TasksOk
  <2>. QED
    BY <2>2, Zenon DEF TaskOk, Rest
<1>6. DOMAIN task' = Tasks /\ \A u \in Tasks : DOMAIN task'[u] = Fields /\ Rest(task'[u])
  <2>1. CASE UNCHANGED task
    BY <1>1, <1>5, <2>1, Zenon DEF Typed
  <2>2. ASSUME NEW t \in Tasks, DispatchLocked(t)
        PROVE  DOMAIN task' = Tasks /\ \A u \in Tasks : DOMAIN task'[u] = Fields /\ Rest(task'[u])
    <3>1. task' = [task EXCEPT ![t].pc = "batch", ![t].write = TRUE]
      BY <2>2, Zenon DEF DispatchLocked
    <3>2. /\ DOMAIN task' = Tasks /\ DOMAIN task'[t] = Fields
          /\ \A u \in Tasks : u # t => task'[u] = task[u]
          /\ task'[t].pc = "batch" /\ task'[t].fresh = task[t].fresh
          /\ task'[t].scan = task[t].scan
      BY <1>1, <3>1, Zenon DEF Typed, Fields
    <3>3. Rest(task[t])
      BY <1>5, Zenon
    <3>4. Rest(task'[t])
      BY <3>2, <3>3, Zenon DEF Rest
    <3>. QED
      BY <1>1, <1>5, <3>2, <3>4, Zenon DEF Typed
  <2>. QED
    BY <2>1, <2>2, Zenon
<1>7. TasksOk'
  <2>1. \A u \in Tasks : TaskOk(task'[u], last', connected')
    BY <1>2, <1>6, RestFacts, Zenon
  <2>. QED
    BY <2>1, Zenon DEF TasksOk
<1>8. Turns'
  <2>1. \A u \in Tasks : Turn(task'[u], acked', given')
    BY <1>6, RestFacts, Zenon
  <2>. QED
    BY <2>1, Zenon DEF Turns
<1>9. ASSUME NEW m \in 1..last, Below(m)'
      PROVE  m < readPos'
  <2>1. \A u \in Tasks : Passed(task'[u]) = 0
    BY <1>6, RestFacts, Zenon
  <2>2. ~(m <= 0)
    BY <1>1 DEF Typed
  <2>. QED
    BY <1>9, <2>1, <2>2, Zenon DEF Below
<1>. QED
  BY <1>4, <1>6, <1>7, <1>8, <1>9, Zenon

\* A step under the write lock keeps the invariant if nothing goes missing and what the
\* read position passes is accounted for.
LEMMA LockedStep ==
    ASSUME KeyInv, WriteLockFree, UNCHANGED <<policy, last>>,
           UNCHANGED task \/ \E t \in Tasks : DispatchLocked(t),
           acked' \subseteq 1..last, readPos' \in Nat, readPos' <= last + 1,
           connected' \subseteq Consumers, IsFiniteSet(connected'),
           DOMAIN pending' = Consumers, DOMAIN handler' = Consumers,
           \A c \in Consumers : DOMAIN pending'[c] \subseteq (1..last) \cap given',
           Controller',
           \A m \in 1..last : m < readPos' => Fine(m)
    PROVE  KeyInv'
<1>1. policy' = policy /\ last' = last /\ policy \in Policies /\ last \in Nat /\ last <= MaxMessages
  BY Zenon DEF KeyInv, Typed
<1>2. /\ DOMAIN task' = Tasks /\ \A u \in Tasks : DOMAIN task'[u] = Fields
      /\ TasksOk' /\ Turns'
      /\ \A m \in 1..last : Below(m)' => m < readPos'
  BY Locked, Zenon
<1>3. Typed'
  BY <1>1, <1>2, Zenon DEF Typed
<1>4. Frontier'
  BY <1>1, <1>2, Zenon DEF Frontier, Fine
<1>. QED
  BY <1>2, <1>3, <1>4, Zenon DEF KeyInv


\* A step of a handler that leaves the tasks alone keeps the invariant if nothing goes
\* missing.
LEMMA HandlerStep ==
    ASSUME KeyInv, UNCHANGED <<policy, last, acked, readPos, rc, connected, task, given>>,
           DOMAIN pending' = Consumers, DOMAIN handler' = Consumers,
           \A c \in Consumers : DOMAIN pending'[c] \subseteq DOMAIN pending[c],
           Safe \subseteq Safe'
    PROVE  KeyInv'
<1>1. /\ policy' = policy /\ last' = last /\ acked' = acked /\ readPos' = readPos /\ rc' = rc
      /\ connected' = connected /\ task' = task /\ given' = given
  BY Zenon
<1>2. Typed /\ Controller /\ TasksOk /\ Frontier /\ Turns
  BY Zenon DEF KeyInv
<1>3. Typed'
  BY <1>1, <1>2, Zenon DEF Typed
<1>4. Controller' /\ TasksOk' /\ Turns'
  BY <1>1, <1>2, Zenon DEF Controller, Queue, Flight, TasksOk, Turns
<1>5. Placed' = Placed
  BY <1>1, Zenon DEF Placed, Queue, Flight
<1>6. \A m : Below(m)' => Below(m)
  BY <1>1, Zenon DEF Below
<1>7. Frontier'
  BY <1>1, <1>2, <1>5, <1>6, Zenon DEF Frontier
<1>. QED
  BY <1>3, <1>4, <1>7, Zenon DEF KeyInv

\* The three states of a connection's handler differ.
LEMMA HandlersDiffer ==
    ASSUME NEW m
    PROVE  None # Acking(m) /\ Seeking # Acking(m)
BY Zenon DEF None, Acking, Seeking

LEMMA Acks ==
    ASSUME KeyInv, NEW c \in Consumers, NEW m \in 1..last, handle_ack(c, m)
    PROVE  KeyInv'
<1>1. /\ UNCHANGED <<policy, last, acked, readPos, rc, connected, task, given>>
      /\ last' = last /\ acked' = acked /\ rc' = rc /\ connected' = connected /\ task' = task
      /\ dropped' = dropped
  BY Zenon DEF handle_ack, logVars, histVars
<1>2. c \in connected /\ handler[c] = None /\ handler' = [handler EXCEPT ![c] = Acking(m)]
  BY Zenon DEF handle_ack, Ready
<1>3. PICK d \in connected : /\ m \in DOMAIN pending[d]
                             /\ pending' = [pending EXCEPT ![d] = Without(@, m)]
  BY Zenon DEF handle_ack, message_acked, resolve_ack_owner
<1>4. DOMAIN pending = Consumers /\ DOMAIN handler = Consumers /\ connected \subseteq Consumers
  BY Zenon DEF KeyInv, Typed
<1>5. /\ DOMAIN pending' = Consumers /\ pending'[d] = Without(pending[d], m)
      /\ \A e \in Consumers : e # d => pending'[e] = pending[e]
  BY <1>3, <1>4, Zenon
<1>6. DOMAIN pending'[d] = DOMAIN pending[d] \ {m}
  BY <1>5, Zenon DEF Without, Restrict
<1>7. /\ DOMAIN handler' = Consumers /\ handler'[c] = Acking(m)
      /\ \A e \in Consumers : e # c => handler'[e] = handler[e]
  BY <1>2, <1>4, Zenon
<1>8. \A e \in Consumers : DOMAIN pending'[e] \subseteq DOMAIN pending[e]
  BY <1>5, <1>6, Zenon
<1>9. Hands' = Hands /\ Queue' = Queue
  BY <1>1, Zenon DEF Hands, Queue
<1>10. AckedSoon \cup {m} \subseteq AckedSoon'
  <2>1. m \in AckedSoon'
    BY <1>1, <1>2, <1>7, Zenon DEF AckedSoon
  <2>2. ASSUME NEW k \in AckedSoon
        PROVE  k \in AckedSoon'
    <3>1. PICK e \in connected : handler[e] = Acking(k)
      BY Zenon DEF AckedSoon
    <3>2. e # c
      BY <1>2, <3>1, HandlersDiffer, Zenon
    <3>3. handler'[e] = Acking(k)
      BY <1>4, <1>7, <3>1, <3>2, Zenon
    <3>. QED
      BY <1>1, <3>3, Zenon DEF AckedSoon
  <2>. QED
    BY <2>1, <2>2, Zenon
<1>11. Out \subseteq Out' \cup {m}
  <2>1. SUFFICES ASSUME NEW e \in connected, NEW k \in DOMAIN pending[e], k # m
                 PROVE  k \in DOMAIN pending'[e]
    BY <1>1, Zenon DEF Out
  <2>. QED
    BY <1>4, <1>5, <1>6, <2>1, Zenon
<1>12. Safe \subseteq Safe'
  BY <1>1, <1>9, <1>10, <1>11, Zenon DEF Safe
<1>. QED
  BY <1>1, <1>5, <1>7, <1>8, <1>12, HandlerStep, Zenon

LEMMA Drains ==
    ASSUME KeyInv, NEW c \in Consumers, seek_drain(c)
    PROVE  KeyInv'
<1>1. /\ UNCHANGED <<policy, last, acked, readPos, rc, connected, task, given>>
      /\ last' = last /\ acked' = acked /\ rc' = rc /\ connected' = connected /\ task' = task
  BY Zenon DEF seek_drain, logVars, histVars
<1>2. /\ handler[c] = Seeking /\ handler' = [handler EXCEPT ![c] = None]
      /\ pending' = [pending EXCEPT ![c] = NoPending]
      /\ dropped' = dropped \cup (DOMAIN pending[c] \ acked)
  BY Zenon DEF seek_drain
<1>3. DOMAIN pending = Consumers /\ DOMAIN handler = Consumers /\ connected \subseteq Consumers
  BY Zenon DEF KeyInv, Typed
<1>4. /\ DOMAIN pending' = Consumers /\ pending'[c] = NoPending
      /\ \A e \in Consumers : e # c => pending'[e] = pending[e]
  BY <1>2, <1>3, Zenon
<1>5. DOMAIN pending'[c] = {}
  BY <1>4, Zenon DEF NoPending
<1>6. /\ DOMAIN handler' = Consumers
      /\ \A e \in Consumers : e # c => handler'[e] = handler[e]
  BY <1>2, <1>3, Zenon
<1>7. \A e \in Consumers : DOMAIN pending'[e] \subseteq DOMAIN pending[e]
  BY <1>4, <1>5, Zenon
<1>8. Hands' = Hands /\ Queue' = Queue
  BY <1>1, Zenon DEF Hands, Queue
<1>9. AckedSoon \subseteq AckedSoon'
  <2>1. SUFFICES ASSUME NEW k \in AckedSoon
                 PROVE  k \in AckedSoon'
    BY Zenon
  <2>2. PICK e \in connected : handler[e] = Acking(k)
    BY Zenon DEF AckedSoon
  <2>3. e # c
    BY <1>2, <2>2, HandlersDiffer, Zenon
  <2>4. handler'[e] = Acking(k)
    BY <1>3, <1>6, <2>2, <2>3, Zenon
  <2>. QED
    BY <1>1, <2>4, Zenon DEF AckedSoon
<1>10. Out \subseteq Out' \cup dropped' \cup acked
  <2>1. SUFFICES ASSUME NEW e \in connected, NEW k \in DOMAIN pending[e], k \notin dropped', k \notin acked
                 PROVE  k \in DOMAIN pending'[e]
    BY <1>1, Zenon DEF Out
  <2>2. e # c
    BY <1>2, <2>1, Zenon
  <2>. QED
    BY <1>3, <1>4, <2>1, <2>2, Zenon
<1>11. Safe \subseteq Safe'
  BY <1>1, <1>2, <1>8, <1>9, <1>10, Zenon DEF Safe
<1>. QED
  BY <1>1, <1>4, <1>6, <1>7, <1>11, HandlerStep, Zenon

\* What lies below the read position before a step under the write lock.
LEMMA BelowNow ==
    ASSUME KeyInv, NEW m \in 1..last, m < readPos
    PROVE  m \in Safe /\ (policy.block_hashes => m \in Placed)
<1>1. Below(m)
  BY Zenon DEF Below
<1>. QED
  BY <1>1, Zenon DEF KeyInv, Frontier

LEMMA Connects ==
    ASSUME KeyInv, NEW c \in Consumers, add_consumer(c)
    PROVE  KeyInv'
<1>1. /\ policy' = policy /\ last' = last /\ acked' = acked /\ readPos' = readPos /\ rc' = rc
      /\ pending' = pending /\ task' = task /\ handler' = handler /\ given' = given
      /\ dropped' = dropped
  BY Zenon DEF add_consumer, logVars, histVars
<1>2. WriteLockFree /\ connected' = connected \cup {c}
  BY Zenon DEF add_consumer
<1>3. Typed /\ Controller
  BY Zenon DEF KeyInv
<1>4. IsFiniteSet(connected') /\ connected' \subseteq Consumers
  BY <1>2, <1>3, FS_AddElement, Zenon DEF Typed
<1>5. Controller' /\ Queue' = Queue /\ Flight' = Flight /\ Hands' = Hands
  BY <1>1, <1>3, Zenon DEF Controller, Queue, Flight, Hands
<1>6. Out \subseteq Out' /\ AckedSoon \subseteq AckedSoon'
  BY <1>1, <1>2, Zenon DEF Out, AckedSoon
<1>7. Safe \subseteq Safe' /\ Placed' = Placed
  BY <1>1, <1>5, <1>6, Zenon DEF Safe, Placed
<1>8. \A m \in 1..last : m < readPos' => Fine(m)
  BY <1>1, <1>7, BelowNow, Zenon DEF Fine
<1>9. readPos' \in Nat /\ readPos' <= last + 1 /\ acked' \subseteq 1..last
  BY <1>1, <1>3, Zenon DEF Typed
<1>10. /\ DOMAIN pending' = Consumers /\ DOMAIN handler' = Consumers
       /\ \A e \in Consumers : DOMAIN pending'[e] \subseteq (1..last) \cap given'
  BY <1>1, <1>3, Zenon DEF Typed
<1>. QED
  BY <1>1, <1>2, <1>4, <1>5, <1>8, <1>9, <1>10, LockedStep, Zenon


\* The tasks hold nothing while the write lock is free.
LEMMA HandsEmpty ==
    ASSUME WriteLockFree
    PROVE  Hands = {}
<1>1. \A u \in Tasks : task[u].pc \in {"idle", "spawned"}
  BY Zenon DEF WriteLockFree, Running
<1>2. \A u \in Tasks : task[u].pc \notin {"permit", "send"}
  BY <1>1, Zenon
<1>. QED
  BY <1>2, Zenon DEF Hands

LEMMA Acknowledges ==
    ASSUME KeyInv, NEW c \in Consumers, NEW m \in 1..last, acknowledge_message(c, m)
    PROVE  KeyInv'
<1>1. /\ policy' = policy /\ last' = last /\ connected' = connected /\ pending' = pending
      /\ task' = task /\ given' = given /\ dropped' = dropped
  BY Zenon DEF acknowledge_message, histVars
<1>2. /\ WriteLockFree /\ handler[c] = Acking(m) /\ acked' = acked \cup {m}
      /\ rc' = remove_all(rc, {m} \cup (queued_message_ids(rc) \cap acked'))
      /\ handler' = [handler EXCEPT ![c] = None]
  BY Zenon DEF acknowledge_message
<1>3. readPos' = IF readPos = 0 THEN 0
                 ELSE IF FirstUnacked(acked') = 0 THEN 0
                 ELSE Max({readPos, FirstUnacked(acked')})
  BY Zenon DEF acknowledge_message
<1>4. Typed
  BY Zenon DEF KeyInv
<1>5. PICK S : S = {m} \cup (queued_message_ids(rc) \cap acked')
  BY Zenon
<1>6. S \subseteq acked'
  BY <1>2, <1>5, Zenon
<1>7. Holds(rc', policy.block_hashes, Queue \ S, Flight \ S)
  BY <1>2, <1>5, ControllerNow, RemovesAll, Zenon
<1>8. Queue' = Queue \ S /\ Flight' = Flight \ S /\ Controller'
  <2>1. Queue \ S \subseteq 1..last /\ Flight \ S \subseteq 1..last
    BY ControllerNow, Zenon
  <2>. QED
    BY <1>1, <1>7, <2>1, ControllerNext, Zenon
<1>9. DOMAIN handler' = Consumers /\ \A e \in Consumers : e # c => handler'[e] = handler[e]
  BY <1>2, <1>4, Zenon DEF Typed
<1>10. AckedSoon \subseteq AckedSoon' \cup {m}
  <2>1. SUFFICES ASSUME NEW k \in AckedSoon, k # m
                 PROVE  k \in AckedSoon'
    BY Zenon
  <2>2. PICK e \in connected : handler[e] = Acking(k)
    BY Zenon DEF AckedSoon
  <2>3. e # c
    <3>1. Acking(k) # Acking(m)
      BY <2>1, Zenon DEF Acking
    <3>. QED
      BY <1>2, <2>2, <3>1, Zenon
  <2>4. e \in Consumers
    BY <1>4, Zenon DEF Typed
  <2>5. handler'[e] = Acking(k)
    BY <1>9, <2>2, <2>3, <2>4, Zenon
  <2>. QED
    BY <1>1, <2>5, Zenon DEF AckedSoon
<1>11. Hands' = Hands /\ Out' = Out
  BY <1>1, Zenon DEF Hands, Out
<1>12. Safe \subseteq Safe'
  BY <1>1, <1>2, <1>6, <1>8, <1>10, <1>11, Zenon DEF Safe
<1>13. Placed \subseteq Placed'
  BY <1>1, <1>2, <1>6, <1>8, Zenon DEF Placed
<1>14. acked' \subseteq 1..last
  BY <1>2, <1>4, Zenon DEF Typed
<1>15. PICK f : f = FirstUnacked(acked')
  BY Zenon
<1>16. /\ f \in Nat /\ f <= last
       /\ f # 0 => \A k \in 1..last : k < f => k \in acked'
  BY <1>4, <1>15, FirstUnackedIs, Zenon DEF Typed
<1>17. readPos \in Nat /\ readPos <= last + 1 /\ last \in Nat
  BY <1>4, Zenon DEF Typed
<1>18. readPos' \in {0, readPos} \/ (readPos' = f /\ f # 0)
  <2>1. Max({readPos, f}) \in {readPos, f}
    BY <1>16, <1>17 DEF Max
  <2>. QED
    BY <1>3, <1>15, <2>1, Zenon
<1>19. readPos' \in Nat /\ readPos' <= last + 1
  BY <1>16, <1>17, <1>18
<1>20. ASSUME NEW k \in 1..last, k < readPos'
       PROVE  Fine(k)
  <2>1. CASE k < readPos
    BY <1>12, <1>13, <2>1, BelowNow, Zenon DEF Fine
  <2>2. CASE readPos' = f /\ f # 0
    <3>1. k \in acked'
      BY <1>16, <1>20, <2>2, Zenon
    <3>. QED
      BY <3>1, Zenon DEF Fine, Safe, Placed
  <2>3. CASE readPos' = 0
    BY <1>17, <1>20, <2>3
  <2>. QED
    BY <1>18, <1>20, <2>1, <2>2, <2>3, Zenon
<1>21. connected' \subseteq Consumers /\ IsFiniteSet(connected')
  BY <1>1, <1>4, Zenon DEF Typed
<1>22. /\ DOMAIN pending' = Consumers
       /\ \A e \in Consumers : DOMAIN pending'[e] \subseteq (1..last) \cap given'
  BY <1>1, <1>4, Zenon DEF Typed
<1>. QED
  BY <1>1, <1>2, <1>8, <1>9, <1>14, <1>19, <1>20, <1>21, <1>22, LockedStep, Zenon

\* What a consumer has pending goes back to the queue, and the others keep theirs.
LEMMA Requeues ==
    ASSUME KeyInv, NEW c \in Consumers, NEW S, S \subseteq DOMAIN pending[c],
           rc' = Requeue(c, S), UNCHANGED <<policy, last>>
    PROVE  Queue' = Queue \cup S /\ Flight' = Flight /\ Controller'
<1>1. S \subseteq 1..last
  BY Zenon DEF KeyInv, Typed
<1>2. S \subseteq Messages
  BY <1>1, ControllerNow, Zenon
<1>3. Holds(rc', policy.block_hashes, Queue \cup S, Flight)
  BY <1>2, ControllerNow, AddsAll, Zenon DEF Requeue
<1>4. Queue \cup S \subseteq 1..last /\ Flight \subseteq 1..last
  BY <1>1, ControllerNow, Zenon
<1>. QED
  BY <1>3, <1>4, ControllerNext, Zenon

LEMMA Redelivers ==
    ASSUME KeyInv, NEW c \in Consumers, NEW t \in Tasks,
           NEW S \in SUBSET DOMAIN pending[c], handle_redeliver(c, S, t)
    PROVE  KeyInv'
<1>1. /\ policy' = policy /\ last' = last /\ acked' = acked /\ readPos' = readPos
      /\ connected' = connected /\ handler' = handler /\ given' = given /\ dropped' = dropped
  BY Zenon DEF handle_redeliver, logVars, histVars
<1>2. /\ WriteLockFree
      /\ pending' = [pending EXCEPT ![c] = Restrict(@, DOMAIN @ \ S)]
      /\ rc' = Requeue(c, S \ acked)
      /\ IF S \subseteq acked THEN UNCHANGED task ELSE DispatchLocked(t)
  BY Zenon DEF handle_redeliver, redeliver_unacknowledged_messages
<1>3. UNCHANGED task \/ \E u \in Tasks : DispatchLocked(u)
  BY <1>2, Zenon
<1>4. Typed
  BY Zenon DEF KeyInv
<1>5. /\ DOMAIN pending' = Consumers
      /\ pending'[c] = Restrict(pending[c], DOMAIN pending[c] \ S)
      /\ \A e \in Consumers : e # c => pending'[e] = pending[e]
  BY <1>2, <1>4, Zenon DEF Typed
<1>6. DOMAIN pending'[c] = DOMAIN pending[c] \ S
  BY <1>5, Zenon DEF Restrict
<1>7. Queue' = Queue \cup (S \ acked) /\ Flight' = Flight /\ Controller'
  <2>1. S \ acked \subseteq DOMAIN pending[c]
    BY Zenon
  <2>. QED
    BY <1>1, <1>2, <2>1, Requeues, Zenon
<1>8. Out \subseteq Out' \cup S
  <2>1. ASSUME NEW e \in connected, NEW k \in DOMAIN pending[e], k \notin S
        PROVE  k \in Out'
    <3>1. k \in DOMAIN pending'[e]
      BY <1>4, <1>5, <1>6, <2>1, Zenon DEF Typed
    <3>. QED
      BY <1>1, <3>1, Zenon DEF Out
  <2>. QED
    BY <2>1, Zenon DEF Out
<1>9. AckedSoon' = AckedSoon /\ Hands = {}
  BY <1>1, <1>2, HandsEmpty, Zenon DEF AckedSoon
<1>10. Safe \subseteq Safe'
  BY <1>1, <1>7, <1>8, <1>9, Zenon DEF Safe
<1>11. Placed \subseteq Placed'
  BY <1>1, <1>7, Zenon DEF Placed
<1>12. \A m \in 1..last : m < readPos' => Fine(m)
  BY <1>1, <1>10, <1>11, BelowNow, Zenon DEF Fine
<1>13. readPos' \in Nat /\ readPos' <= last + 1 /\ acked' \subseteq 1..last
  BY <1>1, <1>4, Zenon DEF Typed
<1>14. connected' \subseteq Consumers /\ IsFiniteSet(connected') /\ DOMAIN handler' = Consumers
  BY <1>1, <1>4, Zenon DEF Typed
<1>15. \A e \in Consumers : DOMAIN pending'[e] \subseteq (1..last) \cap given'
  BY <1>1, <1>4, <1>5, <1>6, Zenon DEF Typed
<1>. QED
  BY <1>1, <1>2, <1>3, <1>5, <1>7, <1>12, <1>13, <1>14, <1>15, LockedStep, Zenon

LEMMA Disconnects ==
    ASSUME KeyInv, NEW c \in Consumers, NEW t \in Tasks, remove_consumer(c, t)
    PROVE  KeyInv'
<1>1. /\ policy' = policy /\ last' = last /\ acked' = acked /\ readPos' = readPos
      /\ handler' = handler /\ given' = given /\ dropped' = dropped
  BY Zenon DEF remove_consumer, logVars, histVars
<1>2. /\ WriteLockFree /\ handler[c] = None /\ connected' = connected \ {c}
      /\ rc' = Requeue(c, DOMAIN pending[c])
      /\ pending' = [pending EXCEPT ![c] = NoPending]
      /\ DispatchLocked(t)
  BY Zenon DEF remove_consumer, Ready
<1>3. Typed
  BY Zenon DEF KeyInv
<1>4. /\ DOMAIN pending' = Consumers /\ pending'[c] = NoPending
      /\ \A e \in Consumers : e # c => pending'[e] = pending[e]
  BY <1>2, <1>3, Zenon DEF Typed
<1>5. DOMAIN pending'[c] = {}
  BY <1>4, Zenon DEF NoPending
<1>6. Queue' = Queue \cup DOMAIN pending[c] /\ Flight' = Flight /\ Controller'
  BY <1>1, <1>2, Requeues, Zenon
<1>7. Out \subseteq Out' \cup DOMAIN pending[c]
  <2>1. SUFFICES ASSUME NEW e \in connected, NEW k \in DOMAIN pending[e], k \notin DOMAIN pending[c]
                 PROVE  e \in connected' /\ k \in DOMAIN pending'[e]
    BY Zenon DEF Out
  <2>2. e # c
    BY <2>1, Zenon
  <2>. QED
    BY <1>2, <1>3, <1>4, <2>1, <2>2, Zenon DEF Typed
<1>8. AckedSoon \subseteq AckedSoon' /\ Hands = {}
  <2>1. SUFFICES ASSUME NEW k \in AckedSoon
                 PROVE  k \in AckedSoon'
    BY <1>2, HandsEmpty, Zenon
  <2>2. PICK e \in connected : handler[e] = Acking(k)
    BY Zenon DEF AckedSoon
  <2>3. e # c
    BY <1>2, <2>2, HandlersDiffer, Zenon
  <2>4. e \in connected' /\ handler'[e] = Acking(k)
    BY <1>1, <1>2, <2>2, <2>3, Zenon
  <2>. QED
    BY <1>1, <2>4, Zenon DEF AckedSoon
<1>9. Safe \subseteq Safe'
  BY <1>1, <1>6, <1>7, <1>8, Zenon DEF Safe
<1>10. Placed \subseteq Placed'
  BY <1>1, <1>6, Zenon DEF Placed
<1>11. \A m \in 1..last : m < readPos' => Fine(m)
  BY <1>1, <1>9, <1>10, BelowNow, Zenon DEF Fine
<1>12. readPos' \in Nat /\ readPos' <= last + 1 /\ acked' \subseteq 1..last
  BY <1>1, <1>3, Zenon DEF Typed
<1>13. connected' \subseteq Consumers /\ IsFiniteSet(connected') /\ DOMAIN handler' = Consumers
  BY <1>1, <1>2, <1>3, FS_RemoveElement, Zenon DEF Typed
<1>14. \A e \in Consumers : DOMAIN pending'[e] \subseteq (1..last) \cap given'
  BY <1>1, <1>3, <1>4, <1>5, Zenon DEF Typed
<1>. QED
  BY <1>1, <1>2, <1>4, <1>6, <1>11, <1>12, <1>13, <1>14, LockedStep, Zenon

LEMMA Seeks ==
    ASSUME KeyInv, NEW c \in Consumers, NEW m \in 1..last, seek(c, m)
    PROVE  KeyInv'
<1>1. policy' = policy /\ last' = last /\ connected' = connected /\ task' = task
  BY Zenon DEF seek
<1>2. /\ WriteLockFree /\ acked' = 1..(m - 1) /\ readPos' = m /\ rc' = clear(rc)
      /\ pending' = [d \in Consumers |-> NoPending]
      /\ handler' = [handler EXCEPT ![c] = Seeking]
  BY Zenon DEF seek
<1>3. Typed
  BY Zenon DEF KeyInv
<1>4. policy.block_hashes \in BOOLEAN /\ rc.block_hashes = policy.block_hashes
  BY ControllerNow, Zenon DEF Holds
<1>5. Holds(rc', policy.block_hashes, {}, {})
  BY <1>2, <1>4, Clears, Zenon
<1>6. Controller'
  <2>1. PICK E : E = {}
    BY Zenon
  <2>2. Holds(rc', policy.block_hashes, E, E) /\ E \subseteq 1..last
    BY <1>5, <2>1, Zenon
  <2>. QED
    BY <1>1, <2>2, ControllerNext, Zenon
<1>7. last \in Nat /\ acked' \subseteq 1..last /\ readPos' \in Nat /\ readPos' <= last + 1
  BY <1>2, <1>3 DEF Typed
<1>8. ASSUME NEW k \in 1..last, k < readPos'
      PROVE  Fine(k)
  <2>1. k \in acked'
    BY <1>2, <1>7, <1>8
  <2>. QED
    BY <2>1, Zenon DEF Fine, Safe, Placed
<1>9. connected' \subseteq Consumers /\ IsFiniteSet(connected') /\ DOMAIN handler' = Consumers
  BY <1>1, <1>2, <1>3, Zenon DEF Typed
<1>10. DOMAIN pending' = Consumers /\ \A e \in Consumers : DOMAIN pending'[e] = {}
  BY <1>2, Zenon DEF NoPending
<1>11. \A e \in Consumers : DOMAIN pending'[e] \subseteq (1..last) \cap given'
  BY <1>10, Zenon
<1>. QED
  BY <1>1, <1>2, <1>6, <1>7, <1>8, <1>9, <1>10, <1>11, LockedStep, Zenon


----------------------------------------------------------------------------
(* The theorems. *)

LEMMA Starts ==
    ASSUME Init
    PROVE  KeyInv
<1>1. /\ policy \in Policies /\ last = 0 /\ acked = {} /\ readPos = 0
      /\ rc = new(policy.block_hashes) /\ connected = {}
      /\ pending = [c \in Consumers |-> NoPending]
      /\ task = [t \in Tasks |-> IdleTask] /\ handler = [c \in Consumers |-> None]
  BY Zenon DEF Init
<1>2. \A t \in Tasks : task[t] = IdleTask
  BY <1>1, Zenon
<1>3. DOMAIN IdleTask = Fields /\ Rest(IdleTask)
  BY Zenon DEF IdleTask, Fields, Rest
<1>4. Typed
  <2>1. DOMAIN pending = Consumers /\ \A c \in Consumers : DOMAIN pending[c] = {}
    BY <1>1, Zenon DEF NoPending
  <2>2. IsFiniteSet(connected)
    BY <1>1, FS_EmptySet, Zenon
  <2>3. last \in Nat /\ last <= MaxMessages /\ readPos \in Nat /\ readPos <= last + 1
    BY <1>1, MessagesAssumption
  <2>4. DOMAIN task = Tasks /\ \A t \in Tasks : DOMAIN task[t] = Fields
    BY <1>1, <1>2, <1>3, Zenon
  <2>5. DOMAIN handler = Consumers /\ connected \subseteq Consumers /\ acked \subseteq 1..last
    BY <1>1, Zenon
  <2>. QED
    BY <1>1, <2>1, <2>2, <2>3, <2>4, <2>5, Zenon DEF Typed
<1>5. Controller
  <2>1. policy.block_hashes \in BOOLEAN
    BY <1>1, PoliciesAssumption, Zenon
  <2>2. Holds(rc, policy.block_hashes, {}, {})
    BY <1>1, <2>1, Clears, Zenon
  <2>3. Queue = {} /\ Flight = {}
    BY <2>2, Zenon DEF Holds, Queue, Flight
  <2>. QED
    BY <2>2, <2>3, Zenon DEF Controller
<1>6. TasksOk /\ Turns
  <2>1. \A t \in Tasks : TaskOk(task[t], last, connected) /\ Turn(task[t], acked, given)
    BY <1>2, <1>3, RestFacts, Zenon
  <2>. QED
    BY <2>1, Zenon DEF TasksOk, Turns
<1>7. Frontier
  <2>1. 1..last = {}
    BY <1>1
  <2>. QED
    BY <2>1, Zenon DEF Frontier
<1>. QED
  BY <1>4, <1>5, <1>6, <1>7, Zenon DEF KeyInv

LEMMA Stutters ==
    ASSUME KeyInv, UNCHANGED vars
    PROVE  KeyInv'
<1>1. /\ UNCHANGED <<policy, last, acked, readPos, rc, connected, task, given>>
      /\ pending' = pending /\ handler' = handler /\ acked' = acked /\ dropped' = dropped
      /\ rc' = rc /\ connected' = connected /\ task' = task /\ last' = last
  BY Zenon DEF vars
<1>2. DOMAIN pending' = Consumers /\ DOMAIN handler' = Consumers
  BY <1>1, Zenon DEF KeyInv, Typed
<1>3. Safe' = Safe
  <2>1. Hands' = Hands /\ Queue' = Queue
    BY <1>1, Zenon DEF Hands, Queue
  <2>2. Out' = Out /\ AckedSoon' = AckedSoon
    BY <1>1, Zenon DEF Out, AckedSoon
  <2>. QED
    BY <1>1, <2>1, <2>2, Zenon DEF Safe
<1>. QED
  BY <1>1, <1>2, <1>3, HandlerStep, Zenon

LEMMA Preserved ==
    ASSUME KeyInv, [Next]_vars
    PROVE  KeyInv'
<1>1. CASE UNCHANGED vars
  BY <1>1, Stutters, Zenon
<1>2. ASSUME NEW t \in Tasks, Dispatch(t) \/ Publish(t)
      PROVE  KeyInv'
  BY <1>2, Dispatches, Publishes, Zenon
<1>3. ASSUME NEW c \in Consumers, add_consumer(c) \/ seek_drain(c)
      PROVE  KeyInv'
  BY <1>3, Connects, Drains, Zenon
<1>4. ASSUME NEW c \in Consumers, NEW m \in 1..last,
             seek(c, m) \/ handle_ack(c, m) \/ acknowledge_message(c, m)
      PROVE  KeyInv'
  BY <1>4, Seeks, Acks, Acknowledges, Zenon
<1>5. ASSUME NEW c \in Consumers, NEW t \in Tasks, handle_flow(c, t) \/ remove_consumer(c, t)
      PROVE  KeyInv'
  BY <1>5, Flows, Disconnects, Zenon
<1>6. ASSUME NEW c \in Consumers, NEW t \in Tasks,
             NEW S \in (SUBSET DOMAIN pending[c]) \ {{}}, handle_redeliver(c, S, t)
      PROVE  KeyInv'
  <2>1. S \in SUBSET DOMAIN pending[c]
    BY <1>6, Zenon
  <2>. QED
    BY <1>6, <2>1, Redelivers, Zenon
<1>. QED
  BY <1>1, <1>2, <1>3, <1>4, <1>5, <1>6, Zenon DEF Next

\* The invariant the theorems below rest on: the controller holds and counts exactly its
\* queued and in-flight messages, whatever the read position or a task has gone past is
\* somewhere, and a message on its way from the log has no earlier one to wait for.
THEOREM KeyInvariant == Spec => []KeyInv
<1>1. Init => KeyInv
  BY Starts, Zenon
<1>2. KeyInv /\ [Next]_vars => KeyInv'
  BY Preserved, Zenon
<1>. QED
  BY <1>1, <1>2, PTL DEF Spec

\* redelivery_controller.rs: in every state a hash is blocked exactly as often as it is
\* queued or in flight, so no hash stays blocked, or is unblocked early, for good.
THEOREM HashesAlwaysCounted == Spec => []HashesCounted
<1>1. KeyInv => HashesCounted
  BY ControllerNow, HoldsCounts, Zenon DEF HashesCounted
<1>. QED
  BY <1>1, KeyInvariant, PTL

\* What key_shared.rs has read from the log and nobody has acknowledged is in a task's
\* hands, queued, pending at a connected consumer or about to be acknowledged.
THEOREM NoneLost == Spec => []Accounted
<1>1. KeyInv => Accounted
  <2>1. SUFFICES ASSUME KeyInv, NEW m \in (1..last) \ (acked \cup dropped), ~Unread(m)
                 PROVE  \/ InHand(m)
                        \/ m \in queued_message_ids(rc)
                        \/ \E c \in connected : m \in DOMAIN pending[c] \/ handler[c] = Acking(m)
    BY Zenon DEF Accounted
  <2>2. m < readPos
    <3>1. m \in Int /\ readPos \in Nat /\ ~(m >= readPos)
      BY <2>1 DEF KeyInv, Typed, Unread
    <3>. QED
      BY <3>1
  <2>3. m \in Safe
    BY <2>1, <2>2, BelowNow, Zenon
  <2>4. m \in Hands => InHand(m)
    <3>1. SUFFICES ASSUME NEW t \in Tasks, task[t].pc \in {"permit", "send"}, m = task[t].msg
                   PROVE  InHand(m)
      BY Zenon DEF Hands
    <3>2. task[t].pc \in {"permit", "send", "refund"}
      BY <3>1, Zenon
    <3>. QED
      BY <3>1, <3>2, Zenon DEF InHand
  <2>5. m \in Queue => m \in queued_message_ids(rc)
    BY Zenon DEF Queue, queued_message_ids
  <2>6. m \in Out => \E c \in connected : m \in DOMAIN pending[c]
    BY Zenon DEF Out
  <2>7. m \in AckedSoon => \E c \in connected : handler[c] = Acking(m)
    BY Zenon DEF AckedSoon
  <2>. QED
    BY <2>1, <2>3, <2>4, <2>5, <2>6, <2>7, Zenon DEF Safe
<1>. QED
  BY <1>1, KeyInvariant, PTL

\* A task's step changes no other task.
LEMMA OthersStay ==
    ASSUME KeyInv, NEW t \in Tasks, NEW u \in Tasks, Dispatch(u), u # t
    PROVE  task'[t] = task[t]
<1>1. DOMAIN task = Tasks
  BY Zenon DEF KeyInv, Typed
<1>2. Batch(u) \/ Pop(u) \/ StorageError(u) => task'[t] = task[t]
  BY <1>1, Zenon DEF Batch, Pop, StorageError, Return, BatchEnd
<1>3. Scan(u) \/ PermitQueued(u) => task'[t] = task[t]
  BY <1>1, Zenon DEF Scan, PermitQueued, BatchEnd
<1>4. Read(u) \/ PassPending(u) \/ SetAside(u) => task'[t] = task[t]
  BY <1>1, Zenon DEF Read, PassPending, SetAside, BatchEnd
<1>5. Route(u) \/ Unwritable(u) => task'[t] = task[t]
  BY <1>1, Zenon DEF Route, Unwritable, BatchEnd
<1>6. Send(u) \/ SendRefused(u) => task'[t] = task[t]
  BY <1>1, Zenon DEF Send, SendRefused
<1>7. Refund(u) \/ Commit(u) => task'[t] = task[t]
  BY <1>1, Zenon DEF Refund, Commit, BatchEnd
<1>. QED
  BY <1>2, <1>3, <1>4, <1>5, <1>6, <1>7, Zenon DEF Dispatch

\* A task that is about to send stays so until it sends or its send is refused.
LEMMA OnlySends ==
    ASSUME KeyInv, [Next]_vars, NEW t \in Tasks, task[t].pc = "send"
    PROVE  task'[t] = task[t] \/ Send(t) \/ SendRefused(t)
<1>1. DOMAIN task = Tasks
  BY Zenon DEF KeyInv, Typed
<1>3. ASSUME NEW u \in Tasks, Spawn(u) \/ DispatchLocked(u)
      PROVE  task'[t] = task[t]
  <2>1. task[u].pc = "idle"
    BY <1>3, Zenon DEF Spawn, DispatchLocked
  <2>2. u # t
    BY <2>1, Zenon
  <2>3. CASE Spawn(u)
    BY <1>1, <2>2, <2>3, Zenon DEF Spawn
  <2>4. CASE DispatchLocked(u)
    BY <1>1, <2>2, <2>4, Zenon DEF DispatchLocked
  <2>. QED
    BY <1>3, <2>3, <2>4, Zenon
<1>4. ASSUME NEW u \in Tasks, Dispatch(u), u # t
      PROVE  task'[t] = task[t]
  BY <1>4, OthersStay, Zenon
<1>5. ASSUME Dispatch(t)
      PROVE  Send(t) \/ SendRefused(t)
  <2>1. ~Batch(t) /\ ~Pop(t) /\ ~Scan(t) /\ ~PermitQueued(t) /\ ~Read(t) /\ ~PassPending(t)
    BY Zenon DEF Batch, Pop, Scan, PermitQueued, Read, PassPending
  <2>2. ~SetAside(t) /\ ~Route(t) /\ ~Unwritable(t) /\ ~Refund(t) /\ ~Commit(t) /\ ~StorageError(t)
    BY Zenon DEF SetAside, Route, Unwritable, Refund, Commit, StorageError
  <2>. QED
    BY <1>5, <2>1, <2>2, Zenon DEF Dispatch
<1>6. ASSUME NEW c \in Consumers,
             \/ add_consumer(c) \/ seek_drain(c)
             \/ \E m \in 1..last : seek(c, m) \/ handle_ack(c, m) \/ acknowledge_message(c, m)
      PROVE  task'[t] = task[t]
  <2>1. task' = task
    BY <1>6, Zenon DEF add_consumer, seek_drain, seek, handle_ack, acknowledge_message
  <2>. QED
    BY <2>1, Zenon
<1>7. ASSUME NEW c \in Consumers, NEW u \in Tasks,
             \/ handle_flow(c, u) \/ remove_consumer(c, u)
             \/ \E S \in (SUBSET DOMAIN pending[c]) \ {{}} : handle_redeliver(c, S, u)
      PROVE  task'[t] = task[t]
  <2>1. Spawn(u) \/ DispatchLocked(u) \/ task' = task
    BY <1>7, Zenon DEF handle_flow, remove_consumer, handle_redeliver,
                       redeliver_unacknowledged_messages
  <2>. QED
    BY <1>3, <2>1, Zenon
<1>8. ASSUME NEW u \in Tasks, Publish(u)
      PROVE  task'[t] = task[t]
  BY <1>3, <1>8, Zenon DEF Publish
<1>9. CASE UNCHANGED vars
  BY <1>9, Zenon DEF vars
<1>. QED
  BY <1>4, <1>5, <1>6, <1>7, <1>8, <1>9, Zenon DEF Next

\* key_shared.rs with blocked hashes: a message read from the log is delivered only when
\* every earlier one of its key is acknowledged or delivered, whatever other tasks do.
THEOREM KeysInOrder == Spec => KeyOrder
<1>1. ASSUME KeyInv, [Next]_vars
      PROVE  policy.block_hashes =>
               \A t \in Tasks : task[t].pc = "send" /\ task'[t].pc = "commit" =>
                  \A m \in (1..(task[t].msg - 1)) \ acked :
                     SameKey(m, task[t].msg) => m \in given
  <2>1. SUFFICES ASSUME policy.block_hashes, NEW t \in Tasks,
                        task[t].pc = "send", task'[t].pc = "commit"
                 PROVE  \A m \in (1..(task[t].msg - 1)) \ acked :
                           SameKey(m, task[t].msg) => m \in given
    BY Zenon
  <2>2. DOMAIN task = Tasks /\ DOMAIN task[t] = Fields
    BY <1>1, Zenon DEF KeyInv, Typed
  <2>3. Send(t)
    <3>1. task'[t] # task[t]
      BY <2>1, Zenon
    <3>2. ~SendRefused(t)
      BY <2>1, <2>2, Zenon DEF SendRefused, Fields
    <3>. QED
      BY <1>1, <2>1, <3>1, <3>2, OnlySends, Zenon
  <2>4. task[t].fresh
    BY <2>1, <2>2, <2>3, Zenon DEF Send, Fields
  <2>. QED
    BY <1>1, <2>1, <2>4, Zenon DEF KeyInv, Turns, Turn
<1>. QED
  BY <1>1, KeyInvariant, PTL DEF Spec, KeyOrder

----------------------------------------------------------------------------
(* Equal shares of the hash space. *)

\* Where the share of the i-th of n consumers begins.
Cut(i, n) == (i * HashSpace) \div n

\* Division keeps the order.
LEMMA DivOrder ==
    ASSUME NEW n \in Nat, n > 0, NEW x \in Nat, NEW y \in Nat, x <= y
    PROVE  x \div n <= y \div n
OBVIOUS

\* Shares begin at 0, end with the space, and follow each other.
LEMMA Cuts ==
    ASSUME NEW n \in Nat, n > 0
    PROVE  /\ Cut(0, n) = 0 /\ Cut(n, n) = HashSpace
           /\ \A i \in Nat : Cut(i, n) \in Nat
           /\ \A i, j \in Nat : i <= j => Cut(i, n) <= Cut(j, n)
<1>1. HashSpace \in Nat
  BY HashSpaceAssumption, Zenon
<1>2. Cut(0, n) = 0
  <2>1. 0 * HashSpace = 0
    BY <1>1
  <2>2. 0 \div n = 0
    OBVIOUS
  <2>. QED
    BY <2>1, <2>2, Zenon DEF Cut
<1>3. Cut(n, n) = HashSpace
  <2>1. ASSUME NEW x \in Nat
        PROVE  (n * x) \div n = x
    OBVIOUS
  <2>. QED
    BY <1>1, <2>1, Zenon DEF Cut
<1>4. \A i \in Nat : Cut(i, n) \in Nat
  <2>1. n \in Nat \ {0}
    OBVIOUS
  <2>. QED
    BY <2>1, Share, Zenon DEF Cut
<1>5. ASSUME NEW i \in Nat, NEW j \in Nat, i <= j
      PROVE  Cut(i, n) <= Cut(j, n)
  <2>1. ASSUME NEW x \in Nat
        PROVE  i * x \in Nat /\ j * x \in Nat /\ i * x <= j * x
    BY <1>5
  <2>2. i * HashSpace \in Nat /\ j * HashSpace \in Nat /\ i * HashSpace <= j * HashSpace
    BY <1>1, <2>1, Zenon
  <2>. QED
    BY <2>2, DivOrder, Zenon DEF Cut
<1>. QED
  BY <1>2, <1>3, <1>4, <1>5, Zenon

\* A strict part of a finite set is smaller.
LEMMA StrictPart ==
    ASSUME NEW S, IsFiniteSet(S), NEW T, T \subseteq S, NEW x \in S, x \notin T
    PROVE  Cardinality(T) \in Nat /\ Cardinality(S) \in Nat /\ Cardinality(T) < Cardinality(S)
<1>1. IsFiniteSet(T) /\ Cardinality(T) <= Cardinality(S) /\ Cardinality(T) # Cardinality(S)
  BY FS_Subset, Zenon
<1>2. Cardinality(T) \in Nat /\ Cardinality(S) \in Nat
  BY <1>1, FS_CardinalityType, Zenon
<1>. QED
  BY <1>1, <1>2

\* Consumers are numbered from 0 in the order of their ids, no number left out.
LEMMA Places ==
    ASSUME NEW S, IsFiniteSet(S), S \subseteq Nat
    PROVE  /\ Cardinality(S) \in Nat
           /\ \A c \in S : Index(c, S) \in Nat /\ Index(c, S) < Cardinality(S)
           /\ \A c, d \in S : c < d => Index(c, S) < Index(d, S)
           /\ \A i \in Nat : i < Cardinality(S) => \E c \in S : Index(c, S) = i
<1>1. Cardinality(S) \in Nat
  BY FS_CardinalityType, Zenon
<1>2. ASSUME NEW c \in S
      PROVE  Index(c, S) \in Nat /\ Index(c, S) < Cardinality(S)
  <2>1. c \notin {d \in S : d < c}
    OBVIOUS
  <2>2. {d \in S : d < c} \subseteq S
    BY Zenon
  <2>. QED
    BY <2>1, <2>2, StrictPart, Zenon DEF Index
<1>3. ASSUME NEW c \in S, NEW d \in S, c < d
      PROVE  Index(c, S) < Index(d, S)
  <2>1. PICK T : T = {x \in S : x < d}
    BY Zenon
  <2>2. PICK U : U = {x \in S : x < c}
    BY Zenon
  <2>3. IsFiniteSet(T)
    BY <2>1, FS_Subset, Zenon
  <2>4. U \subseteq T /\ c \in T /\ c \notin U
    <3>1. \A x \in S : x < c => x < d
      BY <1>3
    <3>2. ~(c < c)
      BY <1>3
    <3>. QED
      BY <1>3, <2>1, <2>2, <3>1, <3>2, Zenon
  <2>5. Cardinality(U) < Cardinality(T)
    BY <2>3, <2>4, StrictPart, Zenon
  <2>. QED
    BY <2>1, <2>2, <2>5, Zenon DEF Index
<1>4. ASSUME NEW i \in Nat, i < Cardinality(S)
      PROVE  \E c \in S : Index(c, S) = i
  <2>1. PICK n \in Nat : n = Cardinality(S)
    BY <1>1, Zenon
  <2>2. PICK f : f = [c \in S |-> Index(c, S)]
    BY Zenon
  <2>3. \A c \in S : f[c] = Index(c, S) /\ f[c] \in 0..(n - 1)
    <3>1. \A c \in S : f[c] = Index(c, S)
      BY <2>2, Zenon
    <3>2. ASSUME NEW x \in Nat, x < n
          PROVE  x \in 0..(n - 1)
      BY <3>2
    <3>. QED
      BY <1>2, <2>1, <3>1, <3>2, Zenon
  <2>4. f \in Injection(S, 0..(n - 1))
    <3>1. f \in [S -> 0..(n - 1)]
      BY <2>2, <2>3, Zenon
    <3>2. ASSUME NEW c \in S, NEW d \in S, f[c] = f[d]
          PROVE  c = d
      <4>1. f[c] \in Int /\ f[d] \in Int /\ c \in Nat /\ d \in Nat
        BY <2>3
      <4>2. ~(f[c] < f[d]) /\ ~(f[d] < f[c])
        BY <3>2, <4>1
      <4>3. ~(c < d) /\ ~(d < c)
        BY <1>3, <2>3, <4>2, Zenon
      <4>. QED
        BY <4>1, <4>3
    <3>. QED
      BY <3>1, <3>2, Zenon DEF Injection, IsInjective
  <2>5. IsFiniteSet(0..(n - 1)) /\ Cardinality(0..(n - 1)) = n
    <3>1. 0 \in Int /\ n - 1 \in Int
      OBVIOUS
    <3>2. /\ IsFiniteSet(0..(n - 1))
          /\ Cardinality(0..(n - 1)) = IF 0 > n - 1 THEN 0 ELSE (n - 1) - 0 + 1
      BY <3>1, FS_Interval, Zenon
    <3>. QED
      BY <3>2
  <2>6. f \in Surjection(S, 0..(n - 1))
    BY <2>1, <2>4, <2>5, FS_Injection, Zenon
  <2>7. i \in 0..(n - 1)
    BY <1>4, <2>1
  <2>8. PICK c \in S : f[c] = i
    BY <2>6, <2>7, Zenon DEF Surjection
  <2>. QED
    BY <2>3, <2>8, Zenon
<1>. QED
  BY <1>1, <1>2, <1>3, <1>4, Zenon

\* rebuild_auto_split_assignments gives every hash to exactly one of the consumers.
LEMMA OneHolder ==
    ASSUME NEW S, IsFiniteSet(S), S \subseteq Nat, S # {}, NEW h \in Hashes
    PROVE  Cardinality({c \in S : \E a \in Holding(auto_split(S), h) : a[3] = c}) = 1
<1>1. PICK n \in Nat : n = Cardinality(S)
  BY Places, Zenon
<1>2. n > 0
  <2>1. n # 0
    BY <1>1, FS_EmptySet, Zenon
  <2>. QED
    BY <2>1
<1>3. /\ Cut(0, n) = 0 /\ Cut(n, n) = HashSpace
      /\ \A i \in Nat : Cut(i, n) \in Nat
      /\ \A i, j \in Nat : i <= j => Cut(i, n) <= Cut(j, n)
  BY <1>2, Cuts, Zenon
<1>4. h \in Nat /\ HashSpace \in Nat /\ h < HashSpace
  <2>1. h \in 0..(HashSpace - 1)
    BY SpaceAssumption, Zenon
  <2>. QED
    BY <2>1, HashSpaceAssumption
\* The consumer in the share of which h falls.
<1>5. PICK i \in Nat : i < n /\ Cut(i, n) <= h /\ h < Cut(i + 1, n)
  <2>1. PICK B : B = {j \in Nat : h < Cut(j, n)}
    BY Zenon
  <2>2. n \in B /\ 0 \notin B /\ B \subseteq Nat
    BY <1>3, <1>4, <2>1
  <2>3. PICK j \in B : \A k \in B : j <= k
    BY <2>2, LeastOf, Zenon
  <2>4. j \in Nat /\ j # 0 /\ j <= n /\ h < Cut(j, n)
    BY <2>1, <2>2, <2>3, Zenon
  <2>5. PICK i \in Nat : j = i + 1
    <3>1. j - 1 \in Nat /\ j = (j - 1) + 1
      BY <2>4
    <3>. QED
      BY <3>1, Zenon
  <2>6. i \notin B
    <3>1. ~(j <= i)
      BY <2>5
    <3>. QED
      BY <2>3, <3>1, Zenon
  <2>7. Cut(i, n) <= h
    <3>1. ~(h < Cut(i, n)) /\ Cut(i, n) \in Nat
      BY <1>3, <2>1, <2>5, <2>6, Zenon
    <3>. QED
      BY <1>4, <3>1
  <2>8. i < n
    BY <2>4, <2>5
  <2>. QED
    BY <2>4, <2>5, <2>7, <2>8, Zenon
<1>6. PICK c \in S : Index(c, S) = i
  BY <1>1, <1>5, Places, Zenon
\* It holds h,
<1>7. \E a \in Holding(auto_split(S), h) : a[3] = c
  <2>1. PICK a : a = <<Cut(i, n), Cut(i + 1, n) - 1, c>>
    BY Zenon
  <2>2. a \in auto_split(S)
    BY <1>1, <1>6, <2>1, Zenon DEF auto_split, Cut
  <2>3. a[1] = Cut(i, n) /\ a[2] = Cut(i + 1, n) - 1 /\ a[3] = c
    BY <2>1, Zenon
  <2>4. Cut(i + 1, n) \in Nat
    <3>1. i + 1 \in Nat
      BY <1>5
    <3>. QED
      BY <1>3, <3>1, Zenon
  <2>5. a[1] <= h /\ h <= a[2]
    BY <1>4, <1>5, <2>3, <2>4
  <2>. QED
    BY <2>2, <2>3, <2>5, Zenon DEF Holding
\* and nobody else does.
<1>8. ASSUME NEW d \in S, \E a \in Holding(auto_split(S), h) : a[3] = d
      PROVE  d = c
  <2>1. PICK a \in auto_split(S) : a[1] <= h /\ h <= a[2] /\ a[3] = d
    BY <1>8, Zenon DEF Holding
  <2>2. PICK e \in S : a = <<Cut(Index(e, S), n), Cut(Index(e, S) + 1, n) - 1, e>>
    BY <1>1, <2>1, Zenon DEF auto_split, Cut
  <2>3. PICK k \in Nat : k = Index(e, S)
    BY Places, Zenon
  <2>4. a[1] = Cut(k, n) /\ a[2] = Cut(k + 1, n) - 1 /\ a[3] = e
    BY <2>2, <2>3, Zenon
  <2>5. e = d /\ k + 1 \in Nat /\ i + 1 \in Nat
    BY <1>5, <2>1, <2>3, <2>4
  <2>6. Cut(k + 1, n) \in Nat /\ Cut(i + 1, n) \in Nat /\ Cut(k, n) \in Nat /\ Cut(i, n) \in Nat
    BY <1>3, <1>5, <2>3, <2>5, Zenon
  <2>7. Cut(k, n) <= h /\ h < Cut(k + 1, n)
    BY <1>4, <2>1, <2>4, <2>6
  <2>8. ~(k + 1 <= i)
    <3>1. ~(Cut(k + 1, n) <= Cut(i, n))
      BY <1>4, <1>5, <2>6, <2>7
    <3>. QED
      BY <1>3, <1>5, <2>5, <3>1, Zenon
  <2>9. ~(i + 1 <= k)
    <3>1. ~(Cut(i + 1, n) <= Cut(k, n))
      BY <1>4, <1>5, <2>6, <2>7
    <3>. QED
      BY <1>3, <2>3, <2>5, <3>1, Zenon
  <2>10. k = i
    BY <1>5, <2>3, <2>8, <2>9
  <2>11. ~(c < d) /\ ~(d < c)
    <3>1. Index(c, S) = i /\ Index(d, S) = i /\ ~(i < i)
      BY <1>5, <1>6, <2>3, <2>5, <2>10
    <3>2. \A x, y \in S : x < y => Index(x, S) < Index(y, S)
      BY Places, Zenon
    <3>3. (c < d => i < i) /\ (d < c => i < i)
      BY <3>1, <3>2, Zenon
    <3>. QED
      BY <3>1, <3>3, Zenon
  <2>. QED
    BY <2>11
<1>9. {d \in S : \E a \in Holding(auto_split(S), h) : a[3] = d} = {c}
  BY <1>6, <1>7, <1>8, Zenon
<1>. QED
  BY <1>9, FS_Singleton, Zenon

----------------------------------------------------------------------------
(* Deliveries go to the owner of the key. *)

\* Between the choice of a consumer and the send, the consumer owns the hash.
Chosen(s, c, h) == s.pc \in {"permit", "send"} /\ s.cons = c /\ HashOf[s.msg] = h
Owner == \A t \in Tasks : \A c, h : Chosen(task[t], c, h) => Owns(c, h)

LEMMA SelectedOwns ==
    ASSUME Typed, NEW h, select_consumer_for_hash(h) # Nobody
    PROVE  Owns(select_consumer_for_hash(h), h)
<1>1. PICK A : A = {a \in Holding(active_assignments, h) : permits[a[3]] > 0}
  BY Zenon
<1>2. select_consumer_for_hash(h) = (IF A = {} THEN Nobody ELSE FirstOf(A)[3])
  BY <1>1, Zenon DEF select_consumer_for_hash
<1>3. A # {} /\ select_consumer_for_hash(h) = FirstOf(A)[3]
  BY <1>2, Zenon
<1>4. A \subseteq Holding(active_assignments, h) /\ A \subseteq active_assignments
  BY <1>1, Zenon DEF Holding
<1>5. \A a \in A : Assignment(a) /\ a[3] \in connected
  BY <1>4, Assignments, Zenon
<1>6. FirstOf(A) \in A
  BY <1>3, <1>5, FirstIn, Zenon
<1>. QED
  BY <1>3, <1>4, <1>6, Zenon DEF Owns

\* While nobody comes or goes, a hash keeps its owners.
LEMMA SameOwners ==
    ASSUME UNCHANGED <<policy, connected>>, NEW c, NEW h
    PROVE  Owns(c, h)' <=> Owns(c, h)
<1>1. active_assignments' = active_assignments
  BY Zenon DEF active_assignments
<1>. QED
  BY <1>1, Zenon DEF Owns

\* A step after which task u has chosen what it had chosen, or an owner.
LEMMA OwnerStep ==
    ASSUME Owner, UNCHANGED <<policy, connected>>, NEW u \in Tasks,
           \A t \in Tasks : t # u => task'[t] = task[t],
           \A c, h : Chosen(task'[u], c, h) => Owns(c, h)
    PROVE  Owner'
<1>1. SUFFICES ASSUME NEW t \in Tasks, NEW c, NEW h, Chosen(task'[t], c, h)
               PROVE  Owns(c, h)'
  BY Zenon DEF Owner
<1>2. Owns(c, h)
  <2>1. CASE t = u
    BY <1>1, <2>1, Zenon
  <2>2. CASE t # u
    <3>1. Chosen(task[t], c, h)
      BY <1>1, <2>2, Zenon
    <3>. QED
      BY <3>1, Zenon DEF Owner
  <2>. QED
    BY <2>1, <2>2, Zenon
<1>. QED
  BY <1>2, SameOwners, Zenon

LEMMA DispatchOwner ==
    ASSUME KeyInv, Owner, NEW u \in Tasks, Dispatch(u)
    PROVE  Owner'
<1>1. DOMAIN task = Tasks /\ DOMAIN task[u] = Fields
  BY Zenon DEF KeyInv, Typed
<1>2. UNCHANGED <<policy, connected>>
  BY Zenon DEF Dispatch, Batch, Pop, Scan, PermitQueued, Read, PassPending, SetAside, Route,
               Unwritable, Send, SendRefused, Refund, Commit, StorageError, logVars
<1>3. \A t \in Tasks : t # u => task'[t] = task[t]
  BY OthersStay, Zenon
<1>4. task'[u].pc \notin {"permit", "send"} => \A c, h : ~Chosen(task'[u], c, h)
  BY Zenon DEF Chosen
<1>5. Return(u) \/ (\E n : BatchEnd(u, n)) => task'[u].pc \notin {"permit", "send"}
  <2>1. Return(u) \/ (\E n : BatchEnd(u, n)) => Rest(task'[u])
    BY Ends, Zenon DEF KeyInv
  <2>2. Rest(task'[u]) => task'[u].pc \notin {"permit", "send"}
    BY Zenon DEF Rest
  <2>. QED
    BY <2>1, <2>2, Zenon
<1>6. Batch(u) \/ Pop(u) \/ StorageError(u) \/ Unwritable(u)
        => task'[u].pc \notin {"permit", "send"}
  <2>1. Batch(u) => task'[u].pc \notin {"permit", "send"}
    BY <1>1, <1>5, Zenon DEF Batch, Fields
  <2>2. Pop(u) => task'[u].pc \notin {"permit", "send"}
    <3>1. Pop(u) => \/ BatchEnd(u, total)
                    \/ \E q : task' = [task EXCEPT ![u].scan = q, ![u].pc = "read"]
                    \/ \E q : task' = [task EXCEPT ![u].scan = q, ![u].pc = "scan"]
      BY Zenon DEF Pop
    <3>2. "pc" \in DOMAIN task[u]
      BY <1>1, Zenon DEF Fields
    <3>3. ASSUME NEW q, task' = [task EXCEPT ![u].scan = q, ![u].pc = "read"]
          PROVE  task'[u].pc \notin {"permit", "send"}
      BY <1>1, <3>2, <3>3, Zenon
    <3>4. ASSUME NEW q, task' = [task EXCEPT ![u].scan = q, ![u].pc = "scan"]
          PROVE  task'[u].pc \notin {"permit", "send"}
      BY <1>1, <3>2, <3>4, Zenon
    <3>. QED
      BY <1>5, <3>1, <3>3, <3>4, Zenon
  <2>3. StorageError(u) \/ Unwritable(u) => task'[u].pc \notin {"permit", "send"}
    BY <1>5, Zenon DEF StorageError, Unwritable
  <2>. QED
    BY <2>1, <2>2, <2>3, Zenon
<1>7. Read(u) \/ PassPending(u) \/ SetAside(u) \/ Send(u) \/ SendRefused(u) \/ Refund(u)
        \/ Commit(u) => task'[u].pc \notin {"permit", "send"}
  <2>1. Read(u) => task'[u].pc \notin {"permit", "send"}
    <3>1. Read(u) => \/ BatchEnd(u, total)
                     \/ \E m : task' = [task EXCEPT ![u].pc = "check", ![u].msg = m]
      BY Zenon DEF Read
    <3>. QED
      BY <1>1, <1>5, <3>1, Zenon DEF Fields
  <2>2. PassPending(u) \/ SetAside(u) => task'[u].pc \notin {"permit", "send"}
    BY <1>1 DEF PassPending, SetAside, Fields
  <2>3. Send(u) => task'[u].pc \notin {"permit", "send"}
    BY <1>1 DEF Send, Fields
  <2>4. SendRefused(u) \/ Commit(u) => task'[u].pc \notin {"permit", "send"}
    BY <1>1 DEF SendRefused, Commit, Fields
  <2>5. Refund(u) => task'[u].pc \notin {"permit", "send"}
    BY <1>5, Zenon DEF Refund
  <2>. QED
    BY <2>1, <2>2, <2>3, <2>4, <2>5, Zenon
<1>8. ASSUME Scan(u), NEW c, NEW h, Chosen(task'[u], c, h)
      PROVE  Owns(c, h)
  <2>1. PICK m : m = Min(task[u].scan)
    BY Zenon
  <2>2. task'[u].pc \in {"permit", "send"} => CanTake(m)
    BY <1>1, <1>8, <2>1 DEF Scan, Fields
  <2>3. CanTake(m)
    BY <1>8, <2>2, Zenon DEF Chosen
  <2>4. task'[u].pc \in {"permit", "send"}
           => task'[u].cons = select_consumer_for_hash(HashOf[m]) /\ task'[u].msg = m
    BY <1>1, <1>8, <2>1 DEF Scan, Fields
  <2>5. c = select_consumer_for_hash(h) /\ h = HashOf[m]
    BY <1>8, <2>4, Zenon DEF Chosen
  <2>. QED
    BY <2>3, <2>5, SelectedOwns, Zenon DEF CanTake, KeyInv
<1>9. ASSUME Route(u), NEW c, NEW h, Chosen(task'[u], c, h)
      PROVE  Owns(c, h)
  <2>1. PICK m, d : m = task[u].msg /\ d = select_consumer_for_hash(HashOf[m])
    BY Zenon
  <2>2. task'[u].pc \in {"permit", "send"} => d # Nobody
    <3>1. d = Nobody => BatchEnd(u, total)
      BY <1>9, <2>1, Zenon DEF Route
    <3>. QED
      BY <1>5, <3>1, Zenon
  <2>3. d # Nobody
    BY <1>9, <2>2, Zenon DEF Chosen
  <2>4. task'[u].cons = d /\ task'[u].msg = m
    BY <1>1, <1>9, <2>1, <2>3 DEF Route, Fields
  <2>5. c = d /\ h = HashOf[m]
    BY <1>9, <2>4, Zenon DEF Chosen
  <2>. QED
    BY <2>1, <2>3, <2>5, SelectedOwns, Zenon DEF KeyInv
<1>10. ASSUME PermitQueued(u), NEW c, NEW h, Chosen(task'[u], c, h)
       PROVE  Owns(c, h)
  <2>1. task[u].pc = "permit"
    BY <1>10, Zenon DEF PermitQueued
  <2>2. task'[u].pc \in {"permit", "send"} =>
          task'[u].cons = task[u].cons /\ task'[u].msg = task[u].msg
    <3>1. \/ BatchEnd(u, total)
          \/ \E n : task' = [task EXCEPT ![u].pc = "send", ![u].left = n]
      BY <1>10, Zenon DEF PermitQueued
    <3>. QED
      BY <1>1, <1>5, <3>1 DEF Fields
  <2>3. Chosen(task[u], c, h)
    BY <1>10, <2>1, <2>2, Zenon DEF Chosen
  <2>. QED
    BY <2>3, Zenon DEF Owner
<1>11. \A c, h : Chosen(task'[u], c, h) => Owns(c, h)
  BY <1>4, <1>5, <1>6, <1>7, <1>8, <1>9, <1>10, Zenon DEF Dispatch
<1>. QED
  BY <1>2, <1>3, <1>11, OwnerStep, Zenon

\* A task that is started has chosen nobody.
LEMMA StartOwner ==
    ASSUME KeyInv, NEW u \in Tasks, Spawn(u) \/ DispatchLocked(u)
    PROVE  /\ \A t \in Tasks : t # u => task'[t] = task[t]
           /\ \A c, h : ~Chosen(task'[u], c, h)
<1>1. DOMAIN task = Tasks /\ DOMAIN task[u] = Fields
  BY Zenon DEF KeyInv, Typed
<1>2. task'[u].pc \in {"spawned", "batch"}
  BY <1>1, Zenon DEF Spawn, DispatchLocked, Fields
<1>3. task'[u].pc \notin {"permit", "send"}
  BY <1>2, Zenon
<1>4. \A t \in Tasks : t # u => task'[t] = task[t]
  BY <1>1, Zenon DEF Spawn, DispatchLocked
<1>. QED
  BY <1>3, <1>4, Zenon DEF Chosen

\* Under the write lock no task has chosen anybody.
LEMMA NobodyChosen ==
    ASSUME WriteLockFree, NEW t \in Tasks, NEW c, NEW h
    PROVE  ~Chosen(task[t], c, h)
<1>1. task[t].pc \in {"idle", "spawned"}
  BY Zenon DEF WriteLockFree, Running
<1>2. task[t].pc \notin {"permit", "send"}
  BY <1>1, Zenon
<1>. QED
  BY <1>2, Zenon DEF Chosen

LEMMA OwnerKept ==
    ASSUME KeyInv, Owner, [Next]_vars
    PROVE  Owner'
<1>1. ASSUME UNCHANGED <<policy, connected, task>>
      PROVE  Owner'
  BY <1>1, SameOwners, Zenon DEF Owner
<1>2. CASE UNCHANGED vars
  BY <1>1, <1>2, Zenon DEF vars
<1>3. ASSUME NEW t \in Tasks, Dispatch(t) \/ Publish(t)
      PROVE  Owner'
  <2>1. CASE Dispatch(t)
    BY <2>1, DispatchOwner, Zenon
  <2>2. CASE Publish(t)
    <3>1. Spawn(t) /\ UNCHANGED <<policy, connected>>
      BY <2>2, Zenon DEF Publish
    <3>. QED
      BY <3>1, StartOwner, OwnerStep, Zenon
  <2>. QED
    BY <1>3, <2>1, <2>2, Zenon
<1>4. ASSUME NEW c \in Consumers, add_consumer(c)
      PROVE  Owner'
  <2>1. WriteLockFree /\ task' = task
    BY <1>4, Zenon DEF add_consumer
  <2>. QED
    BY <2>1, NobodyChosen, Zenon DEF Owner
<1>5. ASSUME NEW c \in Consumers, seek_drain(c)
      PROVE  Owner'
  BY <1>1, <1>5, Zenon DEF seek_drain, logVars
<1>6. ASSUME NEW c \in Consumers, NEW m \in 1..last,
             seek(c, m) \/ handle_ack(c, m) \/ acknowledge_message(c, m)
      PROVE  Owner'
  BY <1>1, <1>6, Zenon DEF seek, handle_ack, acknowledge_message, logVars
<1>7. ASSUME NEW c \in Consumers, NEW t \in Tasks, handle_flow(c, t)
      PROVE  Owner'
  <2>1. Spawn(t) /\ UNCHANGED <<policy, connected>>
    BY <1>7, Zenon DEF handle_flow, logVars
  <2>. QED
    BY <2>1, StartOwner, OwnerStep, Zenon
<1>8. ASSUME NEW c \in Consumers, NEW t \in Tasks, remove_consumer(c, t)
      PROVE  Owner'
  <2>1. WriteLockFree /\ DispatchLocked(t)
    BY <1>8, Zenon DEF remove_consumer
  <2>2. \A u \in Tasks : \A d, h : ~Chosen(task'[u], d, h)
    <3>1. SUFFICES ASSUME NEW u \in Tasks, NEW d, NEW h
                   PROVE  ~Chosen(task'[u], d, h)
      BY Zenon
    <3>2. CASE u = t
      BY <2>1, <3>2, StartOwner, Zenon
    <3>3. CASE u # t
      <4>1. task'[u] = task[u]
        BY <2>1, <3>3, StartOwner, Zenon
      <4>. QED
        BY <2>1, <4>1, NobodyChosen, Zenon
    <3>. QED
      BY <3>2, <3>3, Zenon
  <2>. QED
    BY <2>2, Zenon DEF Owner
<1>9. ASSUME NEW c \in Consumers, NEW t \in Tasks,
             NEW S \in (SUBSET DOMAIN pending[c]) \ {{}}, handle_redeliver(c, S, t)
      PROVE  Owner'
  <2>1. UNCHANGED <<policy, connected>> /\ (task' = task \/ DispatchLocked(t))
    BY <1>9, Zenon DEF handle_redeliver, redeliver_unacknowledged_messages, logVars
  <2>2. CASE task' = task
    BY <1>1, <2>1, <2>2, Zenon
  <2>3. CASE DispatchLocked(t)
    BY <2>1, <2>3, StartOwner, OwnerStep, Zenon
  <2>. QED
    BY <2>1, <2>2, <2>3, Zenon
<1>. QED
  BY <1>2, <1>3, <1>4, <1>5, <1>6, <1>7, <1>8, <1>9, Zenon DEF Next

\* The policy of a dispatcher never changes.
LEMMA SamePolicy ==
    ASSUME [Next]_vars
    PROVE  policy' = policy
<1>1. ASSUME NEW t \in Tasks, Dispatch(t) \/ Publish(t)
      PROVE  policy' = policy
  BY <1>1, Zenon DEF Dispatch, Batch, Pop, Scan, PermitQueued, Read, PassPending, SetAside, Route,
                     Unwritable, Send, SendRefused, Refund, Commit, StorageError, Publish, logVars
<1>2. ASSUME NEW c \in Consumers, add_consumer(c) \/ seek_drain(c)
      PROVE  policy' = policy
  BY <1>2, Zenon DEF add_consumer, seek_drain, logVars
<1>3. ASSUME NEW c \in Consumers, NEW m \in 1..last,
             seek(c, m) \/ handle_ack(c, m) \/ acknowledge_message(c, m)
      PROVE  policy' = policy
  BY <1>3, Zenon DEF seek, handle_ack, acknowledge_message, logVars
<1>4. ASSUME NEW c \in Consumers, NEW t \in Tasks,
             \/ handle_flow(c, t) \/ remove_consumer(c, t)
             \/ \E S \in (SUBSET DOMAIN pending[c]) \ {{}} : handle_redeliver(c, S, t)
      PROVE  policy' = policy
  BY <1>4, Zenon DEF handle_flow, remove_consumer, handle_redeliver, logVars
<1>5. CASE UNCHANGED vars
  BY <1>5, Zenon DEF vars
<1>. QED
  BY <1>1, <1>2, <1>3, <1>4, <1>5, Zenon DEF Next

\* key_shared.rs: a message goes to a consumer the ranges of which hold its hash when it
\* is delivered, whatever came and went since it was chosen; and the ranges that
\* rebuild_auto_split_assignments makes give every hash exactly one owner.
THEOREM AlwaysSentToOwner == Spec => SentToOwner
<1>1. Init => Owner
  <2>1. SUFFICES ASSUME Init, NEW t \in Tasks, NEW c, NEW h
                 PROVE  ~Chosen(task[t], c, h)
    BY Zenon DEF Owner
  <2>2. task[t].pc = "idle"
    BY <2>1, Zenon DEF Init, IdleTask
  <2>3. task[t].pc \notin {"permit", "send"}
    BY <2>2, Zenon
  <2>. QED
    BY <2>3, Zenon DEF Chosen
<1>2. KeyInv /\ Owner /\ [Next]_vars => Owner'
  BY OwnerKept, Zenon
<1>3. ASSUME KeyInv, Owner, NEW t \in Tasks, task[t].pc = "send"
      PROVE  Owns(task[t].cons, HashOf[task[t].msg])
  <2>1. task[t].pc \in {"permit", "send"}
    BY <1>3, Zenon
  <2>2. Chosen(task[t], task[t].cons, HashOf[task[t].msg])
    BY <2>1, Zenon DEF Chosen
  <2>. QED
    BY <1>3, <2>2, Zenon DEF Owner
<1>4. ASSUME KeyInv, KeyInv', [Next]_vars, connected' \notin {connected, {}},
             policy.mode = "AutoSplit", NEW h \in Hashes
      PROVE  Cardinality({c \in connected' : Owns(c, h)'}) = 1
  <2>1. policy' = policy
    BY <1>4, SamePolicy, Zenon
  <2>2. active_assignments' = auto_split(connected')
    BY <1>4, <2>1, Zenon DEF active_assignments
  <2>3. connected' \subseteq Nat /\ IsFiniteSet(connected')
    BY <1>4, ConsumersAssumption, Zenon DEF KeyInv, Typed
  <2>4. PICK S : S = connected'
    BY Zenon
  <2>5. S # {} /\ S \subseteq Nat /\ IsFiniteSet(S)
    BY <1>4, <2>3, <2>4, Zenon
  <2>6. {c \in connected' : Owns(c, h)'} = {c \in S : \E a \in Holding(auto_split(S), h) : a[3] = c}
    <3>1. active_assignments' = auto_split(S)
      BY <2>2, <2>4, Zenon
    <3>2. ASSUME NEW c
          PROVE  Owns(c, h)' <=> \E a \in Holding(auto_split(S), h) : a[3] = c
      <4>1. Owns(c, h)' <=> \E a \in Holding(active_assignments', h) : a[3] = c
        BY Zenon DEF Owns
      <4>. QED
        BY <3>1, <4>1, Zenon
    <3>. QED
      BY <2>4, <3>2, Zenon
  <2>7. Cardinality({c \in S : \E a \in Holding(auto_split(S), h) : a[3] = c}) = 1
    BY <2>5, OneHolder, Zenon
  <2>8. PICK H : H = {c \in S : \E a \in Holding(auto_split(S), h) : a[3] = c}
    BY Zenon
  <2>9. Cardinality(H) = 1 /\ {c \in connected' : Owns(c, h)'} = H
    BY <2>6, <2>7, <2>8, Zenon
  <2>. QED
    BY <2>9, Zenon
<1>5. ASSUME KeyInv, KeyInv', Owner, [Next]_vars
      PROVE  /\ \A t \in Tasks : task[t].pc = "send" /\ task'[t].pc \in {"commit", "read"} =>
                   Owns(task[t].cons, HashOf[task[t].msg])
             /\ connected' \notin {connected, {}} /\ policy.mode = "AutoSplit" =>
                   \A h \in Hashes : Cardinality({c \in connected' : Owns(c, h)'}) = 1
  BY <1>3, <1>4, <1>5, Zenon
<1>. QED
  BY <1>1, <1>2, <1>5, KeyInvariant, PTL DEF Spec, SentToOwner

=============================================================================
