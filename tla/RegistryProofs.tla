--------------------------- MODULE RegistryProofs ---------------------------
(***************************************************************************)
(* Registry, for any connections, dispatch tasks, topic names, numbers of  *)
(* partitions, crashes and failed writes.                                  *)
(***************************************************************************)
EXTENDS Registry, TLAPS

Names == Seq(Nat)

----------------------------------------------------------------------------
(* Waiting for locks. *)

\* The three kinds of locks differ.
LEMMA LocksDiffer ==
    \A t, o : /\ BrokerLock # TopicLock(t) /\ BrokerLock # SubscriptionLock(o)
              /\ TopicLock(t) # SubscriptionLock(o)
BY Zenon DEF BrokerLock, TopicLock, SubscriptionLock

\* A handler holds no lock of a subscription across a wait, one of a topic only when it
\* waits for a subscription, and the broker's only when it waits for either.
LEMMA HoldsLess ==
    ASSUME NEW j, NEW a \in Holds(j)
    PROVE  \/ a.lock = BrokerLock /\ j.at \in {"topic", "subscription"}
           \/ j.at = "subscription" /\ \E t : a.lock = TopicLock(t)
<1>1. CASE j.op = "subscribe" /\ j.at = "topic"
  BY <1>1 DEF Holds, Lock
<1>2. CASE j.op = "subscribe" /\ j.at = "subscription"
  BY <1>2 DEF Holds, Lock
<1>3. CASE j.op = "dispatch" /\ j.at = "subscription"
  BY <1>3 DEF Holds, Lock
<1>. QED
  BY <1>1, <1>2, <1>3, Zenon DEF Holds

\* What a handler waits for, by where it is.
LEMMA WantsAre ==
    ASSUME NEW j, NEW b \in Wants(j)
    PROVE  /\ j.at \in {"broker", "topic", "subscription"} /\ b.mode \in {"R", "W"}
           /\ j.at = "broker" => b.lock = BrokerLock
           /\ j.at = "topic" => \E t : b.lock = TopicLock(t)
           /\ j.at = "subscription" => \E o : b.lock = SubscriptionLock(o)
BY DEF Wants, Lock

\* A handler waits for one lock.
LEMMA WantsOne ==
    ASSUME NEW j
    PROVE  \A a, b \in Wants(j) : a = b
BY Zenon DEF Wants

\* Among handlers none of which is further down the order of locks than p, and with p
\* waiting to write if any handler where p is does, nobody blocks p.
LEMMA DeepestRuns ==
    ASSUME NEW S, NEW p \in S,
           job[p].at = "topic" => \A q \in S : job[q].at # "subscription",
           job[p].at = "broker" => \A q \in S : job[q].at \notin {"topic", "subscription"},
           \/ \A b \in Wants(job[p]) : b.mode = "W"
           \/ \A q \in S : job[q].at = job[p].at => \A a \in Wants(job[q]) : a.mode = "R"
    PROVE  \A q \in S : ~Blocks(q, p)
<1>. SUFFICES ASSUME NEW q \in S, Blocks(q, p) PROVE FALSE
  BY Zenon
<1>1. CASE \E a \in Holds(job[q]), b \in Wants(job[p]) : Conflict(a, b)
  <2>1. PICK a \in Holds(job[q]), b \in Wants(job[p]) : a.lock = b.lock
    BY <1>1, Zenon DEF Conflict
  <2>2. \/ a.lock = BrokerLock /\ job[q].at \in {"topic", "subscription"}
        \/ job[q].at = "subscription" /\ \E t : a.lock = TopicLock(t)
    BY HoldsLess, Zenon
  <2>3. /\ job[p].at \in {"broker", "topic", "subscription"}
        /\ job[p].at = "broker" => b.lock = BrokerLock
        /\ job[p].at = "topic" => \E t : b.lock = TopicLock(t)
        /\ job[p].at = "subscription" => \E o : b.lock = SubscriptionLock(o)
    BY WantsAre, Zenon
  <2>4. CASE job[p].at = "broker"
    BY <2>1, <2>2, <2>3, <2>4, LocksDiffer, Zenon
  <2>5. CASE job[p].at = "topic"
    BY <2>1, <2>2, <2>3, <2>5, LocksDiffer, Zenon
  <2>6. CASE job[p].at = "subscription"
    BY <2>1, <2>2, <2>3, <2>6, LocksDiffer, Zenon
  <2>. QED
    BY <2>3, <2>4, <2>5, <2>6, Zenon
<1>2. CASE \E a \in Wants(job[q]), b \in Wants(job[p]) : Conflict(a, b) /\ b.mode = "R"
  <2>1. PICK a \in Wants(job[q]), b \in Wants(job[p]) :
           a.lock = b.lock /\ "W" \in {a.mode, b.mode} /\ b.mode = "R"
    BY <1>2, Zenon DEF Conflict
  <2>2. a.mode = "W"
    BY <2>1, Zenon
  <2>3. job[q].at # job[p].at
    BY <2>1, <2>2, Zenon
  <2>4. /\ job[p].at \in {"broker", "topic", "subscription"}
        /\ job[p].at = "broker" => b.lock = BrokerLock
        /\ job[p].at = "topic" => \E t : b.lock = TopicLock(t)
        /\ job[p].at = "subscription" => \E o : b.lock = SubscriptionLock(o)
    BY WantsAre, Zenon
  <2>5. /\ job[q].at \in {"broker", "topic", "subscription"}
        /\ job[q].at = "broker" => a.lock = BrokerLock
        /\ job[q].at = "topic" => \E t : a.lock = TopicLock(t)
        /\ job[q].at = "subscription" => \E o : a.lock = SubscriptionLock(o)
    BY WantsAre, Zenon
  <2>6. CASE job[p].at = "broker"
    BY <2>1, <2>3, <2>4, <2>5, <2>6, LocksDiffer, Zenon
  <2>7. CASE job[p].at = "topic"
    BY <2>1, <2>3, <2>4, <2>5, <2>7, LocksDiffer, Zenon
  <2>8. CASE job[p].at = "subscription"
    BY <2>1, <2>3, <2>4, <2>5, <2>8, LocksDiffer, Zenon
  <2>. QED
    BY <2>4, <2>6, <2>7, <2>8, Zenon
<1>. QED
  BY <1>1, <1>2, Zenon DEF Blocks

\* Of a set of handlers one is deepest in the order of locks, a writer if there is one.
LEMMA SomeoneRuns ==
    ASSUME NEW S, S # {}
    PROVE  \E p \in S : \A q \in S : ~Blocks(q, p)
<1>. DEFINE At(x) == {p \in S : job[p].at = x}
            Writer(p) == \A b \in Wants(job[p]) : b.mode = "W"
            Reader(p) == \A b \in Wants(job[p]) : b.mode = "R"
<1>1. \A p \in S : Writer(p) \/ Reader(p)
  BY WantsAre, WantsOne, Zenon
<1>2. CASE At("subscription") # {}
  <2>1. PICK p \in At("subscription") :
           Writer(p) \/ \A q \in At("subscription") : Reader(q)
    BY <1>1, <1>2, Zenon
  <2>. QED
    BY <2>1, DeepestRuns, Zenon
<1>3. CASE At("subscription") = {} /\ At("topic") # {}
  <2>1. PICK p \in At("topic") : Writer(p) \/ \A q \in At("topic") : Reader(q)
    BY <1>1, <1>3, Zenon
  <2>. QED
    BY <1>3, <2>1, DeepestRuns, Zenon
<1>4. CASE At("subscription") = {} /\ At("topic") = {} /\ At("broker") # {}
  <2>1. PICK p \in At("broker") : Writer(p) \/ \A q \in At("broker") : Reader(q)
    BY <1>1, <1>4, Zenon
  <2>2. p \in S /\ job[p].at = "broker" /\ \A q \in S : job[q].at \notin {"topic", "subscription"}
    BY <1>4, <2>1, Zenon
  <2>3. Writer(p) \/ \A q \in S : job[q].at = job[p].at => Reader(q)
    BY <2>1, <2>2, Zenon
  <2>. QED
    BY <2>2, <2>3, DeepestRuns, Zenon
<1>5. CASE At("subscription") = {} /\ At("topic") = {} /\ At("broker") = {}
  <2>1. PICK p \in S : TRUE
    BY Zenon
  <2>2. Wants(job[p]) = {}
    BY <1>5, WantsAre
  <2>. QED
    BY <2>2, Zenon DEF Blocks
<1>. QED
  BY <1>2, <1>3, <1>4, <1>5, Zenon

\* For any number of connections and tasks there is no circle of handlers that wait for
\* each other's locks or behind each other's writers.
THEOREM NeverDeadlocked == Spec => []NoWaitCycle
<1>1. NoWaitCycle
  BY SomeoneRuns, Zenon DEF NoWaitCycle
<1>. QED
  BY <1>1, PTL

----------------------------------------------------------------------------
(* Consumers of connections and of subscriptions. *)

TopicObjects == {"plain", "partition"} \X Names
SubTypes == {r.type : r \in Requests}
ConsumerMaps == UNION {[D -> Conns] : D \in SUBSET Ids}
Subscriptions == [topic : TopicObjects, type : SubTypes, consumers : ConsumerMaps]

\* A handler that has taken a consumer out of its connection's map, and waits to remove it
\* from its subscription.
Closing(j) == j.op \in {"close", "unsubscribe", "cleanup"} /\ j.at = "subscription"

JobTyped(j) ==
    /\ j.at = "subscription" => j.sub \in 1..Len(objects)
    /\ j.op \in {"subscribe", "produce"} /\ j.at = "broker" => j.name \in Names
    /\ j.op = "subscribe" => j.id \in Ids
    /\ j.op = "subscribe" /\ j.at # "subscription" => j.type \in SubTypes
    /\ j.op = "subscribe" /\ j.at = "topic" => j.topic \in TopicObjects

ConsumersTyped ==
    /\ objects \in Seq(Subscriptions)
    /\ DOMAIN held = Conns
    /\ \A c \in Conns : /\ held[c] \in [DOMAIN held[c] -> 1..Len(objects)]
                        /\ DOMAIN held[c] \subseteq Ids
    /\ \A t \in DOMAIN registered : registered[t] \in 1..Len(objects)
    /\ DOMAIN job = Procs /\ \A p \in Procs : JobTyped(job[p])

\* Consumer id of subscription o is one of connection c, and c knows of it or is about to
\* remove it.
Has(o, id, c) == id \in DOMAIN objects[o].consumers /\ objects[o].consumers[id] = c
Knows(c, id, o) ==
    \/ id \in DOMAIN held[c] /\ held[c][id] = o
    \/ Closing(job[c]) /\ job[c].id = id /\ job[c].sub = o

Matched ==
    /\ \A c \in Conns : \A id \in DOMAIN held[c] : Has(held[c][id], id, c)
    /\ \A c \in Conns, o \in 1..Len(objects), id \in Ids : Has(o, id, c) => Knows(c, id, o)

\* The id of a consumer on its way in or out is not in its connection's map, and one on
\* its way out is still in its subscription.
UnderWay(c) ==
    /\ job[c].op = "subscribe" => job[c].id \notin DOMAIN held[c]
    /\ Closing(job[c]) => job[c].id \notin DOMAIN held[c] /\ Has(job[c].sub, job[c].id, c)

ConsumersInv == ConsumersTyped /\ (\A c \in Conns : UnderWay(c)) /\ Matched

\* The consumers of a subscription are connections.
LEMMA OwnersAre ==
    ASSUME ConsumersTyped, NEW o \in 1..Len(objects)
    PROVE  /\ objects[o] \in Subscriptions
           /\ DOMAIN objects[o].consumers \subseteq Ids
           /\ objects[o].consumers \in [DOMAIN objects[o].consumers -> Conns]
<1>1. objects[o] \in Subscriptions
  BY DEF ConsumersTyped
<1>2. objects[o].consumers \in ConsumerMaps
  BY <1>1, Zenon DEF Subscriptions
<1>. QED
  BY <1>1, <1>2, Zenon DEF ConsumerMaps

LEMMA MatchIs ==
    ASSUME ConsumersTyped, Matched
    PROVE  ConsumersMatch
<1>1. ASSUME NEW c \in Conns, NEW id \in DOMAIN held[c]
      PROVE  /\ id \in DOMAIN objects[held[c][id]].consumers
             /\ objects[held[c][id]].consumers[id] = c
  BY <1>1, Zenon DEF Matched, Has
<1>2. ASSUME NEW o \in 1..Len(objects), NEW id \in DOMAIN objects[o].consumers
      PROVE  Knows(objects[o].consumers[id], id, o)
  <2>1. id \in Ids /\ objects[o].consumers[id] \in Conns
    BY OwnersAre, Zenon
  <2>2. Has(o, id, objects[o].consumers[id])
    BY Zenon DEF Has
  <2>. QED
    BY <2>1, <2>2, Zenon DEF Matched
<1>. QED
  BY <1>1, <1>2, Zenon DEF ConsumersMatch, Knows, Closing

\* A handler that is not closing a consumer goes on to where it does not either.
LEMMA HandlerMoves ==
    ASSUME ConsumersInv, NEW p \in Procs, NEW j, job' = [job EXCEPT ![p] = j],
           JobTyped(j), ~Closing(job[p]), ~Closing(j),
           j.op = "subscribe" /\ p \in Conns => j.id \notin DOMAIN held[p],
           UNCHANGED <<objects, held>>,
           \A t \in DOMAIN registered' : registered'[t] \in 1..Len(objects)
    PROVE  ConsumersInv'
<1>. USE DEF ConsumersInv
<1>1. /\ DOMAIN job' = Procs /\ job'[p] = j /\ \A q \in Procs \ {p} : job'[q] = job[q]
      /\ Conns \subseteq Procs
  BY Zenon DEF ConsumersTyped, Procs
<1>2. ConsumersTyped'
  <2>1. \A q \in Procs : JobTyped(job'[q])
    BY <1>1, Zenon DEF ConsumersTyped
  <2>2. \A q \in Procs : JobTyped(job[q])'
    BY <2>1, Zenon DEF JobTyped
  <2>. QED
    BY <1>1, <2>2, Zenon DEF ConsumersTyped
<1>3. ASSUME NEW c \in Conns PROVE UnderWay(c)'
  <2>1. CASE c = p
    BY <1>1, <2>1, Zenon DEF UnderWay, Closing
  <2>2. CASE c # p
    <3>1. UnderWay(c) /\ job'[c] = job[c] /\ held' = held /\ objects' = objects
      BY <1>1, <2>2, Zenon
    <3>. QED
      BY <3>1, Zenon DEF UnderWay, Closing, Has
  <2>. QED
    BY <2>1, <2>2, Zenon
<1>4. Matched'
  <2>1. \A o, id, c : Has(o, id, c)' <=> Has(o, id, c)
    BY Zenon DEF Has
  <2>2. \A c \in Conns : \A o, id : Knows(c, id, o) => Knows(c, id, o)'
    BY <1>1, Zenon DEF Knows
  <2>. QED
    BY <2>1, <2>2, Zenon DEF Matched
<1>. QED
  BY <1>2, <1>3, <1>4, Zenon

\* The map without entries, and what Put and Without make of a map.
LEMMA NoEntries == DOMAIN <<>> = {} /\ \A S : <<>> \in [{} -> S]
OBVIOUS

LEMMA PutEntry ==
    ASSUME NEW f, NEW k, NEW v
    PROVE  /\ DOMAIN Put(f, k, v) = DOMAIN f \cup {k} /\ Put(f, k, v)[k] = v
           /\ \A x \in DOMAIN f \ {k} : Put(f, k, v)[x] = f[x]
           /\ \A S : v \in S /\ f \in [DOMAIN f -> S] => Put(f, k, v) \in [DOMAIN f \cup {k} -> S]
BY Zenon DEF Put

LEMMA WithoutEntry ==
    ASSUME NEW f, NEW k
    PROVE  /\ DOMAIN Without(f, k) = DOMAIN f \ {k}
           /\ \A x \in DOMAIN f \ {k} : Without(f, k)[x] = f[x]
           /\ \A S : f \in [DOMAIN f -> S] => Without(f, k) \in [DOMAIN f \ {k} -> S]
BY Zenon DEF Without

\* A sequence with one element replaced.
LEMMA ExceptSeq ==
    ASSUME NEW S, NEW seq \in Seq(S), NEW i \in 1..Len(seq), NEW e \in S
    PROVE  /\ [seq EXCEPT ![i] = e] \in Seq(S)
           /\ Len([seq EXCEPT ![i] = e]) = Len(seq)
           /\ \A j \in 1..Len(seq) : [seq EXCEPT ![i] = e][j] = IF j = i THEN e ELSE seq[j]
OBVIOUS

\* Sequences with the same elements are the same.
LEMMA SeqEqual ==
    ASSUME NEW S, NEW s \in Seq(S), NEW t \in Seq(S),
           Len(s) = Len(t), \A i \in 1..Len(s) : s[i] = t[i]
    PROVE  s = t
OBVIOUS

\* Subscription o gets the map f of consumers.
LEMMA ObjectBecomes ==
    ASSUME ConsumersTyped, NEW o \in 1..Len(objects), NEW f \in ConsumerMaps,
           objects' = [objects EXCEPT ![o].consumers = f]
    PROVE  /\ objects' \in Seq(Subscriptions) /\ Len(objects') = Len(objects)
           /\ objects'[o].consumers = f
           /\ \A q \in 1..Len(objects) : q # o => objects'[q] = objects[q]
<1>. DEFINE s == [objects[o] EXCEPT !.consumers = f]
<1>1. objects \in Seq(Subscriptions) /\ objects[o] \in Subscriptions
  BY OwnersAre, Zenon DEF ConsumersTyped
<1>2. s \in Subscriptions /\ s.consumers = f
  BY <1>1, Zenon DEF Subscriptions
<1>3. objects' = [objects EXCEPT ![o] = s]
  BY Zenon
<1>. HIDE DEF s
<1>. QED
  BY <1>1, <1>2, <1>3, ExceptSeq

\* A subscription is made, or opened by its topic again.
LEMMA SubscriptionMade ==
    ASSUME ConsumersInv, NEW c \in Conns, NEW j, job' = [job EXCEPT ![c] = j],
           JobTyped(j)', ~Closing(job[c]), ~Closing(j),
           j.op = "subscribe" => j.id \notin DOMAIN held[c],
           NEW s \in Subscriptions, s.consumers = <<>>, objects' = Append(objects, s),
           held' = held,
           \A t \in DOMAIN registered' : registered'[t] \in 1..Len(objects')
    PROVE  ConsumersInv'
<1>. USE DEF ConsumersInv
<1>1. /\ DOMAIN job' = Procs /\ job'[c] = j /\ \A q \in Procs \ {c} : job'[q] = job[q]
      /\ Conns \subseteq Procs
  BY Zenon DEF ConsumersTyped, Procs
<1>2. objects \in Seq(Subscriptions)
  BY Zenon DEF ConsumersTyped
<1>3. /\ objects' \in Seq(Subscriptions) /\ Len(objects') = Len(objects) + 1
      /\ Len(objects) \in Nat /\ objects'[Len(objects) + 1] = s
      /\ \A o \in 1..Len(objects) : objects'[o] = objects[o]
  BY <1>2
<1>4. ConsumersTyped'
  <2>1. \A q \in Procs \ {c} : JobTyped(job[q])
    BY Zenon DEF ConsumersTyped
  <2>2. \A o \in 1..Len(objects) : o \in 1..Len(objects')
    BY <1>3
  <2>3. ASSUME NEW q \in Procs, q # c PROVE JobTyped(job[q])'
    <3>1. JobTyped(job[q]) /\ job'[q] = job[q]
      BY <1>1, <2>1, <2>3, Zenon
    <3>. QED
      BY <2>2, <3>1, Zenon DEF JobTyped
  <2>4. JobTyped(job[c])'
    BY <1>1, Zenon DEF JobTyped
  <2>5. \A d \in Conns : held[d] \in [DOMAIN held[d] -> 1..Len(objects')]
    BY <2>2, Zenon DEF ConsumersTyped
  <2>. QED
    BY <1>1, <1>3, <2>3, <2>4, <2>5, Zenon DEF ConsumersTyped
<1>5. \A o \in 1..Len(objects) : \A id, d : Has(o, id, d)' <=> Has(o, id, d)
  BY <1>3, Zenon DEF Has
<1>6. \A o \in 1..Len(objects') : o \notin 1..Len(objects) => \A id, d : ~Has(o, id, d)'
  <2>. SUFFICES ASSUME NEW o \in 1..Len(objects'), o \notin 1..Len(objects), NEW id, NEW d
                PROVE  ~Has(o, id, d)'
    BY Zenon
  <2>1. objects'[o].consumers = <<>>
    BY <1>3
  <2>. QED
    BY <2>1, NoEntries, Zenon DEF Has
<1>7. ASSUME NEW d \in Conns PROVE UnderWay(d)'
  <2>1. CASE d = c
    BY <1>1, <2>1, Zenon DEF UnderWay, Closing
  <2>2. CASE d # c
    <3>1. UnderWay(d) /\ job'[d] = job[d] /\ held' = held /\ JobTyped(job[d])
      BY <1>1, <2>2, Zenon DEF ConsumersTyped
    <3>2. Closing(job[d]) => Has(job[d].sub, job[d].id, d)'
      BY <1>5, <3>1, Zenon DEF UnderWay, Closing, JobTyped
    <3>. QED
      BY <3>1, <3>2, Zenon DEF UnderWay, Closing, Has
  <2>. QED
    BY <2>1, <2>2, Zenon
<1>8. Matched'
  <2>1. ASSUME NEW d \in Conns, NEW id \in DOMAIN held'[d] PROVE Has(held[d][id], id, d)'
    <3>1. PICK o \in 1..Len(objects) : o = held[d][id] /\ Has(o, id, d)
      BY Zenon DEF ConsumersTyped, Matched
    <3>2. Has(o, id, d)' /\ o = held'[d][id]
      BY <1>5, <3>1, Zenon
    <3>. QED
      BY <3>2, Zenon DEF Has
  <2>2. ASSUME NEW d \in Conns, NEW o \in 1..Len(objects'), NEW id \in Ids, Has(o, id, d)'
        PROVE  Knows(d, id, o)'
    <3>1. o \in 1..Len(objects) /\ Has(o, id, d)
      BY <1>5, <1>6, <2>2, Zenon
    <3>2. Knows(d, id, o)
      BY <3>1, Zenon DEF Matched
    <3>. QED
      BY <1>1, <3>2, Zenon DEF Knows
  <2>. QED
    BY <2>1, <2>2, Zenon DEF Matched
<1>. QED
  BY <1>4, <1>7, <1>8, Zenon

\* With as many subscriptions as before, handlers that stay where they are stay typed.
LEMMA OthersTyped ==
    ASSUME ConsumersTyped, NEW c \in Procs, NEW j, job' = [job EXCEPT ![c] = j],
           Len(objects') = Len(objects), JobTyped(j)
    PROVE  /\ DOMAIN job' = Procs /\ \A q \in Procs : JobTyped(job[q])'
           /\ job'[c] = j /\ \A q \in Procs \ {c} : job'[q] = job[q]
<1>1. /\ DOMAIN job' = Procs /\ job'[c] = j /\ \A q \in Procs \ {c} : job'[q] = job[q]
  BY Zenon DEF ConsumersTyped
<1>2. \A q \in Procs : JobTyped(job'[q])
  BY <1>1, Zenon DEF ConsumersTyped
<1>3. \A q \in Procs : JobTyped(job[q])'
  BY <1>2, Zenon DEF JobTyped
<1>. QED
  BY <1>1, <1>3, Zenon

LEMMA ConsumerJoins ==
    ASSUME ConsumersInv, NEW c \in Conns, NEW o \in 1..Len(objects), NEW id \in Ids,
           id \notin DOMAIN objects[o].consumers, id \notin DOMAIN held[c], ~Closing(job[c]),
           objects' = Joined(o, id, c), held' = [held EXCEPT ![c] = Put(@, id, o)],
           job' = [job EXCEPT ![c] = Idle], registered' = registered
    PROVE  ConsumersInv'
<1>. USE DEF ConsumersInv
<1>1. /\ Conns \subseteq Procs
      /\ JobTyped(Idle) /\ ~Closing(Idle) /\ Idle.op # "subscribe"
  BY Zenon DEF Procs, Idle, JobTyped, Closing
<1>2. /\ DOMAIN objects[o].consumers \subseteq Ids
      /\ objects[o].consumers \in [DOMAIN objects[o].consumers -> Conns]
  BY OwnersAre, Zenon
<1>3. Put(objects[o].consumers, id, c) \in ConsumerMaps
  <2>1. Put(objects[o].consumers, id, c) \in [DOMAIN objects[o].consumers \cup {id} -> Conns]
    BY <1>2, PutEntry, Zenon
  <2>2. DOMAIN objects[o].consumers \cup {id} \in SUBSET Ids
    BY <1>2, Zenon
  <2>. QED
    BY <2>1, <2>2, Zenon DEF ConsumerMaps
<1>4. objects' = [objects EXCEPT ![o].consumers = Put(objects[o].consumers, id, c)]
  BY Zenon DEF Joined
<1>5. /\ objects' \in Seq(Subscriptions) /\ Len(objects') = Len(objects)
      /\ objects'[o].consumers = Put(objects[o].consumers, id, c)
      /\ \A q \in 1..Len(objects) : q # o => objects'[q] = objects[q]
  BY <1>3, <1>4, ObjectBecomes, Zenon
<1>6. ASSUME NEW q \in 1..Len(objects), NEW i, NEW d
      PROVE  Has(q, i, d)' <=> (Has(q, i, d) \/ (q = o /\ i = id /\ d = c))
  <2>1. CASE q = o
    <3>1. /\ DOMAIN objects'[o].consumers = DOMAIN objects[o].consumers \cup {id}
          /\ objects'[o].consumers[id] = c
          /\ \A x \in DOMAIN objects[o].consumers \ {id} :
                objects'[o].consumers[x] = objects[o].consumers[x]
      BY <1>5, Zenon DEF Put
    <3>. QED
      BY <2>1, <3>1, Zenon DEF Has
  <2>2. CASE q # o
    BY <1>5, <2>2, Zenon DEF Has
  <2>. QED
    BY <2>1, <2>2, Zenon
<1>7. /\ DOMAIN job' = Procs /\ \A q \in Procs : JobTyped(job[q])'
      /\ job'[c] = Idle /\ \A q \in Procs \ {c} : job'[q] = job[q]
  BY <1>1, <1>5, OthersTyped, Zenon
<1>8. /\ DOMAIN held' = Conns /\ \A d \in Conns \ {c} : held'[d] = held[d]
      /\ held'[c] = Put(held[c], id, o)
  BY Zenon DEF ConsumersTyped
<1>9. /\ DOMAIN held'[c] = DOMAIN held[c] \cup {id} /\ held'[c][id] = o
      /\ \A x \in DOMAIN held[c] : held'[c][x] = held[c][x]
      /\ held'[c] \in [DOMAIN held'[c] -> 1..Len(objects)]
  <2>1. held[c] \in [DOMAIN held[c] -> 1..Len(objects)]
    BY Zenon DEF ConsumersTyped
  <2>2. /\ DOMAIN held'[c] = DOMAIN held[c] \cup {id} /\ held'[c][id] = o
        /\ \A x \in DOMAIN held[c] \ {id} : held'[c][x] = held[c][x]
    BY <1>8, Zenon DEF Put
  <2>3. held'[c] \in [DOMAIN held[c] \cup {id} -> 1..Len(objects)]
    BY <1>8, <2>1, PutEntry, Zenon
  <2>. QED
    BY <2>2, <2>3, Zenon
<1>10. ConsumersTyped'
  <2>1. \A d \in Conns : /\ held'[d] \in [DOMAIN held'[d] -> 1..Len(objects)]
                         /\ DOMAIN held'[d] \subseteq Ids
    BY <1>8, <1>9, Zenon DEF ConsumersTyped
  <2>. QED
    BY <1>5, <1>7, <1>8, <2>1, Zenon DEF ConsumersTyped
<1>11. ASSUME NEW d \in Conns PROVE UnderWay(d)'
  <2>1. CASE d = c
    BY <1>1, <1>7, <2>1, Zenon DEF UnderWay, Closing
  <2>2. CASE d # c
    <3>1. UnderWay(d) /\ job'[d] = job[d] /\ held'[d] = held[d] /\ JobTyped(job[d])
      BY <1>1, <1>7, <1>8, <2>2, Zenon DEF ConsumersTyped
    <3>2. Closing(job[d]) => Has(job[d].sub, job[d].id, d)'
      BY <1>6, <3>1, Zenon DEF UnderWay, Closing, JobTyped
    <3>. QED
      BY <3>1, <3>2, Zenon DEF UnderWay, Closing, Has
  <2>. QED
    BY <2>1, <2>2, Zenon
<1>12. Matched'
  <2>1. ASSUME NEW d \in Conns, NEW i \in DOMAIN held'[d] PROVE Has(held[d][i], i, d)'
    <3>1. CASE d = c /\ i = id
      <4>1. Has(o, id, c)'
        BY <1>6, Zenon
      <4>. QED
        BY <1>9, <3>1, <4>1, Zenon DEF Has
    <3>2. CASE d # c \/ i # id
      <4>1. i \in DOMAIN held[d] /\ held'[d][i] = held[d][i]
        BY <1>8, <1>9, <3>2, Zenon
      <4>2. PICK q \in 1..Len(objects) : q = held[d][i] /\ Has(q, i, d)
        BY <4>1, Zenon DEF ConsumersTyped, Matched
      <4>3. Has(q, i, d)' /\ q = held'[d][i]
        BY <1>6, <4>1, <4>2, Zenon
      <4>. QED
        BY <4>3, Zenon DEF Has
    <3>. QED
      BY <3>1, <3>2, Zenon
  <2>2. ASSUME NEW d \in Conns, NEW q \in 1..Len(objects'), NEW i \in Ids, Has(q, i, d)'
        PROVE  Knows(d, i, q)'
    <3>1. CASE q = o /\ i = id /\ d = c
      BY <1>9, <3>1, Zenon DEF Knows
    <3>2. CASE Has(q, i, d)
      <4>1. Knows(d, i, q)
        BY <1>5, <3>2, Zenon DEF Matched
      <4>2. CASE d = c
        <5>1. i \in DOMAIN held[c] /\ held[c][i] = q
          BY <4>1, <4>2, Zenon DEF Knows
        <5>2. i \in DOMAIN held'[c] /\ held'[c][i] = q
          BY <1>9, <5>1, Zenon
        <5>. QED
          BY <4>2, <5>2, Zenon DEF Knows
      <4>3. CASE d # c
        <5>1. held'[d] = held[d] /\ job'[d] = job[d]
          BY <1>1, <1>7, <1>8, <4>3, Zenon
        <5>. QED
          BY <4>1, <5>1, Zenon DEF Knows
      <4>. QED
        BY <4>2, <4>3, Zenon
    <3>3. Has(q, i, d) \/ (q = o /\ i = id /\ d = c)
      BY <1>5, <1>6, <2>2, Zenon
    <3>. QED
      BY <3>1, <3>2, <3>3, Zenon
  <2>. QED
    BY <2>1, <2>2, Zenon DEF Matched
<1>. QED
  BY <1>10, <1>11, <1>12, Zenon

\* A consumer leaves its connection's map.
LEMMA ConsumerReleased ==
    ASSUME ConsumersInv, NEW c \in Conns, NEW id \in DOMAIN held[c], ~Closing(job[c]),
           NEW op \in {"close", "unsubscribe", "cleanup"}, Release(c, op, id),
           UNCHANGED <<objects, registered>>
    PROVE  ConsumersInv'
<1>. USE DEF ConsumersInv
<1>. DEFINE j == [op |-> op, at |-> "subscription", id |-> id, sub |-> held[c][id]]
<1>1. /\ Conns \subseteq Procs /\ Closing(j)
      /\ j.op = op /\ j.at = "subscription" /\ j.id = id /\ j.sub = held[c][id]
  BY Zenon DEF Procs, Closing
<1>2. JobTyped(j)
  BY Zenon DEF JobTyped, ConsumersTyped
<1>3. job' = [job EXCEPT ![c] = j] /\ held' = [held EXCEPT ![c] = Without(@, id)]
  BY Zenon DEF Release, Goto
<1>4. op # "subscribe"
  BY Zenon
<1>. HIDE DEF j
<1>5. /\ DOMAIN job' = Procs /\ \A q \in Procs : JobTyped(job[q])'
      /\ job'[c] = j /\ \A q \in Procs \ {c} : job'[q] = job[q]
  BY <1>1, <1>2, <1>3, OthersTyped, Zenon
<1>6. /\ DOMAIN held' = Conns /\ \A d \in Conns \ {c} : held'[d] = held[d]
      /\ held'[c] = Without(held[c], id)
  BY <1>3, Zenon DEF ConsumersTyped
<1>7. /\ DOMAIN held'[c] = DOMAIN held[c] \ {id}
      /\ \A x \in DOMAIN held[c] \ {id} : held'[c][x] = held[c][x]
      /\ held'[c] \in [DOMAIN held'[c] -> 1..Len(objects)]
  <2>1. held[c] \in [DOMAIN held[c] -> 1..Len(objects)]
    BY Zenon DEF ConsumersTyped
  <2>. QED
    BY <1>6, <2>1, Zenon DEF Without
<1>8. ConsumersTyped'
  <2>1. \A d \in Conns : /\ held'[d] \in [DOMAIN held'[d] -> 1..Len(objects)]
                         /\ DOMAIN held'[d] \subseteq Ids
    BY <1>6, <1>7, Zenon DEF ConsumersTyped
  <2>. QED
    BY <1>5, <1>6, <2>1, Zenon DEF ConsumersTyped
<1>9. \A q, i, d : Has(q, i, d)' <=> Has(q, i, d)
  BY Zenon DEF Has
<1>10. ASSUME NEW d \in Conns PROVE UnderWay(d)'
  <2>1. CASE d = c
    <3>1. Has(held[c][id], id, c)
      BY Zenon DEF Matched
    <3>2. job'[c].id = id /\ job'[c].sub = held[c][id] /\ job'[c].op # "subscribe"
      BY <1>1, <1>4, <1>5, Zenon
    <3>3. id \notin DOMAIN held'[c]
      BY <1>7, Zenon
    <3>. QED
      BY <2>1, <3>1, <3>2, <3>3, Zenon DEF UnderWay, Has
  <2>2. CASE d # c
    <3>1. UnderWay(d) /\ job'[d] = job[d] /\ held'[d] = held[d] /\ objects' = objects
      BY <1>1, <1>5, <1>6, <2>2, Zenon
    <3>. QED
      BY <3>1, Zenon DEF UnderWay, Closing, Has
  <2>. QED
    BY <2>1, <2>2, Zenon
<1>11. Matched'
  <2>1. ASSUME NEW d \in Conns, NEW i \in DOMAIN held'[d] PROVE Has(held[d][i], i, d)'
    <3>1. i \in DOMAIN held[d] /\ held'[d][i] = held[d][i]
      BY <1>6, <1>7, Zenon
    <3>2. Has(held[d][i], i, d)
      BY <3>1, Zenon DEF Matched
    <3>. QED
      BY <3>1, <3>2, Zenon DEF Has
  <2>2. ASSUME NEW d \in Conns, NEW q \in 1..Len(objects'), NEW i \in Ids, Has(q, i, d)'
        PROVE  Knows(d, i, q)'
    <3>1. Knows(d, i, q)
      BY <1>9, <2>2, Zenon DEF Matched
    <3>2. CASE d # c
      <4>1. held'[d] = held[d] /\ job'[d] = job[d]
        BY <1>1, <1>5, <1>6, <3>2, Zenon
      <4>. QED
        BY <3>1, <4>1, Zenon DEF Knows
    <3>3. CASE d = c
      <4>1. i \in DOMAIN held[c] /\ held[c][i] = q
        BY <3>1, <3>3, Zenon DEF Knows
      <4>2. CASE i = id
        BY <1>1, <1>5, <3>3, <4>1, <4>2, Zenon DEF Knows
      <4>3. CASE i # id
        <5>1. i \in DOMAIN held'[c] /\ held'[c][i] = q
          BY <1>7, <4>1, <4>3, Zenon
        <5>. QED
          BY <3>3, <5>1, Zenon DEF Knows
      <4>. QED
        BY <4>2, <4>3, Zenon
    <3>. QED
      BY <3>2, <3>3, Zenon
  <2>. QED
    BY <2>1, <2>2, Zenon DEF Matched
<1>. QED
  BY <1>8, <1>10, <1>11, Zenon

\* A consumer that has left its connection's map leaves its subscription.
LEMMA ConsumerRemoved ==
    ASSUME ConsumersInv, NEW c \in Conns, Closing(job[c]), objects' = Removed(job[c]),
           NEW j, job' = [job EXCEPT ![c] = j], JobTyped(j), ~Closing(j), j.op # "subscribe",
           UNCHANGED <<held, registered>>
    PROVE  ConsumersInv'
<1>. USE DEF ConsumersInv
<1>. DEFINE o == job[c].sub
            id == job[c].id
<1>1. /\ c \in Procs /\ Conns \subseteq Procs /\ o \in 1..Len(objects)
      /\ id \notin DOMAIN held[c] /\ Has(o, id, c)
  BY Zenon DEF Procs, ConsumersTyped, JobTyped, Closing, UnderWay
<1>2. objects' = [objects EXCEPT ![o].consumers = Without(objects[o].consumers, id)]
  BY Zenon DEF Removed
<1>3. \A d \in Conns : Closing(job[d]) /\ job[d].sub = o /\ job[d].id = id => d = c
  <2>. SUFFICES ASSUME NEW d \in Conns, Closing(job[d]), job[d].sub = o, job[d].id = id
                PROVE  d = c
    BY Zenon
  <2>1. Has(o, id, d)
    BY Zenon DEF UnderWay
  <2>. QED
    BY <1>1, <2>1, Zenon DEF Has
<1>. HIDE DEF o, id
<1>4. /\ DOMAIN objects[o].consumers \subseteq Ids
      /\ objects[o].consumers \in [DOMAIN objects[o].consumers -> Conns]
  BY <1>1, OwnersAre, Zenon
<1>5. Without(objects[o].consumers, id) \in ConsumerMaps
  <2>1. Without(objects[o].consumers, id) \in [DOMAIN objects[o].consumers \ {id} -> Conns]
    BY <1>4, WithoutEntry, Zenon
  <2>2. DOMAIN objects[o].consumers \ {id} \in SUBSET Ids
    BY <1>4, Zenon
  <2>. QED
    BY <2>1, <2>2, Zenon DEF ConsumerMaps
<1>6. /\ objects' \in Seq(Subscriptions) /\ Len(objects') = Len(objects)
      /\ objects'[o].consumers = Without(objects[o].consumers, id)
      /\ \A q \in 1..Len(objects) : q # o => objects'[q] = objects[q]
  BY <1>1, <1>2, <1>5, ObjectBecomes, Zenon
<1>7. ASSUME NEW q \in 1..Len(objects), NEW i, NEW d
      PROVE  Has(q, i, d)' <=> (Has(q, i, d) /\ ~(q = o /\ i = id))
  <2>1. CASE q = o
    <3>1. /\ DOMAIN objects'[o].consumers = DOMAIN objects[o].consumers \ {id}
          /\ \A x \in DOMAIN objects[o].consumers \ {id} :
                objects'[o].consumers[x] = objects[o].consumers[x]
      BY <1>6, Zenon DEF Without
    <3>. QED
      BY <2>1, <3>1, Zenon DEF Has
  <2>2. CASE q # o
    BY <1>6, <2>2, Zenon DEF Has
  <2>. QED
    BY <2>1, <2>2, Zenon
<1>8. /\ DOMAIN job' = Procs /\ \A q \in Procs : JobTyped(job[q])'
      /\ job'[c] = j /\ \A q \in Procs \ {c} : job'[q] = job[q]
  BY <1>1, <1>6, OthersTyped, Zenon
<1>9. ConsumersTyped'
  BY <1>6, <1>8, Zenon DEF ConsumersTyped
<1>10. ASSUME NEW d \in Conns PROVE UnderWay(d)'
  <2>1. CASE d = c
    BY <1>8, <2>1, Zenon DEF UnderWay, Closing
  <2>2. CASE d # c
    <3>1. UnderWay(d) /\ job'[d] = job[d] /\ held' = held /\ JobTyped(job[d])
      BY <1>1, <1>8, <2>2, Zenon DEF ConsumersTyped
    <3>2. Closing(job[d]) => Has(job[d].sub, job[d].id, d)'
      BY <1>3, <1>7, <2>2, <3>1, Zenon DEF UnderWay, Closing, JobTyped
    <3>. QED
      BY <3>1, <3>2, Zenon DEF UnderWay, Closing, Has
  <2>. QED
    BY <2>1, <2>2, Zenon
<1>11. Matched'
  <2>1. ASSUME NEW d \in Conns, NEW i \in DOMAIN held'[d] PROVE Has(held[d][i], i, d)'
    <3>1. PICK q \in 1..Len(objects) : q = held[d][i] /\ Has(q, i, d)
      BY Zenon DEF ConsumersTyped, Matched
    <3>2. ~(q = o /\ i = id)
      <4>. SUFFICES ASSUME q = o, i = id PROVE FALSE
        BY Zenon
      <4>1. d = c
        BY <1>1, <3>1, Zenon DEF Has
      <4>. QED
        BY <1>1, <4>1, Zenon
    <3>3. Has(q, i, d)' /\ q = held'[d][i]
      BY <1>7, <3>1, <3>2, Zenon
    <3>. QED
      BY <3>3, Zenon DEF Has
  <2>2. ASSUME NEW d \in Conns, NEW q \in 1..Len(objects'), NEW i \in Ids, Has(q, i, d)'
        PROVE  Knows(d, i, q)'
    <3>1. Has(q, i, d) /\ ~(q = o /\ i = id)
      BY <1>6, <1>7, <2>2, Zenon
    <3>2. Knows(d, i, q)
      BY <1>6, <3>1, Zenon DEF Matched
    <3>3. CASE d = c
      BY <3>1, <3>2, <3>3, Zenon DEF Knows, o, id
    <3>4. CASE d # c
      <4>1. job'[d] = job[d]
        BY <1>1, <1>8, <3>4, Zenon
      <4>. QED
        BY <3>2, <4>1, Zenon DEF Knows
    <3>. QED
      BY <3>3, <3>4, Zenon
  <2>. QED
    BY <2>1, <2>2, Zenon DEF Matched
<1>. QED
  BY <1>9, <1>10, <1>11, Zenon

\* A step of a handler that changes neither consumers nor subscriptions.
LEMMA HandlerGoes ==
    ASSUME ConsumersInv, NEW p \in Procs, NEW j, job' = [job EXCEPT ![p] = j],
           JobTyped(j), ~Closing(job[p]), ~Closing(j),
           j.op = "subscribe" /\ p \in Conns => j.id \notin DOMAIN held[p],
           UNCHANGED <<registered, objects, held>>
    PROVE  ConsumersInv'
<1>1. \A t \in DOMAIN registered' : registered'[t] \in 1..Len(objects)
  BY Zenon DEF ConsumersInv, ConsumersTyped
<1>2. UNCHANGED <<objects, held>>
  BY Zenon
<1>. QED
  BY <1>1, <1>2, HandlerMoves, Zenon

\* Where a handler may always go: it is done, or it fails.
Ends == {Idle, [op |-> "cleanup", at |-> "next"]}

LEMMA EndsAre ==
    ASSUME NEW j \in Ends
    PROVE  JobTyped(j) /\ ~Closing(j) /\ j.op # "subscribe" /\ j.at # "subscription"
BY DEF Ends, Idle, JobTyped, Closing

LEMMA HandlerEnds ==
    ASSUME ConsumersInv, NEW p \in Procs, ~Closing(job[p]), Done(p) \/ Fail(p),
           UNCHANGED <<registered, objects, held>>
    PROVE  ConsumersInv'
<1>1. PICK j \in Ends : job' = [job EXCEPT ![p] = j]
  BY Zenon DEF Done, Fail, Goto, Ends
<1>2. JobTyped(j) /\ ~Closing(j) /\ j.op # "subscribe"
  BY EndsAre, Zenon
<1>. QED
  BY <1>1, <1>2, HandlerGoes, Zenon

LEMMA TurnIs ==
    ASSUME NEW p, NEW op, NEW at, Turn(p, op, at)
    PROVE  /\ job[p].op = op /\ job[p].at = at
           /\ op \notin {"close", "unsubscribe", "cleanup"} \/ at # "subscription"
                 => ~Closing(job[p])
BY Zenon DEF Turn, Closing

LEMMA CommandIs ==
    ASSUME NEW c, Command(c)
    PROVE  c \in Conns /\ c \in Procs /\ ~Closing(job[c])
BY DEF Command, Procs, Idle, Closing

\* What a name stands for.
LEMMA AutoKinds ==
    ASSUME NEW b, NEW n, NEW r \in get_or_create_topic_auto(b, n)
    PROVE  r[2] \in {"plain", "partition", "partitioned"}
<1>1. ASSUME NEW e, NEW q \in TopicOf(e, n) PROVE \E x : q = <<x, "plain">> \/ q = <<x, "partitioned">>
  BY <1>1, Zenon DEF TopicOf
<1>2. \E x : r = <<x, "plain">> \/ r = <<x, "partition">> \/ r = <<x, "partitioned">>
  <2>1. CASE r \in TopicOf(b, n)
    BY <1>1, <2>1, Zenon
  <2>2. CASE r \notin TopicOf(b, n)
    <3>1. PICK e : r \in (IF get_partition(e, n) THEN {<<e, "partition">>} ELSE TopicOf(e, n))
      BY <2>2, Zenon DEF get_or_create_topic_auto
    <3>. QED
      BY <1>1, <3>1, Zenon
  <2>. QED
    BY <2>1, <2>2, Zenon
<1>. QED
  BY <1>2

LEMMA SubscribeSteps ==
    ASSUME ConsumersInv, NEW c \in Conns,
           \/ \E r \in Requests : subscribe(c, r)
           \/ subscribe_topic(c)
    PROVE  ConsumersInv'
<1>1. c \in Procs
  BY Zenon DEF Procs
<1>2. ASSUME NEW r \in Requests, subscribe(c, r) PROVE ConsumersInv'
  <2>. DEFINE j == [op |-> "subscribe", at |-> "broker", name |-> r.name, id |-> r.id,
                    type |-> r.type]
  <2>1. JobTyped(j) /\ ~Closing(j) /\ j.id = r.id
    BY NamesAssumption, Zenon DEF JobTyped, Closing, Names, Ids, SubTypes
  <2>2. /\ ~Closing(job[c]) /\ r.id \notin DOMAIN held[c] /\ job' = [job EXCEPT ![c] = j]
        /\ UNCHANGED <<registered, objects, held>>
    BY <1>2, CommandIs, Zenon DEF subscribe, Goto
  <2>. HIDE DEF j
  <2>. QED
    BY <1>1, <2>1, <2>2, HandlerGoes, Zenon
<1>3. ASSUME subscribe_topic(c) PROVE ConsumersInv'
  <2>1. /\ job[c].op = "subscribe" /\ job[c].at = "broker" /\ ~Closing(job[c])
        /\ UNCHANGED <<registered, objects, held>>
    <3>1. Turn(c, "subscribe", "broker") /\ UNCHANGED <<registered, objects, held>>
      BY <1>3, Zenon DEF subscribe_topic
    <3>. QED
      BY <3>1, TurnIs, Zenon
  <2>2. PICK r \in get_or_create_topic_auto(broker, job[c].name) :
           IF r[2] = "partitioned" THEN Fail(c)
           ELSE Goto(c, [op |-> "subscribe", at |-> "topic", topic |-> <<r[2], job[c].name>>,
                         id |-> job[c].id, type |-> job[c].type])
    BY <1>3, Zenon DEF subscribe_topic
  <2>3. r[2] \in {"plain", "partition", "partitioned"}
    BY AutoKinds, Zenon
  <2>4. CASE r[2] = "partitioned"
    BY <1>1, <2>1, <2>2, <2>4, HandlerEnds, Zenon
  <2>5. CASE r[2] # "partitioned"
    <3>. DEFINE j == [op |-> "subscribe", at |-> "topic", topic |-> <<r[2], job[c].name>>,
                      id |-> job[c].id, type |-> job[c].type]
    <3>1. JobTyped(job[c]) /\ UnderWay(c)
      BY <1>1, Zenon DEF ConsumersInv, ConsumersTyped
    <3>2. /\ job[c].name \in Names /\ job[c].id \in Ids /\ job[c].type \in SubTypes
          /\ job[c].id \notin DOMAIN held[c]
      BY <2>1, <3>1, Zenon DEF JobTyped, UnderWay
    <3>3. <<r[2], job[c].name>> \in TopicObjects
      BY <2>3, <2>5, <3>2, Zenon DEF TopicObjects
    <3>4. JobTyped(j) /\ ~Closing(j) /\ j.id = job[c].id
      BY <3>2, <3>3, Zenon DEF JobTyped, Closing
    <3>5. job' = [job EXCEPT ![c] = j]
      BY <2>2, <2>5, Zenon DEF Goto
    <3>. HIDE DEF j
    <3>. QED
      BY <1>1, <2>1, <3>2, <3>4, <3>5, HandlerGoes, Zenon
  <2>. QED
    BY <2>4, <2>5, Zenon
<1>. QED
  BY <1>2, <1>3, Zenon

LEMMA OpenSteps ==
    ASSUME ConsumersInv, NEW c \in Conns, get_or_create_subscription(c)
    PROVE  ConsumersInv'
<1>1. /\ job[c].op = "subscribe" /\ job[c].at = "topic" /\ ~Closing(job[c])
      /\ c \in Procs /\ held' = held
  <2>1. Turn(c, "subscribe", "topic") /\ held' = held
    BY Zenon DEF get_or_create_subscription
  <2>. QED
    BY <2>1, TurnIs, Zenon DEF Procs
<1>2. /\ JobTyped(job[c]) /\ UnderWay(c)
      /\ objects \in Seq(Subscriptions)
      /\ \A t \in DOMAIN registered : registered[t] \in 1..Len(objects)
  BY <1>1, Zenon DEF ConsumersInv, ConsumersTyped
<1>3. /\ job[c].topic \in TopicObjects /\ job[c].id \in Ids /\ job[c].type \in SubTypes
      /\ job[c].id \notin DOMAIN held[c]
  BY <1>1, <1>2, Zenon DEF JobTyped, UnderWay
<1>. DEFINE j(o) == [op |-> "subscribe", at |-> "subscription", topic |-> job[c].topic,
                     sub |-> o, id |-> job[c].id]
<1>4. \A o : j(o).id = job[c].id /\ ~Closing(j(o)) /\ (Opened(c, o) => job' = [job EXCEPT ![c] = j(o)])
  BY Zenon DEF Closing, Opened, Goto
<1>5. CASE job[c].topic \in DOMAIN registered
  <2>1. /\ Opened(c, registered[job[c].topic])
        /\ UNCHANGED <<registered, objects>>
    BY <1>5, Zenon DEF get_or_create_subscription
  <2>2. PICK o \in 1..Len(objects) : o = registered[job[c].topic]
    BY <1>2, <1>5, Zenon
  <2>3. JobTyped(j(o))
    BY <1>3, Zenon DEF JobTyped
  <2>4. job' = [job EXCEPT ![c] = j(o)]
    BY <1>4, <2>1, <2>2, Zenon
  <2>5. j(o).id \notin DOMAIN held[c] /\ ~Closing(j(o)) /\ UNCHANGED <<registered, objects, held>>
    BY <1>1, <1>3, <1>4, <2>1, Zenon
  <2>. HIDE DEF j
  <2>. QED
    BY <1>1, <2>3, <2>4, <2>5, HandlerGoes, Zenon
<1>6. CASE job[c].topic \notin DOMAIN registered
  <2>1. open_subscription_cursor(c)
    BY <1>6, Zenon DEF get_or_create_subscription
  <2>2. CASE Fail(c) /\ UNCHANGED <<registered, objects>>
    <3>1. UNCHANGED <<registered, objects, held>>
      BY <1>1, <2>2, Zenon
    <3>. QED
      BY <1>1, <2>2, <3>1, HandlerEnds, Zenon
  <2>. DEFINE s == [topic |-> job[c].topic, type |-> job[c].type, consumers |-> <<>>]
  <2>3. CASE /\ objects' = Append(objects, s)
             /\ registered' = Put(registered, job[c].topic, Len(objects'))
             /\ Opened(c, Len(objects'))
    <3>1. <<>> \in ConsumerMaps
      BY NoEntries, Zenon DEF ConsumerMaps
    <3>2. s \in Subscriptions /\ s.consumers = <<>>
      BY <1>3, <3>1, Zenon DEF Subscriptions
    <3>. HIDE DEF s
    <3>3. PICK o \in Nat : o = Len(objects') /\ o \in 1..Len(objects') /\ Len(objects) < o
      BY <1>2, <2>3, <3>2
    <3>4. PICK k : /\ job' = [job EXCEPT ![c] = k] /\ k.id = job[c].id /\ ~Closing(k)
                   /\ k.op = "subscribe" /\ k.at = "subscription" /\ k.sub = o
      <4>1. j(o).op = "subscribe" /\ j(o).at = "subscription" /\ j(o).sub = o
        BY Zenon
      <4>. QED
        BY <1>4, <2>3, <3>3, <4>1, Zenon
    <3>5. JobTyped(k)' /\ k.id \notin DOMAIN held[c]
      BY <1>3, <3>3, <3>4, Zenon DEF JobTyped
    <3>6. \A t \in DOMAIN registered' : registered'[t] \in 1..Len(objects')
      <4>1. \A t \in DOMAIN registered : registered[t] \in 1..Len(objects')
        BY <1>2, <2>3, <3>2
      <4>. QED
        BY <2>3, <3>3, <4>1, Zenon DEF Put
    <3>. QED
      BY <1>1, <2>3, <3>2, <3>4, <3>5, <3>6, SubscriptionMade, Zenon
  <2>. QED
    BY <2>1, <2>2, <2>3, Zenon DEF open_subscription_cursor
<1>. QED
  BY <1>5, <1>6, Zenon

\* A consumer is added where its id is free, in the map of its connection too.
LEMMA AddSteps ==
    ASSUME ConsumersInv, NEW c \in Conns, add_consumer(c)
    PROVE  ConsumersInv'
<1>1. /\ job[c].op = "subscribe" /\ job[c].at = "subscription" /\ ~Closing(job[c])
      /\ c \in Procs /\ registered' = registered
  <2>1. Turn(c, "subscribe", "subscription") /\ registered' = registered
    BY Zenon DEF add_consumer
  <2>. QED
    BY <2>1, TurnIs DEF Procs
<1>2. JobTyped(job[c]) /\ UnderWay(c) /\ ConsumersTyped
  BY <1>1, Zenon DEF ConsumersInv, ConsumersTyped
<1>3. PICK o \in 1..Len(objects), id \in Ids :
         o = job[c].sub /\ id = job[c].id /\ id \notin DOMAIN held[c]
  BY <1>1, <1>2, Zenon DEF JobTyped, UnderWay
<1>4. CASE Accepts(objects[o], id)
  <2>1. id \notin DOMAIN objects[o].consumers
    BY <1>4, NoEntries, Zenon DEF Accepts
  <2>2. /\ objects' = Joined(o, id, c) /\ held' = [held EXCEPT ![c] = Put(@, id, o)]
        /\ job' = [job EXCEPT ![c] = Idle]
    BY <1>3, <1>4, Zenon DEF add_consumer, Done
  <2>. QED
    BY <1>1, <1>3, <2>1, <2>2, ConsumerJoins, Zenon
<1>5. CASE ~Accepts(objects[o], id)
  <2>1. Fail(c) /\ UNCHANGED <<objects, held>>
    BY <1>3, <1>5, Zenon DEF add_consumer
  <2>2. UNCHANGED <<registered, objects, held>>
    BY <1>1, <2>1, Zenon
  <2>. QED
    BY <1>1, <2>1, <2>2, HandlerEnds, Zenon
<1>. QED
  BY <1>4, <1>5, Zenon

LEMMA ReleaseSteps ==
    ASSUME ConsumersInv, NEW c \in Conns,
           \/ \E id \in Ids : close_consumer(c, id) \/ unsubscribe(c, id)
           \/ cleanup(c)
    PROVE  ConsumersInv'
<1>1. CASE \E id \in Ids : close_consumer(c, id) \/ unsubscribe(c, id)
  <2>1. PICK id \in Ids : /\ Command(c) /\ id \in DOMAIN held[c]
                          /\ Release(c, "close", id) \/ Release(c, "unsubscribe", id)
                          /\ UNCHANGED <<objects, registered>>
    BY <1>1, Zenon DEF close_consumer, unsubscribe
  <2>. QED
    BY <2>1, CommandIs, ConsumerReleased, Zenon
<1>2. CASE cleanup(c)
  <2>1. /\ ~Closing(job[c]) /\ UNCHANGED <<objects, registered>> /\ c \in Procs
    BY <1>2, Zenon DEF cleanup, Closing, Procs
  <2>2. CASE held[c] = <<>>
    <3>1. Done(c) /\ UNCHANGED <<registered, objects, held>>
      BY <1>2, <2>2, Zenon DEF cleanup
    <3>. QED
      BY <2>1, <3>1, HandlerEnds, Zenon
  <2>3. CASE held[c] # <<>>
    <3>1. PICK id \in DOMAIN held[c] : Release(c, "cleanup", id)
      BY <1>2, <2>3, Zenon DEF cleanup
    <3>. QED
      BY <2>1, <3>1, ConsumerReleased, Zenon
  <2>. QED
    BY <2>2, <2>3, Zenon
<1>. QED
  BY <1>1, <1>2, Zenon

LEMMA RemoveSteps ==
    ASSUME ConsumersInv, NEW c \in Conns,
           remove_consumer(c) \/ cleanup_consumer(c) \/ unsubscribe_consumer(c)
    PROVE  ConsumersInv'
<1>1. /\ Closing(job[c]) /\ objects' = Removed(job[c]) /\ UNCHANGED <<held, registered>>
  BY Zenon DEF remove_consumer, cleanup_consumer, unsubscribe_consumer, Turn, Closing
<1>2. CASE Done(c) \/ Fail(c)
  <2>1. PICK j \in Ends : job' = [job EXCEPT ![c] = j]
    BY <1>2, Zenon DEF Done, Fail, Goto, Ends
  <2>2. JobTyped(j) /\ ~Closing(j) /\ j.op # "subscribe"
    BY EndsAre, Zenon
  <2>. QED
    BY <1>1, <2>1, <2>2, ConsumerRemoved, Zenon
<1>. DEFINE k == [op |-> "unsubscribe", at |-> "broker", sub |-> job[c].sub,
                  name |-> objects[job[c].sub].topic[2]]
<1>3. CASE Goto(c, k)
  <2>1. JobTyped(k) /\ ~Closing(k) /\ k.op # "subscribe"
    BY Zenon DEF JobTyped, Closing
  <2>2. job' = [job EXCEPT ![c] = k]
    BY <1>3, Zenon DEF Goto
  <2>. HIDE DEF k
  <2>. QED
    BY <1>1, <2>1, <2>2, ConsumerRemoved, Zenon
<1>. QED
  BY <1>2, <1>3, Zenon DEF remove_consumer, cleanup_consumer, unsubscribe_consumer

LEMMA UnsubscribeSteps ==
    ASSUME ConsumersInv, NEW c \in Conns, unsubscribe_topic(c) \/ remove_subscription(c)
    PROVE  ConsumersInv'
<1>1. c \in Procs
  BY Zenon DEF Procs
<1>2. CASE unsubscribe_topic(c)
  <2>1. Turn(c, "unsubscribe", "broker") /\ UNCHANGED <<registered, objects, held>>
    BY <1>2, Zenon DEF unsubscribe_topic
  <2>2. ~Closing(job[c])
    BY <2>1, TurnIs
  <2>. DEFINE k == [op |-> "unsubscribe", at |-> "topic", sub |-> job[c].sub,
                    topic |-> <<"plain", job[c].name>>]
  <2>3. JobTyped(k) /\ ~Closing(k) /\ k.op # "subscribe"
    BY Zenon DEF JobTyped, Closing
  <2>4. job' = [job EXCEPT ![c] = k] \/ Done(c)
    BY <1>2, Zenon DEF unsubscribe_topic, Goto
  <2>. HIDE DEF k
  <2>. QED
    BY <1>1, <2>1, <2>2, <2>3, <2>4, HandlerGoes, HandlerEnds, Zenon
<1>3. CASE remove_subscription(c)
  <2>1. /\ Turn(c, "unsubscribe", "topic") /\ UNCHANGED <<objects, held>>
        /\ registered' = Without(registered, job[c].topic) /\ job' = [job EXCEPT ![c] = Idle]
    BY <1>3, Zenon DEF remove_subscription, Done
  <2>2. ~Closing(job[c])
    BY <2>1, TurnIs
  <2>3. JobTyped(Idle) /\ ~Closing(Idle) /\ Idle.op # "subscribe"
    BY Zenon DEF Idle, JobTyped, Closing
  <2>4. \A t \in DOMAIN registered' : registered'[t] \in 1..Len(objects)
    BY <2>1, Zenon DEF Without, ConsumersInv, ConsumersTyped
  <2>. QED
    BY <1>1, <2>1, <2>2, <2>3, <2>4, HandlerMoves, Zenon
<1>. QED
  BY <1>2, <1>3, Zenon

\* The commands of a consumer and of a producer.
LEMMA CommandSteps ==
    ASSUME ConsumersInv, NEW c \in Conns,
           \/ \E id \in Ids : consumer_command(c, id)
           \/ \E n \in Produced : produce(c, n)
           \/ produce_topic(c)
    PROVE  ConsumersInv'
<1>1. c \in Procs
  BY Zenon DEF Procs
<1>2. ASSUME NEW id \in Ids, consumer_command(c, id) PROVE ConsumersInv'
  <2>1. /\ Command(c) /\ id \in DOMAIN held[c] /\ UNCHANGED <<registered, objects, held>>
    BY <1>2, Zenon DEF consumer_command
  <2>2. PICK op \in {"read", "write"} :
           Goto(c, [op |-> op, at |-> "subscription", sub |-> held[c][id]])
    BY <1>2, Zenon DEF consumer_command
  <2>. DEFINE k == [op |-> op, at |-> "subscription", sub |-> held[c][id]]
  <2>3. JobTyped(k) /\ ~Closing(k) /\ k.op # "subscribe"
    BY <2>1, Zenon DEF JobTyped, Closing, ConsumersInv, ConsumersTyped
  <2>4. job' = [job EXCEPT ![c] = k] /\ ~Closing(job[c])
    BY <2>1, <2>2, CommandIs, Zenon DEF Goto
  <2>. HIDE DEF k
  <2>. QED
    BY <1>1, <2>1, <2>3, <2>4, HandlerGoes, Zenon
<1>3. ASSUME NEW n \in Produced, produce(c, n) PROVE ConsumersInv'
  <2>1. Command(c) /\ UNCHANGED <<registered, objects, held>>
    BY <1>3, Zenon DEF produce
  <2>. DEFINE k == [op |-> "produce", at |-> "broker", name |-> n]
  <2>2. JobTyped(k) /\ ~Closing(k) /\ k.op # "subscribe"
    BY NamesAssumption, Zenon DEF JobTyped, Closing, Names
  <2>3. job' = [job EXCEPT ![c] = k] /\ ~Closing(job[c])
    BY <1>3, <2>1, CommandIs, Zenon DEF produce, Goto
  <2>. HIDE DEF k
  <2>. QED
    BY <1>1, <2>1, <2>2, <2>3, HandlerGoes, Zenon
<1>4. ASSUME produce_topic(c) PROVE ConsumersInv'
  <2>1. Turn(c, "produce", "broker") /\ UNCHANGED <<registered, objects, held>>
    BY <1>4, Zenon DEF produce_topic
  <2>2. ~Closing(job[c])
    BY <2>1, TurnIs, Zenon
  <2>3. CASE Fail(c)
    BY <1>1, <2>1, <2>2, <2>3, HandlerEnds, Zenon
  <2>4. ASSUME NEW t, Goto(c, [op |-> "produce", at |-> "topic", topic |-> t])
        PROVE  ConsumersInv'
    <3>. DEFINE k == [op |-> "produce", at |-> "topic", topic |-> t]
    <3>1. JobTyped(k) /\ ~Closing(k) /\ k.op # "subscribe"
      BY Zenon DEF JobTyped, Closing
    <3>2. job' = [job EXCEPT ![c] = k]
      BY <2>4, Zenon DEF Goto
    <3>. HIDE DEF k
    <3>. QED
      BY <1>1, <2>1, <2>2, <3>1, <3>2, HandlerGoes, Zenon
  <2>. QED
    BY <1>4, <2>3, <2>4, Zenon DEF produce_topic
<1>. QED
  BY <1>2, <1>3, <1>4, Zenon

\* The ends of handlers that leave consumers and subscriptions alone.
LEMMA EndSteps ==
    ASSUME ConsumersInv, NEW c \in Conns,
           \/ disconnect(c) \/ read_subscription(c) \/ write_subscription(c) \/ add_producer(c)
    PROVE  ConsumersInv'
<1>1. c \in Procs /\ (Done(c) \/ Fail(c)) /\ UNCHANGED <<registered, objects, held>>
  BY Zenon DEF Procs, disconnect, read_subscription, write_subscription, add_producer
<1>2. ~Closing(job[c])
  BY CommandIs, TurnIs
     DEF disconnect, read_subscription, write_subscription, add_producer
<1>. QED
  BY <1>1, <1>2, HandlerEnds, Zenon

LEMMA DispatchSteps ==
    ASSUME ConsumersInv, NEW t \in Tasks,
           spawn_dispatcher(t) \/ dispatch_to_subscriptions(t) \/ dispatch_messages(t)
    PROVE  ConsumersInv'
<1>1. t \in Procs /\ UNCHANGED <<registered, objects, held>>
  BY Zenon DEF Procs, spawn_dispatcher, dispatch_to_subscriptions, dispatch_messages
<1>2. ~Closing(job[t])
  <2>1. CASE spawn_dispatcher(t)
    BY <2>1 DEF spawn_dispatcher, Idle, Closing
  <2>. QED
    BY <2>1, TurnIs DEF dispatch_to_subscriptions, dispatch_messages
<1>3. CASE Done(t)
  BY <1>1, <1>2, <1>3, HandlerEnds, Zenon
<1>4. ASSUME NEW k, Goto(t, [op |-> "dispatch", at |-> "topic", topic |-> k])
      PROVE  ConsumersInv'
  <2>. DEFINE j == [op |-> "dispatch", at |-> "topic", topic |-> k]
  <2>1. JobTyped(j) /\ ~Closing(j) /\ j.op # "subscribe"
    BY Zenon DEF JobTyped, Closing
  <2>2. job' = [job EXCEPT ![t] = j]
    BY <1>4, Zenon DEF Goto
  <2>. HIDE DEF j
  <2>. QED
    BY <1>1, <1>2, <2>1, <2>2, HandlerGoes, Zenon
<1>5. ASSUME NEW k \in DOMAIN registered,
             Goto(t, [op |-> "dispatch", at |-> "subscription", topic |-> k,
                      sub |-> registered[k]])
      PROVE  ConsumersInv'
  <2>. DEFINE j == [op |-> "dispatch", at |-> "subscription", topic |-> k,
                    sub |-> registered[k]]
  <2>1. JobTyped(j) /\ ~Closing(j) /\ j.op # "subscribe"
    BY Zenon DEF JobTyped, Closing, ConsumersInv, ConsumersTyped
  <2>2. job' = [job EXCEPT ![t] = j]
    BY <1>5, Zenon DEF Goto
  <2>. HIDE DEF j
  <2>. QED
    BY <1>1, <1>2, <2>1, <2>2, HandlerGoes, Zenon
<1>. QED
  BY <1>3, <1>4, <1>5, Zenon
     DEF spawn_dispatcher, dispatch_to_subscriptions, dispatch_messages

\* After a restart there are none.
Empty ==
    /\ registered = <<>> /\ objects = <<>>
    /\ held = [c \in Conns |-> <<>>] /\ job = [p \in Procs |-> Idle]

LEMMA NoConsumers == Empty => ConsumersInv
<1>. SUFFICES ASSUME Empty PROVE ConsumersInv
  BY Zenon
<1>. USE DEF Empty
<1>1. /\ DOMAIN job = Procs /\ \A p \in Procs : job[p] = Idle
      /\ Conns \subseteq Procs
  BY Zenon DEF Procs
<1>2. /\ DOMAIN held = Conns /\ \A c \in Conns : held[c] = <<>>
  BY Zenon
<1>3. JobTyped(Idle) /\ ~Closing(Idle) /\ Idle.op # "subscribe"
  BY Zenon DEF Idle, JobTyped, Closing
<1>4. /\ objects \in Seq(Subscriptions) /\ 1..Len(objects) = {} /\ DOMAIN registered = {}
  BY NoEntries
<1>5. \A c \in Conns : DOMAIN held[c] = {} /\ held[c] \in [{} -> 1..Len(objects)]
  BY <1>2, NoEntries, Zenon
<1>6. ConsumersTyped
  BY <1>1, <1>2, <1>3, <1>4, <1>5, Zenon DEF ConsumersTyped
<1>7. \A c \in Conns : UnderWay(c)
  BY <1>1, <1>3, Zenon DEF UnderWay
<1>8. Matched
  BY <1>4, <1>5, Zenon DEF Matched
<1>. QED
  BY <1>6, <1>7, <1>8, Zenon DEF ConsumersInv

LEMMA ConsumersStay ==
    ASSUME ConsumersInv, [Next]_vars
    PROVE  ConsumersInv'
<1>1. CASE UNCHANGED vars
  <2>1. UNCHANGED <<registered, objects, held, job>>
    BY <1>1, Zenon DEF vars
  <2>2. ConsumersTyped'
    BY <2>1, Zenon DEF ConsumersInv, ConsumersTyped, JobTyped
  <2>3. \A c \in Conns : UnderWay(c)'
    BY <2>1, Zenon DEF ConsumersInv, UnderWay, Closing, Has
  <2>4. Matched'
    BY <2>1 DEF ConsumersInv, Matched, Has, Knows
  <2>. QED
    BY <2>2, <2>3, <2>4, Zenon DEF ConsumersInv
<1>2. ASSUME NEW d \in Defaults, restart(d) PROVE ConsumersInv'
  <2>1. Empty'
    BY <1>2, Zenon DEF restart, Empty
  <2>. QED
    BY <2>1, NoConsumers, PTL
<1>. QED
  BY <1>1, <1>2, SubscribeSteps, OpenSteps, AddSteps, ReleaseSteps, RemoveSteps,
     UnsubscribeSteps, CommandSteps, EndSteps, DispatchSteps, Zenon DEF Next

\* A connection's consumers are the ones subscriptions have of it, or the one it is
\* removing, for any clients, ids, crashes and failing writes.
THEOREM ConsumersAlwaysMatch == Spec => []ConsumersMatch
<1>1. Init => ConsumersInv
  BY NoConsumers, Zenon DEF Init, Empty
<1>2. ConsumersInv /\ [Next]_vars => ConsumersInv'
  BY ConsumersStay, Zenon
<1>3. ConsumersInv => ConsumersMatch
  BY MatchIs, Zenon DEF ConsumersInv
<1>. QED
  BY <1>1, <1>2, <1>3, PTL DEF Spec


Counts == UNION {[D -> Nat] : D \in SUBSET Names}
Memories == [topics : Counts, subs : SUBSET Names]
Files == [topics : SUBSET Names, subs : SUBSET Names, partitioned : Counts]
Brokers == [default : Nat, topics : SUBSET Names, partitioned : Counts, metadata : Counts,
            mem : Memories, doc : Files, stale : BOOLEAN, faults : Nat]

\* Every partitioned topic that alone has its name is in the file with its number.
Saved(mem, doc) ==
    \A n \in DOMAIN mem.topics :
       mem.topics[n] > 0 /\ OwnsItsName(mem, n) =>
          n \in DOMAIN doc.partitioned /\ doc.partitioned[n] = mem.topics[n]

\* The maps of partitioned topics agree, on numbers that are not zero; with
\* default_partitions set there are no plain topics; a plain topic that is called like a
\* partition is none of a partitioned topic, and will not become one; the file is up to
\* date unless writing it failed.
Agree(b) ==
    \A n \in DOMAIN b.partitioned :
       /\ n \in DOMAIN b.metadata /\ b.metadata[n] = b.partitioned[n]
       /\ n \in DOMAIN b.mem.topics /\ b.mem.topics[n] = b.partitioned[n]
Outside(b, n) ==
    \/ BaseName(n) \notin DOMAIN b.metadata
    \/ /\ BaseName(n) \in DOMAIN b.partitioned
       /\ ~(PartitionIndex(n) < b.partitioned[BaseName(n)])
Consistent(b) ==
    /\ \A n \in DOMAIN b.metadata : b.metadata[n] > 0
    /\ Agree(b)
    /\ b.default > 0 => b.topics = {}
    /\ \A n \in b.topics : IsPartitionName(n) => Outside(b, n)
    /\ ~b.stale => Saved(b.mem, b.doc)

BrokerOK(b) == b \in Brokers /\ Consistent(b)

----------------------------------------------------------------------------
(* Names and maps. *)

LEMMA CountsAre ==
    ASSUME NEW f \in Counts
    PROVE  DOMAIN f \subseteq Names /\ \A n \in DOMAIN f : f[n] \in Nat
BY Zenon DEF Counts

LEMMA AreCounts ==
    ASSUME NEW f, NEW D \in SUBSET Names, f \in [D -> Nat]
    PROVE  f \in Counts
BY Zenon DEF Counts

LEMMA NoCounts == <<>> \in Counts
<1>1. {} \in SUBSET Names /\ <<>> \in [{} -> Nat]
  BY NoEntries, Zenon
<1>. QED
  BY <1>1, AreCounts, Zenon

\* The map h is f with the number k for n.
Becomes(h, f, n, k) ==
    /\ h \in Counts /\ DOMAIN h = DOMAIN f \cup {n} /\ h[n] = k
    /\ \A x \in DOMAIN f \ {n} : h[x] = f[x]

LEMMA PutCount ==
    ASSUME NEW f \in Counts, NEW n \in Names, NEW k \in Nat
    PROVE  Becomes(Put(f, n, k), f, n, k)
<1>1. DOMAIN f \subseteq Names /\ \A x \in DOMAIN f : f[x] \in Nat
  BY CountsAre, Zenon
<1>2. Put(f, n, k) \in [DOMAIN f \cup {n} -> Nat] /\ DOMAIN f \cup {n} \in SUBSET Names
  BY <1>1, Zenon DEF Put
<1>3. Put(f, n, k) \in Counts
  BY <1>2, AreCounts, Zenon
<1>. QED
  BY <1>3, Zenon DEF Put, Becomes

\* The partitions of a topic: t-partition-i is a partition name, of t, with the number i.
LEMMA PartitionOf ==
    ASSUME NEW n \in Names, NEW i \in Nat
    PROVE  /\ Append(n, i) \in Names /\ IsPartitionName(Append(n, i))
           /\ BaseName(Append(n, i)) = n /\ PartitionIndex(Append(n, i)) = i
<1>. DEFINE m == Append(n, i)
<1>1. /\ m \in Seq(Nat) /\ Len(m) = Len(n) + 1 /\ m[Len(n) + 1] = i
      /\ \A k \in 1..Len(n) : m[k] = n[k]
      /\ Len(n) \in Nat /\ n \in Seq(Nat)
  BY DEF Names
<1>2. m # <<>>
  BY <1>1
<1>3. SubSeq(m, 1, Len(m) - 1) = n
  <2>1. /\ SubSeq(m, 1, Len(n)) \in Seq(Nat) /\ Len(SubSeq(m, 1, Len(n))) = Len(n)
        /\ \A k \in 1..Len(n) : SubSeq(m, 1, Len(n))[k] = n[k]
    BY <1>1
  <2>2. Len(m) - 1 = Len(n)
    BY <1>1
  <2>. QED
    BY <1>1, <2>1, <2>2, SeqEqual, Zenon
<1>. QED
  BY <1>1, <1>2, <1>3, Zenon DEF Names, IsPartitionName, BaseName, PartitionIndex

LEMMA BaseNames ==
    ASSUME NEW n \in Names
    PROVE  /\ IsPartitionName(n) => BaseName(n) \in Names /\ PartitionIndex(n) \in Nat
           /\ logical_topic_name(n) \in Names
<1>1. ASSUME n # <<>> PROVE SubSeq(n, 1, Len(n) - 1) \in Seq(Nat) /\ n[Len(n)] \in Nat
  BY <1>1 DEF Names
<1>. QED
  BY <1>1, Zenon DEF Names, IsPartitionName, BaseName, PartitionIndex, logical_topic_name

----------------------------------------------------------------------------
(* The metadata in memory and in the file. *)

LEMMA MemoriesAre ==
    ASSUME NEW m \in Memories
    PROVE  m.topics \in Counts /\ m.subs \in SUBSET Names
BY Zenon DEF Memories

\* What upsert_topic_metadata makes of the other topics and of its own.
LEMMA Upserted ==
    ASSUME NEW m \in Memories, NEW n \in Names, NEW k \in Nat, NEW u,
           u = upsert_topic_metadata(m, n, k)
    PROVE  /\ u \in Memories /\ n \in DOMAIN u.topics
           /\ \A x \in DOMAIN m.topics :
                 x # n \/ k = 0 => x \in DOMAIN u.topics /\ u.topics[x] = m.topics[x]
           /\ k > 0 => u.topics[n] = k
<1>1. m.topics \in Counts /\ m.subs \in SUBSET Names
  BY MemoriesAre, Zenon
<1>2. CASE n \in DOMAIN m.topics /\ k = 0
  BY <1>2 DEF upsert_topic_metadata
<1>3. CASE ~(n \in DOMAIN m.topics /\ k = 0)
  <2>1. u = [m EXCEPT !.topics = Put(m.topics, n, k)]
    BY <1>3, Zenon DEF upsert_topic_metadata
  <2>2. PICK f : f = Put(m.topics, n, k) /\ Becomes(f, m.topics, n, k)
    BY <1>1, PutCount, Zenon
  <2>3. u \in Memories /\ u.topics = f
    BY <2>1, <2>2, Zenon DEF Memories, Becomes
  <2>. QED
    BY <1>3, <2>2, <2>3, Zenon DEF Becomes
<1>. QED
  BY <1>2, <1>3, Zenon

LEMMA Inserted ==
    ASSUME NEW m \in Memories, NEW n \in Names, NEW u,
           u = insert_subscription_metadata(m, n)
    PROVE  u \in Memories /\ u.topics = m.topics
<1>1. m.subs \cup {n} \in SUBSET Names
  BY MemoriesAre, Zenon
<1>2. u = [m EXCEPT !.subs = m.subs \cup {n}]
  BY Zenon DEF insert_subscription_metadata
<1>. QED
  BY <1>1, <1>2, Zenon DEF Memories

LEMMA PartitionedAre ==
    ASSUME NEW m \in Memories
    PROVE  /\ Partitioned(m) = {t \in DOMAIN m.topics : m.topics[t] > 0}
           /\ Partitioned(m) \subseteq Names
           /\ \A n \in Partitioned(m) : m.topics[n] \in Nat
<1>1. DOMAIN m.topics \subseteq Names /\ \A n \in DOMAIN m.topics : m.topics[n] \in Nat
  BY MemoriesAre, CountsAre, Zenon
<1>2. Partitioned(m) = {t \in DOMAIN m.topics : m.topics[t] > 0}
  BY Zenon DEF Partitioned, get_partitioned_topic_metadata
<1>. QED
  BY <1>1, <1>2, Zenon

\* Whichever order the hash map has, the file holds the topics that own their names.
LEMMA DocumentSaves ==
    ASSUME NEW m \in Memories, NEW d \in Documents(m)
    PROVE  d \in Files /\ Saved(m, d)
<1>. DEFINE L == {logical_topic_name(n) : n \in Partitioned(m)}
            V == {m.topics[n] : n \in Partitioned(m)}
            T == (DOMAIN m.topics \ Partitioned(m)) \cup m.subs
<1>1. PICK f \in [L -> V] :
         /\ d = [topics |-> T, subs |-> m.subs, partitioned |-> f]
         /\ \A l \in DOMAIN f :
               \E n \in Partitioned(m) : logical_topic_name(n) = l /\ f[l] = m.topics[n]
  BY Zenon DEF Documents
<1>2. /\ m.topics \in Counts /\ m.subs \in SUBSET Names
      /\ DOMAIN m.topics \subseteq Names
  BY MemoriesAre, CountsAre, Zenon
<1>3. /\ Partitioned(m) = {t \in DOMAIN m.topics : m.topics[t] > 0}
      /\ Partitioned(m) \subseteq Names /\ \A n \in Partitioned(m) : m.topics[n] \in Nat
  BY PartitionedAre, Zenon
<1>4. d \in Files /\ d.partitioned = f
  <2>1. L \subseteq Names /\ V \subseteq Nat
    BY <1>3, BaseNames, Zenon
  <2>2. f \in Counts
    <3>1. f \in [L -> Nat]
      BY <2>1, Zenon
    <3>. QED
      BY <2>1, <3>1, AreCounts, Zenon
  <2>3. T \in SUBSET Names
    BY <1>2, Zenon
  <2>. HIDE DEF T, L, V
  <2>. QED
    BY <1>1, <1>2, <2>2, <2>3, Zenon DEF Files
<1>5. ASSUME NEW n \in DOMAIN m.topics, m.topics[n] > 0, OwnsItsName(m, n)
      PROVE  n \in DOMAIN f /\ f[n] = m.topics[n]
  <2>1. n \in Partitioned(m) /\ logical_topic_name(n) = n
    BY <1>3, <1>5, Zenon DEF OwnsItsName, logical_topic_name
  <2>2. n \in DOMAIN f
    BY <2>1, Zenon
  <2>3. PICK t \in Partitioned(m) : logical_topic_name(t) = n /\ f[n] = m.topics[t]
    BY <1>1, <2>2, Zenon
  <2>4. t = n
    BY <1>5, <2>3, Zenon DEF OwnsItsName
  <2>. QED
    BY <2>2, <2>3, <2>4, Zenon
<1>. QED
  BY <1>4, <1>5, Zenon DEF Saved

\* Reading a file gives back the topics that are saved in it.
LEMMA ReadBack ==
    ASSUME NEW d \in Files, NEW m, m = apply_metadata_document(d)
    PROVE  /\ m \in Memories /\ Saved(m, d)
           /\ \A n \in DOMAIN d.partitioned :
                 n \in DOMAIN m.topics /\ m.topics[n] = d.partitioned[n]
<1>1. d.topics \in SUBSET Names /\ d.subs \in SUBSET Names /\ d.partitioned \in Counts
  BY Zenon DEF Files
<1>2. /\ DOMAIN d.partitioned \subseteq Names
      /\ \A n \in DOMAIN d.partitioned : d.partitioned[n] \in Nat
  BY <1>1, CountsAre, Zenon
<1>. DEFINE f == [n \in d.topics \cup DOMAIN d.partitioned |->
                    IF n \in DOMAIN d.partitioned THEN d.partitioned[n] ELSE 0]
<1>3. m = [topics |-> f, subs |-> d.subs]
  BY Zenon DEF apply_metadata_document
<1>4. f \in [d.topics \cup DOMAIN d.partitioned -> Nat]
  BY <1>2, Zenon
<1>5. f \in Counts
  BY <1>1, <1>2, <1>4, AreCounts, Zenon
<1>6. /\ \A n \in DOMAIN d.partitioned : n \in DOMAIN f /\ f[n] = d.partitioned[n]
      /\ \A n \in DOMAIN f : n \notin DOMAIN d.partitioned => f[n] = 0
  BY Zenon
<1>. HIDE DEF f
<1>7. m \in Memories /\ m.topics = f
  BY <1>1, <1>3, <1>5 DEF Memories
<1>8. Saved(m, d)
  BY <1>6, <1>7 DEF Saved
<1>. QED
  BY <1>6, <1>7, <1>8, Zenon

----------------------------------------------------------------------------
(* The broker. *)

LEMMA BrokersAre ==
    ASSUME NEW b \in Brokers
    PROVE  /\ b.default \in Nat /\ b.topics \in SUBSET Names /\ b.faults \in Nat
           /\ b.partitioned \in Counts /\ b.metadata \in Counts
           /\ b.mem \in Memories /\ b.doc \in Files
BY Zenon DEF Brokers

SameTopics(b, e) ==
    /\ e.default = b.default /\ e.topics = b.topics
    /\ e.partitioned = b.partitioned /\ e.metadata = b.metadata

\* Metadata that is saved is in the file, unless the write failed and the broker knows.
LEMMA SaveGives ==
    ASSUME NEW b \in Brokers, ~b.stale => Saved(b.mem, b.doc), NEW m \in Memories,
           NEW e \in Save(b, m)
    PROVE  /\ e \in Brokers /\ SameTopics(b, e) /\ e.mem = m
           /\ ~e.stale => Saved(e.mem, e.doc)
<1>1. CASE e = b /\ m = b.mem
  BY <1>1, Zenon DEF SameTopics
<1>2. ASSUME NEW d \in Documents(m), e = [b EXCEPT !.mem = m, !.doc = d, !.stale = FALSE]
      PROVE  /\ e \in Brokers /\ SameTopics(b, e) /\ e.mem = m /\ Saved(e.mem, e.doc)
  <2>1. d \in Files /\ Saved(m, d)
    BY DocumentSaves, Zenon
  <2>2. e \in Brokers
    BY <1>2, <2>1, Zenon DEF Brokers
  <2>3. e.mem = m /\ e.doc = d
    BY <1>2, Zenon DEF Brokers
  <2>4. SameTopics(b, e)
    BY <1>2, Zenon DEF Brokers, SameTopics
  <2>. QED
    BY <2>1, <2>2, <2>3, <2>4, Zenon
<1>3. ASSUME e = [b EXCEPT !.mem = m, !.stale = TRUE, !.faults = @ + 1]
      PROVE  /\ e \in Brokers /\ SameTopics(b, e) /\ e.mem = m /\ e.stale
  <2>1. b.faults + 1 \in Nat
    BY BrokersAre
  <2>2. e = [b EXCEPT !.mem = m, !.stale = TRUE, !.faults = b.faults + 1]
    BY <1>3, Zenon DEF Brokers
  <2>3. e \in Brokers
    BY <2>1, <2>2, Zenon DEF Brokers
  <2>4. e.mem = m /\ e.stale
    BY <2>2, Zenon DEF Brokers
  <2>5. SameTopics(b, e)
    BY <2>2, Zenon DEF Brokers, SameTopics
  <2>. QED
    BY <2>3, <2>4, <2>5, Zenon
<1>. QED
  BY <1>1, <1>2, <1>3, Zenon DEF Save, persist_document

\* Saving metadata that keeps the numbers of the partitioned topics keeps the broker
\* consistent.
LEMMA SaveKeeps ==
    ASSUME NEW b, BrokerOK(b), NEW m \in Memories, NEW e \in Save(b, m),
           \A x \in DOMAIN b.partitioned :
              x \in DOMAIN m.topics /\ m.topics[x] = b.mem.topics[x]
    PROVE  BrokerOK(e) /\ SameTopics(b, e)
<1>1. b \in Brokers /\ (~b.stale => Saved(b.mem, b.doc))
  BY Zenon DEF BrokerOK, Consistent
<1>2. /\ e \in Brokers /\ SameTopics(b, e) /\ e.mem = m
      /\ ~e.stale => Saved(e.mem, e.doc)
  BY <1>1, SaveGives, Zenon
<1>3. Agree(e)
  BY <1>2, Zenon DEF Agree, SameTopics, BrokerOK, Consistent
<1>4. \A n \in e.topics : IsPartitionName(n) => Outside(e, n)
  BY <1>2, Zenon DEF Outside, SameTopics, BrokerOK, Consistent
<1>5. /\ \A n \in DOMAIN e.metadata : e.metadata[n] > 0
      /\ e.default > 0 => e.topics = {}
  BY <1>2, Zenon DEF SameTopics, BrokerOK, Consistent
<1>. QED
  BY <1>2, <1>3, <1>4, <1>5, Zenon DEF BrokerOK, Consistent

LEMMA SubscriptionEnsured ==
    ASSUME NEW b, BrokerOK(b), NEW n \in Names, NEW e \in ensure_subscription(b, n)
    PROVE  BrokerOK(e)
<1>. DEFINE u == upsert_topic_metadata(b.mem, n, 0)
            m == insert_subscription_metadata(u, n)
<1>1. b.mem \in Memories /\ Agree(b)
  BY BrokersAre, Zenon DEF BrokerOK, Consistent
<1>2. /\ u \in Memories
      /\ \A x \in DOMAIN b.mem.topics : x \in DOMAIN u.topics /\ u.topics[x] = b.mem.topics[x]
  BY <1>1, Upserted
<1>. HIDE DEF u
<1>3. m \in Memories /\ m.topics = u.topics
  BY <1>2, Inserted, Zenon
<1>4. e \in Save(b, m)
  BY Zenon DEF ensure_subscription, u
<1>. HIDE DEF m
<1>5. \A x \in DOMAIN b.partitioned :
         x \in DOMAIN m.topics /\ m.topics[x] = b.mem.topics[x]
  BY <1>1, <1>2, <1>3, Zenon DEF Agree
<1>. QED
  BY <1>3, <1>4, <1>5, SaveKeeps, Zenon

\* A plain topic is made where nothing says that the topic is partitioned.
LEMMA PlainTopic ==
    ASSUME NEW b, BrokerOK(b), NEW n \in Names, ~should_be_partitioned(b, n),
           IsPartitionName(n) => Outside(b, n), NEW e \in get_or_create_topic(b, n)
    PROVE  BrokerOK(e)
<1>1. CASE n \in b.topics
  BY <1>1, Zenon DEF get_or_create_topic
<1>2. CASE n \notin b.topics
  <2>1. PICK f \in ensure_topic(b, n, 0) : e = [f EXCEPT !.topics = @ \cup {n}]
    BY <1>2, Zenon DEF get_or_create_topic
  <2>. DEFINE u == upsert_topic_metadata(b.mem, n, 0)
  <2>2. b.mem \in Memories /\ Agree(b) /\ b.default = 0
    BY BrokersAre DEF BrokerOK, Consistent, should_be_partitioned
  <2>3. /\ u \in Memories
        /\ \A x \in DOMAIN b.mem.topics :
              x \in DOMAIN u.topics /\ u.topics[x] = b.mem.topics[x]
    BY <2>2, Upserted
  <2>4. f \in Save(b, u)
    BY <2>1, Zenon DEF ensure_topic
  <2>. HIDE DEF u
  <2>5. \A x \in DOMAIN b.partitioned :
           x \in DOMAIN u.topics /\ u.topics[x] = b.mem.topics[x]
    BY <2>2, <2>3, Zenon DEF Agree
  <2>6. BrokerOK(f) /\ SameTopics(b, f)
    BY <2>3, <2>4, <2>5, SaveKeeps, Zenon
  <2>7. f \in Brokers /\ f.topics \cup {n} \in SUBSET Names
    BY <2>6, BrokersAre, Zenon DEF BrokerOK
  <2>8. e = [f EXCEPT !.topics = f.topics \cup {n}]
    BY <2>1, <2>7, Zenon DEF Brokers
  <2>9. e \in Brokers
    BY <2>7, <2>8, Zenon DEF Brokers
  <2>10. /\ e.topics = f.topics \cup {n} /\ e.default = f.default /\ e.mem = f.mem
         /\ e.partitioned = f.partitioned /\ e.metadata = f.metadata
         /\ e.doc = f.doc /\ e.stale = f.stale
    BY <2>7, <2>8, Zenon DEF Brokers
  <2>11. /\ Agree(e) /\ \A x \in DOMAIN e.metadata : e.metadata[x] > 0
         /\ ~e.stale => Saved(e.mem, e.doc)
    BY <2>6, <2>10, Zenon DEF BrokerOK, Consistent, Agree
  <2>12. \A x \in e.topics : IsPartitionName(x) => Outside(e, x)
    <3>1. \A x : Outside(b, x) => Outside(e, x)
      BY <2>6, <2>10, Zenon DEF SameTopics, Outside
    <3>2. \A x \in b.topics : IsPartitionName(x) => Outside(b, x)
      BY Zenon DEF BrokerOK, Consistent
    <3>. QED
      BY <2>6, <2>10, <3>1, <3>2, Zenon DEF SameTopics
  <2>13. e.default = 0
    BY <2>2, <2>6, <2>10, Zenon DEF SameTopics
  <2>. QED
    BY <2>9, <2>11, <2>12, <2>13 DEF BrokerOK, Consistent
<1>. QED
  BY <1>1, <1>2, Zenon

\* The number of partitions a name gets.
LEMMA CountIs ==
    ASSUME NEW b, BrokerOK(b), NEW n
    PROVE  /\ PartitionCount(b, n) \in Nat
           /\ PartitionCount(b, n) > 0 <=> should_be_partitioned(b, n)
           /\ n \in DOMAIN b.partitioned => PartitionCount(b, n) = b.partitioned[n]
           /\ PartitionCount(b, n) = 0 => n \notin DOMAIN b.metadata
           /\ n \notin DOMAIN b.metadata /\ PartitionCount(b, n) > 0 => b.topics = {}
<1>1. /\ b.default \in Nat /\ \A x \in DOMAIN b.metadata : b.metadata[x] \in Nat
  BY BrokersAre, CountsAre, Zenon DEF BrokerOK
<1>2. /\ \A x \in DOMAIN b.metadata : b.metadata[x] > 0
      /\ \A x \in DOMAIN b.partitioned : x \in DOMAIN b.metadata /\ b.metadata[x] = b.partitioned[x]
      /\ b.default > 0 => b.topics = {}
  BY Zenon DEF BrokerOK, Consistent, Agree
<1>. QED
  BY <1>1, <1>2 DEF PartitionCount, should_be_partitioned

\* A partitioned topic is made with the number its name has.  A plain topic cannot have
\* become one of its partitions: then its name was in the metadata, which it is not for any
\* plain topic that is called like a partition, or default_partitions is set, and there are
\* no plain topics.
LEMMA PartitionedTopic ==
    ASSUME NEW b, BrokerOK(b), NEW n \in Names, NEW k \in Nat, k = PartitionCount(b, n), k > 0,
           NEW e \in get_or_create_partitioned_topic(b, n, k)
    PROVE  BrokerOK(e) /\ n \in DOMAIN e.partitioned /\ e.partitioned[n] = k
<1>1. CASE n \in DOMAIN b.partitioned
  <2>1. e = b
    BY <1>1, Zenon DEF get_or_create_partitioned_topic
  <2>. QED
    BY <1>1, <2>1, CountIs, Zenon
<1>2. CASE n \notin DOMAIN b.partitioned
  <2>1. PICK f \in ensure_topic(b, n, k) :
           e = [f EXCEPT !.partitioned = Put(@, n, k), !.metadata = Put(@, n, k)]
    BY <1>2, Zenon DEF get_or_create_partitioned_topic
  <2>. DEFINE u == upsert_topic_metadata(b.mem, n, k)
  <2>2. b.mem \in Memories /\ Agree(b)
    BY BrokersAre, Zenon DEF BrokerOK, Consistent
  <2>3. /\ u \in Memories /\ n \in DOMAIN u.topics /\ u.topics[n] = k
        /\ \A x \in DOMAIN b.mem.topics : x # n =>
              x \in DOMAIN u.topics /\ u.topics[x] = b.mem.topics[x]
    BY <2>2, Upserted
  <2>4. f \in Save(b, u)
    BY <2>1, Zenon DEF ensure_topic
  <2>. HIDE DEF u
  <2>5. \A x \in DOMAIN b.partitioned :
           x \in DOMAIN u.topics /\ u.topics[x] = b.mem.topics[x]
    BY <1>2, <2>2, <2>3, Zenon DEF Agree
  <2>6. BrokerOK(f) /\ SameTopics(b, f)
    BY <2>3, <2>4, <2>5, SaveKeeps, Zenon
  <2>7. f.mem = u
    <3>1. b \in Brokers /\ (~b.stale => Saved(b.mem, b.doc))
      BY Zenon DEF BrokerOK, Consistent
    <3>. QED
      BY <2>3, <2>4, <3>1, SaveGives, Zenon
  <2>8. f \in Brokers /\ f.partitioned \in Counts /\ f.metadata \in Counts
    BY <2>6, BrokersAre, Zenon DEF BrokerOK
  <2>9. PICK P : P = Put(f.partitioned, n, k) /\ Becomes(P, f.partitioned, n, k)
    BY <2>8, PutCount, Zenon
  <2>10. PICK M : M = Put(f.metadata, n, k) /\ Becomes(M, f.metadata, n, k)
    BY <2>8, PutCount, Zenon
  <2>11. e = [f EXCEPT !.partitioned = P, !.metadata = M]
    BY <2>1, <2>8, <2>9, <2>10, Zenon DEF Brokers
  <2>12. /\ P \in Counts /\ DOMAIN P = DOMAIN f.partitioned \cup {n} /\ P[n] = k
         /\ \A x \in DOMAIN f.partitioned \ {n} : P[x] = f.partitioned[x]
    BY <2>9, Zenon DEF Becomes
  <2>13. /\ M \in Counts /\ DOMAIN M = DOMAIN f.metadata \cup {n} /\ M[n] = k
         /\ \A x \in DOMAIN f.metadata \ {n} : M[x] = f.metadata[x]
    BY <2>10, Zenon DEF Becomes
  <2>14. e \in Brokers
    BY <2>8, <2>11, <2>12, <2>13, Zenon DEF Brokers
  <2>15. /\ e.partitioned = P /\ e.metadata = M /\ e.mem = f.mem
         /\ e.topics = f.topics /\ e.default = f.default
         /\ e.doc = f.doc /\ e.stale = f.stale
    BY <2>8, <2>11, Zenon DEF Brokers
  <2>16. Agree(e)
    <3>1. Agree(f) /\ n \in DOMAIN f.mem.topics /\ f.mem.topics[n] = k
      BY <2>3, <2>6, <2>7, Zenon DEF BrokerOK, Consistent
    <3>. QED
      BY <2>12, <2>13, <2>15, <3>1 DEF Agree
  <2>17. \A x \in DOMAIN e.metadata : e.metadata[x] > 0
    BY <2>6, <2>13, <2>15, Zenon DEF BrokerOK, Consistent
  <2>18. \A x \in e.topics : IsPartitionName(x) => Outside(e, x)
    <3>. SUFFICES ASSUME NEW x \in b.topics, IsPartitionName(x) PROVE Outside(e, x)
      BY <2>6, <2>15, Zenon DEF SameTopics
    <3>1. Outside(b, x)
      BY Zenon DEF BrokerOK, Consistent
    <3>2. BaseName(x) # n
      <4>. SUFFICES ASSUME BaseName(x) = n PROVE FALSE
        BY Zenon
      <4>1. n \notin DOMAIN b.metadata
        BY <1>2, <3>1, Zenon DEF Outside
      <4>. QED
        BY <4>1, CountIs, Zenon
    <3>3. /\ f.metadata = b.metadata /\ f.partitioned = b.partitioned
      BY <2>6, Zenon DEF SameTopics
    <3>. QED
      BY <2>12, <2>13, <2>15, <3>1, <3>2, <3>3, Zenon DEF Outside
  <2>19. /\ e.default > 0 => e.topics = {}
         /\ ~e.stale => Saved(e.mem, e.doc)
    BY <2>6, <2>15, Zenon DEF BrokerOK, Consistent
  <2>. QED
    BY <2>12, <2>14, <2>15, <2>16, <2>17, <2>18, <2>19, Zenon DEF BrokerOK, Consistent
<1>. QED
  BY <1>1, <1>2, Zenon

LEMMA TopicFound ==
    ASSUME NEW b, BrokerOK(b), NEW n \in Names, IsPartitionName(n) => Outside(b, n),
           NEW e, NEW kind, <<e, kind>> \in TopicOf(b, n)
    PROVE  BrokerOK(e) /\ (kind = "plain" <=> PartitionCount(b, n) = 0)
<1>1. CASE should_be_partitioned(b, n)
  <2>1. PICK f \in get_or_create_partitioned_topic(b, n, PartitionCount(b, n)) :
           <<e, kind>> = <<f, "partitioned">>
    BY <1>1, Zenon DEF TopicOf
  <2>2. PartitionCount(b, n) \in Nat /\ PartitionCount(b, n) > 0
    BY <1>1, CountIs, Zenon
  <2>3. BrokerOK(f)
    BY <2>2, PartitionedTopic, Zenon
  <2>. QED
    BY <2>1, <2>2, <2>3
<1>2. CASE ~should_be_partitioned(b, n)
  <2>1. PICK f \in get_or_create_topic(b, n) : <<e, kind>> = <<f, "plain">>
    BY <1>2, Zenon DEF TopicOf
  <2>2. PartitionCount(b, n) = 0
    BY <1>2, CountIs
  <2>3. BrokerOK(f)
    BY <1>2, PlainTopic, Zenon
  <2>. QED
    BY <2>1, <2>2, <2>3, Zenon
<1>. QED
  BY <1>1, <1>2, Zenon

\* What a name stands for: a partition of a partitioned topic when the number of partitions
\* says so.
LEMMA TopicAuto ==
    ASSUME NEW b, BrokerOK(b), NEW n \in Names, NEW r \in get_or_create_topic_auto(b, n)
    PROVE  /\ BrokerOK(r[1])
           /\ IsPartitionName(n) /\ PartitionIndex(n) < PartitionCount(b, BaseName(n))
                 => r[2] = "partition"
           /\ ~IsPartitionName(n) /\ PartitionCount(b, n) = 0 => r[2] = "plain"
<1>. DEFINE k == PartitionCount(b, BaseName(n))
<1>1. CASE IsPartitionName(n) /\ k > 0
  <2>1. BaseName(n) \in Names /\ PartitionIndex(n) \in Nat /\ k \in Nat
    BY <1>1, BaseNames, CountIs, Zenon
  <2>2. PICK e \in get_or_create_partitioned_topic(b, BaseName(n), k) :
           r \in IF get_partition(e, n) THEN {<<e, "partition">>} ELSE TopicOf(e, n)
    BY <1>1, Zenon DEF get_or_create_topic_auto
  <2>3. /\ BrokerOK(e) /\ BaseName(n) \in DOMAIN e.partitioned
        /\ e.partitioned[BaseName(n)] = k
    BY <1>1, <2>1, PartitionedTopic
  <2>4. CASE PartitionIndex(n) < k
    <3>1. r = <<e, "partition">>
      BY <2>2, <2>3, <2>4, Zenon DEF get_partition
    <3>. QED
      BY <1>1, <2>3, <3>1, Zenon
  <2>5. CASE ~(PartitionIndex(n) < k)
    <3>1. r \in TopicOf(e, n) /\ Outside(e, n)
      BY <2>2, <2>3, <2>5, Zenon DEF get_partition, Outside
    <3>2. PICK f, kind : r = <<f, kind>>
      BY <3>1, Zenon DEF TopicOf
    <3>3. BrokerOK(f)
      BY <2>3, <3>1, <3>2, TopicFound, Zenon
    <3>. QED
      BY <1>1, <2>5, <3>2, <3>3, Zenon
  <2>. QED
    BY <2>4, <2>5, Zenon
<1>2. CASE ~(IsPartitionName(n) /\ k > 0)
  <2>1. r \in TopicOf(b, n)
    BY <1>2, Zenon DEF get_or_create_topic_auto
  <2>2. PICK f, kind : r = <<f, kind>>
    BY <2>1, Zenon DEF TopicOf
  <2>3. IsPartitionName(n) => Outside(b, n) /\ k = 0 /\ PartitionIndex(n) \in Nat
    BY <1>2, CountIs, BaseNames DEF Outside
  <2>4. BrokerOK(f) /\ (kind = "plain" <=> PartitionCount(b, n) = 0)
    BY <2>1, <2>2, <2>3, TopicFound, Zenon
  <2>. QED
    BY <2>2, <2>3, <2>4
<1>. QED
  BY <1>1, <1>2, Zenon

----------------------------------------------------------------------------
(* The steps. *)

\* A failure is counted.
LEMMA FaultCounted ==
    ASSUME NEW b, BrokerOK(b), NEW e, e = [b EXCEPT !.faults = @ + 1]
    PROVE  BrokerOK(e)
<1>1. b \in Brokers /\ b.faults + 1 \in Nat
  BY BrokersAre DEF BrokerOK
<1>2. e = [b EXCEPT !.faults = b.faults + 1]
  BY <1>1, Zenon DEF Brokers
<1>3. e \in Brokers
  BY <1>1, <1>2, Zenon DEF Brokers
<1>4. /\ e.partitioned = b.partitioned /\ e.metadata = b.metadata /\ e.mem = b.mem
      /\ e.topics = b.topics /\ e.default = b.default /\ e.doc = b.doc /\ e.stale = b.stale
  BY <1>1, <1>2, Zenon DEF Brokers
<1>. QED
  BY <1>3, <1>4 DEF BrokerOK, Consistent, Agree, Outside

\* The broker that is started with a file has no topics yet, and the numbers of the file.
LEMMA Started ==
    ASSUME NEW d \in Nat, NEW doc \in Files, NEW k \in Nat, NEW b, b = Start(d, doc, k)
    PROVE  /\ BrokerOK(b)
           /\ \A n \in DOMAIN doc.partitioned :
                 doc.partitioned[n] > 0 => PartitionCount(b, n) = doc.partitioned[n]
<1>1. PICK m : m = apply_metadata_document(doc)
  BY Zenon
<1>2. /\ m \in Memories /\ Saved(m, doc)
      /\ \A n \in DOMAIN doc.partitioned :
            n \in DOMAIN m.topics /\ m.topics[n] = doc.partitioned[n]
  BY <1>1, ReadBack, Zenon
<1>3. PICK f : f = get_partitioned_topic_metadata(m)
  BY Zenon
<1>4. /\ DOMAIN f = {t \in DOMAIN m.topics : m.topics[t] > 0}
      /\ \A n \in DOMAIN f : f[n] = m.topics[n]
  BY <1>3, Zenon DEF get_partitioned_topic_metadata
<1>5. f \in Counts
  <2>1. DOMAIN m.topics \subseteq Names /\ \A n \in DOMAIN m.topics : m.topics[n] \in Nat
    BY <1>2, MemoriesAre, CountsAre, Zenon
  <2>2. f \in [{t \in DOMAIN m.topics : m.topics[t] > 0} -> Nat]
    BY <1>3, <2>1, Zenon DEF get_partitioned_topic_metadata
  <2>3. {t \in DOMAIN m.topics : m.topics[t] > 0} \in SUBSET Names
    BY <2>1, Zenon
  <2>. QED
    BY <2>2, <2>3, AreCounts, Zenon
<1>6. <<>> \in Counts
  BY NoCounts, Zenon
<1>7. b = [default |-> d, topics |-> {}, partitioned |-> <<>>, metadata |-> f,
           mem |-> m, doc |-> doc, stale |-> FALSE, faults |-> k]
  BY <1>1, <1>3, Zenon DEF Start
<1>8. b \in Brokers
  BY <1>2, <1>5, <1>6, <1>7 DEF Brokers
<1>9. /\ b.topics = {} /\ b.partitioned = <<>> /\ b.metadata = f /\ b.mem = m /\ b.doc = doc
      /\ b.stale = FALSE
  BY <1>7
<1>10. Consistent(b)
  BY <1>2, <1>4, <1>9, NoEntries, Zenon DEF Consistent, Agree
<1>. QED
  BY <1>2, <1>4, <1>8, <1>9, <1>10, Zenon DEF BrokerOK, PartitionCount

LEMMA NoFile == NoDocument \in Files
BY NoCounts, Zenon DEF NoDocument, Files

\* The steps that change what the broker knows.
LEMMA BrokerSteps ==
    ASSUME ConsumersInv, BrokerOK(broker), NEW c \in Conns,
           \/ subscribe_topic(c) \/ produce_topic(c) \/ get_or_create_subscription(c)
           \/ unsubscribe_consumer(c)
    PROVE  BrokerOK(broker') /\ crashes' = crashes
<1>1. c \in Procs /\ JobTyped(job[c])
  BY Zenon DEF Procs, ConsumersInv, ConsumersTyped
<1>2. crashes' = crashes
  BY Zenon DEF subscribe_topic, produce_topic, get_or_create_subscription, unsubscribe_consumer
<1>3. CASE subscribe_topic(c) \/ produce_topic(c)
  <2>1. job[c].op \in {"subscribe", "produce"} /\ job[c].at = "broker"
    BY <1>3, Zenon DEF subscribe_topic, produce_topic, Turn
  <2>2. job[c].name \in Names
    BY <1>1, <2>1, Zenon DEF JobTyped
  <2>3. PICK r \in get_or_create_topic_auto(broker, job[c].name) : broker' = r[1]
    BY <1>3, Zenon DEF subscribe_topic, produce_topic
  <2>. QED
    BY <1>2, <2>2, <2>3, TopicAuto, Zenon
<1>4. CASE get_or_create_subscription(c)
  <2>1. job[c].op = "subscribe" /\ job[c].at = "topic"
    BY <1>4, Zenon DEF get_or_create_subscription, Turn
  <2>2. job[c].topic[2] \in Names
    BY <1>1, <2>1, Zenon DEF JobTyped, TopicObjects
  <2>3. \/ broker' = broker
        \/ broker' \in ensure_subscription(broker, job[c].topic[2])
        \/ \E b \in ensure_subscription(broker, job[c].topic[2]) :
              broker' = [b EXCEPT !.faults = @ + 1]
    BY <1>4, Zenon DEF get_or_create_subscription, open_subscription_cursor
  <2>. QED
    BY <1>2, <2>2, <2>3, SubscriptionEnsured, FaultCounted, Zenon
<1>5. CASE unsubscribe_consumer(c)
  <2>1. broker' = broker \/ broker' = [broker EXCEPT !.faults = @ + 1]
    BY <1>5, Zenon DEF unsubscribe_consumer
  <2>. QED
    BY <1>2, <2>1, FaultCounted, Zenon
<1>. QED
  BY <1>3, <1>4, <1>5, Zenon

LEMMA OtherSteps ==
    ASSUME NEW c \in Conns,
           \/ \E r \in Requests : subscribe(c, r)
           \/ \E id \in Ids : close_consumer(c, id) \/ unsubscribe(c, id) \/ consumer_command(c, id)
           \/ \E n \in Produced : produce(c, n)
           \/ add_consumer(c) \/ remove_consumer(c) \/ disconnect(c) \/ cleanup(c)
           \/ cleanup_consumer(c) \/ unsubscribe_topic(c) \/ remove_subscription(c)
           \/ read_subscription(c) \/ write_subscription(c) \/ add_producer(c)
    PROVE  broker' = broker /\ crashes' = crashes
<1>1. CASE \E r \in Requests : subscribe(c, r)
  BY <1>1, Zenon DEF subscribe
<1>2. CASE \E id \in Ids : close_consumer(c, id) \/ unsubscribe(c, id) \/ consumer_command(c, id)
  BY <1>2, Zenon DEF close_consumer, unsubscribe, consumer_command
<1>3. CASE \E n \in Produced : produce(c, n)
  BY <1>3, Zenon DEF produce
<1>4. CASE add_consumer(c) \/ remove_consumer(c) \/ disconnect(c) \/ cleanup(c)
  BY <1>4, Zenon DEF add_consumer, remove_consumer, disconnect, cleanup
<1>5. CASE cleanup_consumer(c) \/ unsubscribe_topic(c) \/ remove_subscription(c)
  BY <1>5, Zenon DEF cleanup_consumer, unsubscribe_topic, remove_subscription
<1>6. CASE read_subscription(c) \/ write_subscription(c) \/ add_producer(c)
  BY <1>6, Zenon DEF read_subscription, write_subscription, add_producer
<1>. QED
  BY <1>1, <1>2, <1>3, <1>4, <1>5, <1>6, Zenon

LEMMA RestartStep ==
    ASSUME BrokerOK(broker), NEW d \in Defaults, restart(d)
    PROVE  /\ BrokerOK(broker')
           /\ \A n \in DOMAIN broker.doc.partitioned :
                 broker.doc.partitioned[n] > 0 =>
                    PartitionCount(broker', n) = broker.doc.partitioned[n]
<1>1. broker.doc \in Files /\ broker.faults \in Nat /\ d \in Nat
  BY BrokersAre, NamesAssumption, Zenon DEF BrokerOK
<1>2. broker' = Start(d, broker.doc, broker.faults)
  BY Zenon DEF restart
<1>3. PICK doc \in Files, k \in Nat :
         doc = broker.doc /\ k = broker.faults /\ broker' = Start(d, doc, k)
  BY <1>1, <1>2, Zenon
<1>4. /\ BrokerOK(broker')
      /\ \A x \in DOMAIN doc.partitioned :
            doc.partitioned[x] > 0 => PartitionCount(broker', x) = doc.partitioned[x]
  BY <1>1, <1>3, Started
<1>. QED
  BY <1>3, <1>4, Zenon

LEMMA BrokerStays ==
    ASSUME ConsumersInv, BrokerOK(broker), [Next]_vars
    PROVE  /\ BrokerOK(broker')
           /\ crashes' = crashes \/ \E d \in Defaults : restart(d)
<1>1. CASE UNCHANGED vars
  BY <1>1, Zenon DEF vars
<1>2. CASE \E d \in Defaults : restart(d)
  BY <1>2, RestartStep, Zenon
<1>3. ASSUME NEW t \in Tasks,
             spawn_dispatcher(t) \/ dispatch_to_subscriptions(t) \/ dispatch_messages(t)
      PROVE  broker' = broker /\ crashes' = crashes
  BY <1>3, Zenon DEF spawn_dispatcher, dispatch_to_subscriptions, dispatch_messages
<1>. QED
  BY <1>1, <1>2, <1>3, BrokerSteps, OtherSteps, Zenon DEF Next

TopicsInv == ConsumersInv /\ BrokerOK(broker)

LEMMA TopicsInvAlways == Spec => []TopicsInv
<1>1. Init => TopicsInv
  <2>. SUFFICES ASSUME Init PROVE TopicsInv
    BY Zenon
  <2>1. ConsumersInv
    BY NoConsumers, Zenon DEF Init, Empty
  <2>2. PICK d \in Nat : broker = Start(d, NoDocument, 0)
    BY NamesAssumption, Zenon DEF Init
  <2>3. BrokerOK(broker)
    BY <2>2, NoFile, Started, Zenon
  <2>. QED
    BY <2>1, <2>3, Zenon DEF TopicsInv
<1>2. TopicsInv /\ [Next]_vars => TopicsInv'
  BY ConsumersStay, BrokerStays, Zenon DEF TopicsInv
<1>. QED
  BY <1>1, <1>2, PTL DEF Spec

----------------------------------------------------------------------------
(* The theorems. *)

\* No name is both a plain topic and a partition of a partitioned topic, for any topics,
\* numbers of partitions, configurations, crashes and failed writes of the file.
THEOREM LedgersHaveOneTopic == Spec => []OneTopicPerLedger
<1>1. TopicsInv => OneTopicPerLedger
  <2>. SUFFICES ASSUME TopicsInv, NEW n \in broker.topics, IsPartitionName(n),
                       BaseName(n) \in DOMAIN broker.partitioned
                PROVE  ~(PartitionIndex(n) < broker.partitioned[BaseName(n)])
    BY Zenon DEF OneTopicPerLedger
  <2>1. Outside(broker, n) /\ BaseName(n) \in DOMAIN broker.metadata
    BY Zenon DEF TopicsInv, BrokerOK, Consistent, Agree
  <2>. QED
    BY <2>1, Zenon DEF Outside
<1>. QED
  BY <1>1, TopicsInvAlways, PTL

\* A client that asks for the number of partitions and then subscribes or produces finds
\* the topic it was told of, whatever other clients did and the broker was configured to.
THEOREM AnswersAreServed == Spec => []AnswerServed
<1>1. ASSUME TopicsInv, NEW n \in Names, ~IsPartitionName(n), NEW count,
             count = get_partition_metadata_response_count(broker, n)
      PROVE  IF count = 0
             THEN \A r \in get_or_create_topic_auto(broker, n) : r[2] = "plain"
             ELSE \A i \in 0..(count - 1) :
                     \A r \in get_or_create_topic_auto(broker, Append(n, i)) : r[2] = "partition"
  <2>1. BrokerOK(broker)
    BY <1>1, Zenon DEF TopicsInv
  <2>2. count = PartitionCount(broker, n) /\ count \in Nat
    <3>1. /\ broker.default \in Nat /\ PartitionCount(broker, n) \in Nat
          /\ n \in DOMAIN broker.partitioned => n \in DOMAIN broker.metadata
      BY <2>1, BrokersAre, CountIs, Zenon DEF BrokerOK, Consistent, Agree
    <3>. QED
      BY <1>1, <3>1 DEF get_partition_metadata_response_count, PartitionCount
  <2>3. ASSUME count = 0, NEW r \in get_or_create_topic_auto(broker, n) PROVE r[2] = "plain"
    BY <1>1, <2>1, <2>2, <2>3, TopicAuto, Zenon
  <2>4. ASSUME NEW i \in 0..(count - 1),
               NEW r \in get_or_create_topic_auto(broker, Append(n, i))
        PROVE  r[2] = "partition"
    <3>1. i \in Nat /\ i < count
      BY <2>2
    <3>2. /\ Append(n, i) \in Names /\ IsPartitionName(Append(n, i))
          /\ PartitionIndex(Append(n, i)) < PartitionCount(broker, BaseName(Append(n, i)))
      BY <2>2, <3>1, PartitionOf, Zenon
    <3>. QED
      BY <2>1, <3>2, TopicAuto
  <2>. QED
    BY <2>3, <2>4, Zenon
<1>2. \A r \in Requests : r.name \in Names
  BY NamesAssumption, Zenon DEF Names
<1>3. TopicsInv => AnswerServed
  BY <1>1, <1>2, Zenon DEF AnswerServed
<1>. QED
  BY <1>3, TopicsInvAlways, PTL

\* A restart keeps the number of partitions of a topic that owns its name, whatever
\* default_partitions becomes, when the last write of the file succeeded.
THEOREM CountsSurvive == Spec => CountSurvives
<1>. DEFINE A == crashes' # crashes /\ ~broker.stale =>
                    \A n \in DOMAIN broker.partitioned :
                       OwnsItsName(broker.mem, n) =>
                          PartitionCount(broker', n) = broker.partitioned[n]
<1>1. TopicsInv /\ [Next]_vars => [A]_vars
  <2>. SUFFICES ASSUME TopicsInv, [Next]_vars, crashes' # crashes, ~broker.stale,
                       NEW n \in DOMAIN broker.partitioned, OwnsItsName(broker.mem, n)
                PROVE  PartitionCount(broker', n) = broker.partitioned[n]
    BY Zenon
  <2>1. ConsumersInv /\ BrokerOK(broker)
    BY Zenon DEF TopicsInv
  <2>2. PICK d \in Defaults : restart(d)
    BY <2>1, BrokerStays, Zenon
  <2>3. /\ n \in DOMAIN broker.metadata /\ broker.metadata[n] = broker.partitioned[n]
        /\ n \in DOMAIN broker.mem.topics /\ broker.mem.topics[n] = broker.partitioned[n]
        /\ broker.metadata[n] > 0 /\ Saved(broker.mem, broker.doc)
    BY <2>1, Zenon DEF BrokerOK, Consistent, Agree
  <2>4. /\ n \in DOMAIN broker.doc.partitioned
        /\ broker.doc.partitioned[n] = broker.partitioned[n]
    BY <2>3, Zenon DEF Saved
  <2>. QED
    BY <2>1, <2>2, <2>3, <2>4, RestartStep, Zenon
<1>. QED
  BY <1>1, TopicsInvAlways, PTL DEF Spec, CountSurvives

=============================================================================
