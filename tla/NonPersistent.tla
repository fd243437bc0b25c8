---------------------------- MODULE NonPersistent ----------------------------
(***************************************************************************)
(* A non-persistent topic: nothing is stored, a message is handed to a     *)
(* consumer at once or dropped.  topic.rs (publish_non_persistent, the     *)
(* fan-out worker), subscription.rs, non_persistent/runtime.rs and the     *)
(* four dispatchers under non_persistent/dispatcher/.                      *)
(*                                                                         *)
(* A publisher takes a snapshot of the topic's subscriptions under a read  *)
(* lock and queues the message with it later, without the lock.  One       *)
(* worker per topic drains the queue in batches, groups a batch by         *)
(* subscription, and offers each group's entries one by one to consumers   *)
(* under the subscription's read lock.  Flow commands run under the read   *)
(* lock too, in two halves; subscribing and leaving need the write lock.   *)
(*                                                                         *)
(* Messages are numbers; a producer's messages are sent in number order.   *)
(* All of them carry the id 0:0 of their partition, so that they are told  *)
(* apart here only.  Weight[m] is messages_in_batch.                       *)
(***************************************************************************)
EXTENDS KeyRanges, Sequences, FiniteSetsExt

CONSTANTS
    Subs,            \* subscriptions
    Kinds,           \* the functions from Subs to subscription types to start with
    Consumers,       \* consumer ids, which are numbers
    Nobody,
    SubOf,           \* SubOf[c]: the subscription consumer c belongs to
    Priority,        \* Priority[c]: priority_level
    PartitionIndex,  \* partition of the topic, -1 when it has none
    RingChoice,      \* RingChoice[S]: where the topic falls on the hash ring of S
    Producers,
    Messages,        \* bound: 1..N
    ProducerOf,
    HashOf,
    Weight,
    QueueCap,        \* NON_PERSISTENT_FANOUT_QUEUE_CAPACITY
    BatchMax,        \* NON_PERSISTENT_FANOUT_BATCH_MAX
    FlowSize,        \* permits of one Flow command
    PermitCap,       \* bound: permits a consumer asks for
    MaxClogs,        \* bound: times a connection stops taking messages
    MaxRemovals      \* bound: consumers that leave

VARIABLES
    kind,      \* subscription type of each subscription
    subs,      \* topic.subscriptions
    connected, \* consumers of all dispatchers
    permits,   \* available_permits of each consumer; a batch may overdraw it
    total,     \* total_available_permits of each dispatcher
    flowing,   \* consumers in the middle of a Flow: own permits added, aggregate not yet
    clogged,   \* consumers whose connection is not writable or has a full channel
    rr,        \* next_consumer_index of each Shared dispatcher
    pub,       \* what each publisher is doing
    queue,     \* the fan-out queue: message and snapshot
    groups,    \* the worker's batch, by subscription
    cur,       \* the group the worker is dispatching, its read lock held
    stats,     \* received, dispatched and dropped of each dispatcher
    sent,      \* history: <<message, consumer>> of each subscription, in order
    due,       \* history: <<message, subscription>> of the snapshots
    fate,      \* history: <<message, subscription, what became of it>>
    clogs, removals

netVars == <<clogged, clogs>>
pubVars == <<pub, due>>
histVars == <<sent, fate>>
flowVars == <<permits, total, flowing>>
workVars == <<queue, groups, cur, stats, histVars, rr>>
vars == <<kind, subs, connected, flowVars, netVars, pubVars, workVars, removals>>

\* The entry at the head of cur.entries has been offered to cur.off consumers; one is
\* selected in cur.pick (Key_Shared); cur.able are those that could have taken it
\* at any moment since its turn began (history).
NoGroup == [sub |-> "none", entries |-> <<>>, off |-> 0, pick |-> Nobody, able |-> {}]
NoStats == [received |-> 0, dispatched |-> 0, dropped |-> 0]
IdlePublisher == [msg |-> 0, snap |-> {}]

Of(s) == {c \in connected : SubOf[c] = s}
\* A runtime and its dispatcher exist as long as they have consumers.
HasRuntime(s) == Of(s) # {}
WriteLockFree(s) == cur.sub # s /\ \A c \in flowing : SubOf[c] # s
Counted(s) == kind[s] \in {"Shared", "KeyShared"}   \* dispatchers with an aggregate
Positive(n) == IF n > 0 THEN n ELSE 0
Published == {d[1] : d \in due}

Init ==
    /\ kind \in Kinds
    /\ subs = {} /\ connected = {} /\ permits = [c \in Consumers |-> 0]
    /\ total = [s \in Subs |-> 0] /\ flowing = {} /\ clogged = {} /\ clogs = 0
    /\ rr = [s \in Subs |-> 0] /\ pub = [p \in Producers |-> IdlePublisher]
    /\ queue = <<>> /\ groups = {} /\ cur = NoGroup /\ stats = [s \in Subs |-> NoStats]
    /\ sent = [s \in Subs |-> <<>>] /\ due = {} /\ fate = {} /\ removals = 0

----------------------------------------------------------------------------
(* Which consumer an entry is for. *)

\* Failover: the consumers of the least priority_level, one picked by the number of
\* the partition in name order, or else by the hash ring.
select_active_consumer_id(S) ==
    LET top == {c \in S : \A d \in S : Priority[c] <= Priority[d]}
    IN  IF PartitionIndex >= 0
        THEN CHOOSE c \in top : Index(c, top) = PartitionIndex % Cardinality(top)
        ELSE RingChoice[top]

\* The consumer that Exclusive and Failover dispatchers send to.
active(s) == IF kind[s] = "Failover" THEN select_active_consumer_id(Of(s))
             ELSE CHOOSE c \in Of(s) : TRUE

\* Shared: the i-th consumer in the order of priority and id, counted from 0.
ordered_consumers(s, i) ==
    CHOOSE c \in Of(s) :
        i = Cardinality({d \in Of(s) : \/ Priority[d] < Priority[c]
                                       \/ Priority[d] = Priority[c] /\ d < c})

Able(c) == permits[c] > 0 /\ c \notin clogged

Owns(c, m) == \E a \in Holding(auto_split(Of(SubOf[c])), HashOf[m]) : a[3] = c

\* Key_Shared: the first assignment that holds the key and whose consumer is able.
select_consumer(s, m) ==
    LET able == {a \in Holding(auto_split(Of(s)), HashOf[m]) : Able(a[3])}
    IN  IF able = {} THEN Nobody ELSE FirstOf(able)[3]

----------------------------------------------------------------------------
(* Consumers come, ask for messages, and leave. *)

\* get_or_create_subscription, under the topic's lock; the consumer is added later.
create_subscription(s) ==
    /\ s \notin subs
    /\ subs' = subs \cup {s}
    /\ UNCHANGED <<kind, connected, flowVars, netVars, pubVars, workVars, removals>>

\* No consumer is added twice, and Exclusive refuses a second one.
Admits(s, c) == c \notin Of(s) /\ (kind[s] = "Exclusive" => Of(s) = {})

\* Under the write lock.  The first consumer brings the runtime into being.
add_consumer(c) ==
    /\ SubOf[c] \in subs /\ WriteLockFree(SubOf[c]) /\ Admits(SubOf[c], c)
    /\ connected' = connected \cup {c}
    /\ UNCHANGED <<kind, subs, flowVars, netVars, pubVars, workVars, removals>>

\* The aggregate loses what the consumer had left.  The last consumer takes the
\* runtime along, with its counters.
remove_consumer(c) ==
    LET s == SubOf[c]
        final == Of(s) = {c}
    IN  /\ c \in connected /\ WriteLockFree(s)
        /\ removals < MaxRemovals /\ removals' = removals + 1
        /\ connected' = connected \ {c}
        /\ permits' = [permits EXCEPT ![c] = 0]
        /\ total' = [total EXCEPT ![s] = IF final \/ ~Counted(s) THEN 0
                                         ELSE Positive(@ - Positive(permits[c]))]
        /\ rr' = [rr EXCEPT ![s] = IF final THEN 0 ELSE @]
        /\ stats' = [stats EXCEPT ![s] = IF final THEN NoStats ELSE @]
        /\ UNCHANGED <<kind, subs, flowing, netVars, pubVars, queue, groups, cur, histVars>>

\* handle_flow, first half: add_permits.
add_permits(c) ==
    /\ c \in connected \ flowing
    /\ permits[c] + FlowSize <= PermitCap
    /\ permits' = [permits EXCEPT ![c] = @ + FlowSize]
    /\ flowing' = flowing \cup {c}
    /\ UNCHANGED <<kind, subs, connected, total, netVars, pubVars, workVars, removals>>

\* Second half: the dispatcher's aggregate.
consumer_flow(c) ==
    /\ c \in flowing
    /\ flowing' = flowing \ {c}
    /\ total' = [total EXCEPT ![SubOf[c]] = IF Counted(SubOf[c]) THEN @ + FlowSize ELSE 0]
    /\ UNCHANGED <<kind, subs, connected, permits, netVars, pubVars, workVars, removals>>

\* The connection of c stops taking messages: it is not writable, or its channel,
\* which other traffic fills too, is full.  It takes them again when it pleases.
Clog(c) ==
    /\ c \in connected \ clogged /\ clogs < MaxClogs
    /\ clogged' = clogged \cup {c} /\ clogs' = clogs + 1
    /\ cur' = [cur EXCEPT !.able = @ \ {c}]
    /\ UNCHANGED <<kind, subs, connected, flowVars, pubVars, queue, groups, stats, histVars, rr,
                   removals>>

Unclog(c) ==
    /\ c \in clogged
    /\ clogged' = clogged \ {c}
    /\ UNCHANGED <<kind, subs, connected, flowVars, clogs, pubVars, workVars, removals>>

----------------------------------------------------------------------------
(* Publishing. *)

\* prepare_non_persistent_publish: the snapshot, under the topic's read lock.  The
\* connection of a producer handles its next message after this one is queued.
prepare_publish(p, m) ==
    /\ pub[p] = IdlePublisher /\ ProducerOf[m] = p
    /\ \A i \in Messages : ProducerOf[i] = p /\ i < m => i \in Published
    /\ m \notin Published /\ subs # {}
    /\ pub' = [pub EXCEPT ![p] = [msg |-> m, snap |-> subs]]
    /\ due' = due \cup {<<m, s>> : s \in subs}
    /\ UNCHANGED <<kind, subs, connected, flowVars, netVars, workVars, removals>>

\* Mutant of fan_out: a message is put at the front of the queue.
FanOutFront(p) ==
    /\ pub[p] # IdlePublisher /\ Len(queue) < QueueCap
    /\ queue' = <<pub[p]>> \o queue
    /\ pub' = [pub EXCEPT ![p] = IdlePublisher]
    /\ UNCHANGED <<kind, subs, connected, flowVars, netVars, due, groups, cur, stats, histVars,
                   rr, removals>>

\* fan_out_non_persistent: it waits for room in the queue.
fan_out(p) ==
    /\ pub[p] # IdlePublisher /\ Len(queue) < QueueCap
    /\ queue' = Append(queue, pub[p])
    /\ pub' = [pub EXCEPT ![p] = IdlePublisher]
    /\ UNCHANGED <<kind, subs, connected, flowVars, netVars, due, groups, cur, stats, histVars,
                   rr, removals>>

----------------------------------------------------------------------------
(* The worker. *)

\* The jobs of a batch that carry subscription s, in job order.
EntriesFor(jobs, s) ==
    LET mine == SelectSeq(jobs, LAMBDA j : s \in j.snap)
    IN  [i \in DOMAIN mine |-> mine[i].msg]

\* dispatch_fanout_jobs, first half: the batch drained from the queue is grouped.
\* Groups are in the order of the first job that carries their subscription.
drain_queue ==
    /\ queue # <<>> /\ groups = {} /\ cur = NoGroup
    /\ LET n == Min({Len(queue), BatchMax})
           jobs == SubSeq(queue, 1, n)
       IN  /\ groups' = {[sub |-> s, entries |-> EntriesFor(jobs, s),
                          first |-> Min({i \in 1..n : s \in jobs[i].snap})] :
                         s \in UNION {jobs[i].snap : i \in 1..n}}
           /\ queue' = SubSeq(queue, n + 1, Len(queue))
    /\ UNCHANGED <<kind, subs, connected, flowVars, netVars, pubVars, cur, stats, histVars, rr,
                   removals>>

Settle(s, ms, how) == fate' = fate \cup {<<m, s, how>> : m \in ms}

\* The turn of the first of entries es begins.
Turn(s, es) == IF es = <<>> THEN NoGroup
               ELSE [sub |-> s, entries |-> es, off |-> 0, pick |-> Nobody,
                     able |-> {c \in Of(s) : Able(c)}]

\* A Key_Shared dispatcher whose aggregate reads zero drops a whole group.
GateClosed(s) == kind[s] = "KeyShared" /\ total[s] = 0

\* send_non_persistent_entries: without a runtime the entries vanish uncounted.  A
\* group dropped at the gate is counted in entries, not in messages.
send_entries(g) ==
    LET n == Len(g.entries)
        s == g.sub
        ms == {g.entries[i] : i \in 1..n}
    IN  /\ cur = NoGroup /\ g \in groups /\ \A h \in groups : g.first <= h.first
        /\ groups' = groups \ {g}
        /\ IF ~HasRuntime(s) THEN Settle(s, ms, "absent") /\ UNCHANGED <<cur, stats>>
           ELSE IF GateClosed(s)
           THEN /\ Settle(s, ms, "dropped") /\ UNCHANGED cur
                /\ stats' = [stats EXCEPT ![s].received = @ + n, ![s].dropped = @ + n]
           ELSE /\ stats' = [stats EXCEPT ![s].received = @ + n]
                /\ cur' = Turn(s, g.entries) /\ UNCHANGED fate
        /\ UNCHANGED <<kind, subs, connected, flowVars, netVars, pubVars, queue, sent, rr,
                       removals>>

Entry == cur.entries[1]

\* Key_Shared picks a consumer before it tries to reserve a dispatch.
pick_consumer ==
    /\ cur # NoGroup /\ kind[cur.sub] = "KeyShared" /\ cur.pick = Nobody
    /\ select_consumer(cur.sub, Entry) # Nobody
    /\ cur' = [cur EXCEPT !.pick = select_consumer(cur.sub, Entry)]
    /\ UNCHANGED <<kind, subs, connected, flowVars, netVars, pubVars, queue, groups, stats,
                   histVars, rr, removals>>

\* The consumer whose turn it is to be offered the entry.
Offered(s) == CASE kind[s] = "KeyShared" -> cur.pick
                [] kind[s] = "Shared" ->
                     ordered_consumers(s, (rr[s] + cur.off) % Cardinality(Of(s)))
                [] OTHER -> active(s)

\* How many consumers an entry is offered to.
Offers(s) == IF kind[s] = "Shared" THEN Cardinality(Of(s)) ELSE 1

\* On to the next entry of the group, with permits left.  Shared has counted its index up once.
NextEntry(s, left) ==
    /\ rr' = [rr EXCEPT ![s] = IF kind[s] = "Shared" THEN @ + 1 ELSE @]
    /\ cur' = [Turn(s, Tail(cur.entries)) EXCEPT !.able = {c \in @ : left[c] > 0}]

\* try_reserve_dispatch and send: one permit is enough, a batch takes its weight.
try_reserve_dispatch(s, c) ==
    /\ cur.sub = s /\ c = Offered(s) /\ c # Nobody /\ Able(c)
    /\ permits' = [permits EXCEPT ![c] = @ - Weight[Entry]]
    /\ total' = [total EXCEPT ![s] = IF Counted(s) THEN Positive(@ - Weight[Entry]) ELSE @]
    /\ sent' = [sent EXCEPT ![s] = Append(@, <<Entry, c>>)]
    /\ Settle(s, {Entry}, "sent")
    /\ stats' = [stats EXCEPT ![s].dispatched = @ + Weight[Entry]]
    /\ NextEntry(s, permits')
    /\ UNCHANGED <<kind, subs, connected, flowing, netVars, pubVars, queue, groups, removals>>

\* A refused consumer: permits taken on the way are given back, the next is tried.
try_next(s) ==
    /\ cur.sub = s /\ cur # NoGroup
    /\ Offered(s) # Nobody /\ ~Able(Offered(s)) /\ cur.off + 1 < Offers(s)
    /\ cur' = [cur EXCEPT !.off = @ + 1]
    /\ UNCHANGED <<kind, subs, connected, flowVars, netVars, pubVars, queue, groups, stats,
                   histVars, rr, removals>>

\* Mutant of record_drop: an entry is given up at the first refusal.
DropAtOnce(s) ==
    /\ cur.sub = s /\ cur # NoGroup
    /\ IF kind[s] = "KeyShared" /\ cur.pick = Nobody
       THEN select_consumer(s, Entry) = Nobody
       ELSE ~Able(Offered(s))
    /\ stats' = [stats EXCEPT ![s].dropped = @ + Weight[Entry]]
    /\ Settle(s, {Entry}, "dropped")
    /\ NextEntry(s, permits)
    /\ UNCHANGED <<kind, subs, connected, flowVars, netVars, pubVars, queue, groups, sent,
                   removals>>

\* Mutant of record_drop: the drop is not counted.
DropUncounted(s) ==
    /\ cur.sub = s /\ cur # NoGroup
    /\ IF kind[s] = "KeyShared" /\ cur.pick = Nobody
       THEN select_consumer(s, Entry) = Nobody
       ELSE ~Able(Offered(s)) /\ cur.off + 1 >= Offers(s)
    /\ Settle(s, {Entry}, "dropped")
    /\ NextEntry(s, permits)
    /\ UNCHANGED <<kind, subs, connected, flowVars, netVars, pubVars, queue, groups, sent,
                   stats, removals>>

\* Mutant of record_drop: an entry waits for a consumer that has permits.
DropNever(s) ==
    /\ cur.sub = s /\ cur # NoGroup /\ \E c \in Of(s) : permits[c] > 0
    /\ IF kind[s] = "KeyShared" /\ cur.pick = Nobody
       THEN select_consumer(s, Entry) = Nobody
       ELSE ~Able(Offered(s)) /\ cur.off + 1 >= Offers(s)
    /\ stats' = [stats EXCEPT ![s].dropped = @ + Weight[Entry]]
    /\ Settle(s, {Entry}, "dropped")
    /\ NextEntry(s, permits)
    /\ UNCHANGED <<kind, subs, connected, flowVars, netVars, pubVars, queue, groups, sent,
                   removals>>

\* The entry is dropped: nobody was selected, or the last one asked refused it.
record_drop(s) ==
    /\ cur.sub = s /\ cur # NoGroup
    /\ IF kind[s] = "KeyShared" /\ cur.pick = Nobody
       THEN select_consumer(s, Entry) = Nobody
       ELSE ~Able(Offered(s)) /\ cur.off + 1 >= Offers(s)
    /\ stats' = [stats EXCEPT ![s].dropped = @ + Weight[Entry]]
    /\ Settle(s, {Entry}, "dropped")
    /\ NextEntry(s, permits)
    /\ UNCHANGED <<kind, subs, connected, flowVars, netVars, pubVars, queue, groups, sent,
                   removals>>

Dispatch == \/ \E g \in groups : send_entries(g)
            \/ pick_consumer
            \/ \E s \in Subs : \/ \E c \in Consumers : try_reserve_dispatch(s, c)
                               \/ try_next(s)
                               \/ record_drop(s)

Next ==
    \/ \E s \in Subs : create_subscription(s)
    \/ \E c \in Consumers : \/ add_consumer(c) \/ remove_consumer(c)
                            \/ add_permits(c) \/ consumer_flow(c)
                            \/ Clog(c) \/ Unclog(c)
    \/ \E p \in Producers : \/ \E m \in Messages : prepare_publish(p, m)
                            \/ fan_out(p)
    \/ drain_queue
    \/ Dispatch

Spec == Init /\ [][Next]_vars

\* The worker and the handlers that have begun go on.  Consumers owe nothing: none
\* need ask for messages, read its connection, or leave.
FairSpec ==
    /\ Spec
    /\ WF_vars(drain_queue) /\ WF_vars(Dispatch)
    /\ \A p \in Producers : WF_vars(fan_out(p))

----------------------------------------------------------------------------
(* Properties. *)

\* What a producer sends reaches a subscription's consumers in the order it was sent,
\* whichever of them gets it and however batches were cut; and no message reaches a
\* subscription twice or is both sent and dropped.
InOrderOnce ==
    /\ \A s \in Subs : \A i, j \in DOMAIN sent[s] :
          i < j => /\ sent[s][i][1] # sent[s][j][1]
                   /\ ProducerOf[sent[s][i][1]] = ProducerOf[sent[s][j][1]]
                         => sent[s][i][1] < sent[s][j][1]
    /\ \A f, g \in fate : f[1] = g[1] /\ f[2] = g[2] => f = g

\* An entry is dropped only when, at some moment of its turn, each consumer it could
\* go to was out of permits or clogged.  (A Key_Shared dispatcher drops a group
\* before any turn when its aggregate reads zero, able consumers or not.)
NoNeedlessDrop ==
    [][\A s \in Subs :
          cur # NoGroup /\ cur.sub = s /\ (<<Entry, s, "dropped">> \in fate') =>
             CASE kind[s] = "Shared" -> cur.able = {}
               [] kind[s] = "KeyShared" -> \A c \in cur.able : ~Owns(c, Entry)
               [] OTHER -> active(s) \notin cur.able]_vars

\* Whatever reached a dispatcher shows in its counters once the group is done.
NothingUncounted ==
    \A s \in Subs : cur.sub # s =>
        stats[s].received <= stats[s].dispatched + stats[s].dropped

\* An accepted message is settled for every subscription of its snapshot, though
\* consumers may never ask for a message or read one: the worker never waits for them.
WorkerNeverBlocks ==
    \A m \in Messages :
        (m \in Published) ~> (\A d \in due : d[1] = m => \E f \in fate : f[1] = m /\ f[2] = d[2])

=============================================================================
