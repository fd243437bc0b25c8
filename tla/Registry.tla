------------------------------ MODULE Registry ------------------------------
(***************************************************************************)
(* Who knows which topic, subscription and consumer: BrokerService, Topic, *)
(* Subscription and the handlers of Subscribe, Unsubscribe, CloseConsumer  *)
(* and Producer, with the metadata file and the cursors in the store.      *)
(*                                                                         *)
(* Connections run one handler at a time, and a handler is cut where it    *)
(* waits for a lock another handler may hold: the broker's, a topic's, a   *)
(* subscription's.  What a handler holds and what it waits for follows     *)
(* from where it is (Holds, Wants).  The mutex of the storage is taken     *)
(* last and given back before any other wait, so it needs no step.         *)
(*                                                                         *)
(* All topics are persistent and partitions of one topic, with one         *)
(* subscription name.  A subscription is an object: one that is removed    *)
(* from its topic lives on as long as a consumer refers to it.  A crash    *)
(* leaves the metadata file and the cursors.                               *)
(***************************************************************************)
EXTENDS TopicMetadata, FiniteSets

CONSTANTS
    Conns,       \* connections
    Tasks,       \* dispatch tasks
    Requests,    \* Subscribe commands: topic name, consumer id, subscription type
    Produced,    \* topic names of Producer commands
    Defaults,    \* values of default_partitions the broker is started with
    MaxCommands, MaxCrashes, MaxFaults    \* bounds

ASSUME NamesAssumption ==
    /\ \A r \in Requests : r.name \in Seq(Nat)
    /\ Produced \subseteq Seq(Nat) /\ Defaults \subseteq Nat

VARIABLES
    broker,      \* BrokerService and the metadata store, see Start
    registered,  \* subscriptions the topics know: topic object -> subscription
    objects,     \* the subscriptions made so far
    held,        \* consumers of the connections: id -> subscription
    cursors,     \* topics whose subscription has a cursor in the store
    job,         \* what each connection and task is doing
    commands, crashes

vars == <<broker, registered, objects, held, cursors, job, commands, crashes>>

Ids == {r.id : r \in Requests}
Procs == Conns \cup Tasks
NoDocument == [topics |-> {}, subs |-> {}, partitioned |-> <<>>]
Idle == [op |-> "idle", at |-> "none"]

(***************************************************************************)
(* The broker's record: its configuration; topics, partitioned and         *)
(* metadata, the maps of BrokerService; mem, the metadata in memory; doc,  *)
(* the metadata file; stale: the last attempt to write doc failed.         *)
(***************************************************************************)
StartWithoutRestore(d, doc, faults) ==
    [default |-> d, topics |-> {}, partitioned |-> <<>>, metadata |-> <<>>,
     mem |-> apply_metadata_document(doc), doc |-> doc, stale |-> FALSE, faults |-> faults]

Start(d, doc, faults) ==
    LET mem == apply_metadata_document(doc)
    IN  [default |-> d, topics |-> {}, partitioned |-> <<>>,
         metadata |-> get_partitioned_topic_metadata(mem),
         mem |-> mem, doc |-> doc, stale |-> FALSE, faults |-> faults]

Init ==
    /\ broker \in {Start(d, NoDocument, 0) : d \in Defaults}
    /\ registered = <<>> /\ objects = <<>> /\ cursors = {}
    /\ held = [c \in Conns |-> <<>>]
    /\ job = [p \in Procs |-> Idle]
    /\ commands = 0 /\ crashes = 0

(***************************************************************************)
(* The topics.  An operator maps a broker to the set of brokers it may     *)
(* become: writing the file may fail, which is logged and forgotten.  The  *)
(* file is written beside the old one and renamed, so a crash leaves one   *)
(* document or the other.                                                  *)
(***************************************************************************)
Faulty(b) == b.faults < MaxFaults
persist_document(b, mem) ==
    LET saved(d) == [b EXCEPT !.mem = mem, !.doc = d, !.stale = FALSE]
        failed == [b EXCEPT !.mem = mem, !.stale = TRUE, !.faults = @ + 1]
    IN  {saved(d) : d \in Documents(mem)} \cup (IF Faulty(b) THEN {failed} ELSE {})

Save(b, mem) == IF mem = b.mem THEN {b} ELSE persist_document(b, mem)
ensure_topic(b, n, count) == Save(b, upsert_topic_metadata(b.mem, n, count))
ensure_subscription(b, n) ==
    Save(b, insert_subscription_metadata(upsert_topic_metadata(b.mem, n, 0), n))

get_or_create_topic(b, n) ==
    IF n \in b.topics THEN {b}
    ELSE {[e EXCEPT !.topics = @ \cup {n}] : e \in ensure_topic(b, n, 0)}

get_or_create_partitioned_topic(b, n, count) ==
    IF n \in DOMAIN b.partitioned THEN {b}
    ELSE {[e EXCEPT !.partitioned = Put(@, n, count), !.metadata = Put(@, n, count)] :
             e \in ensure_topic(b, n, count)}

PartitionCount(b, n) == IF n \in DOMAIN b.metadata THEN b.metadata[n] ELSE b.default
should_be_partitioned(b, n) ==
    n \in DOMAIN b.metadata \/ n \in DOMAIN b.partitioned \/ b.default > 0

\* The topic object a name stands for: a plain topic, a partition, or the
\* partitioned topic as a whole.
TopicOf(b, n) ==
    IF should_be_partitioned(b, n)
    THEN {<<e, "partitioned">> :
             e \in get_or_create_partitioned_topic(b, n, PartitionCount(b, n))}
    ELSE {<<e, "plain">> : e \in get_or_create_topic(b, n)}

\* A partitioned topic of count partitions has the partitions 0..count - 1.
get_partition(b, n) == PartitionIndex(n) < b.partitioned[BaseName(n)]

AutoByDefault(b, n) ==
    IF IsPartitionName(n) /\ b.default > 0
    THEN UNION {IF get_partition(e, n)
                THEN {<<e, "partition">>} ELSE TopicOf(e, n) :
                   e \in get_or_create_partitioned_topic(b, BaseName(n), b.default)}
    ELSE TopicOf(b, n)

get_or_create_topic_auto(b, n) ==
    IF IsPartitionName(n) /\ PartitionCount(b, BaseName(n)) > 0
    THEN UNION {IF get_partition(e, n)
                THEN {<<e, "partition">>} ELSE TopicOf(e, n) :
                   e \in get_or_create_partitioned_topic(b, BaseName(n),
                                                         PartitionCount(b, BaseName(n)))}
    ELSE TopicOf(b, n)

\* The number of partitions a PartitionMetadata command is answered with, and
\* the topic Unsubscribe finds: partitions are not among the topics.
get_partition_metadata_response_count(b, n) ==
    CASE n \in DOMAIN b.metadata -> b.metadata[n]
      [] n \notin DOMAIN b.metadata /\ (n \in DOMAIN b.partitioned \/ b.default > 0) -> b.default
      [] OTHER -> 0
get_topic(b, n) == n \in b.topics

(***************************************************************************)
(* Locks.  Locks of topics and subscriptions are taken after the broker's, *)
(* and a subscription's after its topic's; a handler that takes one after  *)
(* giving up the others may take them in any order.                        *)
(***************************************************************************)
BrokerLock == <<"broker">>
TopicLock(t) == <<"topic", t>>
SubscriptionLock(o) == <<"subscription", o>>
Lock(l, mode) == [lock |-> l, mode |-> mode]

\* Unsubscribe as it would be if it kept the subscription locked to the end.
HoldsToTheEnd(j) ==
    CASE j.op = "subscribe" /\ j.at = "topic" -> {Lock(BrokerLock, "W")}
      [] j.op = "subscribe" /\ j.at = "subscription" ->
            {Lock(BrokerLock, "W"), Lock(TopicLock(j.topic), "W")}
      [] j.op = "dispatch" /\ j.at = "subscription" -> {Lock(TopicLock(j.topic), "R")}
      [] j.op = "unsubscribe" /\ j.at \in {"broker", "topic"} ->
            {Lock(SubscriptionLock(j.sub), "W")}
      [] OTHER -> {}

Holds(j) ==
    CASE j.op = "subscribe" /\ j.at = "topic" -> {Lock(BrokerLock, "W")}
      [] j.op = "subscribe" /\ j.at = "subscription" ->
            {Lock(BrokerLock, "W"), Lock(TopicLock(j.topic), "W")}
      [] j.op = "dispatch" /\ j.at = "subscription" -> {Lock(TopicLock(j.topic), "R")}
      [] OTHER -> {}

Wants(j) ==
    CASE j.at = "broker" ->
            {Lock(BrokerLock, IF j.op = "unsubscribe" THEN "R" ELSE "W")}
      [] j.at = "topic" -> {Lock(TopicLock(j.topic), IF j.op = "dispatch" THEN "R" ELSE "W")}
      [] j.at = "subscription" ->
            {Lock(SubscriptionLock(j.sub), IF j.op \in {"dispatch", "read"} THEN "R" ELSE "W")}
      [] OTHER -> {}

Conflict(a, b) == a.lock = b.lock /\ "W" \in {a.mode, b.mode}

\* p is about to do the next step of op, and no other holds the lock it needs.
Turn(p, op, at) ==
    /\ job[p].op = op /\ job[p].at = at
    /\ \A q \in Procs \ {p} : \A a \in Holds(job[q]), b \in Wants(job[p]) : ~Conflict(a, b)

Goto(p, j) == job' = [job EXCEPT ![p] = j]
Done(p) == job' = [job EXCEPT ![p] = Idle]

\* A handler that returns an error ends the connection: what is left of its
\* consumers is cleaned up.
Fail(c) == Goto(c, [op |-> "cleanup", at |-> "next"])

Command(c) ==
    /\ c \in Conns /\ job[c] = Idle
    /\ commands < MaxCommands /\ commands' = commands + 1

(***************************************************************************)
(* Subscribe.  The broker stays locked to the end, the topic from the      *)
(* moment its subscription is looked up.                                   *)
(***************************************************************************)
subscribe(c, r) ==
    /\ Command(c)
    /\ r.id \notin DOMAIN held[c]
    /\ Goto(c, [op |-> "subscribe", at |-> "broker", name |-> r.name, id |-> r.id,
                type |-> r.type])
    /\ UNCHANGED <<broker, registered, objects, held, cursors, crashes>>

subscribe_topic(c) ==
    /\ Turn(c, "subscribe", "broker")
    /\ \E r \in get_or_create_topic_auto(broker, job[c].name) :
          /\ broker' = r[1]
          /\ IF r[2] = "partitioned"
             THEN Fail(c)
             ELSE Goto(c, [op |-> "subscribe", at |-> "topic", topic |-> <<r[2], job[c].name>>,
                           id |-> job[c].id, type |-> job[c].type])
    /\ UNCHANGED <<registered, objects, held, cursors, commands, crashes>>

Opened(c, o) ==
    Goto(c, [op |-> "subscribe", at |-> "subscription", topic |-> job[c].topic, sub |-> o,
             id |-> job[c].id])

\* A cursor that is there is opened, else one is made; the store may fail.
open_subscription_cursor(c) ==
    \/ /\ broker' \in ensure_subscription(broker, job[c].topic[2])
       /\ cursors' = cursors \cup {job[c].topic[2]}
       /\ objects' = Append(objects, [topic |-> job[c].topic, type |-> job[c].type,
                                      consumers |-> <<>>])
       /\ registered' = Put(registered, job[c].topic, Len(objects'))
       /\ Opened(c, Len(objects'))
    \/ /\ Faulty(broker)
       /\ broker' \in {[b EXCEPT !.faults = @ + 1] :
                          b \in ensure_subscription(broker, job[c].topic[2])}
       /\ Fail(c)
       /\ UNCHANGED <<registered, objects, cursors>>

get_or_create_subscription(c) ==
    /\ Turn(c, "subscribe", "topic")
    /\ IF job[c].topic \in DOMAIN registered
       THEN /\ Opened(c, registered[job[c].topic])
            /\ UNCHANGED <<broker, registered, objects, cursors>>
       ELSE open_subscription_cursor(c)
    /\ UNCHANGED <<held, commands, crashes>>

AcceptsAny(o, id) == o.type = "Exclusive" => o.consumers = <<>>

Accepts(o, id) ==
    IF o.type = "Exclusive" THEN o.consumers = <<>> ELSE id \notin DOMAIN o.consumers

Joined(o, id, c) == [objects EXCEPT ![o].consumers = Put(@, id, c)]

add_consumer(c) ==
    /\ Turn(c, "subscribe", "subscription")
    /\ LET o == job[c].sub
           id == job[c].id
       IN  IF Accepts(objects[o], id)
           THEN /\ objects' = Joined(o, id, c)
                /\ held' = [held EXCEPT ![c] = Put(@, id, o)]
                /\ Done(c)
           ELSE /\ Fail(c)
                /\ UNCHANGED <<objects, held>>
    /\ UNCHANGED <<broker, registered, cursors, commands, crashes>>

(***************************************************************************)
(* CloseConsumer, and the cleanup of a connection.  The consumer leaves    *)
(* the connection's map first, and its subscription once that is free.     *)
(***************************************************************************)
Without(f, k) == [x \in DOMAIN f \ {k} |-> f[x]]
Release(c, op, id) ==
    /\ held' = [held EXCEPT ![c] = Without(@, id)]
    /\ Goto(c, [op |-> op, at |-> "subscription", id |-> id, sub |-> held[c][id]])
Removed(j) == [objects EXCEPT ![j.sub].consumers = Without(@, j.id)]

close_consumer(c, id) ==
    /\ Command(c) /\ id \in DOMAIN held[c]
    /\ Release(c, "close", id)
    /\ UNCHANGED <<broker, registered, objects, cursors, crashes>>

remove_consumer(c) ==
    /\ Turn(c, "close", "subscription")
    /\ objects' = Removed(job[c])
    /\ Done(c)
    /\ UNCHANGED <<broker, registered, held, cursors, commands, crashes>>

disconnect(c) ==
    /\ Command(c) /\ Fail(c)
    /\ UNCHANGED <<broker, registered, objects, held, cursors, crashes>>

cleanup(c) ==
    /\ job[c].op = "cleanup" /\ job[c].at = "next"
    /\ IF held[c] = <<>>
       THEN Done(c) /\ UNCHANGED held
       ELSE \E id \in DOMAIN held[c] : Release(c, "cleanup", id)
    /\ UNCHANGED <<broker, registered, objects, cursors, commands, crashes>>

cleanup_consumer(c) ==
    /\ Turn(c, "cleanup", "subscription")
    /\ objects' = Removed(job[c])
    /\ Fail(c)
    /\ UNCHANGED <<broker, registered, held, cursors, commands, crashes>>

(***************************************************************************)
(* Unsubscribe.  With the subscription locked its consumer is removed and  *)
(* its cursor deleted; then the topic is looked up among the plain topics, *)
(* and the subscription removed from it by name.                           *)
(***************************************************************************)
unsubscribe(c, id) ==
    /\ Command(c) /\ id \in DOMAIN held[c]
    /\ Release(c, "unsubscribe", id)
    /\ UNCHANGED <<broker, registered, objects, cursors, crashes>>

unsubscribe_consumer(c) ==
    /\ Turn(c, "unsubscribe", "subscription")
    /\ objects' = Removed(job[c])
    /\ LET topic == objects[job[c].sub].topic
       IN  \/ /\ cursors' = cursors \ {topic[2]}
              /\ Goto(c, [op |-> "unsubscribe", at |-> "broker", sub |-> job[c].sub,
                          name |-> topic[2]])
              /\ UNCHANGED broker
           \/ /\ Faulty(broker)
              /\ broker' = [broker EXCEPT !.faults = @ + 1]
              /\ Fail(c)
              /\ UNCHANGED cursors
    /\ UNCHANGED <<registered, held, commands, crashes>>

unsubscribe_topic(c) ==
    /\ Turn(c, "unsubscribe", "broker")
    /\ IF get_topic(broker, job[c].name)
       THEN Goto(c, [op |-> "unsubscribe", at |-> "topic", sub |-> job[c].sub,
                     topic |-> <<"plain", job[c].name>>])
       ELSE Done(c)
    /\ UNCHANGED <<broker, registered, objects, held, cursors, commands, crashes>>

remove_subscription(c) ==
    /\ Turn(c, "unsubscribe", "topic")
    /\ registered' = Without(registered, job[c].topic)
    /\ Done(c)
    /\ UNCHANGED <<broker, objects, held, cursors, commands, crashes>>

(***************************************************************************)
(* Commands of a consumer.  Flow and GetLastMessageId read the             *)
(* subscription.  Ack, Seek and Redeliver write to it, and the first two   *)
(* write the cursor of its name, which makes one where there is none.      *)
(***************************************************************************)
consumer_command(c, id) ==
    /\ Command(c) /\ id \in DOMAIN held[c]
    /\ \E op \in {"read", "write"} :
          Goto(c, [op |-> op, at |-> "subscription", sub |-> held[c][id]])
    /\ UNCHANGED <<broker, registered, objects, held, cursors, crashes>>

read_subscription(c) ==
    /\ Turn(c, "read", "subscription")
    /\ Done(c)
    /\ UNCHANGED <<broker, registered, objects, held, cursors, commands, crashes>>

write_subscription(c) ==
    /\ Turn(c, "write", "subscription")
    /\ cursors' \in {cursors, cursors \cup {objects[job[c].sub].topic[2]}}
    /\ Done(c)
    /\ UNCHANGED <<broker, registered, objects, held, commands, crashes>>

(***************************************************************************)
(* Producer, which gives up the broker before it takes the topic.  The     *)
(* topic's map of producers is read by statistics only.                    *)
(***************************************************************************)
produce(c, n) ==
    /\ Command(c)
    /\ Goto(c, [op |-> "produce", at |-> "broker", name |-> n])
    /\ UNCHANGED <<broker, registered, objects, held, cursors, crashes>>

produce_topic(c) ==
    /\ Turn(c, "produce", "broker")
    /\ \E r \in get_or_create_topic_auto(broker, job[c].name) :
          /\ broker' = r[1]
          /\ IF r[2] = "partitioned"
             THEN Fail(c)
             ELSE Goto(c, [op |-> "produce", at |-> "topic", topic |-> <<r[2], job[c].name>>])
    /\ UNCHANGED <<registered, objects, held, cursors, commands, crashes>>

add_producer(c) ==
    /\ Turn(c, "produce", "topic")
    /\ Done(c)
    /\ UNCHANGED <<broker, registered, objects, held, cursors, commands, crashes>>

(***************************************************************************)
(* The dispatch that a Send sets off, in a task of its own.                *)
(***************************************************************************)
spawn_dispatcher(t) ==
    /\ job[t] = Idle
    /\ commands < MaxCommands /\ commands' = commands + 1
    /\ \E k \in DOMAIN registered : Goto(t, [op |-> "dispatch", at |-> "topic", topic |-> k])
    /\ UNCHANGED <<broker, registered, objects, held, cursors, crashes>>

dispatch_to_subscriptions(t) ==
    /\ Turn(t, "dispatch", "topic")
    /\ IF job[t].topic \in DOMAIN registered
       THEN Goto(t, [op |-> "dispatch", at |-> "subscription", topic |-> job[t].topic,
                     sub |-> registered[job[t].topic]])
       ELSE Done(t)
    /\ UNCHANGED <<broker, registered, objects, held, cursors, commands, crashes>>

dispatch_messages(t) ==
    /\ Turn(t, "dispatch", "subscription")
    /\ Done(t)
    /\ UNCHANGED <<broker, registered, objects, held, cursors, commands, crashes>>

restart(d) ==
    /\ crashes < MaxCrashes /\ crashes' = crashes + 1
    /\ broker' = Start(d, broker.doc, broker.faults)
    /\ registered' = <<>> /\ objects' = <<>>
    /\ held' = [c \in Conns |-> <<>>]
    /\ job' = [p \in Procs |-> Idle]
    /\ UNCHANGED <<cursors, commands>>

Next ==
    \/ \E c \in Conns :
          \/ \E r \in Requests : subscribe(c, r)
          \/ \E id \in Ids : close_consumer(c, id) \/ unsubscribe(c, id) \/ consumer_command(c, id)
          \/ \E n \in Produced : produce(c, n)
          \/ subscribe_topic(c) \/ get_or_create_subscription(c) \/ add_consumer(c)
          \/ remove_consumer(c) \/ disconnect(c) \/ cleanup(c) \/ cleanup_consumer(c)
          \/ unsubscribe_consumer(c) \/ unsubscribe_topic(c) \/ remove_subscription(c)
          \/ read_subscription(c) \/ write_subscription(c) \/ produce_topic(c) \/ add_producer(c)
    \/ \E t \in Tasks :
          spawn_dispatcher(t) \/ dispatch_to_subscriptions(t) \/ dispatch_messages(t)
    \/ \E d \in Defaults : restart(d)

Spec == Init /\ [][Next]_vars

-----------------------------------------------------------------------------
(***************************************************************************)
(* Handlers never wait for each other in a circle, neither for a lock that *)
(* another holds nor behind a writer that waits for it: in every set of    *)
(* busy handlers one can go on.  The handlers of subscribe, unsubscribe    *)
(* and dispatch take the locks of broker, topic and subscription.          *)
(***************************************************************************)
Blocks(q, p) ==
    \/ \E a \in Holds(job[q]), b \in Wants(job[p]) : Conflict(a, b)
    \/ q # p /\ \E a \in Wants(job[q]), b \in Wants(job[p]) : Conflict(a, b) /\ b.mode = "R"
NoWaitCycle ==
    \A S \in SUBSET {p \in Procs : job[p] # Idle} :
       S # {} => \E p \in S : \A q \in S : ~Blocks(q, p)

(***************************************************************************)
(* A connection's consumers are the ones subscriptions have of it: each    *)
(* consumer in a connection's map is in the subscription it refers to, and *)
(* a subscription has no consumer but those, and the ones whose removal    *)
(* waits for its lock.  add_consumer, close, unsubscribe and cleanup each  *)
(* change the two maps apart, and by an id that clients choose.            *)
(***************************************************************************)
ConsumersMatch ==
    /\ \A c \in Conns : \A id \in DOMAIN held[c] :
          LET f == objects[held[c][id]].consumers
          IN  id \in DOMAIN f /\ f[id] = c
    /\ \A o \in 1..Len(objects) : \A id \in DOMAIN objects[o].consumers :
          LET c == objects[o].consumers[id]
          IN  \/ id \in DOMAIN held[c] /\ held[c][id] = o
              \/ /\ job[c].op \in {"close", "unsubscribe", "cleanup"}
                 /\ job[c].at = "subscription" /\ job[c].id = id /\ job[c].sub = o

(***************************************************************************)
(* A ledger has one topic object: no name is both a plain topic and a      *)
(* partition of a partitioned topic, whatever clients ask for and however  *)
(* the configuration changed at a restart (get_or_create_topic_auto).      *)
(***************************************************************************)
OneTopicPerLedger ==
    \A n \in broker.topics :
       ~ /\ IsPartitionName(n) /\ BaseName(n) \in DOMAIN broker.partitioned
         /\ PartitionIndex(n) < broker.partitioned[BaseName(n)]

(***************************************************************************)
(* What a client learns from PartitionMetadata about a topic is what its   *)
(* Subscribe or Producer then finds: a plain topic when the answer was 0,  *)
(* else all the partitions, whichever of metadata, default and topics made *)
(* by other clients each handler goes by.                                  *)
(***************************************************************************)
AnswerServed ==
    \A n \in {r.name : r \in Requests} : ~IsPartitionName(n) =>
       LET count == get_partition_metadata_response_count(broker, n)
       IN  IF count = 0
           THEN \A r \in get_or_create_topic_auto(broker, n) : r[2] = "plain"
           ELSE \A i \in 0..(count - 1) :
                   \A r \in get_or_create_topic_auto(broker, Append(n, i)) : r[2] = "partition"

(***************************************************************************)
(* A restart keeps the number of partitions of every partitioned topic     *)
(* that owns its name, whatever default_partitions is afterwards, unless   *)
(* the last write of the file failed.                                      *)
(***************************************************************************)
CountSurvives ==
    [][crashes' # crashes /\ ~broker.stale =>
          \A n \in DOMAIN broker.partitioned :
             OwnsItsName(broker.mem, n) =>
                PartitionCount(broker', n) = broker.partitioned[n]]_vars

(***************************************************************************)
(* An Exclusive subscription has one consumer: no two subscriptions of a   *)
(* topic with the same name have a consumer each.                          *)
(***************************************************************************)
ExclusiveHasOneConsumer ==
    \A o, p \in 1..Len(objects) :
       /\ objects[o].topic = objects[p].topic
       /\ objects[o].type = "Exclusive" /\ objects[p].type = "Exclusive"
       /\ objects[o].consumers # <<>> /\ objects[p].consumers # <<>>
       => o = p
=============================================================================
