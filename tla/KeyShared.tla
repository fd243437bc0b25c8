------------------------------ MODULE KeyShared ------------------------------
(***************************************************************************)
(* A persistent Key_Shared subscription: dispatcher/key_shared.rs and      *)
(* sticky_key.rs over RedeliveryController.  Every message has a sticky    *)
(* key hash, every consumer ranges of hashes, and a message goes to a      *)
(* consumer whose range holds its hash.  While a message is delivered      *)
(* again, later ones of its hash are set aside.                            *)
(*                                                                         *)
(* As for the other subscriptions, dispatch tasks run under the READ lock, *)
(* here with nothing to keep two of them apart, and the handlers that      *)
(* remove or redeliver dispatch themselves under the WRITE lock.           *)
(* next_unacked_candidate is one step here; SingleActive takes it apart.   *)
(* Messages are numbered in log order; each takes one permit.              *)
(***************************************************************************)
EXTENDS RedeliveryController, KeyRanges

CONSTANTS
    Consumers,       \* consumer ids, which are numbers
    Nobody,
    Tasks,           \* bound: dispatch tasks spawned and not finished
    Policies,        \* key_shared_policy of the dispatcher: mode, block_hashes
    HashOf,          \* HashOf[m]: sticky_key_hash_from_metadata of message m
    MaxMessages,     \* bound: messages appended
    BatchSize,       \* DISPATCHER_MAX_ROUND_ROBIN_BATCH_SIZE
    Modulus,         \* the u32 counter of a batch wraps around at Modulus
    FlowSize,        \* permits of one Flow command
    PermitCap,       \* bound: permits a consumer asks for
    MaxDisturbances  \* bound: removals and redeliveries; a fault (a refused send, a
                     \* storage error, a seek) is the last of them

ASSUME SpaceAssumption == Hashes = 0..(HashSpace - 1)

ASSUME ConsumersAssumption ==
    Consumers \subseteq Nat /\ Nobody \notin Consumers /\ DOMAIN StickyRanges = Consumers

ASSUME MessagesAssumption ==
    MaxMessages \in Nat /\ \A m \in 1..MaxMessages : HashOf[m] \in Hashes

ASSUME PoliciesAssumption ==
    Policies \subseteq [mode : {"AutoSplit", "Sticky"}, block_hashes : BOOLEAN]

VARIABLES
    policy,     \* key_shared_policy
    last,       \* messages 1..last are appended
    acked,      \* the cursor
    readPos,    \* read_position, 0 for None
    rc,         \* redelivery_controller
    connected,  \* consumers_by_id
    permits,    \* available_permits of each consumer
    pending,    \* pending_acks of each consumer: message -> redelivery count
    total,      \* total_available_permits
    task,       \* the dispatch tasks
    handler,    \* what each consumer's connection is in the middle of
    given,      \* history: messages delivered since the last seek
    dropped,    \* history: messages whose pending ack a seek's second drain took
    disturbed

vars == <<policy, last, acked, readPos, rc, connected, permits, pending, total,
          task, handler, given, dropped, disturbed>>

\* A task: where it is, whether it runs under the write lock, its consumer, the
\* message in hand with its count, whether that was read from the log, the queued
\* messages yet to look at, sends left in the batch, and whether it made progress.
IdleTask == [pc |-> "idle", write |-> FALSE, cons |-> Nobody, msg |-> 0, count |-> 0,
             fresh |-> FALSE, scan |-> {}, left |-> 0, any |-> FALSE]

Running(t) == task[t].pc \notin {"idle", "spawned"}
WriteLockFree == \A t \in Tasks : ~Running(t)
ReadLockFree == \A t \in Tasks : Running(t) => ~task[t].write

logVars == <<policy, last, acked>>
permitVars == <<permits, total>>
histVars == <<given, dropped>>

Disturb == disturbed < MaxDisturbances /\ disturbed' = disturbed + 1
Fault == disturbed < MaxDisturbances /\ disturbed' = MaxDisturbances

None == <<"none", 0>>
Acking(m) == <<"ack", m>>
Seeking == <<"seek", 0>>
Ready(c) == c \in connected /\ handler[c] = None

FirstUnacked(acks) == IF (1..last) \subseteq acks THEN 0 ELSE Min((1..last) \ acks)

----------------------------------------------------------------------------
(* Which consumer a hash belongs to. *)

active_assignments == IF policy.mode = "AutoSplit" THEN auto_split(connected)
                      ELSE sticky(connected)

Owns(c, h) == \E a \in Holding(active_assignments, h) : a[3] = c

\* select_consumer_for_hash: the first assignment, in the order they are kept, that
\* holds the hash and whose consumer has permits.
select_consumer_for_hash(h) ==
    LET able == {a \in Holding(active_assignments, h) : permits[a[3]] > 0}
    IN  IF able = {} THEN Nobody ELSE FirstOf(able)[3]

----------------------------------------------------------------------------
Spawn(t) == task[t].pc = "idle" /\ task' = [task EXCEPT ![t].pc = "spawned"]

DispatchLocked(t) ==
    /\ task[t].pc = "idle"
    /\ task' = [task EXCEPT ![t].pc = "batch", ![t].write = TRUE]

NoPending == [m \in {} |-> 0]

Init ==
    /\ policy \in Policies
    /\ last = 0 /\ acked = {} /\ readPos = 0 /\ rc = new(policy.block_hashes)
    /\ connected = {} /\ permits = [c \in Consumers |-> 0]
    /\ pending = [c \in Consumers |-> NoPending] /\ total = 0
    /\ task = [t \in Tasks |-> IdleTask] /\ handler = [c \in Consumers |-> None]
    /\ given = {} /\ dropped = {} /\ disturbed = 0

----------------------------------------------------------------------------
(* Handlers. *)

Publish(t) ==
    /\ last < MaxMessages
    /\ last' = last + 1
    /\ Spawn(t)
    /\ UNCHANGED <<policy, acked, readPos, rc, connected, permitVars, pending, handler,
                   histVars, disturbed>>

\* A consumer without a policy counts as AutoSplit.
has_same_key_shared_policy(p) == policy.mode = IF p = "none" THEN "AutoSplit" ELSE p

\* Mutant of add_consumer: it does not wait for the dispatch tasks.
AddUnlocked(c) ==
    /\ ReadLockFree /\ c \notin connected
    /\ \E p \in {"none", "AutoSplit", "Sticky"} : has_same_key_shared_policy(p)
    /\ connected' = connected \cup {c}
    /\ UNCHANGED <<logVars, readPos, rc, permitVars, pending, task, handler, histVars,
                   disturbed>>

add_consumer(c) ==
    /\ WriteLockFree /\ c \notin connected
    /\ \E p \in {"none", "AutoSplit", "Sticky"} : has_same_key_shared_policy(p)
    /\ connected' = connected \cup {c}
    /\ UNCHANGED <<logVars, readPos, rc, permitVars, pending, task, handler, histVars,
                   disturbed>>

handle_flow(c, t) ==
    /\ ReadLockFree /\ Ready(c)
    /\ permits[c] + FlowSize <= PermitCap
    /\ permits' = [permits EXCEPT ![c] = @ + FlowSize]
    /\ total' = total + FlowSize
    /\ Spawn(t)
    /\ UNCHANGED <<logVars, readPos, rc, connected, pending, handler, histVars, disturbed>>

\* The consumer at which m is pending: the one whose client acknowledges it, or another
\* that has got it since.
resolve_ack_owner(m) == {d \in connected : m \in DOMAIN pending[d]}

\* An ack, first half: the pending entry leaves its owner.
message_acked(m) ==
    \E d \in resolve_ack_owner(m) : pending' = [pending EXCEPT ![d] = Without(@, m)]

handle_ack(c, m) ==
    /\ Ready(c) /\ m \in given /\ message_acked(m)
    /\ handler' = [handler EXCEPT ![c] = Acking(m)]
    /\ UNCHANGED <<logVars, readPos, rc, connected, permitVars, task, histVars, disturbed>>

\* Second half, under the write lock: the cursor, then on_message_acknowledged and
\* on_ack_state_updated.  Nobody dispatches what the ack has unblocked.
acknowledge_message(c, m) ==
    /\ WriteLockFree /\ handler[c] = Acking(m)
    /\ acked' = acked \cup {m}
    /\ rc' = remove_all(rc, {m} \cup (queued_message_ids(rc) \cap acked'))
    /\ readPos' = IF readPos = 0 THEN 0
                  ELSE IF FirstUnacked(acked') = 0 THEN 0
                  ELSE Max({readPos, FirstUnacked(acked')})
    /\ handler' = [handler EXCEPT ![c] = None]
    /\ UNCHANGED <<policy, last, connected, permitVars, pending, task, histVars, disturbed>>

\* add_redelivery_entries for the pending acks of c among S, one delivery more.
Requeue(c, S) == add_all(rc, S, [m \in S |-> pending[c][m] + 1], HashOf)

redeliver_unacknowledged_messages(c, S, t) ==
    /\ pending' = [pending EXCEPT ![c] = Restrict(@, DOMAIN @ \ S)]
    /\ rc' = Requeue(c, S \ acked)
    /\ IF S \subseteq acked THEN UNCHANGED task ELSE DispatchLocked(t)

handle_redeliver(c, S, t) ==
    /\ WriteLockFree /\ Ready(c) /\ Disturb
    /\ redeliver_unacknowledged_messages(c, S, t)
    /\ UNCHANGED <<logVars, readPos, connected, permitVars, handler, histVars>>

\* Mutant of remove_consumer: its pending acks are dropped.
RemoveForgetsPending(c, t) ==
    /\ WriteLockFree /\ Ready(c) /\ Disturb
    /\ connected' = connected \ {c}
    /\ total' = total - permits[c]
    /\ permits' = [permits EXCEPT ![c] = 0]
    /\ pending' = [pending EXCEPT ![c] = NoPending]
    /\ DispatchLocked(t)
    /\ UNCHANGED <<logVars, readPos, rc, handler, histVars>>

\* remove_consumer_with_recovery; its ranges go to the others, and so does what it
\* had pending.
remove_consumer(c, t) ==
    /\ WriteLockFree /\ Ready(c) /\ Disturb
    /\ connected' = connected \ {c}
    /\ total' = total - permits[c]
    /\ permits' = [permits EXCEPT ![c] = 0]
    /\ rc' = Requeue(c, DOMAIN pending[c])
    /\ pending' = [pending EXCEPT ![c] = NoPending]
    /\ DispatchLocked(t)
    /\ UNCHANGED <<logVars, readPos, handler, histVars>>

\* seek under the write lock: cursor, read position, redelivery state, pending acks.
seek(c, m) ==
    /\ WriteLockFree /\ Ready(c) /\ Fault
    /\ acked' = 1..(m - 1)
    /\ readPos' = m
    /\ rc' = clear(rc)
    /\ pending' = [d \in Consumers |-> NoPending]
    /\ handler' = [handler EXCEPT ![c] = Seeking]
    /\ given' = {} /\ dropped' = {}
    /\ UNCHANGED <<policy, last, connected, permitVars, task>>

\* handle_seek drains its consumer once more after the lock is released.
seek_drain(c) ==
    /\ handler[c] = Seeking
    /\ handler' = [handler EXCEPT ![c] = None]
    /\ pending' = [pending EXCEPT ![c] = NoPending]
    /\ dropped' = dropped \cup (DOMAIN pending[c] \ acked)
    /\ UNCHANGED <<logVars, readPos, rc, connected, permitVars, task, given, disturbed>>

----------------------------------------------------------------------------
(* dispatch_messages. *)

Return(t) == task' = [task EXCEPT ![t] = IdleTask]

\* The storage mutex is held while the queue is looked through.
StorageFree == \A t \in Tasks : task[t].pc # "scan"

\* dispatch_messages_batch starts with the permits it sees; none, and the task ends.
Batch(t) ==
    /\ \/ task[t].pc = "spawned" /\ ReadLockFree
       \/ task[t].pc = "batch"
    /\ IF total <= 0 THEN Return(t)
       ELSE task' = [task EXCEPT ![t].pc = "pop", ![t].left = Min({total, BatchSize})]
    /\ UNCHANGED <<logVars, readPos, rc, connected, permitVars, pending, handler, histVars,
                   disturbed>>

\* After a batch: another one while the last made progress and permits remain.
BatchEnd(t, permitsLeft) ==
    task' = IF task[t].any /\ permitsLeft > 0
            THEN [task EXCEPT ![t] = [IdleTask EXCEPT !.pc = "batch", !.write = task[t].write]]
            ELSE [task EXCEPT ![t] = IdleTask]

\* The loop of a batch: a look at the queue as it is now, then the log.
Pop(t) ==
    /\ task[t].pc = "pop" /\ StorageFree
    /\ IF task[t].left = 0 THEN BatchEnd(t, total)
       ELSE task' = [task EXCEPT ![t].scan = queued_message_ids(rc),
                        ![t].pc = IF queued_message_ids(rc) = {} THEN "read" ELSE "scan"]
    /\ UNCHANGED <<logVars, readPos, rc, connected, permitVars, pending, handler, histVars,
                   disturbed>>

\* A queued message whose hash is not in flight and belongs to a consumer with permits.
CanTake(m) ==
    /\ ~has_in_flight_hash(rc, HashOf[m])
    /\ select_consumer_for_hash(HashOf[m]) # Nobody

\* pop_dispatchable_redelivery_message, one entry of its snapshot: dropped if it is
\* acknowledged, taken for delivery, or passed over.
Scan(t) ==
    LET m == Min(task[t].scan)
        rest == task[t].scan \ {m}
        PassOver == task' = [task EXCEPT ![t].scan = rest,
                                ![t].pc = IF rest = {} THEN "read" ELSE "scan"]
    IN
    /\ task[t].pc = "scan"
    /\ IF m \in acked THEN rc' = remove(rc, m) /\ PassOver
       ELSE IF CanTake(m) /\ m \in queued_message_ids(rc)
       THEN /\ rc' = take_for_delivery_with_hash(rc, m, HashOf[m])
            /\ task' = [task EXCEPT ![t].pc = "permit", ![t].scan = {}, ![t].msg = m,
                            ![t].count = rc.entries[m].count,
                            ![t].cons = select_consumer_for_hash(HashOf[m])]
       ELSE UNCHANGED rc /\ PassOver
    /\ UNCHANGED <<logVars, readPos, connected, permitVars, pending, handler, histVars,
                   disturbed>>

\* try_use_permits for a redelivery: the permits may have gone to another task.
PermitQueued(t) ==
    LET s == task[t] IN
    /\ s.pc = "permit"
    /\ IF permits[s.cons] > 0
       THEN /\ permits' = [permits EXCEPT ![s.cons] = @ - 1]
            /\ total' = total - 1
            /\ task' = [task EXCEPT ![t].pc = "send", ![t].left = (@ - 1) % Modulus]
            /\ UNCHANGED rc
       ELSE /\ rc' = restore(rc, s.msg, s.count, HashOf[s.msg])
            /\ BatchEnd(t, total)
            /\ UNCHANGED permitVars
    /\ UNCHANGED <<logVars, readPos, connected, pending, handler, histVars, disturbed>>

\* next_unacked_candidate: acknowledged entries are passed over.
Read(t) ==
    LET from == IF readPos = 0 THEN FirstUnacked(acked) ELSE readPos
        unacked == IF from = 0 THEN {} ELSE (from..last) \ acked
    IN
    /\ task[t].pc = "read" /\ StorageFree
    /\ IF unacked = {}
       THEN readPos' = (IF from = 0 THEN 0 ELSE last + 1) /\ BatchEnd(t, total)
       ELSE /\ readPos' = Min(unacked)
            /\ task' = [task EXCEPT ![t].pc = "check", ![t].msg = Min(unacked)]
    /\ UNCHANGED <<logVars, rc, connected, permitVars, pending, handler, histVars, disturbed>>

\* is_message_pending: what some consumer holds is passed over.
Held(m) == \E c \in connected : m \in DOMAIN pending[c]
PassPending(t) ==
    LET m == task[t].msg IN
    /\ task[t].pc = "check" /\ Held(m)
    /\ readPos' = m + 1
    /\ task' = [task EXCEPT ![t].pc = "read", ![t].msg = 0]
    /\ UNCHANGED <<logVars, rc, connected, permitVars, pending, handler, histVars, disturbed>>

\* Mutant of Blocked: no hash is blocked.
NeverBlocked(m) == FALSE

Blocked(m) == is_hash_blocked(rc, HashOf[m])

\* A message of a blocked hash joins the queue, and the batch goes on without it.
SetAside(t) ==
    LET m == task[t].msg IN
    /\ task[t].pc = "check" /\ ~Held(m) /\ Blocked(m)
    /\ rc' = add(rc, m, 0, HashOf[m])
    /\ readPos' = m + 1
    /\ task' = [task EXCEPT ![t].pc = "pop", ![t].msg = 0, ![t].any = TRUE]
    /\ UNCHANGED <<logVars, connected, permitVars, pending, handler, histVars, disturbed>>

\* Any other one goes to the consumer of its hash; without permits the batch ends.
Route(t) ==
    LET m == task[t].msg
        c == select_consumer_for_hash(HashOf[m])
    IN
    /\ task[t].pc = "check" /\ ~Held(m) /\ ~Blocked(m)
    /\ IF c = Nobody THEN BatchEnd(t, total) /\ UNCHANGED permitVars
       ELSE /\ permits' = [permits EXCEPT ![c] = @ - 1]
            /\ total' = total - 1
            /\ task' = [task EXCEPT ![t].pc = "send", ![t].cons = c, ![t].fresh = TRUE,
                            ![t].count = 0, ![t].left = (@ - 1) % Modulus]
    /\ UNCHANGED <<logVars, readPos, rc, connected, pending, handler, histVars, disturbed>>

\* The connection is full or found unwritable where a consumer is looked for.
Unwritable(t) ==
    /\ task[t].pc = "check" /\ ~Held(task[t].msg) /\ ~Blocked(task[t].msg) /\ Fault
    /\ BatchEnd(t, total)
    /\ UNCHANGED <<logVars, readPos, rc, connected, permitVars, pending, handler, histVars>>

\* send_message_with_sticky_hash.  After a redelivery the batch goes on with the log.
Send(t) ==
    LET s == task[t] IN
    /\ s.pc = "send"
    /\ pending' = [pending EXCEPT ![s.cons] = With(@, s.msg, s.count)]
    /\ given' = given \cup {s.msg}
    /\ task' = [task EXCEPT ![t].pc = IF s.fresh THEN "commit" ELSE "read", ![t].any = TRUE,
                    ![t].cons = Nobody, ![t].count = 0, ![t].msg = IF s.fresh THEN @ ELSE 0]
    /\ UNCHANGED <<logVars, readPos, rc, connected, permitVars, handler, dropped, disturbed>>

\* The send is refused, with or without its pending ack taken back: the message is
\* queued first ...
SendRefused(t) ==
    LET s == task[t] IN
    /\ s.pc = "send" /\ Fault
    /\ \/ UNCHANGED pending
       \/ pending' = [pending EXCEPT ![s.cons] = Without(@, s.msg)]
    /\ rc' = restore(rc, s.msg, s.count + 1, HashOf[s.msg])
    /\ task' = [task EXCEPT ![t].pc = "refund"]
    /\ UNCHANGED <<logVars, readPos, connected, permitVars, handler, histVars>>

\* ... then the read position moves past it and the permit is given back.
Refund(t) ==
    LET s == task[t] IN
    /\ s.pc = "refund"
    /\ readPos' = IF s.fresh THEN s.msg + 1 ELSE readPos
    /\ permits' = [permits EXCEPT ![s.cons] = @ + 1]
    /\ total' = total + 1
    /\ BatchEnd(t, total')
    /\ UNCHANGED <<logVars, rc, connected, pending, handler, histVars, disturbed>>

Commit(t) ==
    /\ task[t].pc = "commit"
    /\ readPos' = task[t].msg + 1
    /\ task' = [task EXCEPT ![t].pc = "pop", ![t].msg = 0, ![t].fresh = FALSE]
    /\ UNCHANGED <<logVars, rc, connected, permitVars, pending, handler, histVars, disturbed>>

\* A storage error ends the task; nothing is in its hands then.
StorageError(t) ==
    /\ task[t].pc \in {"scan", "read"} /\ Fault
    /\ Return(t)
    /\ UNCHANGED <<logVars, readPos, rc, connected, permitVars, pending, handler, histVars>>

Dispatch(t) ==
    \/ Batch(t) \/ Pop(t) \/ Scan(t) \/ PermitQueued(t)
    \/ Read(t) \/ PassPending(t) \/ SetAside(t) \/ Route(t) \/ Unwritable(t)
    \/ Send(t) \/ SendRefused(t) \/ Refund(t) \/ Commit(t) \/ StorageError(t)

Next ==
    \/ \E t \in Tasks : Dispatch(t) \/ Publish(t)
    \/ \E c \in Consumers :
          \/ add_consumer(c) \/ seek_drain(c)
          \/ \E m \in 1..last : seek(c, m) \/ handle_ack(c, m) \/ acknowledge_message(c, m)
          \/ \E t \in Tasks :
                \/ handle_flow(c, t) \/ remove_consumer(c, t)
                \/ \E S \in (SUBSET DOMAIN pending[c]) \ {{}} : handle_redeliver(c, S, t)

Spec == Init /\ [][Next]_vars

----------------------------------------------------------------------------
(* Properties. *)

SameKey(m, n) == HashOf[m] = HashOf[n]
InHand(m) == \E t \in Tasks : /\ task[t].pc \in {"permit", "send", "refund"}
                              /\ task[t].msg = m
Unread(m) == readPos = 0 \/ m >= readPos

\* A hash is blocked for exactly as long as a message of it is queued or in flight:
\* no count leaks or goes missing over redeliveries, refused sends, removals, acks
\* and seeks, in whatever order they come.
HashesCounted == Counted(rc)

\* Key order: a message read from the log is delivered only after every earlier,
\* unacknowledged message of its key, be it by another task.
KeyOrder ==
    [][policy.block_hashes =>
         \A t \in Tasks : task[t].pc = "send" /\ task'[t].pc = "commit" =>
            \A m \in (1..(task[t].msg - 1)) \ acked : SameKey(m, task[t].msg) => m \in given]_vars

\* A delivery goes to a consumer that owns the key's hash when it is made; and whoever
\* comes or goes, under AutoSplit every hash has exactly one owner while anyone is
\* connected.
SentToOwner ==
    [][/\ \A t \in Tasks : task[t].pc = "send" /\ task'[t].pc \in {"commit", "read"} =>
             Owns(task[t].cons, HashOf[task[t].msg])
       /\ connected' \notin {connected, {}} /\ policy.mode = "AutoSplit" =>
             \A h \in Hashes : Cardinality({c \in connected' : Owns(c, h)'}) = 1]_vars

\* No message is lost, except to the second drain of a seek: one that is not
\* acknowledged is ahead of the read position, queued, in a task's hands, pending at
\* a connected consumer or about to be acknowledged.
Accounted ==
    \A m \in (1..last) \ (acked \cup dropped) :
        \/ Unread(m) \/ InHand(m)
        \/ m \in queued_message_ids(rc)
        \/ \E c \in connected : m \in DOMAIN pending[c] \/ handler[c] = Acking(m)

=============================================================================
