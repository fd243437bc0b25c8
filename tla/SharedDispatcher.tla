-------------------------- MODULE SharedDispatcher --------------------------
(***************************************************************************)
(* A persistent Shared subscription: dispatcher/shared.rs with its read    *)
(* position and redelivery queue, the consumers' permits and pending acks  *)
(* (service/consumer.rs, pending_acks.rs), and the handlers that reach     *)
(* them (handler/consumer_handler.rs, topic/subscription.rs).              *)
(*                                                                         *)
(* Dispatch runs in tasks spawned by publishes and flows, under the READ   *)
(* lock of the subscription, so several may run at once; redelivery and    *)
(* consumer removal dispatch themselves, under the WRITE lock.  Removing a *)
(* pending ack (the first half of an ack), appends, and the state of the   *)
(* connection need no lock and interleave with a dispatch at every step.   *)
(*                                                                         *)
(* Messages are numbered in log order.  The cursor is the set of           *)
(* acknowledged messages it promises to be (AckLog).  Which of the         *)
(* consumers with permits is chosen is left open (ConsumerOrder).          *)
(***************************************************************************)
EXTENDS Integers, FiniteSets, FiniteSetsExt, Functions

CONSTANTS
    Consumers,       \* consumer ids
    Nobody,          \* no consumer
    Tasks,           \* bound: dispatch tasks spawned and not finished
    MaxMessages,     \* bound: messages appended
    Weight,          \* Weight[m]: client-visible messages in entry m
    RoundSize,       \* DISPATCHER_MAX_ROUND_ROBIN_BATCH_SIZE
    MaxUnacked,      \* max_unacked_messages
    FlowSize,        \* permits of one Flow command
    PermitCap,       \* bound: permits a consumer asks for
    SendMayFail,     \* connections may be unwritable or their channel full
    StorageMayFail,  \* storage operations may return an error
    MaxDisturbances, \* bound: redeliveries, removals, failed sends, seeks
    MaxSeeks         \* bound: seeks among them

Messages == 1..MaxMessages

ASSUME ActorsAssumption ==
    IsFiniteSet(Consumers) /\ IsFiniteSet(Tasks) /\ Nobody \notin Consumers
ASSUME SizesAssumption ==
    /\ MaxMessages \in Nat /\ Weight \in [Messages -> Nat \ {0}]
    /\ RoundSize \in Nat \ {0} /\ FlowSize \in Nat \ {0}

VARIABLES
    last,        \* messages 1..last are appended
    acked,       \* the cursor
    readPos,     \* read_position, 0 for None
    queue,       \* redelivery queue: message -> redelivery count
    connected,   \* consumers of the dispatcher
    permits,     \* available_permits of each consumer
    pending,     \* pending_acks of each consumer: message -> redelivery count
    total,       \* total_available_permits
    inProgress,  \* dispatch_in_progress
    resched,     \* should_reschedule
    task,        \* the dispatch tasks
    handler,     \* the command each consumer's connection is in the middle of:
                 \* an ack whose pending entry is taken and cursor not yet updated,
                 \* a seek that has yet to drain its consumer, or none
    sent,        \* history: redelivery count of the last delivery, -1 for none
    disturbed,   \* disturbances and seeks so far
    seeks,
    failed       \* a storage operation has returned an error

vars == <<last, acked, readPos, queue, connected, permits, pending, total,
          inProgress, resched, task, handler, sent, disturbed, seeks, failed>>

\* A task: where it is, whether it runs under the write lock, and the locals of
\* its batch: chosen consumer, message in hand with its count, whether it was
\* read from the log, rounds left, whether the batch dispatched anything.
IdleTask == [pc |-> "idle", write |-> FALSE, cons |-> Nobody, msg |-> 0,
             count |-> 0, fresh |-> FALSE, left |-> 0, any |-> FALSE]

Running(t) == task[t].pc \notin {"idle", "spawned"}
WriteLockFree == \A t \in Tasks : ~Running(t)
ReadLockFree == \A t \in Tasks : Running(t) => ~task[t].write

cursorVars == <<last, acked>>
consVars == <<connected, permits, pending, total>>
flagVars == <<inProgress, resched>>
envVars == <<handler, sent, disturbed, seeks, failed>>

----------------------------------------------------------------------------
(* Helpers. *)

Max2(a, b) == IF a > b THEN a ELSE b

\* RedeliveryController::add: an entry already queued keeps the larger count.
Requeue(q, entries) ==
    [m \in DOMAIN q \cup DOMAIN entries |->
        IF m \notin DOMAIN q THEN entries[m]
        ELSE IF m \notin DOMAIN entries THEN q[m]
        ELSE Max2(q[m], entries[m])]

Drop(f, S) == Restrict(f, DOMAIN f \ S)

Put(f, m, k) == [x \in DOMAIN f \cup {m} |-> IF x = m THEN k ELSE f[x]]

\* Mutant of Redelivered: the count is kept.
RedeliveredUncounted(p, S) == [m \in DOMAIN p \cap S |-> p[m]]

\* Pending acks on their way to the queue: one delivery more.
Redelivered(p, S) == [m \in DOMAIN p \cap S |-> p[m] + 1]

Nothing == [m \in {} |-> 0]

FirstUnacked(n, acks) ==
    LET unacked == (1..n) \ acks
    IN  IF unacked = {} THEN 0 ELSE Min(unacked)

Disturb == disturbed < MaxDisturbances /\ disturbed' = disturbed + 1

\* A connection handles its commands one after the other.
None == <<"none", 0>>
Free(c) == handler[c] = None
Acking(m) == <<"ack", m>>
Seeking == <<"seek", 0>>
Ready(c) == c \in connected /\ Free(c)

Spawn(t) == task[t].pc = "idle" /\ task' = [task EXCEPT ![t].pc = "spawned"]

\* A handler that goes on to dispatch under the write lock it holds.
DispatchLocked(t) ==
    /\ task[t].pc = "idle"
    /\ task' = [task EXCEPT ![t].pc = "enter", ![t].write = TRUE]

----------------------------------------------------------------------------
Init ==
    /\ last = 0 /\ acked = {} /\ readPos = 0 /\ queue = Nothing
    /\ connected = {} /\ permits = [c \in Consumers |-> 0]
    /\ pending = [c \in Consumers |-> Nothing] /\ total = 0
    /\ inProgress = FALSE /\ resched = FALSE
    /\ task = [t \in Tasks |-> IdleTask]
    /\ handler = [c \in Consumers |-> None] /\ sent = [m \in Messages |-> -1]
    /\ disturbed = 0 /\ seeks = 0 /\ failed = FALSE

----------------------------------------------------------------------------
(* Handlers. *)

\* A message becomes durable and its completion spawns a dispatch.
Publish(t) ==
    /\ last < MaxMessages
    /\ last' = last + 1
    /\ Spawn(t)
    /\ UNCHANGED <<acked, readPos, queue, consVars, flagVars, envVars>>

add_consumer(c) ==
    /\ WriteLockFree /\ c \notin connected
    /\ connected' = connected \cup {c}
    /\ UNCHANGED <<cursorVars, readPos, queue, permits, pending, total, flagVars,
                   task, envVars>>

\* Mutant of handle_flow: only the consumer's own permits are updated.
FlowHalfApplied(c, t) ==
    /\ ReadLockFree /\ Ready(c)
    /\ permits[c] + FlowSize <= PermitCap
    /\ permits' = [permits EXCEPT ![c] = @ + FlowSize]
    /\ Spawn(t)
    /\ UNCHANGED <<cursorVars, readPos, queue, connected, pending, total, flagVars, envVars>>

\* handle_flow: both layers of permits under the read lock, then a dispatch of
\* its own task.
handle_flow(c, t) ==
    /\ ReadLockFree /\ Ready(c)
    /\ permits[c] + FlowSize <= PermitCap
    /\ permits' = [permits EXCEPT ![c] = @ + FlowSize]
    /\ total' = total + FlowSize
    /\ Spawn(t)
    /\ UNCHANGED <<cursorVars, readPos, queue, connected, pending, flagVars, envVars>>

\* message_acked, first half, of an ack that c's client sends for a message that
\* some client has received: the entry leaves the pending acks of the consumer
\* that holds it, c or another.
ack_resolve(c, m) ==
    /\ Ready(c) /\ sent[m] >= 0
    /\ \E d \in connected :
          /\ m \in DOMAIN pending[d]
          /\ pending' = [pending EXCEPT ![d] = Drop(@, {m})]
    /\ handler' = [handler EXCEPT ![c] = Acking(m)]
    /\ UNCHANGED <<cursorVars, readPos, queue, connected, permits, total, flagVars,
                   task, sent, disturbed, seeks, failed>>

\* read_position after an ack: never behind the first unacknowledged message.
Caught(pos, first) ==
    IF pos # 0 /\ (first = 0 \/ pos < first) THEN first ELSE pos

\* acknowledge_message under the write lock: the cursor, then the queue and the
\* read position of the dispatcher.
acknowledge_message(c, m) ==
    /\ WriteLockFree /\ handler[c] = Acking(m)
    /\ acked' = acked \cup {m}
    /\ queue' = Drop(queue, acked')
    /\ readPos' = Caught(readPos, FirstUnacked(last, acked'))
    /\ handler' = [handler EXCEPT ![c] = None]
    /\ UNCHANGED <<last, consVars, flagVars, task, sent, disturbed, seeks, failed>>

\* The cursor update fails: the handler returns the error, and that is all.
acknowledge_error(c, m) ==
    /\ StorageMayFail /\ WriteLockFree /\ handler[c] = Acking(m) /\ Disturb
    /\ failed' = TRUE
    /\ handler' = [handler EXCEPT ![c] = None]
    /\ UNCHANGED <<cursorVars, readPos, queue, consVars, flagVars, task, sent, seeks>>

\* Mutant of redeliver: the messages are queued and nobody dispatches.
RedeliverLater(c, S, t) ==
    /\ WriteLockFree /\ Ready(c) /\ Disturb
    /\ pending' = [pending EXCEPT ![c] = Drop(@, S)]
    /\ queue' = Requeue(queue, Redelivered(pending[c], S \ acked))
    /\ UNCHANGED <<cursorVars, readPos, connected, permits, total, flagVars, task,
                   handler, sent, seeks, failed>>

\* redeliver_unacknowledged_messages for the pending messages S of c.
redeliver(c, S, t) ==
    /\ WriteLockFree /\ Ready(c) /\ Disturb
    /\ pending' = [pending EXCEPT ![c] = Drop(@, S)]
    /\ queue' = Requeue(queue, Redelivered(pending[c], S \ acked))
    /\ IF S \subseteq acked THEN UNCHANGED task ELSE DispatchLocked(t)
    /\ UNCHANGED <<cursorVars, readPos, connected, permits, total, flagVars,
                   handler, sent, seeks, failed>>

\* Mutant of remove_consumer: its pending acks are dropped.
RemoveForgetsPending(c, t) ==
    /\ WriteLockFree /\ Ready(c) /\ Disturb
    /\ connected' = connected \ {c}
    /\ total' = total - Max2(permits[c], 0)
    /\ permits' = [permits EXCEPT ![c] = 0]
    /\ pending' = [pending EXCEPT ![c] = Nothing]
    /\ DispatchLocked(t)
    /\ UNCHANGED <<cursorVars, readPos, queue, flagVars, handler, sent, seeks, failed>>

\* remove_consumer_with_recovery: close, disconnect and cleanup all end here.
\* available_permits_now reports a negative balance as zero.
remove_consumer(c, t) ==
    /\ WriteLockFree /\ Ready(c) /\ Disturb
    /\ connected' = connected \ {c}
    /\ total' = total - Max2(permits[c], 0)
    /\ permits' = [permits EXCEPT ![c] = 0]
    /\ queue' = Requeue(queue, Redelivered(pending[c], DOMAIN pending[c]))
    /\ pending' = [pending EXCEPT ![c] = Nothing]
    /\ DispatchLocked(t)
    /\ UNCHANGED <<cursorVars, readPos, flagVars, handler, sent, seeks, failed>>

\* seek_to_message_id under the write lock: the cursor moves right before m, the
\* dispatcher starts over from there and every pending ack is dropped.
seek(c, m) ==
    /\ WriteLockFree /\ Ready(c) /\ seeks < MaxSeeks /\ Disturb
    /\ seeks' = seeks + 1
    /\ acked' = 1..(m - 1)
    /\ readPos' = m
    /\ queue' = Nothing
    /\ pending' = [d \in Consumers |-> Nothing]
    /\ handler' = [handler EXCEPT ![c] = Seeking]
    /\ sent' = [x \in Messages |-> -1]
    /\ UNCHANGED <<last, connected, permits, total, flagVars, task, failed>>

\* handle_seek drains its consumer once more after the lock is released.
seek_drain(c) ==
    /\ handler[c] = Seeking
    /\ handler' = [handler EXCEPT ![c] = None]
    /\ pending' = [pending EXCEPT ![c] = Nothing]
    /\ UNCHANGED <<cursorVars, readPos, queue, connected, permits, total, flagVars,
                   task, sent, disturbed, seeks, failed>>

----------------------------------------------------------------------------
(* dispatch_messages. *)

Go(t, pc) == task' = [task EXCEPT ![t].pc = pc]
Return(t) == task' = [task EXCEPT ![t] = IdleTask]

\* The task has its lock; the guard of the loop is taken, or a running loop is
\* to be told about this trigger.
Enter(t) ==
    /\ \/ task[t].pc = "spawned" /\ ReadLockFree
       \/ task[t].pc = "enter"
    /\ inProgress' = TRUE
    /\ Go(t, IF inProgress THEN "merge" ELSE "batch")
    /\ UNCHANGED <<cursorVars, readPos, queue, consVars, resched, envVars>>

Merge(t) ==
    /\ task[t].pc = "merge"
    /\ resched' = TRUE
    /\ Return(t)
    /\ UNCHANGED <<cursorVars, readPos, queue, consVars, inProgress, envVars>>

\* dispatch_messages_batch starts with the permits it sees.
Batch(t) ==
    /\ task[t].pc = "batch"
    /\ IF total <= 0 THEN Go(t, "release")
       ELSE task' = [task EXCEPT ![t].pc = "pick", ![t].any = FALSE,
                         ![t].left = IF total < RoundSize THEN total ELSE RoundSize]
    /\ UNCHANGED <<cursorVars, readPos, queue, consVars, flagVars, envVars>>

\* After a batch: the next one while the last made progress and permits remain.
BatchEnd(t, any, permitsLeft) ==
    task' = [task EXCEPT ![t].pc = IF any /\ permitsLeft # 0 THEN "batch" ELSE "release",
                 ![t].cons = Nobody, ![t].msg = 0, ![t].count = 0,
                 ![t].fresh = FALSE, ![t].left = 0, ![t].any = FALSE]

Available == {c \in connected : permits[c] > 0}
OverBudget(c) == Cardinality(DOMAIN pending[c]) >= MaxUnacked

\* next_unacked_candidate and is_message_pending: the messages the read position
\* passes over, and the one it stops at.
Readable(n) ==
    LET from == IF readPos = 0 THEN FirstUnacked(n, acked) ELSE readPos
    IN  IF from = 0 THEN {} ELSE from..n
Candidates(n) ==
    {m \in Readable(n) : m \notin acked /\ \A c \in connected : m \notin DOMAIN pending[c]}

\* The batch ends without a message: no rounds, consumer, budget or message left.
PickNothing(t) ==
    /\ task[t].pc = "pick"
    /\ \/ task[t].left = 0 /\ UNCHANGED readPos
       \/ task[t].left > 0 /\ Available = {} /\ UNCHANGED readPos
       \/ task[t].left > 0 /\ (\E c \in Available : OverBudget(c)) /\ UNCHANGED readPos
       \/ /\ task[t].left > 0 /\ DOMAIN queue = {} /\ Candidates(last) = {}
          /\ \E c \in Available : ~OverBudget(c)
          /\ readPos' = IF Readable(last) = {} THEN readPos ELSE last + 1
    /\ BatchEnd(t, task[t].any, total)
    /\ UNCHANGED <<cursorVars, queue, consVars, flagVars, envVars>>

\* Permits are taken from the consumer and from the aggregate before the send.
TakeInHand(t, c, m, k, isNew) ==
    /\ permits' = [permits EXCEPT ![c] = @ - Weight[m]]
    /\ total' = total - Weight[m]
    /\ task' = [task EXCEPT ![t].pc = "send", ![t].cons = c, ![t].msg = m,
                    ![t].count = k, ![t].fresh = isNew]
    /\ UNCHANGED <<connected, pending>>

\* The redelivery queue comes first, least message first; an entry acknowledged
\* in the meantime is skipped at the price of a round.
PickQueued(t) ==
    /\ task[t].pc = "pick" /\ task[t].left > 0 /\ DOMAIN queue # {}
    /\ LET m == Min(DOMAIN queue)
       IN  /\ queue' = Drop(queue, {m})
           /\ \E c \in Available :
                 /\ ~OverBudget(c)
                 /\ IF m \in acked
                    THEN task' = [task EXCEPT ![t].left = @ - 1] /\ UNCHANGED consVars
                    ELSE TakeInHand(t, c, m, queue[m], FALSE)
    /\ UNCHANGED <<cursorVars, readPos, flagVars, envVars>>

PickNew(t) ==
    /\ task[t].pc = "pick" /\ task[t].left > 0 /\ DOMAIN queue = {}
    /\ Candidates(last) # {}
    /\ readPos' = Min(Candidates(last))
    /\ \E c \in Available : ~OverBudget(c) /\ TakeInHand(t, c, readPos', 0, TRUE)
    /\ UNCHANGED <<cursorVars, queue, flagVars, envVars>>

\* Storage fails under the batch.  A message popped from the queue is gone: if its
\* entry is not found the batch goes on, and any other error gives up the pass
\* with the guard released and the reschedule flag as it is.
PickError(t) ==
    /\ StorageMayFail /\ task[t].pc = "pick" /\ task[t].left > 0 /\ Disturb
    /\ failed' = TRUE
    /\ \E c \in Available : ~OverBudget(c)
    /\ queue' = IF DOMAIN queue = {} THEN queue ELSE Drop(queue, {Min(DOMAIN queue)})
    /\ \/ inProgress' = FALSE /\ Return(t)
       \/ /\ DOMAIN queue # {}
          /\ task' = [task EXCEPT ![t].left = @ - 1]
          /\ UNCHANGED inProgress
    /\ UNCHANGED <<cursorVars, readPos, consVars, resched, handler, sent, seeks>>

\* Mutant of GiveBack: the aggregate is not refunded.
GiveBackUnrefunded(t) ==
    LET s == task[t] IN
    /\ queue' = Requeue(queue, Put(Nothing, s.msg, s.count + 1))
    /\ readPos' = IF s.fresh THEN s.msg + 1 ELSE readPos
    /\ permits' = [permits EXCEPT ![s.cons] = @ + Weight[s.msg]]
    /\ UNCHANGED total
    /\ BatchEnd(t, s.any, total)

\* The message in hand goes back with its permits, and the batch is over.
GiveBack(t) ==
    LET s == task[t] IN
    /\ queue' = Requeue(queue, Put(Nothing, s.msg, s.count + 1))
    /\ readPos' = IF s.fresh THEN s.msg + 1 ELSE readPos
    /\ permits' = [permits EXCEPT ![s.cons] = @ + Weight[s.msg]]
    /\ total' = total + Weight[s.msg]
    /\ BatchEnd(t, s.any, total')

\* send_message on a connection whose write buffer is over its watermark.
SendUnwritable(t) ==
    /\ SendMayFail /\ Disturb /\ task[t].pc = "send"
    /\ GiveBack(t)
    /\ UNCHANGED <<cursorVars, connected, pending, flagVars, handler, sent, seeks, failed>>

\* The pending ack is recorded before the channel slot is asked for.
SendTrack(t) ==
    LET s == task[t] IN
    /\ s.pc = "send"
    /\ pending' = [pending EXCEPT ![s.cons] = Put(@, s.msg, s.count)]
    /\ Go(t, "slot")
    /\ UNCHANGED <<cursorVars, readPos, queue, connected, permits, total, flagVars, envVars>>

SlotTaken(t) ==
    LET s == task[t] IN
    /\ s.pc = "slot"
    /\ sent' = [sent EXCEPT ![s.msg] = s.count]
    /\ readPos' = IF s.fresh THEN s.msg + 1 ELSE readPos
    /\ task' = [task EXCEPT ![t].pc = "pick", ![t].cons = Nobody, ![t].msg = 0,
                    ![t].count = 0, ![t].fresh = FALSE, ![t].left = @ - 1, ![t].any = TRUE]
    /\ UNCHANGED <<cursorVars, queue, consVars, flagVars, handler, disturbed, seeks, failed>>

\* Mutant of SlotFull: the pending ack recorded for the send is left behind.
SlotFullStillPending(t) ==
    /\ SendMayFail /\ Disturb /\ task[t].pc = "slot"
    /\ GiveBack(t)
    /\ UNCHANGED <<cursorVars, connected, pending, flagVars, handler, sent, seeks, failed>>

\* No slot: the pending ack is taken out again, unless an ack has come first.
SlotFull(t) ==
    /\ SendMayFail /\ Disturb /\ task[t].pc = "slot"
    /\ pending' = [pending EXCEPT ![task[t].cons] = Drop(@, {task[t].msg})]
    /\ GiveBack(t)
    /\ UNCHANGED <<cursorVars, connected, flagVars, handler, sent, seeks, failed>>

\* The end of a pass: the guard is released, then the flag of merged triggers is
\* read and cleared, then the guard is taken again.
Release(t) ==
    /\ task[t].pc = "release"
    /\ inProgress' = FALSE
    /\ Go(t, "check")
    /\ UNCHANGED <<cursorVars, readPos, queue, consVars, resched, envVars>>

Check(t) ==
    /\ task[t].pc = "check"
    /\ resched' = FALSE
    /\ IF resched THEN Go(t, "retake") ELSE Return(t)
    /\ UNCHANGED <<cursorVars, readPos, queue, consVars, inProgress, envVars>>

Retake(t) ==
    /\ task[t].pc = "retake"
    /\ inProgress' = TRUE
    /\ IF inProgress THEN Return(t) ELSE Go(t, "batch")
    /\ UNCHANGED <<cursorVars, readPos, queue, consVars, resched, envVars>>

Dispatch(t) ==
    \/ Enter(t) \/ Merge(t) \/ Batch(t)
    \/ PickNothing(t) \/ PickQueued(t) \/ PickNew(t) \/ PickError(t)
    \/ SendUnwritable(t) \/ SendTrack(t) \/ SlotTaken(t) \/ SlotFull(t)
    \/ Release(t) \/ Check(t) \/ Retake(t)

Next ==
    \/ \E t \in Tasks : Dispatch(t) \/ Publish(t)
    \/ \E c \in Consumers :
          \/ add_consumer(c) \/ seek_drain(c)
          \/ \E m \in 1..last :
                \/ seek(c, m) \/ ack_resolve(c, m)
                \/ acknowledge_message(c, m) \/ acknowledge_error(c, m)
          \/ \E t \in Tasks :
                \/ handle_flow(c, t) \/ remove_consumer(c, t)
                \/ \E S \in (SUBSET DOMAIN pending[c]) \ {{}} : redeliver(c, S, t)

Spec == Init /\ [][Next]_vars

----------------------------------------------------------------------------
(* Properties. *)

InHand(m) == \E t \in Tasks : task[t].pc \in {"send", "slot"} /\ task[t].msg = m
Owns(c, m) == m \in DOMAIN pending[c]
Queued(m) == m \in DOMAIN queue
AckInFlight(m) == \E c \in Consumers : handler[c] = Acking(m)
Unread(m) == readPos = 0 \/ m >= readPos

\* No message is lost: a message that is not acknowledged is still ahead of the
\* read position, queued for redelivery, in the hands of a dispatch, pending at a
\* connected consumer, or about to be acknowledged.
Conserved ==
    \A m \in (1..last) \ acked :
        \/ Unread(m) \/ Queued(m) \/ InHand(m) \/ AckInFlight(m)
        \/ \E c \in connected : Owns(c, m)

\* The same while no seek and no storage error has come between: flows, acks from
\* any consumer, redeliveries, removals and failed sends lose nothing.
ConservedUnlessUpset == seeks = 0 /\ ~failed => Conserved

\* A message has one owner: only connected consumers hold messages, no two hold the
\* same one, and one that is held and not acknowledged is neither queued nor ahead
\* of the read position, where it would be delivered a second time.
OneOwner ==
    \A m \in 1..last : \A c \in Consumers :
        Owns(c, m) =>
            /\ c \in connected
            /\ \A d \in Consumers : Owns(d, m) => c = d
            /\ m \notin acked => ~Queued(m) /\ (Unread(m) => InHand(m))

\* Every delivery of a message carries a larger redelivery count than the one
\* before, until a seek starts the subscription over.
CountGrows ==
    [][\A t \in Tasks : task[t].pc = "slot" /\ task'[t].pc = "pick" =>
          task[t].count > sent[task[t].msg]]_vars

\* total_available_permits is what its comment says, the sum over the connected
\* consumers, through flows, sends, refunds and removals.
TotalIsSum == total = MapThenSumSet(LAMBDA c : permits[c], connected)

\* No stranded work: once no dispatch runs or is due, there is not both a message
\* to deliver and a consumer that may take one.
NoStranded ==
    (\A t \in Tasks : task[t].pc = "idle") =>
        ~ /\ DOMAIN queue # {} \/ Candidates(last) # {}
          /\ total > 0
          /\ \E c \in Available : ~OverBudget(c)

----------------------------------------------------------------------------
(* Progress: spawned tasks run, handlers finish, and clients grant permits as     *)
(* theirs fall short.                                                          *)

FairSpec ==
    /\ Spec
    /\ \A t \in Tasks : WF_vars(Dispatch(t))
    /\ \A c \in Consumers :
          /\ WF_vars(\E m \in Messages : acknowledge_message(c, m))
          /\ WF_vars(\E t \in Tasks : handle_flow(c, t))

\* A published message is delivered, unless no consumer stays to take it.
Delivered ==
    \A m \in Messages : (m <= last) ~> (sent[m] >= 0 \/ connected = {})

=============================================================================
