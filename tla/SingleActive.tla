---------------------------- MODULE SingleActive ----------------------------
(***************************************************************************)
(* A persistent Exclusive or Failover subscription: dispatcher/exclusive.rs *)
(* and dispatcher/failover.rs, the choice of the active consumer, the      *)
(* rewind when it leaves (single_active.rs), and the handlers that reach   *)
(* them through subscription.rs and persistent_subscription.rs.            *)
(*                                                                         *)
(* Publishes and flows spawn dispatch tasks, which run under the READ lock *)
(* of the subscription.  Unlike the Shared dispatcher these two have no    *)
(* guard: tasks run their loops side by side over one read position.       *)
(* Subscribe, close, the second half of an ack and seek take the WRITE     *)
(* lock and meet no task.                                                  *)
(*                                                                         *)
(* Messages are numbered in log order; the cursor is the set of            *)
(* acknowledged messages it promises to be (AckLog).                       *)
(***************************************************************************)
EXTENDS Integers, FiniteSets, FiniteSetsExt

CONSTANTS
    Consumers,       \* consumer ids
    Nobody,          \* no consumer
    Rank,            \* Rank[c]: place of c by priority, name and id; least first
    Tasks,           \* bound: dispatch tasks spawned and not finished
    Kinds,           \* the subscription types of this instance
    MaxMessages,     \* bound: messages appended
    BatchSize,       \* DISPATCHER_MAX_ROUND_ROBIN_BATCH_SIZE
    FlowSize,        \* permits of one Flow command
    PermitCap,       \* bound: permits a consumer asks for
    Modulus,         \* total_available_permits is an AtomicU32: 2^32
    MaxDisturbances, \* bound: removals and faults
    MaxFaults        \* bound: refused sends, storage errors and seeks

Messages == 1..MaxMessages

ASSUME RankAssumption ==
    /\ Nobody \notin Consumers
    /\ Rank \in [Consumers -> Nat]
    /\ \A c, d \in Consumers : Rank[c] = Rank[d] => c = d
ASSUME SizesAssumption ==
    /\ MaxMessages \in Nat /\ BatchSize \in Nat \ {0} /\ FlowSize \in Nat \ {0}
    /\ PermitCap \in Nat /\ Modulus \in Nat /\ Modulus > PermitCap
    /\ Kinds \subseteq {"Exclusive", "Failover"} /\ Tasks # {}
\* The permits of a consumer, with those that tasks hold, stay below 2^32.
ASSUME TasksAssumption == IsFiniteSet(Tasks) /\ Modulus > PermitCap + Cardinality(Tasks)

VARIABLES
    kind,        \* sub_type
    last,        \* messages 1..last are appended
    acked,       \* the cursor
    readPos,     \* read_position, 0 for None
    connected,   \* consumers of the dispatcher; without any there is none
    active,      \* active_consumer_id, or the consumer of an Exclusive one
    permits,     \* available_permits of each consumer
    pending,     \* pending_acks of each consumer
    total,       \* total_available_permits
    task,        \* the dispatch tasks
    handler,     \* the command each connection is in the middle of
    given,       \* history: messages sent since they were last due anew
    dropped,     \* history: messages whose pending entry was taken away and
                 \* which no rewind has put ahead of the read position since
    disturbed,   \* removals and faults so far, and faults alone
    faults

vars == <<kind, last, acked, readPos, connected, active, permits, pending, total,
          task, handler, given, dropped, disturbed, faults>>

\* A task: where it is, whether it runs under the write lock, its consumer, the
\* position and message in hand, sends left in the round, and whether any was made.
IdleTask == [pc |-> "idle", write |-> FALSE, cons |-> Nobody, pos |-> 0,
             left |-> 0, any |-> FALSE]

Running(t) == task[t].pc \notin {"idle", "spawned"}
WriteLockFree == \A t \in Tasks : ~Running(t)
ReadLockFree == \A t \in Tasks : Running(t) => ~task[t].write

logVars == <<kind, last, acked>>
consVars == <<connected, active, pending>>
permitVars == <<permits, total>>
histVars == <<given, dropped>>
boundVars == <<disturbed, faults>>

Disturb == disturbed < MaxDisturbances /\ disturbed' = disturbed + 1
Fault == Disturb /\ faults < MaxFaults /\ faults' = faults + 1

None == <<"none", 0>>
Acking(m) == <<"ack", m>>
Seeking == <<"seek", 0>>
Ready(c) == c \in connected /\ handler[c] = None

FirstUnacked == IF (1..last) \subseteq acked THEN 0 ELSE Min((1..last) \ acked)

\* The head of the sorted list of consumers.
select_active(S) ==
    IF S = {} THEN Nobody ELSE CHOOSE c \in S : \A d \in S : Rank[c] <= Rank[d]

\* An Exclusive subscription takes one consumer, a Failover one each id once.
Admits(c) ==
    /\ c \notin connected
    /\ kind = "Exclusive" => connected = {}

\* pick_and_schedule_active_consumer: the head of the list becomes active at once,
\* and the aggregate is set to its balance.
pick_active(S) ==
    /\ active' = select_active(S)
    /\ total' = IF S = {} THEN 0 ELSE permits[select_active(S)]

Spawn(t) == task[t].pc = "idle" /\ task' = [task EXCEPT ![t].pc = "spawned"]

Init ==
    /\ kind \in Kinds
    /\ last = 0 /\ acked = {} /\ readPos = 0
    /\ connected = {} /\ active = Nobody
    /\ permits = [c \in Consumers |-> 0] /\ pending = [c \in Consumers |-> {}]
    /\ total = 0 /\ task = [t \in Tasks |-> IdleTask]
    /\ handler = [c \in Consumers |-> None]
    /\ given = {} /\ dropped = {} /\ disturbed = 0 /\ faults = 0

----------------------------------------------------------------------------
(* Handlers. *)

Publish(t) ==
    /\ last < MaxMessages
    /\ last' = last + 1
    /\ Spawn(t)
    /\ UNCHANGED <<kind, acked, readPos, consVars, permitVars, handler, histVars, boundVars>>

\* Mutant of add_consumer: it does not wait for the dispatch tasks.
AddUnlocked(c) ==
    /\ ReadLockFree /\ Admits(c)
    /\ connected' = connected \cup {c}
    /\ pick_active(connected \cup {c})
    /\ UNCHANGED <<logVars, readPos, permits, pending, task, handler, histVars, boundVars>>

\* handle_subscribe, under the write lock.  The read position stays where it is, and
\* so do the pending acks of a consumer that is active no more.
add_consumer(c) ==
    /\ WriteLockFree /\ Admits(c)
    /\ connected' = connected \cup {c}
    /\ pick_active(connected \cup {c})
    /\ UNCHANGED <<logVars, readPos, permits, pending, task, handler, histVars, boundVars>>

\* Mutant of handle_flow: a standby's permits are added to the aggregate too.
FlowOfAnyone(c, t) ==
    /\ ReadLockFree /\ Ready(c)
    /\ permits[c] + FlowSize <= PermitCap
    /\ permits' = [permits EXCEPT ![c] = @ + FlowSize]
    /\ total' = (total + FlowSize) % Modulus
    /\ Spawn(t)
    /\ UNCHANGED <<logVars, readPos, consVars, handler, histVars, boundVars>>

\* handle_flow: the consumer's permits, and the aggregate for the active one.
handle_flow(c, t) ==
    /\ ReadLockFree /\ Ready(c)
    /\ permits[c] + FlowSize <= PermitCap
    /\ permits' = [permits EXCEPT ![c] = @ + FlowSize]
    /\ total' = IF c = active THEN (total + FlowSize) % Modulus ELSE total
    /\ Spawn(t)
    /\ UNCHANGED <<logVars, readPos, consVars, handler, histVars, boundVars>>

\* An individual ack, first half, without a lock: a message that is not pending at
\* the consumer is a stale ack and ignored.
ack_resolve(c, m) ==
    /\ Ready(c) /\ m \in pending[c] /\ m \in given
    /\ pending' = [pending EXCEPT ![c] = @ \ {m}]
    /\ handler' = [handler EXCEPT ![c] = Acking(m)]
    /\ UNCHANGED <<logVars, readPos, connected, active, permitVars, task, histVars, boundVars>>

\* Second half, under the write lock: the cursor.  The dispatcher is not involved.
acknowledge_message(c, m) ==
    /\ WriteLockFree /\ handler[c] = Acking(m)
    /\ acked' = acked \cup {m}
    /\ handler' = [handler EXCEPT ![c] = None]
    /\ UNCHANGED <<kind, last, readPos, consVars, permitVars, task, histVars, boundVars>>

\* A cumulative ack goes to the cursor alone: pending entries are neither asked for
\* nor removed.  It comes in log order from a client that has received m.
ack_cumulative(c, m) ==
    /\ WriteLockFree /\ Ready(c) /\ m \in given /\ m \notin acked
    /\ \A x \in acked : x < m
    /\ acked' = 1..m
    /\ UNCHANGED <<kind, last, readPos, consVars, permitVars, task, handler, histVars,
                   boundVars>>

\* Mutant of rewind_read_position: the new active consumer starts behind the first
\* message that its predecessor had pending.
RewindToPending(c) == IF pending[c] = {} THEN readPos ELSE Min(pending[c])

\* The least of the first unacknowledged message and of what c had pending.
rewind_read_position(c) ==
    LET due == pending[c] \cup (IF FirstUnacked = 0 THEN {} ELSE {FirstUnacked})
    IN  IF due = {} THEN 0 ELSE Min(due)

\* remove_consumer_with_recovery, for close, disconnect and cleanup alike.  Failover:
\* the active consumer's pending acks are drained and the position rewound; those
\* of a standby go with it.  The last consumer takes the dispatcher along.
remove_consumer(c, t) ==
    /\ WriteLockFree /\ Ready(c) /\ Disturb
    /\ connected' = connected \ {c}
    /\ pick_active(connected \ {c})
    /\ permits' = [permits EXCEPT ![c] = 0]
    /\ pending' = [pending EXCEPT ![c] = {}]
    /\ IF connected' = {} THEN
          /\ readPos' = 0
          /\ given' = given \cap acked /\ dropped' = {}
          /\ UNCHANGED task
       ELSE
          /\ task[t].pc = "idle"
          /\ task' = [task EXCEPT ![t].pc = "loop", ![t].write = TRUE]
          /\ IF c = active
             THEN /\ readPos' = rewind_read_position(c)
                  /\ given' = given \cap acked /\ dropped' = {}
             ELSE /\ dropped' = dropped \cup (pending[c] \ acked)
                  /\ UNCHANGED <<readPos, given>>
    /\ UNCHANGED <<logVars, handler, faults>>

\* seek_to_message_id under the write lock: the cursor moves right before m, the read
\* position to the first unacknowledged message, every pending ack is dropped.
seek(c, m) ==
    /\ WriteLockFree /\ Ready(c) /\ Fault
    /\ acked' = 1..(m - 1)
    /\ readPos' = m
    /\ pending' = [d \in Consumers |-> {}]
    /\ handler' = [handler EXCEPT ![c] = Seeking]
    /\ given' = {} /\ dropped' = {}
    /\ UNCHANGED <<kind, last, connected, active, permitVars, task>>

\* handle_seek drains its consumer once more after the lock is released.
seek_drain(c) ==
    /\ handler[c] = Seeking
    /\ handler' = [handler EXCEPT ![c] = None]
    /\ pending' = [pending EXCEPT ![c] = {}]
    /\ dropped' = dropped \cup (pending[c] \ acked)
    /\ UNCHANGED <<logVars, readPos, connected, active, permitVars, task, given, boundVars>>

----------------------------------------------------------------------------
(* dispatch_messages of both dispatchers. *)

Go(t, pc) == task' = [task EXCEPT ![t].pc = pc]
Return(t) == task' = [task EXCEPT ![t] = IdleTask]

\* A round starts with the consumer and the permits it sees; none, and the task ends.
Round(t) ==
    /\ \/ task[t].pc = "spawned" /\ ReadLockFree
       \/ task[t].pc = "loop"
    /\ IF active = Nobody \/ total = 0 THEN Return(t)
       ELSE task' = [task EXCEPT ![t].pc = "permit", ![t].cons = active, ![t].any = FALSE,
                         ![t].left = IF total < BatchSize THEN total ELSE BatchSize]
    /\ UNCHANGED <<logVars, readPos, consVars, permitVars, handler, histVars, boundVars>>

\* After a round: another one while the last made progress and permits remain.
RoundEnd(t, permitsLeft) ==
    task' = IF task[t].any /\ permitsLeft # 0
            THEN [task EXCEPT ![t].pc = "loop", ![t].pos = 0]
            ELSE [task EXCEPT ![t] = IdleTask]

\* use_permit: one from the consumer and one from the aggregate.
UsePermit(t) ==
    LET c == task[t].cons IN
    /\ task[t].pc = "permit"
    /\ IF task[t].left > 0 /\ permits[c] > 0
       THEN /\ permits' = [permits EXCEPT ![c] = @ - 1]
            /\ total' = (total - 1) % Modulus
            /\ Go(t, "load")
       ELSE RoundEnd(t, total) /\ UNCHANGED permitVars
    /\ UNCHANGED <<logVars, readPos, consVars, handler, histVars, boundVars>>

\* next_unacked_candidate: the shared read position is loaded ...
LoadPosition(t) ==
    /\ task[t].pc = "load"
    /\ task' = [task EXCEPT ![t].pc = IF readPos = 0 THEN "first" ELSE "read",
                            ![t].pos = readPos]
    /\ UNCHANGED <<logVars, readPos, consVars, permitVars, handler, histVars, boundVars>>

\* ... the first unacknowledged message taken when there is none ...
LoadFirst(t) ==
    /\ task[t].pc = "first"
    /\ readPos' = FirstUnacked
    /\ task' = [task EXCEPT ![t].pc = IF FirstUnacked = 0 THEN "refund" ELSE "read",
                            ![t].pos = FirstUnacked]
    /\ UNCHANGED <<logVars, consVars, permitVars, handler, histVars, boundVars>>

\* ... and the entry there read; one that is acknowledged is passed over.
ReadEntry(t) ==
    LET p == task[t].pos IN
    /\ task[t].pc = "read"
    /\ IF p > last THEN Go(t, "refund") /\ UNCHANGED readPos
       ELSE IF p \in acked THEN readPos' = p + 1 /\ Go(t, "load")
       ELSE Go(t, "send") /\ UNCHANGED readPos
    /\ UNCHANGED <<logVars, consVars, permitVars, handler, histVars, boundVars>>

\* A storage error ends the task; the permit in its hands is gone.
ReadError(t) ==
    /\ task[t].pc \in {"first", "read"} /\ Fault
    /\ Return(t)
    /\ UNCHANGED <<logVars, readPos, consVars, permitVars, handler, histVars>>

\* enqueue_message: the pending ack, then the channel slot.
Send(t) ==
    LET s == task[t] IN
    /\ s.pc = "send"
    /\ pending' = [pending EXCEPT ![s.cons] = @ \cup {s.pos}]
    /\ given' = given \cup {s.pos}
    /\ Go(t, "commit")
    /\ UNCHANGED <<logVars, readPos, connected, active, permitVars, handler, dropped,
                   boundVars>>

\* The connection is not writable, or there is no slot and the pending ack is taken
\* back, be it this task's or one that another task has recorded for the message.
SendRefused(t) ==
    LET s == task[t] IN
    /\ s.pc = "send" /\ Fault
    /\ \/ UNCHANGED <<pending, dropped>>
       \/ /\ pending' = [pending EXCEPT ![s.cons] = @ \ {s.pos}]
          /\ dropped' = dropped \cup ({s.pos} \cap pending[s.cons])
    /\ Go(t, "refund")
    /\ UNCHANGED <<logVars, readPos, connected, active, permitVars, handler, given>>

\* Mutant of Commit: the position moves past one entry too many.
CommitSkipping(t) ==
    /\ task[t].pc = "commit"
    /\ readPos' = task[t].pos + 2
    /\ task' = [task EXCEPT ![t].pc = "permit", ![t].pos = 0, ![t].left = @ - 1,
                            ![t].any = TRUE]
    /\ UNCHANGED <<logVars, consVars, permitVars, handler, histVars, boundVars>>

Commit(t) ==
    /\ task[t].pc = "commit"
    /\ readPos' = task[t].pos + 1
    /\ task' = [task EXCEPT ![t].pc = "permit", ![t].pos = 0, ![t].left = @ - 1,
                            ![t].any = TRUE]
    /\ UNCHANGED <<logVars, consVars, permitVars, handler, histVars, boundVars>>

\* Nothing to send, or the send refused: the permit goes back, the round is over.
Refund(t) ==
    LET c == task[t].cons IN
    /\ task[t].pc = "refund"
    /\ permits' = [permits EXCEPT ![c] = @ + 1]
    /\ total' = (total + 1) % Modulus
    /\ RoundEnd(t, total')
    /\ UNCHANGED <<logVars, readPos, consVars, handler, histVars, boundVars>>

Dispatch(t) ==
    \/ Round(t) \/ UsePermit(t) \/ LoadPosition(t) \/ LoadFirst(t) \/ ReadEntry(t)
    \/ ReadError(t) \/ Send(t) \/ SendRefused(t) \/ Commit(t) \/ Refund(t)

Next ==
    \/ \E t \in Tasks : Dispatch(t) \/ Publish(t)
    \/ \E c \in Consumers :
          \/ add_consumer(c) \/ seek_drain(c)
          \/ \E m \in 1..last :
                \/ ack_resolve(c, m) \/ acknowledge_message(c, m)
                \/ ack_cumulative(c, m) \/ seek(c, m)
          \/ \E t \in Tasks : handle_flow(c, t) \/ remove_consumer(c, t)

Spec == Init /\ [][Next]_vars

----------------------------------------------------------------------------
(* Properties. *)

Ahead(m) == readPos = 0 \/ m >= readPos
InHand(m) == \E t \in Tasks : task[t].pc \in {"send", "commit"} /\ task[t].pos = m
Held(m) == \E c \in connected : m \in pending[c]
AckInFlight(m) == \E c \in Consumers : handler[c] = Acking(m)

\* Nothing is lost but what is known to be dropped.  However many tasks move the one
\* read position forwards and backwards, a message that is not acknowledged is still
\* ahead of it, in a task's hands, pending at a connected consumer, being acknowledged,
\* or among the messages whose pending entry was taken away: by the departure of a
\* consumer that was no longer active, by the second drain of a seek, or by a refused
\* duplicate.
Accounted ==
    \A m \in (1..last) \ acked :
        Ahead(m) \/ InHand(m) \/ Held(m) \/ AckInFlight(m) \/ m \in dropped

\* A takeover starts over: when the active consumer leaves and another takes its place,
\* every message that is not acknowledged is ahead of the read position, the ones held
\* by any consumer and the dropped ones included.
TakeoverStartsOver ==
    [][ active # Nobody /\ active \notin connected' /\ connected' # {} =>
          \A m \in (1..last) \ acked : readPos' = 0 \/ m >= readPos' ]_vars

\* Only the active consumer is sent messages, although the consumer is looked up once
\* per round and consumers come and go.
OnlyActiveReceives ==
    \A t \in Tasks : task[t].pc \notin {"idle", "spawned", "loop"} => task[t].cons = active

\* The two layers of permits agree: the aggregate is the balance of the active consumer,
\* through flows of standbys, takeovers, refunds and errors, and never wraps.
LayersAgree == total = IF active = Nobody THEN 0 ELSE permits[active]

=============================================================================
