----------------------------- MODULE Connection -----------------------------
(***************************************************************************)
(* One client connection: service/server_cnx.rs with the producer and      *)
(* connection handlers, producer.rs, connection_write_state.rs and the     *)
(* publish rate limiter of topic.rs.                                       *)
(*                                                                         *)
(* The connection is one task.  Each turn of its loop takes one of: a      *)
(* command from the client, unless reading is paused; the outcome of an    *)
(* append; messages for consumers; a keep-alive tick; the deadline of a    *)
(* liveness check.  Two things make it wait in the middle of a turn: a     *)
(* Send when too many are in flight, and a socket the client does not      *)
(* read.  The write queue answers appends in the order it got them.        *)
(*                                                                         *)
(* Time is left out: a timer that is set may fire at any moment.  Sends    *)
(* are numbered in the order the client sends them.                        *)
(***************************************************************************)
EXTENDS Integers, Sequences, FiniteSets
LOCAL INSTANCE Functions

CONSTANTS
    Producers,     \* producer ids the client uses
    Volatile,      \* those of them on a non-persistent topic
    MaxSends,      \* bound: Send commands
    ProducerOf,    \* ProducerOf[i]: producer of Send i
    Size,          \* Size[i]: bytes of its metadata and payload
    Limits,        \* limits a connection may be configured with (see limits)
    MaxInFlight,   \* DEFAULT_MAX_PERSISTENT_IN_FLIGHT
    ChannelCap,    \* capacity of the channel of messages for consumers
    High, Low,     \* watermarks of the write buffer, in messages
    MaxDelivered,  \* bound: messages for consumers
    MaxTicks,      \* bound: Pings sent by the broker
    MaxFaults      \* bound: failed appends

ASSUME LimitsAssumption ==
    /\ MaxInFlight \in Nat \ {0} /\ High \in Nat \ {0} /\ Low \in 0..(High - 1)
    /\ Limits \subseteq [pending : Nat, bytes : Nat, size : Nat, volatile : Nat, rate : Nat,
                   queue : BOOLEAN]

VARIABLES
    limits,     \* max_pending_publish_requests, max_pending_publish_bytes,
                \* max_message_size, max_concurrent_non_persistent, and the topic's
                \* messages_per_sec; and whether the storage has a write queue (RocksDB)
    state,      \* State of the connection
    pc,         \* where its task is: "select", "slot", "write", "ended"
    keepAlive,  \* the client's protocol version supports Ping and Pong
    waiting,    \* waiting_for_pong
    check,      \* connection_check_in_progress
    open,       \* producers of the connection
    registered, \* producers the topics know of
    next,       \* number of the client's next Send
    held,       \* Send that waits for others to complete
    pending,    \* pending_send_requests
    bytes,      \* pending_send_bytes
    sizes,      \* pending_send_sizes
    paused,     \* read_paused
    window,     \* messages_in_window of the rate limiter
    wq,         \* Sends in the write queue
    replies,    \* conn_append channel: outcomes of appends
    out,        \* replies the client gets: <<kind, Send>>
    fed,        \* replies in the write buffer, not flushed
    msgs,       \* message channel: messages for consumers
    batch,      \* messages of the batch being written
    buf,        \* messages in the write buffer
    writable,   \* ConnectionWriteState.writable
    durable,    \* history: Sends the write queue has stored
    gone,       \* the client's host is gone: it neither sends nor reads
    delivered, ticks, faults

sendVars == <<next, held, pending, bytes, sizes, paused, window>>
queueVars == <<wq, replies, durable, faults>>
outVars == <<out, fed>>
writeVars == <<msgs, batch, buf, writable, delivered>>
aliveVars == <<waiting, check, ticks>>
prodVars == <<open, registered>>
envVars == <<limits, gone>>
vars == <<state, pc, keepAlive, aliveVars, prodVars, sendVars, queueVars, outVars, writeVars,
          envVars>>

Init ==
    /\ limits \in Limits
    /\ state = "Start" /\ pc = "select" /\ keepAlive = FALSE
    /\ waiting = FALSE /\ check = FALSE /\ ticks = 0
    /\ open = {} /\ registered = {}
    /\ next = 1 /\ held = 0 /\ pending = 0 /\ bytes = 0 /\ sizes = <<>> /\ paused = FALSE
    /\ window = 0 /\ wq = <<>> /\ replies = <<>> /\ durable = {} /\ faults = 0
    /\ out = <<>> /\ fed = <<>>
    /\ msgs = 0 /\ batch = 0 /\ buf = 0 /\ writable = TRUE /\ delivered = 0
    /\ gone = FALSE

MaxPending == limits.pending
MaxBytes == limits.bytes
Max(a, b) == IF a > b THEN a ELSE b
AppendCap == Max(MaxPending, MaxInFlight)   \* capacity of the conn_append channel

\* cleanup: outcomes are thrown away, the topics forget the producers.
cleanup ==
    /\ replies' = <<>> /\ pending' = 0 /\ paused' = FALSE
    /\ registered' = registered \ open /\ open' = {}

\* The end of the loop, after set_failed or without.
Finish == state' = "Closed" /\ pc' = "ended" /\ cleanup

Reading == pc = "select" /\ ~paused /\ ~gone
\* framed.flush, by itself or as a part of framed.send.
Flush == out' = out \o fed /\ fed' = <<>>
mark_inbound_activity == waiting' = FALSE /\ check' = FALSE /\ UNCHANGED ticks

----------------------------------------------------------------------------
(* Commands of the client other than Send. *)

\* The answer to Connect; the client's version supports keep-alive, or not.
Connected == keepAlive' \in BOOLEAN /\ Flush

handle_connect ==
    /\ Reading /\ state = "Start"
    /\ state' = "Connected" /\ Connected /\ mark_inbound_activity
    /\ UNCHANGED <<pc, prodVars, sendVars, queueVars, writeVars, envVars>>

handle_ping ==
    /\ Reading
    /\ mark_inbound_activity /\ Flush
    /\ UNCHANGED <<state, pc, keepAlive, prodVars, sendVars, queueVars, writeVars, envVars>>

handle_pong ==
    /\ Reading
    /\ mark_inbound_activity
    /\ UNCHANGED <<state, pc, keepAlive, prodVars, sendVars, queueVars, outVars, writeVars,
                   envVars>>

handle_producer(p) ==
    /\ Reading /\ state = "Connected" /\ p \notin open
    /\ open' = open \cup {p} /\ registered' = registered \cup {p}
    /\ mark_inbound_activity /\ Flush
    /\ UNCHANGED <<state, pc, keepAlive, sendVars, queueVars, writeVars, envVars>>

handle_close_producer(p) ==
    /\ Reading /\ state = "Connected" /\ p \in open
    /\ open' = open \ {p} /\ registered' = registered \ {p}
    /\ mark_inbound_activity /\ Flush
    /\ UNCHANGED <<state, pc, keepAlive, sendVars, queueVars, writeVars, envVars>>

\* The client closes the connection, or sends what a handler refuses.
client_closes ==
    /\ Reading
    /\ Finish
    /\ UNCHANGED <<keepAlive, aliveVars, next, held, bytes, sizes, window, wq, durable, faults,
                   outVars, writeVars, envVars>>

\* The frame cannot be read or decoded (a reset connection, a malformed frame): the
\* task returns from the middle of the loop, and cleanup is not reached.
frame_error ==
    /\ Reading
    /\ pc' = "ended"
    /\ UNCHANGED <<state, keepAlive, aliveVars, prodVars, sendVars, queueVars, outVars, writeVars,
                   envVars>>

----------------------------------------------------------------------------
(* Send. *)

Reply(kind, i) == out' = Append(out \o fed, <<kind, i>>) /\ fed' = <<>>

\* allow_publish: what the number of messages in the window becomes once one more is
\* allowed.  A second may have passed since the window began.
Allowed(w) ==
    IF limits.rate = 0 THEN {w} ELSE {v + 1 : v \in {u \in {0, w} : u + 1 <= limits.rate}}

\* The window is full and has not run out.
Exceeded(w) == limits.rate > 0 /\ w + 1 > limits.rate

maybe_pause_read(n, b) == paused \/ n >= MaxPending \/ b >= MaxBytes

\* The Send that is next on the wire.
Arrives(i) ==
    /\ Reading /\ state = "Connected"
    /\ i = next /\ i <= MaxSends /\ ProducerOf[i] \in open
    /\ next' = next + 1 /\ mark_inbound_activity

send_too_large(i) ==
    /\ Arrives(i) /\ Size[i] > limits.size
    /\ Reply("error", i)
    /\ UNCHANGED <<state, pc, keepAlive, prodVars, held, pending, bytes, sizes, paused, window,
                   queueVars, writeVars, envVars>>

\* publish_send: the message is handed to the topic's fan-out, unless its rate is exceeded.
publish_send(i) ==
    \/ window' \in Allowed(window) /\ Reply("receipt", i)
    \/ Exceeded(window) /\ Reply("error", i) /\ UNCHANGED window

\* A non-persistent Send is done within its turn.  With too many requests pending it
\* is dropped, and the receipt is a pretence; otherwise the count goes up and down
\* again, and reading may be resumed on the way.
send_volatile(i) ==
    /\ Arrives(i) /\ Size[i] <= limits.size /\ ProducerOf[i] \in Volatile
    /\ \/ pending >= limits.volatile /\ Reply("pretence", i) /\ UNCHANGED <<paused, window>>
       \/ /\ pending < limits.volatile
          /\ publish_send(i)
          /\ paused' = (/\ maybe_pause_read(pending + 1, bytes + Size[i])
                        /\ ~(pending <= MaxPending \div 2 /\ bytes <= MaxBytes \div 2))
    /\ UNCHANGED <<state, pc, keepAlive, prodVars, held, pending, bytes, sizes, queueVars,
                   writeVars, envVars>>

\* Mutant of Enqueue: a Send that is refused is queued all the same.
EnqueueAnyway(i) ==
    /\ \/ window' \in Allowed(window) /\ Flush
       \/ Exceeded(window) /\ Reply("error", i) /\ UNCHANGED window
    /\ wq' = Append(wq, i)
    /\ pending' = pending + 1 /\ bytes' = bytes + Size[i] /\ sizes' = Append(sizes, Size[i])
    /\ paused' = maybe_pause_read(pending + 1, bytes + Size[i])

\* Validation of the rate, then the write queue.
Enqueue(i) ==
    \/ /\ window' \in Allowed(window)
       /\ wq' = Append(wq, i)
       /\ pending' = pending + 1 /\ bytes' = bytes + Size[i] /\ sizes' = Append(sizes, Size[i])
       /\ paused' = maybe_pause_read(pending + 1, bytes + Size[i])
       /\ Flush
    \/ /\ Exceeded(window)
       /\ Reply("error", i)
       /\ UNCHANGED <<window, wq, pending, bytes, sizes, paused>>

\* Mutant of send_persistent: a Send never waits for others to complete.
SendUnbounded(i) ==
    /\ Arrives(i) /\ Size[i] <= limits.size /\ ProducerOf[i] \notin Volatile
    /\ Enqueue(i) /\ UNCHANGED <<held, pc>>
    /\ UNCHANGED <<state, keepAlive, prodVars, replies, durable, faults, writeVars, envVars>>

\* A persistent Send is queued, or waits first for the number in flight to go down.
send_persistent(i) ==
    /\ Arrives(i) /\ Size[i] <= limits.size /\ ProducerOf[i] \notin Volatile
    /\ limits.queue
    /\ IF pending >= MaxInFlight
       THEN /\ held' = i /\ pc' = "slot"
            /\ UNCHANGED <<window, wq, pending, bytes, sizes, paused, outVars>>
       ELSE Enqueue(i) /\ UNCHANGED <<held, pc>>
    /\ UNCHANGED <<state, keepAlive, prodVars, replies, durable, faults, writeVars, envVars>>

\* publish_message, with a window of w: another validation of the rate, then the storage.
publish_message(i, w) ==
    \/ Exceeded(w) /\ Reply("error", i) /\ window' = w /\ UNCHANGED durable
    \/ /\ window' \in Allowed(w) /\ durable' = durable \cup {i}
       /\ out' = out \o fed /\ fed' = <<<<"receipt", i>>>>

\* Without a write queue the append is made within the turn, and counted and released
\* by it.  The rate is validated twice, and the receipt is fed but not flushed.
send_memory(i) ==
    /\ Arrives(i) /\ Size[i] <= limits.size /\ ProducerOf[i] \notin Volatile
    /\ ~limits.queue
    /\ \/ Exceeded(window) /\ Reply("error", i) /\ UNCHANGED <<window, durable>>
       \/ \E w \in Allowed(window) : publish_message(i, w)
    /\ UNCHANGED <<state, pc, keepAlive, prodVars, held, pending, bytes, sizes, paused, wq,
                   replies, faults, writeVars, envVars>>

slot_free ==
    /\ pc = "slot" /\ pending < MaxInFlight
    /\ Enqueue(held)
    /\ held' = 0 /\ pc' = "select"
    /\ UNCHANGED <<state, keepAlive, aliveVars, prodVars, next, replies, durable, faults,
                   writeVars, envVars>>

----------------------------------------------------------------------------
(* Outcomes of appends. *)

\* The write queue's worker: the oldest append is stored, or fails, and the outcome is
\* sent with blocking_send.  A closed channel takes it at once, and to nowhere.
wq_commit ==
    /\ wq # <<>> /\ (pc # "ended" => Len(replies) < AppendCap)
    /\ \E ok \in BOOLEAN :
          /\ (~ok => faults < MaxFaults) /\ faults' = faults + (IF ok THEN 0 ELSE 1)
          /\ durable' = IF ok THEN durable \cup {Head(wq)} ELSE durable
          /\ replies' = IF pc = "ended" THEN replies ELSE Append(replies, <<Head(wq), ok>>)
    /\ wq' = Tail(wq)
    /\ UNCHANGED <<state, pc, keepAlive, aliveVars, prodVars, sendVars, outVars, writeVars, envVars>>

maybe_resume_read_after_send(n, b) == n <= MaxPending \div 2 /\ b <= MaxBytes \div 2

\* Mutant of Release: the size is taken off the wrong end.
ReleaseNewest ==
    LET z == sizes[Len(sizes)]
    IN  /\ pending' = pending - 1
        /\ bytes' = bytes - z /\ sizes' = SubSeq(sizes, 1, Len(sizes) - 1)
        /\ paused' = (paused /\ ~maybe_resume_read_after_send(pending - 1, bytes - z))

\* Mutant of Release: reading is not resumed.
ReleaseOnly ==
    /\ pending' = pending - 1
    /\ bytes' = bytes - Head(sizes) /\ sizes' = Tail(sizes) /\ UNCHANGED paused

\* The counters of an append that is over.
Release ==
    /\ pending' = pending - 1
    /\ bytes' = bytes - Head(sizes) /\ sizes' = Tail(sizes)
    /\ paused' = (paused /\ ~maybe_resume_read_after_send(pending - 1, bytes - Head(sizes)))

\* complete_persistent_send: a receipt (and, if the producer is still there, a dispatch
\* on its topic, which is no state of the connection).
complete_persistent_send ==
    LET i == Head(replies)[1]
    IN  /\ pc \in {"select", "slot"} /\ replies # <<>> /\ Head(replies)[2]
        /\ Release
        /\ IF pc = "slot" THEN fed' = Append(fed, <<"receipt", i>>) /\ UNCHANGED out
                          ELSE Reply("receipt", i)
        /\ replies' = Tail(replies)
        /\ UNCHANGED <<state, pc, keepAlive, aliveVars, prodVars, next, held, window, wq, durable,
                       faults, writeVars, envVars>>

\* A failed append ends the connection.
complete_with_error ==
    /\ pc \in {"select", "slot"} /\ replies # <<>> /\ ~Head(replies)[2]
    /\ Finish
    /\ UNCHANGED <<keepAlive, aliveVars, next, held, bytes, sizes, window, wq, durable, faults,
                   outVars, writeVars, envVars>>

----------------------------------------------------------------------------
(* Messages for consumers. *)

\* A dispatcher of some subscription hands over a message.
deliver ==
    /\ pc # "ended" /\ delivered < MaxDelivered /\ writable /\ msgs < ChannelCap
    /\ msgs' = msgs + 1 /\ delivered' = delivered + 1
    /\ UNCHANGED <<state, pc, keepAlive, aliveVars, prodVars, sendVars, queueVars, outVars, batch,
                   buf, writable, envVars>>

observe_buffered_bytes(b) == b < High /\ (b <= Low \/ writable)

take_batch ==
    /\ pc = "select" /\ msgs > 0
    /\ batch' = msgs /\ msgs' = 0 /\ pc' = "write"
    /\ UNCHANGED <<state, keepAlive, aliveVars, prodVars, sendVars, queueVars, outVars, buf, writable,
                   delivered, envVars>>

\* feed: a full buffer is flushed first.
feed ==
    /\ pc = "write" /\ batch > 0
    /\ batch' = batch - 1
    /\ buf' = (IF buf >= High THEN 0 ELSE buf) + 1
    /\ writable' = observe_buffered_bytes(buf')
    /\ IF buf >= High THEN Flush ELSE UNCHANGED outVars
    /\ UNCHANGED <<state, pc, keepAlive, aliveVars, prodVars, sendVars, queueVars, msgs,
                   delivered, envVars>>

flush ==
    /\ pc = "write" /\ batch = 0
    /\ buf' = 0 /\ Flush /\ writable' = observe_buffered_bytes(0) /\ pc' = "select"
    /\ UNCHANGED <<state, keepAlive, aliveVars, prodVars, sendVars, queueVars, msgs, batch,
                   delivered, envVars>>

----------------------------------------------------------------------------
(* Keep-alive. *)

\* A tick before the handshake, when the client has been silent for too long.
handshake_timeout ==
    /\ pc = "select" /\ state = "Start"
    /\ Finish
    /\ UNCHANGED <<keepAlive, aliveVars, next, held, bytes, sizes, window, wq, durable, faults,
                   outVars, writeVars, envVars>>

\* Mutant of start_connection_liveness_check: the Ping sets no deadline.
PingWithoutDeadline == waiting' = TRUE /\ Flush /\ UNCHANGED check

\* A Ping, and a deadline for the answer.
start_connection_liveness_check == waiting' = TRUE /\ Flush /\ check' = TRUE

\* A tick when no answer is awaited.  While one is awaited the deadline is set already,
\* and a tick does nothing.
handle_keep_alive_tick ==
    /\ pc = "select" /\ state = "Connected" /\ keepAlive /\ ~waiting
    /\ ticks < MaxTicks \/ gone
    /\ start_connection_liveness_check /\ ticks' = IF gone THEN ticks ELSE ticks + 1
    /\ UNCHANGED <<state, pc, keepAlive, prodVars, sendVars, queueVars, writeVars, envVars>>

handle_connection_check_timeout ==
    /\ pc = "select" /\ check
    /\ Finish
    /\ UNCHANGED <<keepAlive, aliveVars, next, held, bytes, sizes, window, wq, durable, faults,
                   outVars, writeVars, envVars>>

\* The client's host disappears.
client_gone ==
    /\ pc # "ended" /\ ~gone
    /\ gone' = TRUE /\ UNCHANGED limits
    /\ UNCHANGED <<state, pc, keepAlive, aliveVars, prodVars, sendVars, queueVars, outVars, writeVars>>

\* The network gives up on a write to a host that is gone: a write of messages, of
\* receipts, or of the receipts a waiting Send lets through.
write_error ==
    /\ gone /\ \/ pc = "write" /\ (batch = 0 \/ buf >= High)
               \/ pc \in {"select", "slot"} /\ replies # <<>>
    /\ Finish
    /\ UNCHANGED <<keepAlive, aliveVars, next, held, bytes, sizes, window, wq, durable, faults,
                   outVars, writeVars, envVars>>

----------------------------------------------------------------------------
Next ==
    \/ handle_connect \/ handle_ping \/ handle_pong \/ client_closes \/ frame_error
    \/ \E p \in Producers : handle_producer(p) \/ handle_close_producer(p)
    \/ \E i \in 1..MaxSends : send_too_large(i) \/ send_volatile(i) \/ send_persistent(i)
                              \/ send_memory(i)
    \/ slot_free \/ wq_commit \/ complete_persistent_send \/ complete_with_error
    \/ deliver \/ take_batch \/ feed \/ flush
    \/ handshake_timeout \/ handle_keep_alive_tick \/ handle_connection_check_timeout
    \/ client_gone \/ write_error

Spec == Init /\ [][Next]_vars

\* The task is scheduled, timers fire, the write queue works, a client that is there
\* reads, and the network gives up on a host that is gone (writes to it may succeed
\* for a while, as long as the network buffers them).  The client need not send
\* anything.
FairSpec ==
    /\ Spec
    /\ WF_vars(wq_commit)
    /\ SF_vars((~gone /\ complete_persistent_send) \/ complete_with_error)
    /\ WF_vars(slot_free) /\ SF_vars(take_batch)
    /\ WF_vars((buf < High \/ ~gone) /\ feed) /\ WF_vars(~gone /\ flush)
    /\ WF_vars(handshake_timeout) /\ SF_vars(handle_keep_alive_tick)
    /\ SF_vars(handle_connection_check_timeout) /\ WF_vars(write_error)

----------------------------------------------------------------------------
(* Properties. *)

Written == out \o fed
IsReceipt(k) == Written[k][1] = "receipt"
Answers(i) == {k \in DOMAIN Written : Written[k][2] = i}
InQueue(i) == \E k \in DOMAIN wq : wq[k] = i
InReplies(i) == \E k \in DOMAIN replies : replies[k][1] = i

\* Every Send the broker has read is in exactly one place until the task ends: held back,
\* in the write queue, on its way back, or answered, once; a receipt of the write
\* queue means that the message is stored; receipts come in the order of the Sends of
\* a producer.
EachSendAnsweredOnce ==
    /\ pc # "ended" => \A i \in 1..(next - 1) :
          Cardinality(Answers(i)) + (IF InQueue(i) THEN 1 ELSE 0) + (IF InReplies(i) THEN 1 ELSE 0)
             + (IF held = i THEN 1 ELSE 0) = 1
    /\ \A k, l \in DOMAIN Written :
          /\ IsReceipt(k) /\ ProducerOf[Written[k][2]] \notin Volatile => Written[k][2] \in durable
          /\ k < l /\ IsReceipt(k) /\ IsReceipt(l)
             /\ ProducerOf[Written[k][2]] = ProducerOf[Written[l][2]]
                => Written[k][2] < Written[l][2]

Total(s) == FoldFunction(LAMBDA a, b : a + b, 0, s)

\* The counters that pause reading are those of the appends in flight, oldest first,
\* so that the bytes released are those of the append that is over; and reading is
\* paused whenever a limit is reached.
InFlightAccounted ==
    pc # "ended" =>
        /\ pending = Len(wq) + Len(replies) /\ bytes = Total(sizes)
        /\ sizes = [k \in 1..pending |-> Size[IF k <= Len(replies) THEN replies[k][1]
                                              ELSE wq[k - Len(replies)]]]
        /\ pending > 0 /\ (pending >= MaxPending \/ bytes >= MaxBytes) => paused

\* No more appends are in flight than allowed, so that the worker of the write queue,
\* which all connections share, never waits for one of them: there is always room for
\* the outcome of the append it is at.
WriteQueueNeverWaits ==
    pc # "ended" => /\ Len(wq) + Len(replies) <= MaxInFlight
                    /\ wq # <<>> => Len(replies) < AppendCap

\* Reading does not stay paused: appends are answered, and answers resume it.
ReadingResumes == paused ~> ~paused

\* A client whose host is gone is found out, though reading may be paused, a batch half
\* written or a Send held back (if its version supports keep-alive).
DeadPeerFoundOut == (gone /\ (keepAlive \/ state = "Start")) ~> (pc = "ended")

=============================================================================
