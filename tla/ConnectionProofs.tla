-------------------------- MODULE ConnectionProofs --------------------------
(***************************************************************************)
(* Connection, for every limit a connection may be configured with and     *)
(* any number of Sends: the thread of the write queue, which all topics    *)
(* and connections share, never waits for a connection; and every Send is  *)
(* answered once.                                                          *)
(***************************************************************************)
EXTENDS Connection, FiniteSetTheorems, SequenceTheorems, TLAPS

Typed ==
    /\ limits \in Limits
    /\ next \in Nat /\ held \in Nat /\ pending \in Nat
    /\ wq \in Seq(Nat) /\ replies \in Seq(Nat \X BOOLEAN)

\* What WriteQueueNeverWaits needs to be inductive: pending_send_requests counts the
\* appends that are under way, which is what handle_send compares with the limit.
Counted ==
    pc # "ended" => pending = Len(wq) + Len(replies) /\ pending <= MaxInFlight

Inv == Typed /\ Counted

\* Before an append joins the write queue there is room for it.
LEMMA EnqueueKeeps ==
    ASSUME Inv, NEW i \in Nat, Enqueue(i), pc # "ended", pending < MaxInFlight,
           UNCHANGED <<limits, replies>>, next' \in Nat, held' \in Nat
    PROVE  Inv'
<1>1. CASE UNCHANGED <<wq, pending>>
  BY <1>1, Zenon DEF Inv, Typed, Counted
<1>2. CASE wq' = Append(wq, i) /\ pending' = pending + 1
  <2>1. wq' \in Seq(Nat) /\ Len(wq') = Len(wq) + 1
    BY <1>2, AppendProperties, Zenon DEF Inv, Typed
  <2>2. Len(wq) \in Nat /\ Len(replies) \in Nat
    BY LenProperties, Zenon DEF Inv, Typed
  <2>3. pending = Len(wq) + Len(replies) /\ pending <= MaxInFlight /\ pending \in Nat
    BY Zenon DEF Inv, Typed, Counted
  <2>4. pending' \in Nat /\ pending' = Len(wq') + Len(replies)
    BY <1>2, <2>1, <2>2, <2>3
  <2>5. pending' <= MaxInFlight
    BY <1>2, <2>3, LimitsAssumption
  <2>6. Typed'
    BY <2>1, <2>4, Zenon DEF Inv, Typed
  <2>7. Counted'
    BY <2>4, <2>5, Zenon DEF Counted
  <2>. QED
    BY <2>6, <2>7, Zenon DEF Inv
<1>. QED
  BY <1>1, <1>2, Zenon DEF Enqueue

\* Steps that leave the appends under way alone.
LEMMA OtherSteps ==
    ASSUME Inv, UNCHANGED <<limits, pending, wq, replies>>,
           next' \in Nat, held' \in Nat, pc' # "ended" => pc # "ended"
    PROVE  Inv'
BY Zenon DEF Inv, Typed, Counted

\* The end of the connection's task.
LEMMA Ending ==
    ASSUME Inv, Finish, UNCHANGED <<limits, next, held, wq>>
    PROVE  Inv'
BY DEF Inv, Typed, Counted, Finish, cleanup

\* Commands other than Send, messages for consumers, and the keep-alive.
LEMMA NoAppends ==
    ASSUME Inv,
           \/ handle_connect \/ handle_ping \/ handle_pong \/ frame_error
           \/ \E p \in Producers : handle_producer(p) \/ handle_close_producer(p)
           \/ deliver \/ take_batch \/ feed \/ flush \/ handle_keep_alive_tick \/ client_gone
    PROVE  Inv'
<1>1. /\ UNCHANGED <<limits, pending, wq, replies, next, held>>
      /\ pc' # "ended" => pc # "ended"
  <2>1. CASE \/ handle_connect \/ handle_ping \/ handle_pong \/ frame_error
             \/ \E p \in Producers : handle_producer(p) \/ handle_close_producer(p)
    BY <2>1, Zenon DEF handle_connect, handle_ping, handle_pong, frame_error, handle_producer,
         handle_close_producer, Reading, sendVars, queueVars, envVars
  <2>2. CASE deliver \/ take_batch \/ feed \/ flush \/ handle_keep_alive_tick \/ client_gone
    BY <2>2, Zenon DEF deliver, take_batch, feed, flush, handle_keep_alive_tick, client_gone,
         sendVars, queueVars, envVars
  <2>. QED
    BY <2>1, <2>2, Zenon
<1>. QED
  BY <1>1, OtherSteps, Zenon DEF Inv, Typed

\* The ways a connection ends.
LEMMA Ends ==
    ASSUME Inv, \/ client_closes \/ complete_with_error \/ handshake_timeout
                \/ handle_connection_check_timeout \/ write_error
    PROVE  Inv'
<1>1. Finish /\ UNCHANGED <<limits, next, held, wq>>
  BY Zenon DEF client_closes, complete_with_error, handshake_timeout,
         handle_connection_check_timeout, write_error, envVars
<1>. QED
  BY <1>1, Ending, Zenon

\* Send.
LEMMA Sends ==
    ASSUME Inv, NEW i \in 1..MaxSends,
           send_too_large(i) \/ send_volatile(i) \/ send_persistent(i) \/ send_memory(i)
    PROVE  Inv'
<1>1. /\ i = next /\ next' = next + 1 /\ next \in Nat /\ held \in Nat
      /\ pc = "select" /\ UNCHANGED <<limits, replies>>
  <2>1. Arrives(i) /\ UNCHANGED <<limits, replies>>
    BY Zenon DEF send_too_large, send_volatile, send_persistent, send_memory, queueVars, envVars
  <2>. QED
    BY <2>1, Zenon DEF Inv, Typed, Arrives, Reading
<1>2. CASE send_too_large(i) \/ send_volatile(i) \/ send_memory(i)
  <2>1. UNCHANGED <<pending, wq, held, pc>>
    BY <1>2, Zenon DEF send_too_large, send_volatile, send_memory, queueVars
  <2>. QED
    BY <1>1, <2>1, OtherSteps
<1>3. CASE send_persistent(i)
  <2>1. CASE pending >= MaxInFlight
    <3>1. UNCHANGED <<pending, wq>> /\ held' = i
      BY <1>3, <2>1, Zenon DEF send_persistent
    <3>. QED
      BY <1>1, <3>1, OtherSteps
  <2>2. CASE ~(pending >= MaxInFlight)
    <3>1. Enqueue(i) /\ held' = held
      BY <1>3, <2>2, Zenon DEF send_persistent
    <3>2. pending < MaxInFlight
      BY <2>2, LimitsAssumption DEF Inv, Typed
    <3>. QED
      BY <1>1, <3>1, <3>2, EnqueueKeeps
  <2>. QED
    BY <2>1, <2>2, Zenon
<1>. QED
  BY <1>2, <1>3, Zenon

\* The Send that waited for a slot, the write queue's answers, and their receipts.
LEMMA Appends ==
    ASSUME Inv, slot_free \/ wq_commit \/ complete_persistent_send
    PROVE  Inv'
<1>1. CASE slot_free
  <2>1. /\ Enqueue(held) /\ pc = "slot" /\ pending < MaxInFlight
        /\ held' = 0 /\ UNCHANGED <<limits, replies, next>>
    BY <1>1, Zenon DEF slot_free, envVars
  <2>. QED
    BY <2>1, EnqueueKeeps, Zenon DEF Inv, Typed
<1>2. CASE wq_commit
  <2>1. /\ wq # <<>> /\ wq' = Tail(wq)
        /\ UNCHANGED <<limits, pc, next, held, pending>>
    BY <1>2, Zenon DEF wq_commit, sendVars, envVars
  <2>2. Head(wq) \in Nat /\ Tail(wq) \in Seq(Nat) /\ Len(Tail(wq)) = Len(wq) - 1
    BY <2>1, HeadTailProperties, Zenon DEF Inv, Typed
  <2>3. PICK ok \in BOOLEAN :
           replies' = IF pc = "ended" THEN replies ELSE Append(replies, <<Head(wq), ok>>)
    BY <1>2, Zenon DEF wq_commit
  <2>4. /\ replies' \in Seq(Nat \X BOOLEAN)
        /\ pc # "ended" => Len(replies') = Len(replies) + 1
    <3>1. <<Head(wq), ok>> \in Nat \X BOOLEAN
      BY <2>2, Zenon
    <3>. QED
      BY <2>3, <3>1, AppendProperties DEF Inv, Typed
  <2>5. Len(wq) \in Nat /\ Len(replies) \in Nat
    BY LenProperties, Zenon DEF Inv, Typed
  <2>6. Typed'
    BY <2>1, <2>2, <2>4, Zenon DEF Inv, Typed
  <2>7. Len(wq') = Len(wq) - 1
    BY <2>1, <2>2, Zenon
  <2>8. Counted'
    <3>. SUFFICES ASSUME pc # "ended"
         PROVE  pending = Len(wq') + Len(replies') /\ pending <= MaxInFlight
      BY <2>1, Zenon DEF Counted
    <3>1. pending = Len(wq) + Len(replies) /\ pending <= MaxInFlight
      BY Zenon DEF Inv, Counted
    <3>2. Len(replies') = Len(replies) + 1
      BY <2>4, Zenon
    <3>. QED
      BY <2>5, <2>7, <3>1, <3>2, SMTT(30)
  <2>. QED
    BY <2>6, <2>8, Zenon DEF Inv
<1>3. CASE complete_persistent_send
  <2>1. /\ replies # <<>> /\ replies' = Tail(replies) /\ pending' = pending - 1
        /\ UNCHANGED <<limits, pc, next, held, wq>> /\ pc # "ended"
    BY <1>3, Zenon DEF complete_persistent_send, Release, envVars
  <2>2. Tail(replies) \in Seq(Nat \X BOOLEAN) /\ Len(Tail(replies)) = Len(replies) - 1
    BY <2>1, HeadTailProperties, Zenon DEF Inv, Typed
  <2>3. Len(wq) \in Nat /\ Len(replies) \in Nat /\ Len(replies) > 0
    BY <2>1, LenProperties, EmptySeq DEF Inv, Typed
  <2>4. pending = Len(wq) + Len(replies) /\ pending <= MaxInFlight /\ pending \in Nat
    BY <2>1, Zenon DEF Inv, Typed, Counted
  <2>5. Len(replies') = Len(replies) - 1
    BY <2>1, <2>2, Zenon
  <2>6. pending' \in Nat /\ pending' = Len(wq') + Len(replies')
    BY <2>1, <2>3, <2>4, <2>5
  <2>7. pending' <= MaxInFlight
    BY <2>1, <2>4, LimitsAssumption
  <2>8. Typed'
    BY <2>1, <2>2, <2>6, Zenon DEF Inv, Typed
  <2>9. Counted'
    BY <2>6, <2>7, Zenon DEF Counted
  <2>. QED
    BY <2>8, <2>9, Zenon DEF Inv
<1>. QED
  BY <1>1, <1>2, <1>3, Zenon

\* The invariant holds in every state.
LEMMA InvAlways == Spec => []Inv
<1>1. Init => Inv
  BY LimitsAssumption, EmptySeq DEF Init, Inv, Typed, Counted
<1>2. Inv /\ [Next]_vars => Inv'
  <2>. SUFFICES ASSUME Inv, [Next]_vars PROVE Inv'
    BY Zenon
  <2>1. CASE Next
    BY <2>1, NoAppends, Ends, Sends, Appends, Zenon DEF Next
  <2>2. CASE UNCHANGED vars
    BY <2>2, OtherSteps, Zenon DEF vars, sendVars, queueVars, envVars, Inv, Typed
  <2>. QED
    BY <2>1, <2>2, Zenon
<1>. QED
  BY <1>1, <1>2, PTL DEF Spec

\* The worker of the write queue answers with blocking_send on the connection's channel,
\* whose capacity is the larger of two limits; since a Send is held back while
\* DEFAULT_MAX_PERSISTENT_IN_FLIGHT appends are under way, there is always room.
THEOREM WriterNeverWaits == Spec => []WriteQueueNeverWaits
<1>1. Inv => WriteQueueNeverWaits
  <2>. SUFFICES ASSUME Inv PROVE WriteQueueNeverWaits
    BY Zenon
  <2>1. Len(wq) \in Nat /\ Len(replies) \in Nat /\ (wq # <<>> => Len(wq) > 0)
    BY LenProperties, EmptySeq DEF Inv, Typed
  <2>2. AppendCap >= MaxInFlight
    BY LimitsAssumption DEF AppendCap, Max, MaxPending, Inv, Typed
  <2>3. AppendCap \in Nat
    BY LimitsAssumption, Zenon DEF AppendCap, Max, MaxPending, Inv, Typed
  <2>. QED
    BY <2>1, <2>2, <2>3, LimitsAssumption DEF Inv, Typed, Counted, WriteQueueNeverWaits
<1>. QED
  BY <1>1, InvAlways, PTL

----------------------------------------------------------------------------
(* Each Send is answered once. *)

Kinds == {"receipt", "error", "pretence"}
Answer == Kinds \X Nat
Sent == Nat \ {0}
Persistent(i) == ProducerOf[i] \notin Volatile
Answered(i) == \E k \in DOMAIN Written : Written[k][2] = i
GotReceipt(i) == \E k \in DOMAIN Written : IsReceipt(k) /\ Written[k][2] = i
Waits(i) == InReplies(i) \/ InQueue(i) \/ held = i

Rising(s) == \A k, l \in DOMAIN s : k < l => s[k] < s[l]
Firsts(q) == [k \in DOMAIN q |-> q[k][1]]
Among(s, i) == \E k \in DOMAIN s : s[k] = i

\* One answer each, and receipts in the order of each producer.
InOneOrder ==
    /\ \A k, l \in DOMAIN Written : Written[k][2] = Written[l][2] => k = l
    /\ \A k, l \in DOMAIN Written :
          k < l /\ IsReceipt(k) /\ IsReceipt(l)
             /\ ProducerOf[Written[k][2]] = ProducerOf[Written[l][2]]
                => Written[k][2] < Written[l][2]

\* The answers, which stay when the connection has ended: of Sends that were read,
\* and receipts for what is stored.
Told ==
    /\ out \in Seq(Answer) /\ fed \in Seq(Answer) /\ next \in Sent
    /\ \A i : Answered(i) => i \in Sent /\ i < next
    /\ \A i : GotReceipt(i) /\ Persistent(i) => i \in durable
    /\ InOneOrder

\* Appends are queued and answered in the order of their Sends.
Lines ==
    /\ Rising(wq) /\ Rising(Firsts(replies))
    /\ \A i : InQueue(i) \/ InReplies(i) => i \in Sent
    /\ \A k \in DOMAIN replies : replies[k][2] => replies[k][1] \in durable

InOrder ==
    /\ \A i, j \in Sent : InReplies(i) /\ InQueue(j) => i < j
    /\ \A i, j \in Sent : (InReplies(i) \/ InQueue(i)) /\ held = j => i < j

\* Every Send that was read is at one place.
OnePlace ==
    /\ \A i \in Sent : i < next <=> Answered(i) \/ Waits(i)
    /\ \A i \in Sent : ~(Answered(i) /\ Waits(i))
    /\ held # 0 <=> pc = "slot"

\* A Send that waits is persistent, and later than the persistent ones with a receipt.
ReceiptsFirst ==
    /\ \A i \in Sent : Waits(i) => Persistent(i) /\ limits.queue
    /\ \A i : GotReceipt(i) /\ Persistent(i) => \A j \in Sent : Waits(j) => i < j

Placed == InOrder /\ OnePlace /\ ReceiptsFirst

AnswersInv == Told /\ Lines /\ (pc # "ended" => Placed)

\* Numbers in rising order, when the first is taken off.
Shrinks(s, t, n) ==
    /\ n \in Nat \ {0} /\ DOMAIN s = 1..n /\ \A k \in 1..n : s[k] \in Nat
    /\ DOMAIN t = 1..(n - 1) /\ \A k \in 1..(n - 1) : t[k] = s[k + 1]

LEMMA Shifted ==
    ASSUME NEW s, NEW t, NEW n, Shrinks(s, t, n), Rising(s)
    PROVE  /\ Rising(t) /\ \A i : Among(t, i) <=> Among(s, i) /\ i # s[1]
           /\ Among(s, s[1]) /\ \A i : Among(s, i) => s[1] <= i
<1>. USE DEF Shrinks
<1>1. ASSUME NEW k \in 2..n PROVE s[1] < s[k]
  <2>1. 1 \in 1..n /\ k \in 1..n /\ 1 < k
    OBVIOUS
  <2>. QED
    BY <2>1, Zenon DEF Rising
<1>2. ASSUME NEW k \in 1..(n - 1), NEW l \in 1..(n - 1), k < l PROVE t[k] < t[l]
  <2>1. k + 1 \in 1..n /\ l + 1 \in 1..n /\ k + 1 < l + 1
    BY <1>2
  <2>2. s[k + 1] < s[l + 1]
    BY <2>1, Zenon DEF Rising
  <2>. QED
    BY <2>2, Zenon
<1>3. \A k \in 1..n : s[1] <= s[k]
  BY <1>1
<1>4. ASSUME NEW i, NEW k \in DOMAIN t, t[k] = i
      PROVE  (\E l \in DOMAIN s : s[l] = i) /\ i # s[1]
  <2>1. k + 1 \in 2..n /\ s[k + 1] = i
    BY <1>4
  <2>2. s[1] < i /\ s[1] \in Nat
    BY <1>1, <2>1
  <2>3. k + 1 \in DOMAIN s
    BY <2>1
  <2>. QED
    BY <2>1, <2>2, <2>3
<1>5. ASSUME NEW i, NEW l \in DOMAIN s, s[l] = i, i # s[1] PROVE \E k \in DOMAIN t : t[k] = i
  <2>1. l - 1 \in DOMAIN t /\ t[l - 1] = i
    BY <1>5
  <2>. QED
    BY <2>1, Zenon
<1>6. \A i : (\E k \in DOMAIN t : t[k] = i) <=> (\E k \in DOMAIN s : s[k] = i) /\ i # s[1]
  BY <1>4, <1>5, Zenon
<1>7. Rising(t)
  BY <1>2, Zenon DEF Rising
<1>8. Among(s, s[1]) /\ \A i : Among(s, i) => s[1] <= i
  <2>1. 1 \in DOMAIN s
    OBVIOUS
  <2>. QED
    BY <1>3, <2>1, Zenon DEF Among
<1>. QED
  BY <1>6, <1>7, <1>8, Zenon DEF Among

\* The same when one is added.
Grows(s, t, n, x) ==
    /\ n \in Nat /\ DOMAIN s = 1..n /\ (\A k \in 1..n : s[k] \in Nat /\ s[k] < x) /\ x \in Nat
    /\ DOMAIN t = 1..(n + 1) /\ (\A k \in 1..n : t[k] = s[k]) /\ t[n + 1] = x

LEMMA Extended ==
    ASSUME NEW s, NEW t, NEW n, NEW x, Grows(s, t, n, x), Rising(s)
    PROVE  Rising(t) /\ \A i : Among(t, i) <=> Among(s, i) \/ i = x
<1>. USE DEF Grows
<1>1. Rising(t)
  BY DEF Rising
<1>2. n + 1 \in DOMAIN t /\ \A k \in DOMAIN t : k \in DOMAIN s \/ k = n + 1
  OBVIOUS
<1>3. DOMAIN s \subseteq DOMAIN t
  OBVIOUS
<1>4. \A i : (\E k \in DOMAIN t : t[k] = i) <=> (\E k \in DOMAIN s : s[k] = i) \/ i = x
  BY <1>2, <1>3, Zenon
<1>. QED
  BY <1>1, <1>4, Zenon DEF Among

LEMMA FirstsParts ==
    ASSUME NEW q
    PROVE  /\ DOMAIN Firsts(q) = DOMAIN q /\ \A k \in DOMAIN q : Firsts(q)[k] = q[k][1]
           /\ \A i : Among(Firsts(q), i) <=> \E k \in DOMAIN q : q[k][1] = i
BY Zenon DEF Firsts, Among

LEMMA SeqParts ==
    ASSUME NEW S, NEW s \in Seq(S)
    PROVE  /\ Len(s) \in Nat /\ DOMAIN s = 1..Len(s) /\ \A k \in 1..Len(s) : s[k] \in S
           /\ s # <<>> => /\ Len(s) \in Nat \ {0} /\ Head(s) = s[1] /\ s[1] \in S
                           /\ DOMAIN Tail(s) = 1..(Len(s) - 1)
                           /\ \A k \in 1..(Len(s) - 1) : Tail(s)[k] = s[k + 1]
           /\ \A x : /\ DOMAIN Append(s, x) = 1..(Len(s) + 1) /\ Append(s, x)[Len(s) + 1] = x
                      /\ \A k \in 1..Len(s) : Append(s, x)[k] = s[k]
OBVIOUS

\* The answers, when the buffer is flushed or not, and when one is added.
LEMMA SameAnswers ==
    ASSUME out \in Seq(Answer), fed \in Seq(Answer), Flush \/ UNCHANGED <<out, fed>>
    PROVE  out' \in Seq(Answer) /\ fed' \in Seq(Answer) /\ Written' = Written
<1>1. CASE Flush
  <2>1. out \o fed \in Seq(Answer) /\ <<>> \in Seq(Answer)
    BY ConcatProperties
  <2>2. (out \o fed) \o <<>> = out \o fed
    BY <2>1, ConcatEmptySeq, Zenon
  <2>. QED
    BY <1>1, <2>1, <2>2, Zenon DEF Flush, Written
<1>. QED
  BY <1>1, Zenon DEF Written

LEMMA AppendedLast ==
    \A S : \A s, t \in Seq(S) : \A x \in S : s \o Append(t, x) = Append(s \o t, x)
<1>. SUFFICES ASSUME NEW S, NEW s \in Seq(S), NEW t \in Seq(S), NEW x \in S
     PROVE  s \o Append(t, x) = Append(s \o t, x)
  BY Zenon
<1>1. <<x>> \in Seq(S) /\ s \o t \in Seq(S)
  BY ConcatProperties
<1>2. Append(t, x) = t \o <<x>> /\ Append(s \o t, x) = (s \o t) \o <<x>>
  BY <1>1, AppendIsConcat, Zenon
<1>3. (s \o t) \o <<x>> = s \o (t \o <<x>>)
  BY <1>1, ConcatAssociative
<1>. QED
  BY <1>2, <1>3, Zenon

LEMMA FedLast ==
    ASSUME out \in Seq(Answer), fed \in Seq(Answer), NEW x \in Answer
    PROVE  out \o Append(fed, x) = Append(out \o fed, x)
BY AppendedLast

LEMMA OneMore ==
    ASSUME out \in Seq(Answer), fed \in Seq(Answer), NEW x \in Answer,
           \/ out' = Append(out \o fed, x) /\ fed' = <<>>
           \/ out' = out /\ fed' = Append(fed, x)
           \/ out' = out \o fed /\ fed' = <<x>>
    PROVE  /\ out' \in Seq(Answer) /\ fed' \in Seq(Answer)
           /\ Written \in Seq(Answer) /\ Written' = Append(Written, x)
<1>1. Written \in Seq(Answer) /\ Written = out \o fed
  BY ConcatProperties, Zenon DEF Written
<1>2. Append(Written, x) \in Seq(Answer) /\ <<x>> \in Seq(Answer)
      /\ <<>> \in Seq(Answer) /\ Append(fed, x) \in Seq(Answer)
  BY <1>1, AppendProperties
<1>3. Append(Written, x) \o <<>> = Append(Written, x)
  BY <1>2, ConcatEmptySeq, Zenon
<1>4. Written \o <<x>> = Append(Written, x)
  BY <1>1, <1>2, AppendIsConcat, Zenon
<1>5. out \o Append(fed, x) = Append(out \o fed, x)
  BY FedLast, Zenon
<1>. QED
  BY <1>1, <1>2, <1>3, <1>4, <1>5, Zenon DEF Written

LEMMA AnswersSame ==
    ASSUME Written' = Written
    PROVE  \A i : (Answered(i)' <=> Answered(i)) /\ (GotReceipt(i)' <=> GotReceipt(i))
BY Zenon DEF Answered, GotReceipt, IsReceipt

LEMMA LastAnswer ==
    ASSUME Written \in Seq(Answer), NEW kind \in Kinds, NEW i \in Nat,
           Written' = Append(Written, <<kind, i>>)
    PROVE  \E n \in Nat :
              /\ DOMAIN Written = 1..n /\ DOMAIN Written' = 1..(n + 1)
              /\ Written'[n + 1][1] = kind /\ Written'[n + 1][2] = i
              /\ \A k \in 1..n : Written'[k] = Written[k]
<1>1. PICK n \in Nat : DOMAIN Written = 1..n /\ n = Len(Written)
  BY SeqParts, Zenon
<1>2. /\ DOMAIN Written' = 1..(n + 1) /\ Written'[n + 1] = <<kind, i>>
      /\ \A k \in 1..n : Written'[k] = Written[k]
  BY <1>1, SeqParts
<1>3. Written'[n + 1][1] = kind /\ Written'[n + 1][2] = i
  BY <1>2
<1>. QED
  BY <1>1, <1>2, <1>3, Zenon

LEMMA AnswersMore ==
    ASSUME Written \in Seq(Answer), NEW kind \in Kinds, NEW i \in Nat,
           Written' = Append(Written, <<kind, i>>)
    PROVE  \A j : /\ Answered(j)' <=> Answered(j) \/ j = i
                  /\ GotReceipt(j)' <=> GotReceipt(j) \/ (kind = "receipt" /\ j = i)
<1>1. PICK n \in Nat :
         /\ DOMAIN Written = 1..n /\ DOMAIN Written' = 1..(n + 1)
         /\ Written'[n + 1][1] = kind /\ Written'[n + 1][2] = i
         /\ \A k \in 1..n : Written'[k] = Written[k]
  BY LastAnswer
<1>2. /\ n + 1 \in DOMAIN Written'
      /\ \A k \in DOMAIN Written' : k \in DOMAIN Written \/ k = n + 1
      /\ \A k \in DOMAIN Written : k \in DOMAIN Written' /\ Written'[k] = Written[k]
  BY <1>1
<1>. QED
  BY <1>1, <1>2, Zenon DEF Answered, GotReceipt, IsReceipt

\* The answers stay as they are.
LEMMA ToldStays ==
    ASSUME Told, Flush \/ UNCHANGED <<out, fed>>, next' \in Nat, next <= next',
           durable \subseteq durable'
    PROVE  Told' /\ Written' = Written
<1>1. out' \in Seq(Answer) /\ fed' \in Seq(Answer) /\ Written' = Written
  BY SameAnswers, Zenon DEF Told
<1>2. \A i : (Answered(i)' <=> Answered(i)) /\ (GotReceipt(i)' <=> GotReceipt(i))
  BY <1>1, AnswersSame, Zenon
<1>3. next' \in Sent /\ \A i : Answered(i)' => i \in Sent /\ i < next'
  BY <1>2 DEF Told, Sent
<1>4. \A i : GotReceipt(i)' /\ Persistent(i) => i \in durable'
  BY <1>2, Zenon DEF Told
<1>5. InOneOrder'
  BY <1>1, Zenon DEF Told, InOneOrder, IsReceipt
<1>. QED
  BY <1>1, <1>3, <1>4, <1>5, Zenon DEF Told, Persistent

\* One answer more.
LEMMA OrderGrows ==
    ASSUME Written \in Seq(Answer), NEW kind \in Kinds, NEW i \in Nat,
           Written' = Append(Written, <<kind, i>>), ~Answered(i), InOneOrder,
           kind = "receipt" => \A j : GotReceipt(j) /\ ProducerOf[j] = ProducerOf[i] => j < i
    PROVE  InOneOrder'
<1>1. PICK n \in Nat :
         /\ DOMAIN Written = 1..n /\ DOMAIN Written' = 1..(n + 1)
         /\ Written'[n + 1][1] = kind /\ Written'[n + 1][2] = i
         /\ \A k \in 1..n : Written'[k] = Written[k]
  BY LastAnswer
<1>2. \A k \in DOMAIN Written' : k \in 1..n \/ k = n + 1
  BY <1>1
<1>3. \A k, l \in DOMAIN Written' : k < l => k \in 1..n
  BY <1>1
<1>4. \A k \in 1..n : /\ Written[k][2] # i
                      /\ IsReceipt(k) => GotReceipt(Written[k][2])
  BY <1>1, Zenon DEF Answered, GotReceipt
<1>5. ASSUME NEW k \in DOMAIN Written', NEW l \in DOMAIN Written',
              Written'[k][2] = Written'[l][2]
       PROVE  k = l
  <2>1. CASE k \in 1..n /\ l \in 1..n
    <3>1. Written[k][2] = Written[l][2] /\ k \in DOMAIN Written /\ l \in DOMAIN Written
      BY <1>1, <1>5, <2>1, Zenon
    <3>. QED
      BY <3>1, Zenon DEF InOneOrder
  <2>2. CASE k = n + 1 \/ l = n + 1
    <3>1. \A m \in 1..n : Written'[m][2] # i
      BY <1>1, <1>4, Zenon
    <3>. QED
      BY <1>1, <1>2, <1>5, <2>2, <3>1, Zenon
  <2>. QED
    BY <1>2, <2>1, <2>2, Zenon
<1>6. ASSUME NEW k \in DOMAIN Written', NEW l \in DOMAIN Written', k < l,
              IsReceipt(k)', IsReceipt(l)',
              ProducerOf[Written'[k][2]] = ProducerOf[Written'[l][2]]
       PROVE  Written'[k][2] < Written'[l][2]
  <2>1. k \in 1..n /\ Written'[k] = Written[k] /\ IsReceipt(k)
    <3>1. k \in 1..n
      BY <1>3, <1>6, Zenon
    <3>. QED
      BY <1>1, <1>6, <3>1, Zenon DEF IsReceipt
  <2>2. CASE l \in 1..n
    BY <1>1, <1>6, <2>1, <2>2, Zenon DEF InOneOrder, IsReceipt
  <2>3. CASE l = n + 1
    BY <1>1, <1>4, <1>6, <2>1, <2>3, Zenon DEF IsReceipt
  <2>. QED
    BY <1>2, <2>2, <2>3, Zenon
<1>. QED
  BY <1>5, <1>6, Zenon DEF InOneOrder

\* Send i, which has no answer, gets one.
LEMMA ToldGrows ==
    ASSUME Told, NEW kind \in Kinds, NEW i \in Sent, ~Answered(i),
           \/ out' = Append(out \o fed, <<kind, i>>) /\ fed' = <<>>
           \/ out' = out /\ fed' = Append(fed, <<kind, i>>)
           \/ out' = out \o fed /\ fed' = <<<<kind, i>>>>,
           next' \in Nat, next <= next', i < next', durable \subseteq durable',
           kind = "receipt" /\ Persistent(i) => i \in durable',
           kind = "receipt" => \A j : GotReceipt(j) /\ ProducerOf[j] = ProducerOf[i] => j < i
    PROVE  /\ Told'
           /\ \A j : /\ Answered(j)' <=> Answered(j) \/ j = i
                     /\ GotReceipt(j)' <=> GotReceipt(j) \/ (kind = "receipt" /\ j = i)
<1>1. <<kind, i>> \in Answer /\ i \in Nat
  BY Zenon DEF Sent, Answer
<1>2. /\ out' \in Seq(Answer) /\ fed' \in Seq(Answer)
      /\ Written \in Seq(Answer) /\ Written' = Append(Written, <<kind, i>>)
  BY <1>1, OneMore, Zenon DEF Told
<1>3. \A j : /\ Answered(j)' <=> Answered(j) \/ j = i
             /\ GotReceipt(j)' <=> GotReceipt(j) \/ (kind = "receipt" /\ j = i)
  BY <1>1, <1>2, AnswersMore, Zenon
<1>4. next' \in Sent /\ \A j : Answered(j)' => j \in Sent /\ j < next'
  <2>1. next' \in Sent /\ next \in Nat
    BY DEF Told, Sent
  <2>2. ASSUME NEW j, Answered(j) PROVE j \in Sent /\ j < next'
    <3>1. j \in Sent /\ j < next
      BY <2>2, Zenon DEF Told
    <3>. QED
      BY <2>1, <3>1 DEF Sent
  <2>. QED
    BY <1>3, <2>1, <2>2, Zenon
<1>5. \A j : GotReceipt(j)' /\ Persistent(j) => j \in durable'
  BY <1>3, Zenon DEF Told
<1>6. InOneOrder'
  BY <1>1, <1>2, OrderGrows, Zenon DEF Told
<1>. QED
  BY <1>2, <1>3, <1>4, <1>5, <1>6, Zenon DEF Told, Persistent

\* The write queue and the outcomes, when one is added at the end or taken off the front.
LEMMA QueueGrows ==
    ASSUME wq \in Seq(Nat), Rising(wq), NEW i \in Nat, wq' = Append(wq, i),
           \A j : InQueue(j) => j < i
    PROVE  Rising(wq') /\ \A j : InQueue(j)' <=> InQueue(j) \/ j = i
<1>. DEFINE n == Len(wq)
<1>1. /\ n \in Nat /\ DOMAIN wq = 1..n /\ \A k \in 1..n : wq[k] \in Nat
      /\ DOMAIN wq' = 1..(n + 1) /\ \A k \in 1..n : wq'[k] = wq[k]
      /\ wq'[n + 1] = i
  BY SeqParts
<1>. HIDE DEF n
<1>2. \A k \in 1..n : wq[k] < i
  BY <1>1, Zenon DEF InQueue
<1>3. Grows(wq, wq', n, i)
  BY <1>1, <1>2, Zenon DEF Grows
<1>4. Rising(wq') /\ \A j : Among(wq', j) <=> Among(wq, j) \/ j = i
  BY <1>3, Extended, Zenon
<1>. QED
  BY <1>4, Zenon DEF InQueue, Among

LEMMA QueueShrinks ==
    ASSUME wq \in Seq(Nat), Rising(wq), wq # <<>>, wq' = Tail(wq)
    PROVE  /\ Rising(wq') /\ \A j : InQueue(j)' <=> InQueue(j) /\ j # Head(wq)
           /\ InQueue(Head(wq)) /\ \A j : InQueue(j) => Head(wq) <= j
<1>. DEFINE n == Len(wq)
<1>1. /\ n \in Nat \ {0} /\ DOMAIN wq = 1..n /\ \A k \in 1..n : wq[k] \in Nat
      /\ DOMAIN wq' = 1..(n - 1) /\ \A k \in 1..(n - 1) : wq'[k] = wq[k + 1]
      /\ Head(wq) = wq[1]
  BY SeqParts, Zenon
<1>. HIDE DEF n
<1>2. Shrinks(wq, wq', n)
  BY <1>1, Zenon DEF Shrinks
<1>3. /\ Rising(wq') /\ \A j : Among(wq', j) <=> Among(wq, j) /\ j # wq[1]
      /\ Among(wq, wq[1]) /\ \A j : Among(wq, j) => wq[1] <= j
  BY <1>2, Shifted, Zenon
<1>. QED
  BY <1>1, <1>3, Zenon DEF InQueue, Among

LEMMA RepliesGrow ==
    ASSUME replies \in Seq(Nat \X BOOLEAN), Rising(Firsts(replies)), NEW i \in Nat,
           NEW ok \in BOOLEAN, replies' = Append(replies, <<i, ok>>),
           \A j : InReplies(j) => j < i
    PROVE  /\ Rising(Firsts(replies')) /\ \A j : InReplies(j)' <=> InReplies(j) \/ j = i
           /\ \A k \in DOMAIN replies' : \/ k \in DOMAIN replies /\ replies'[k] = replies[k]
                                         \/ replies'[k] = <<i, ok>>
<1>. DEFINE n == Len(replies)
<1>1. /\ n \in Nat /\ DOMAIN replies = 1..n /\ \A k \in 1..n : replies[k] \in Nat \X BOOLEAN
      /\ DOMAIN replies' = 1..(n + 1) /\ \A k \in 1..n : replies'[k] = replies[k]
      /\ replies'[n + 1] = <<i, ok>>
  BY SeqParts
<1>. HIDE DEF n
<1>2. \A k \in 1..n : replies[k][1] \in Nat
  BY <1>1, Zenon
<1>3. \A k \in 1..n : replies[k][1] < i
  BY <1>1, Zenon DEF InReplies
<1>4. (\A k \in 1..(n + 1) : k \in 1..n \/ k = n + 1) /\ 1..n \subseteq 1..(n + 1)
      /\ n + 1 \in 1..(n + 1)
  BY <1>1
<1>5. replies'[n + 1][1] = i
  BY <1>1
<1>6. Grows(Firsts(replies), Firsts(replies'), n, i)
  <2>1. /\ DOMAIN Firsts(replies) = 1..n /\ \A k \in 1..n : Firsts(replies)[k] = replies[k][1]
        /\ DOMAIN Firsts(replies') = 1..(n + 1)
        /\ \A k \in 1..(n + 1) : Firsts(replies')[k] = replies'[k][1]
    BY <1>1, Zenon DEF Firsts
  <2>2. /\ \A k \in 1..n : /\ Firsts(replies)[k] \in Nat /\ Firsts(replies)[k] < i
                            /\ Firsts(replies')[k] = Firsts(replies)[k]
        /\ Firsts(replies')[n + 1] = i
    BY <1>1, <1>2, <1>3, <1>4, <1>5, <2>1, Zenon
  <2>. QED
    BY <1>1, <2>1, <2>2, Zenon DEF Grows
<1>7. /\ Rising(Firsts(replies'))
      /\ \A j : Among(Firsts(replies'), j) <=> Among(Firsts(replies), j) \/ j = i
  BY <1>6, Extended, Zenon
<1>8. \A j : InReplies(j)' <=> InReplies(j) \/ j = i
  <2>1. \A q : \A j : Among(Firsts(q), j) <=> \E k \in DOMAIN q : q[k][1] = j
    BY FirstsParts, Zenon
  <2>2. \A j : /\ Among(Firsts(replies), j) <=> InReplies(j)
               /\ Among(Firsts(replies'), j) <=> InReplies(j)'
    BY <2>1, Zenon DEF InReplies
  <2>. QED
    BY <1>7, <2>2, Zenon
<1>. QED
  BY <1>1, <1>4, <1>7, <1>8, Zenon

LEMMA RepliesShrink ==
    ASSUME replies \in Seq(Nat \X BOOLEAN), Rising(Firsts(replies)), replies # <<>>,
           replies' = Tail(replies)
    PROVE  /\ Rising(Firsts(replies'))
           /\ \A j : InReplies(j)' <=> InReplies(j) /\ j # Head(replies)[1]
           /\ InReplies(Head(replies)[1]) /\ \A j : InReplies(j) => Head(replies)[1] <= j
           /\ \A k \in DOMAIN replies' : \E l \in DOMAIN replies : replies'[k] = replies[l]
           /\ 1 \in DOMAIN replies /\ Head(replies) = replies[1]
<1>. DEFINE n == Len(replies)
<1>1. /\ n \in Nat \ {0} /\ DOMAIN replies = 1..n
      /\ \A k \in 1..n : replies[k] \in Nat \X BOOLEAN
      /\ DOMAIN replies' = 1..(n - 1) /\ \A k \in 1..(n - 1) : replies'[k] = replies[k + 1]
      /\ Head(replies) = replies[1]
  BY SeqParts, Zenon
<1>. HIDE DEF n
<1>2. /\ 1 \in 1..n /\ \A k \in 1..(n - 1) : k + 1 \in 1..n
      /\ \A k \in 1..n : replies[k][1] \in Nat
  BY <1>1
<1>3. Shrinks(Firsts(replies), Firsts(replies'), n)
  <2>1. /\ DOMAIN Firsts(replies) = 1..n /\ \A k \in 1..n : Firsts(replies)[k] = replies[k][1]
        /\ DOMAIN Firsts(replies') = 1..(n - 1)
        /\ \A k \in 1..(n - 1) : Firsts(replies')[k] = replies'[k][1]
    BY <1>1, Zenon DEF Firsts
  <2>2. /\ \A k \in 1..n : Firsts(replies)[k] \in Nat
        /\ \A k \in 1..(n - 1) : Firsts(replies')[k] = Firsts(replies)[k + 1]
    BY <1>1, <1>2, <2>1
  <2>. QED
    BY <1>1, <2>1, <2>2, Zenon DEF Shrinks
<1>4. Firsts(replies)[1] = Head(replies)[1]
  BY <1>1, <1>2, Zenon DEF Firsts
<1>5. /\ Rising(Firsts(replies'))
      /\ \A j : Among(Firsts(replies'), j) <=> Among(Firsts(replies), j) /\ j # Head(replies)[1]
      /\ Among(Firsts(replies), Head(replies)[1])
      /\ \A j : Among(Firsts(replies), j) => Head(replies)[1] <= j
  BY <1>3, <1>4, Shifted, Zenon
<1>6. \A j : (Among(Firsts(replies), j) <=> InReplies(j))
             /\ (Among(Firsts(replies'), j) <=> InReplies(j)')
  <2>1. \A q : \A j : Among(Firsts(q), j) <=> \E k \in DOMAIN q : q[k][1] = j
    BY FirstsParts, Zenon
  <2>. QED
    BY <2>1, Zenon DEF InReplies
<1>7. /\ \A j : InReplies(j)' <=> InReplies(j) /\ j # Head(replies)[1]
      /\ InReplies(Head(replies)[1]) /\ \A j : InReplies(j) => Head(replies)[1] <= j
  BY <1>5, <1>6, Zenon
<1>. QED
  BY <1>1, <1>2, <1>5, <1>7, Zenon

----------------------------------------------------------------------------
(* Where the Sends are, when one of them moves on. *)

\* No Send does.
LEMMA Stay ==
    ASSUME Placed, Typed, next \in Sent,
           \A j : (Answered(j)' <=> Answered(j)) /\ (GotReceipt(j)' <=> GotReceipt(j)),
           \A j : InQueue(j)' <=> InQueue(j),
           \A j : InReplies(j)' <=> InReplies(j),
           UNCHANGED <<held, next, limits>>, pc' = "slot" <=> pc = "slot"
    PROVE  Placed'
<1>. USE DEF Placed, Persistent
<1>1. InOrder'
  BY Zenon DEF InOrder, OnePlace, Waits, Sent
<1>2. OnePlace'
  BY Zenon DEF OnePlace, Waits, Sent
<1>3. ReceiptsFirst'
  BY Zenon DEF ReceiptsFirst, OnePlace, InOrder, Waits, Sent
<1>. QED
  BY <1>1, <1>2, <1>3, Zenon

\* One is answered as soon as it is read.
LEMMA AnsweredAtOnce ==
    ASSUME Placed, Typed, next \in Sent, NEW kind, NEW i \in Sent, i = next,
           next' = next + 1, pc # "slot", pc' = pc, UNCHANGED <<held, limits>>,
           \A j : /\ Answered(j)' <=> Answered(j) \/ j = i
                  /\ GotReceipt(j)' <=> GotReceipt(j) \/ (kind = "receipt" /\ j = i),
           \A j : InQueue(j)' <=> InQueue(j),
           \A j : InReplies(j)' <=> InReplies(j),
           kind = "receipt" /\ Persistent(i) => ~limits.queue
    PROVE  Placed'
<1>. USE DEF Placed, Persistent
<1>1. InOrder'
  BY Zenon DEF InOrder, OnePlace, Waits, Sent
<1>2. OnePlace'
  BY DEF OnePlace, Waits, Sent
<1>3. ReceiptsFirst'
  BY Zenon DEF ReceiptsFirst, OnePlace, InOrder, Waits, Sent
<1>. QED
  BY <1>1, <1>2, <1>3, Zenon

\* One is read and queued.
LEMMA QueuedAtOnce ==
    ASSUME Placed, Typed, next \in Sent,
           \A j : GotReceipt(j) => j \in Sent /\ j < next,
           NEW i \in Sent, i = next, next' = next + 1, pc # "slot", pc' = pc,
           UNCHANGED <<held, limits>>, Persistent(i), limits.queue,
           \A j : (Answered(j)' <=> Answered(j)) /\ (GotReceipt(j)' <=> GotReceipt(j)),
           \A j : InQueue(j)' <=> InQueue(j) \/ j = i,
           \A j : InReplies(j)' <=> InReplies(j)
    PROVE  Placed'
<1>. USE DEF Placed, Persistent
<1>1. InOrder'
  BY Zenon DEF InOrder, OnePlace, Waits, Sent
<1>2. OnePlace'
  BY DEF OnePlace, Waits, Sent
<1>3. ReceiptsFirst'
  BY Zenon DEF ReceiptsFirst, OnePlace, InOrder, Waits, Sent
<1>. QED
  BY <1>1, <1>2, <1>3, Zenon

\* One is read and held back.
LEMMA HeldBack ==
    ASSUME Placed, Typed, next \in Sent,
           \A j : GotReceipt(j) => j \in Sent /\ j < next,
           NEW i \in Sent, i = next, next' = next + 1, pc # "slot", pc' = "slot",
           held' = i, UNCHANGED limits, Persistent(i), limits.queue,
           \A j : (Answered(j)' <=> Answered(j)) /\ (GotReceipt(j)' <=> GotReceipt(j)),
           \A j : InQueue(j)' <=> InQueue(j),
           \A j : InReplies(j)' <=> InReplies(j)
    PROVE  Placed'
<1>. USE DEF Placed, Persistent
<1>1. InOrder'
  BY Zenon DEF InOrder, OnePlace, Waits, Sent
<1>2. OnePlace'
  BY DEF OnePlace, Waits, Sent
<1>3. ReceiptsFirst'
  BY Zenon DEF ReceiptsFirst, OnePlace, InOrder, Waits, Sent
<1>. QED
  BY <1>1, <1>2, <1>3, Zenon

\* The one that is held back is queued.
LEMMA HeldQueued ==
    ASSUME Placed, Typed, next \in Sent, NEW i \in Sent, held = i, held' = 0,
           pc' = "select", UNCHANGED <<next, limits>>,
           \A j : (Answered(j)' <=> Answered(j)) /\ (GotReceipt(j)' <=> GotReceipt(j)),
           \A j : InQueue(j)' <=> InQueue(j) \/ j = i,
           \A j : InReplies(j)' <=> InReplies(j)
    PROVE  Placed'
<1>. USE DEF Placed, Persistent
<1>1. InOrder'
  BY Zenon DEF InOrder, OnePlace, Waits, Sent
<1>2. OnePlace'
  BY Zenon DEF OnePlace, Waits, Sent
<1>3. ReceiptsFirst'
  BY Zenon DEF ReceiptsFirst, OnePlace, InOrder, Waits, Sent
<1>. QED
  BY <1>1, <1>2, <1>3, Zenon

\* The one that is held back is refused.
LEMMA HeldRefused ==
    ASSUME Placed, Typed, next \in Sent, NEW i \in Sent, held = i, held' = 0,
           pc' = "select", UNCHANGED <<next, limits>>,
           \A j : (Answered(j)' <=> Answered(j) \/ j = i) /\ (GotReceipt(j)' <=> GotReceipt(j)),
           \A j : InQueue(j)' <=> InQueue(j),
           \A j : InReplies(j)' <=> InReplies(j)
    PROVE  Placed'
<1>. USE DEF Placed, Persistent
<1>1. InOrder'
  BY Zenon DEF InOrder, OnePlace, Waits, Sent
<1>2. OnePlace'
  BY DEF OnePlace, InOrder, Waits, Sent
<1>3. ReceiptsFirst'
  BY Zenon DEF ReceiptsFirst, OnePlace, InOrder, Waits, Sent
<1>. QED
  BY <1>1, <1>2, <1>3, Zenon

\* The first of the write queue is stored, or is not.
LEMMA Committed ==
    ASSUME Placed, Typed, next \in Sent, NEW i \in Sent, InQueue(i),
           \A j : InQueue(j) => i <= j,
           UNCHANGED <<next, held, pc, limits>>,
           \A j : (Answered(j)' <=> Answered(j)) /\ (GotReceipt(j)' <=> GotReceipt(j)),
           \A j : InQueue(j)' <=> InQueue(j) /\ j # i,
           \A j : InReplies(j)' <=> InReplies(j) \/ j = i
    PROVE  Placed'
<1>. USE DEF Placed, Persistent
<1>1. InOrder'
  BY DEF InOrder, OnePlace, Waits, Sent
<1>2. OnePlace'
  BY Zenon DEF OnePlace, Waits, Sent
<1>3. ReceiptsFirst'
  BY Zenon DEF ReceiptsFirst, OnePlace, InOrder, Waits, Sent
<1>. QED
  BY <1>1, <1>2, <1>3, Zenon

\* The first outcome becomes a receipt.
LEMMA Completed ==
    ASSUME Placed, Typed, next \in Sent, NEW i \in Sent, InReplies(i),
           \A j : InReplies(j) => i <= j,
           UNCHANGED <<next, held, pc, limits>>,
           \A j : (Answered(j)' <=> Answered(j) \/ j = i) /\ (GotReceipt(j)' <=> GotReceipt(j) \/ j = i),
           \A j : InQueue(j)' <=> InQueue(j),
           \A j : InReplies(j)' <=> InReplies(j) /\ j # i
    PROVE  Placed'
<1>. USE DEF Placed, Persistent
<1>1. InOrder'
  BY Zenon DEF InOrder, OnePlace, Waits, Sent
<1>2. OnePlace'
  BY DEF OnePlace, InOrder, Waits, Sent
<1>3. ReceiptsFirst'
  BY DEF ReceiptsFirst, OnePlace, InOrder, Waits, Sent
<1>. QED
  BY <1>1, <1>2, <1>3, Zenon

----------------------------------------------------------------------------
(* The steps. *)

LEMMA EarlyAnswers ==
    ASSUME Told
    PROVE  /\ \A j : GotReceipt(j) => j \in Sent /\ j < next
           /\ \A j : Answered(j) => j \in Sent /\ j < next
           /\ next \in Sent /\ ~Answered(next)
<1>1. \A j : GotReceipt(j) => Answered(j)
  BY Zenon DEF GotReceipt, Answered
<1>2. \A j : Answered(j) => j \in Sent /\ j < next
  BY Zenon DEF Told
<1>3. next \in Sent /\ ~(next < next)
  BY DEF Told, Sent
<1>. QED
  BY <1>1, <1>2, <1>3, Zenon

LEMMA LinesStay ==
    ASSUME Lines, UNCHANGED <<wq, replies>>, durable \subseteq durable'
    PROVE  /\ Lines'
           /\ \A j : InQueue(j)' <=> InQueue(j)
           /\ \A j : InReplies(j)' <=> InReplies(j)
<1>1. \A j : (InQueue(j)' <=> InQueue(j)) /\ (InReplies(j)' <=> InReplies(j))
  BY Zenon DEF InQueue, InReplies
<1>2. Rising(wq') /\ Rising(Firsts(replies'))
  BY Zenon DEF Lines
<1>3. \A k \in DOMAIN replies' : replies'[k][2] => replies'[k][1] \in durable'
  BY Zenon DEF Lines
<1>. QED
  BY <1>1, <1>2, <1>3, Zenon DEF Lines

\* A step that neither reads nor answers a Send, nor moves an append.
LEMMA QuietStep ==
    ASSUME AnswersInv, Typed, Flush \/ UNCHANGED <<out, fed>>,
           UNCHANGED <<wq, replies, durable, held, next, limits>>,
           pc' = "slot" <=> pc = "slot", pc' # "ended" => pc # "ended"
    PROVE  AnswersInv'
<1>1. Told /\ Lines /\ next \in Sent
  BY Zenon DEF AnswersInv, Told
<1>2. next' \in Nat /\ next <= next' /\ durable \subseteq durable'
  BY DEF Typed
<1>3. Told' /\ Written' = Written
  BY <1>1, <1>2, ToldStays, Zenon
<1>4. /\ Lines'
      /\ \A j : InQueue(j)' <=> InQueue(j)
      /\ \A j : InReplies(j)' <=> InReplies(j)
  BY <1>1, <1>2, LinesStay, Zenon
<1>5. \A j : (Answered(j)' <=> Answered(j)) /\ (GotReceipt(j)' <=> GotReceipt(j))
  BY <1>3, AnswersSame, Zenon
<1>6. Placed => Placed'
  BY <1>1, <1>4, <1>5, Stay, Zenon
<1>. QED
  BY <1>3, <1>4, <1>6, Zenon DEF AnswersInv

\* The end of the connection's task: outcomes are thrown away.
LEMMA EndStep ==
    ASSUME AnswersInv, Typed, Finish, UNCHANGED <<out, fed, wq, durable, next>>
    PROVE  AnswersInv'
<1>1. Told /\ Lines
  BY Zenon DEF AnswersInv
<1>2. pc' = "ended" /\ replies' = <<>>
  BY Zenon DEF Finish, cleanup
<1>3. next' \in Nat /\ next <= next' /\ durable \subseteq durable'
  BY DEF Typed
<1>4. Told'
  BY <1>1, <1>3, ToldStays, Zenon
<1>5. /\ DOMAIN replies' = {} /\ \A j : ~InReplies(j)'
  BY <1>2 DEF InReplies
<1>6. Rising(Firsts(replies'))
  BY <1>5, Zenon DEF Rising, Firsts
<1>7. Rising(wq') /\ \A j : InQueue(j)' <=> InQueue(j)
  BY <1>1, Zenon DEF InQueue, Lines
<1>8. Lines'
  BY <1>1, <1>5, <1>6, <1>7, Zenon DEF Lines
<1>. QED
  BY <1>2, <1>4, <1>8, Zenon DEF AnswersInv

\* A Send that is answered within the turn that reads it.
LEMMA AtOnceStep ==
    ASSUME AnswersInv, Typed, NEW i \in Nat, i = next, next' = next + 1, NEW kind \in Kinds,
           \/ out' = Append(out \o fed, <<kind, i>>) /\ fed' = <<>>
           \/ out' = out \o fed /\ fed' = <<<<kind, i>>>>,
           pc = "select", UNCHANGED <<pc, held, limits, wq, replies>>, durable \subseteq durable',
           kind = "receipt" /\ Persistent(i) => ~limits.queue /\ i \in durable'
    PROVE  AnswersInv'
<1>1. Told /\ Lines /\ Placed
  BY Zenon DEF AnswersInv
<1>2. /\ \A j : GotReceipt(j) => j \in Sent /\ j < i
      /\ i \in Sent /\ ~Answered(i) /\ next \in Sent
  BY <1>1, EarlyAnswers, Zenon
<1>3. next' \in Nat /\ next <= next' /\ i < next'
  OBVIOUS
<1>4. /\ Told'
      /\ \A j : /\ Answered(j)' <=> Answered(j) \/ j = i
                /\ GotReceipt(j)' <=> GotReceipt(j) \/ (kind = "receipt" /\ j = i)
  BY <1>1, <1>2, <1>3, ToldGrows, Zenon
<1>5. /\ Lines'
      /\ \A j : InQueue(j)' <=> InQueue(j)
      /\ \A j : InReplies(j)' <=> InReplies(j)
  BY <1>1, LinesStay, Zenon
<1>6. Placed'
  <2>1. pc # "slot"
    BY Zenon
  <2>. QED
    BY <1>1, <1>2, <1>4, <1>5, <2>1, AnsweredAtOnce, Zenon
<1>. QED
  BY <1>4, <1>5, <1>6, Zenon DEF AnswersInv

\* Lines, when an append joins the write queue.
LEMMA LinesGrow ==
    ASSUME Lines, Typed, NEW i \in Sent, \A j : InQueue(j) => j < i,
           wq' = Append(wq, i), UNCHANGED <<replies, durable>>
    PROVE  /\ Lines'
           /\ \A j : InQueue(j)' <=> InQueue(j) \/ j = i
           /\ \A j : InReplies(j)' <=> InReplies(j)
<1>1. wq \in Seq(Nat) /\ Rising(wq) /\ i \in Nat
  BY Zenon DEF Typed, Lines, Sent
<1>2. Rising(wq') /\ \A j : InQueue(j)' <=> InQueue(j) \/ j = i
  BY <1>1, QueueGrows, Zenon
<1>3. \A j : InReplies(j)' <=> InReplies(j)
  BY Zenon DEF InReplies
<1>4. /\ Rising(Firsts(replies'))
      /\ \A k \in DOMAIN replies' : replies'[k][2] => replies'[k][1] \in durable'
  BY Zenon DEF Lines
<1>. QED
  BY <1>2, <1>3, <1>4, Zenon DEF Lines

\* A Send that is queued within the turn that reads it.
LEMMA QueuedStep ==
    ASSUME AnswersInv, Typed, NEW i \in Nat, i = next, next' = next + 1, Flush,
           wq' = Append(wq, i), UNCHANGED <<pc, held, limits, replies, durable>>,
           pc = "select", Persistent(i), limits.queue
    PROVE  AnswersInv'
<1>1. Told /\ Lines /\ Placed
  BY Zenon DEF AnswersInv
<1>2. /\ \A j : GotReceipt(j) => j \in Sent /\ j < next
      /\ i \in Sent /\ next \in Sent
  BY <1>1, EarlyAnswers, Zenon
<1>3. \A j : InQueue(j) => j < i
  BY <1>1, Zenon DEF Lines, Placed, OnePlace, Waits
<1>4. next' \in Nat /\ next <= next' /\ durable \subseteq durable' /\ pc # "slot"
  OBVIOUS
<1>5. Told' /\ Written' = Written
  BY <1>1, <1>4, ToldStays, Zenon
<1>6. \A j : (Answered(j)' <=> Answered(j)) /\ (GotReceipt(j)' <=> GotReceipt(j))
  BY <1>5, AnswersSame, Zenon
<1>7. /\ Lines'
      /\ \A j : InQueue(j)' <=> InQueue(j) \/ j = i
      /\ \A j : InReplies(j)' <=> InReplies(j)
  BY <1>1, <1>2, <1>3, LinesGrow, Zenon
<1>8. Placed'
  BY <1>1, <1>2, <1>4, <1>6, <1>7, QueuedAtOnce, Zenon
<1>. QED
  BY <1>5, <1>7, <1>8, Zenon DEF AnswersInv

\* A Send that is held back in the turn that reads it.
LEMMA HeldStep ==
    ASSUME AnswersInv, Typed, NEW i \in Nat, i = next, next' = next + 1,
           UNCHANGED <<out, fed, wq, limits, replies, durable>>, held' = i,
           pc = "select", pc' = "slot", Persistent(i), limits.queue
    PROVE  AnswersInv'
<1>1. Told /\ Lines /\ Placed
  BY Zenon DEF AnswersInv
<1>2. /\ \A j : GotReceipt(j) => j \in Sent /\ j < next
      /\ i \in Sent /\ next \in Sent
  BY <1>1, EarlyAnswers, Zenon
<1>3. next' \in Nat /\ next <= next' /\ durable \subseteq durable' /\ pc # "slot"
  OBVIOUS
<1>4. Told' /\ Written' = Written
  BY <1>1, <1>3, ToldStays, Zenon
<1>5. \A j : (Answered(j)' <=> Answered(j)) /\ (GotReceipt(j)' <=> GotReceipt(j))
  BY <1>4, AnswersSame, Zenon
<1>6. /\ Lines'
      /\ \A j : InQueue(j)' <=> InQueue(j)
      /\ \A j : InReplies(j)' <=> InReplies(j)
  BY <1>1, <1>3, LinesStay, Zenon
<1>7. Placed'
  BY <1>1, <1>2, <1>3, <1>5, <1>6, HeldBack, Zenon
<1>. QED
  BY <1>4, <1>6, <1>7, Zenon DEF AnswersInv

\* The Send that waited is queued, or refused.
LEMMA SlotStep ==
    ASSUME AnswersInv, Typed, pc = "slot", pc' = "select", held' = 0,
           UNCHANGED <<next, limits, replies, durable>>,
           \/ wq' = Append(wq, held) /\ Flush
           \/ wq' = wq /\ Reply("error", held)
    PROVE  AnswersInv'
<1>1. Told /\ Lines /\ Placed
  BY Zenon DEF AnswersInv
<1>2. held \in Sent /\ next \in Sent
  BY <1>1, Zenon DEF Typed, Placed, OnePlace, Sent, Told
<1>3. held < next /\ ~Answered(held)
  BY <1>1, <1>2, Zenon DEF Placed, OnePlace, Waits
<1>4. next' \in Nat /\ next <= next' /\ durable \subseteq durable' /\ held < next'
  BY <1>3 DEF Typed
<1>5. CASE wq' = Append(wq, held) /\ Flush
  <2>1. \A j : InQueue(j) => j < held
    BY <1>1, <1>2, Zenon DEF Lines, Placed, InOrder
  <2>2. Told' /\ Written' = Written
    BY <1>1, <1>4, <1>5, ToldStays, Zenon
  <2>3. \A j : (Answered(j)' <=> Answered(j)) /\ (GotReceipt(j)' <=> GotReceipt(j))
    BY <2>2, AnswersSame, Zenon
  <2>4. /\ Lines'
        /\ \A j : InQueue(j)' <=> InQueue(j) \/ j = held
        /\ \A j : InReplies(j)' <=> InReplies(j)
    BY <1>1, <1>2, <1>5, <2>1, LinesGrow, Zenon
  <2>5. Placed'
    BY <1>1, <1>2, <2>3, <2>4, HeldQueued, Zenon
  <2>. QED
    BY <2>2, <2>4, <2>5, Zenon DEF AnswersInv
<1>6. CASE wq' = wq /\ Reply("error", held)
  <2>1. "error" \in Kinds /\ "error" # "receipt"
    BY Zenon DEF Kinds
  <2>2. out' = Append(out \o fed, <<"error", held>>) /\ fed' = <<>>
    BY <1>6, Zenon DEF Reply
  <2>3. /\ Told'
        /\ \A j : /\ Answered(j)' <=> Answered(j) \/ j = held
                  /\ GotReceipt(j)' <=> GotReceipt(j) \/ ("error" = "receipt" /\ j = held)
    BY <1>1, <1>2, <1>3, <1>4, <2>1, <2>2, ToldGrows, Zenon
  <2>4. /\ Lines'
        /\ \A j : InQueue(j)' <=> InQueue(j)
        /\ \A j : InReplies(j)' <=> InReplies(j)
    BY <1>1, <1>4, <1>6, LinesStay, Zenon
  <2>5. \A j : (Answered(j)' <=> Answered(j) \/ j = held) /\ (GotReceipt(j)' <=> GotReceipt(j))
    BY <2>1, <2>3, Zenon
  <2>6. Placed'
    BY <1>1, <1>2, <2>4, <2>5, HeldRefused, Zenon
  <2>. QED
    BY <2>3, <2>4, <2>6, Zenon DEF AnswersInv
<1>. QED
  BY <1>5, <1>6, Zenon

\* The worker of the write queue is done with its oldest append.
LEMMA CommitStep ==
    ASSUME AnswersInv, Typed, wq_commit
    PROVE  AnswersInv'
<1>1. /\ wq # <<>> /\ wq' = Tail(wq)
      /\ UNCHANGED <<out, fed, pc, held, next, limits>>
  BY Zenon DEF wq_commit, outVars, sendVars, envVars
<1>2. PICK ok \in BOOLEAN :
         /\ durable' = IF ok THEN durable \cup {Head(wq)} ELSE durable
         /\ replies' = IF pc = "ended" THEN replies ELSE Append(replies, <<Head(wq), ok>>)
  BY Zenon DEF wq_commit
<1>3. Told /\ Lines /\ next \in Sent
  BY Zenon DEF AnswersInv, Told
<1>4. wq \in Seq(Nat) /\ Rising(wq) /\ replies \in Seq(Nat \X BOOLEAN) /\ Rising(Firsts(replies))
  BY <1>3, Zenon DEF Typed, Lines
<1>5. PICK i : i = Head(wq)
  BY Zenon
<1>6. /\ Rising(wq') /\ \A j : InQueue(j)' <=> InQueue(j) /\ j # i
      /\ InQueue(i) /\ \A j : InQueue(j) => i <= j
  BY <1>1, <1>4, <1>5, QueueShrinks, Zenon
<1>7. i \in Sent /\ i \in Nat
  BY <1>3, <1>6, Zenon DEF Lines, Sent
<1>8. durable \subseteq durable' /\ (ok => i \in durable')
  BY <1>2, <1>5, Zenon
<1>9. next' \in Nat /\ next <= next'
  BY <1>1 DEF Typed
<1>10. Told' /\ Written' = Written
  BY <1>1, <1>3, <1>8, <1>9, ToldStays, Zenon
<1>11. CASE pc = "ended"
  <2>1. replies' = replies
    BY <1>2, <1>11, Zenon
  <2>2. /\ Rising(Firsts(replies')) /\ \A j : InReplies(j)' <=> InReplies(j)
    BY <1>4, <2>1, Zenon DEF InReplies
  <2>3. \A k \in DOMAIN replies' : replies'[k][2] => replies'[k][1] \in durable'
    BY <1>3, <1>8, <2>1, Zenon DEF Lines
  <2>4. Lines'
    BY <1>3, <1>6, <2>2, <2>3, Zenon DEF Lines
  <2>. QED
    BY <1>1, <1>10, <1>11, <2>4, Zenon DEF AnswersInv
<1>12. CASE pc # "ended"
  <2>1. replies' = Append(replies, <<i, ok>>) /\ Placed
    BY <1>2, <1>5, <1>12, Zenon DEF AnswersInv
  <2>2. \A j : InReplies(j) => j < i
    BY <1>3, <1>6, <1>7, <2>1, Zenon DEF Placed, InOrder, Lines
  <2>3. /\ Rising(Firsts(replies')) /\ \A j : InReplies(j)' <=> InReplies(j) \/ j = i
        /\ \A k \in DOMAIN replies' : \/ k \in DOMAIN replies /\ replies'[k] = replies[k]
                                      \/ replies'[k] = <<i, ok>>
    BY <1>4, <1>7, <2>1, <2>2, RepliesGrow, Zenon
  <2>4. ASSUME NEW k \in DOMAIN replies', replies'[k][2] PROVE replies'[k][1] \in durable'
    <3>1. CASE k \in DOMAIN replies /\ replies'[k] = replies[k]
      BY <1>3, <1>8, <2>4, <3>1, Zenon DEF Lines
    <3>2. CASE replies'[k] = <<i, ok>>
      BY <1>8, <2>4, <3>2
    <3>. QED
      BY <2>3, <3>1, <3>2, Zenon
  <2>5. Lines'
    BY <1>3, <1>6, <1>7, <2>3, <2>4, Zenon DEF Lines
  <2>6. \A j : (Answered(j)' <=> Answered(j)) /\ (GotReceipt(j)' <=> GotReceipt(j))
    BY <1>10, AnswersSame, Zenon
  <2>7. Placed'
    BY <1>1, <1>3, <1>6, <1>7, <2>1, <2>3, <2>6, Committed, Zenon
  <2>. QED
    BY <1>10, <2>5, <2>7, Zenon DEF AnswersInv
<1>. QED
  BY <1>11, <1>12, Zenon

\* An append that is stored is answered.
LEMMA CompleteStep ==
    ASSUME AnswersInv, Typed, complete_persistent_send
    PROVE  AnswersInv'
<1>1. PICK i : i = Head(replies)[1]
  BY Zenon
<1>2. /\ replies # <<>> /\ replies' = Tail(replies) /\ Head(replies)[2] /\ pc # "ended"
      /\ UNCHANGED <<pc, held, next, limits, wq, durable>>
  BY Zenon DEF complete_persistent_send, envVars
<1>3. \/ out' = Append(out \o fed, <<"receipt", i>>) /\ fed' = <<>>
      \/ out' = out /\ fed' = Append(fed, <<"receipt", i>>)
  BY <1>1, Zenon DEF complete_persistent_send, Reply
<1>4. Told /\ Lines /\ Placed /\ next \in Sent /\ "receipt" \in Kinds
  BY <1>2, Zenon DEF AnswersInv, Told, Kinds
<1>5. replies \in Seq(Nat \X BOOLEAN) /\ Rising(Firsts(replies))
  BY <1>4, Zenon DEF Typed, Lines
<1>6. /\ Rising(Firsts(replies'))
      /\ \A j : InReplies(j)' <=> InReplies(j) /\ j # i
      /\ InReplies(i) /\ \A j : InReplies(j) => i <= j
      /\ \A k \in DOMAIN replies' : \E l \in DOMAIN replies : replies'[k] = replies[l]
      /\ 1 \in DOMAIN replies /\ Head(replies) = replies[1]
  BY <1>1, <1>2, <1>5, RepliesShrink, Zenon
<1>7. i \in Sent /\ i \in durable
  BY <1>1, <1>2, <1>4, <1>6, Zenon DEF Lines
<1>8. i < next /\ ~Answered(i) /\ \A j : GotReceipt(j) /\ ProducerOf[j] = ProducerOf[i] => j < i
  <2>1. Waits(i) /\ Persistent(i)
    BY <1>4, <1>6, <1>7, Zenon DEF Waits, Placed, ReceiptsFirst
  <2>2. \A j : ProducerOf[j] = ProducerOf[i] => Persistent(j)
    BY <2>1, Zenon DEF Persistent
  <2>. QED
    BY <1>4, <1>7, <2>1, <2>2, Zenon DEF Placed, OnePlace, ReceiptsFirst
<1>9. next' \in Nat /\ next <= next' /\ i < next' /\ durable \subseteq durable' /\ i \in durable'
  BY <1>2, <1>7, <1>8 DEF Typed
<1>10. /\ Told'
       /\ \A j : /\ Answered(j)' <=> Answered(j) \/ j = i
                 /\ GotReceipt(j)' <=> GotReceipt(j) \/ ("receipt" = "receipt" /\ j = i)
  BY <1>3, <1>4, <1>7, <1>8, <1>9, ToldGrows, Zenon
<1>11. \A j : /\ Answered(j)' <=> Answered(j) \/ j = i
              /\ GotReceipt(j)' <=> GotReceipt(j) \/ j = i
  BY <1>10, Zenon
<1>12. \A j : InQueue(j)' <=> InQueue(j)
  BY <1>2, Zenon DEF InQueue
<1>13. \A k \in DOMAIN replies' : replies'[k][2] => replies'[k][1] \in durable'
  BY <1>2, <1>4, <1>6, Zenon DEF Lines
<1>14. Lines'
  BY <1>2, <1>4, <1>6, <1>12, <1>13, Zenon DEF Lines
<1>15. Placed'
  BY <1>2, <1>4, <1>6, <1>7, <1>11, <1>12, Completed, Zenon
<1>. QED
  BY <1>10, <1>14, <1>15, Zenon DEF AnswersInv

\* Commands other than Send, messages for consumers, and the keep-alive.
LEMMA QuietSteps ==
    ASSUME AnswersInv, Typed,
           \/ handle_connect \/ handle_ping \/ handle_pong \/ frame_error
           \/ \E p \in Producers : handle_producer(p) \/ handle_close_producer(p)
           \/ deliver \/ take_batch \/ feed \/ flush \/ handle_keep_alive_tick \/ client_gone
    PROVE  AnswersInv'
<1>1. /\ Flush \/ UNCHANGED <<out, fed>>
      /\ UNCHANGED <<wq, replies, durable, held, next, limits>>
      /\ \/ pc' = pc
         \/ pc = "select" /\ pc' \in {"write", "ended"}
         \/ pc = "write" /\ pc' = "select"
  <2>1. CASE handle_connect \/ handle_ping \/ handle_pong \/ frame_error
    BY <2>1, Zenon DEF handle_connect, Connected, handle_ping, handle_pong, frame_error, Reading,
         sendVars, queueVars, outVars, envVars
  <2>2. CASE \E p \in Producers : handle_producer(p) \/ handle_close_producer(p)
    BY <2>2, Zenon DEF handle_producer, handle_close_producer, sendVars, queueVars, envVars
  <2>3. CASE deliver \/ take_batch \/ feed \/ flush
    BY <2>3, Zenon DEF deliver, take_batch, feed, flush, sendVars, queueVars, outVars, envVars
  <2>4. CASE handle_keep_alive_tick \/ client_gone
    BY <2>4, Zenon DEF handle_keep_alive_tick, start_connection_liveness_check, client_gone,
         sendVars, queueVars, outVars, envVars
  <2>. QED
    BY <2>1, <2>2, <2>3, <2>4, Zenon
<1>2. (pc' = "slot" <=> pc = "slot") /\ (pc' # "ended" => pc # "ended")
  BY <1>1, Zenon
<1>. QED
  BY <1>1, <1>2, QuietStep, Zenon

\* The ways a connection ends.
LEMMA EndSteps ==
    ASSUME AnswersInv, Typed,
           \/ client_closes \/ complete_with_error \/ handshake_timeout
           \/ handle_connection_check_timeout \/ write_error
    PROVE  AnswersInv'
<1>1. Finish /\ UNCHANGED <<out, fed, wq, durable, next>>
  BY Zenon DEF client_closes, complete_with_error, handshake_timeout,
         handle_connection_check_timeout, write_error, outVars
<1>. QED
  BY <1>1, EndStep, Zenon

\* Send.
LEMMA SendSteps ==
    ASSUME AnswersInv, Typed, NEW i \in 1..MaxSends,
           send_too_large(i) \/ send_volatile(i) \/ send_persistent(i) \/ send_memory(i)
    PROVE  AnswersInv'
<1>1. Arrives(i) /\ UNCHANGED <<limits, replies>>
  BY Zenon DEF send_too_large, send_volatile, send_persistent, send_memory, queueVars, envVars
<1>2. i \in Nat /\ i = next /\ next' = next + 1 /\ pc = "select"
  BY <1>1, Zenon DEF Typed, Arrives, Reading
<1>3. "receipt" \in Kinds /\ "error" \in Kinds /\ "pretence" \in Kinds
      /\ "error" # "receipt" /\ "pretence" # "receipt"
  BY Zenon DEF Kinds
<1>4. ASSUME NEW kind \in Kinds, Reply(kind, i), UNCHANGED <<pc, held, wq, durable>>,
             kind = "receipt" => ~Persistent(i)
      PROVE  AnswersInv'
  <2>1. out' = Append(out \o fed, <<kind, i>>) /\ fed' = <<>>
    BY <1>4, Zenon DEF Reply
  <2>2. durable \subseteq durable'
    BY <1>4, Zenon
  <2>. QED
    BY <1>1, <1>2, <1>4, <2>1, <2>2, AtOnceStep, Zenon
<1>5. CASE send_too_large(i)
  <2>1. Reply("error", i) /\ UNCHANGED <<pc, held, wq, durable>>
    BY <1>5, Zenon DEF send_too_large, queueVars
  <2>. QED
    BY <1>3, <1>4, <2>1, Zenon
<1>6. CASE send_volatile(i)
  <2>1. /\ Reply("pretence", i) \/ Reply("receipt", i) \/ Reply("error", i)
        /\ ~Persistent(i) /\ UNCHANGED <<pc, held, wq, durable>>
    BY <1>6, Zenon DEF send_volatile, publish_send, queueVars, Persistent
  <2>. QED
    BY <1>3, <1>4, <2>1, Zenon
<1>7. CASE send_persistent(i)
  <2>1. Persistent(i) /\ limits.queue /\ UNCHANGED durable
    BY <1>7, Zenon DEF send_persistent, Persistent
  <2>2. CASE pending >= MaxInFlight
    <3>1. held' = i /\ pc' = "slot" /\ UNCHANGED <<wq, out, fed>>
      BY <1>7, <2>2, Zenon DEF send_persistent, outVars
    <3>. QED
      BY <1>1, <1>2, <2>1, <3>1, HeldStep, Zenon
  <2>3. CASE ~(pending >= MaxInFlight)
    <3>1. Enqueue(i) /\ UNCHANGED <<held, pc>>
      BY <1>7, <2>3, Zenon DEF send_persistent
    <3>2. \/ wq' = Append(wq, i) /\ Flush
          \/ Reply("error", i) /\ UNCHANGED wq
      BY <3>1, Zenon DEF Enqueue
    <3>3. CASE wq' = Append(wq, i) /\ Flush
      BY <1>1, <1>2, <2>1, <3>1, <3>3, QueuedStep, Zenon
    <3>4. CASE Reply("error", i) /\ UNCHANGED wq
      BY <1>3, <1>4, <2>1, <3>1, <3>4, Zenon
    <3>. QED
      BY <3>2, <3>3, <3>4, Zenon
  <2>. QED
    BY <2>2, <2>3, Zenon
<1>8. CASE send_memory(i)
  <2>1. /\ ~limits.queue /\ UNCHANGED <<pc, held, wq>>
        /\ \/ Reply("error", i) /\ UNCHANGED durable
           \/ durable' = durable \cup {i} /\ out' = out \o fed /\ fed' = <<<<"receipt", i>>>>
    BY <1>8, Zenon DEF send_memory, publish_message
  <2>2. CASE Reply("error", i) /\ UNCHANGED durable
    BY <1>3, <1>4, <2>1, <2>2, Zenon
  <2>3. CASE durable' = durable \cup {i} /\ out' = out \o fed /\ fed' = <<<<"receipt", i>>>>
    <3>1. durable \subseteq durable' /\ i \in durable'
      BY <2>3, Zenon
    <3>. QED
      BY <1>1, <1>2, <1>3, <2>1, <2>3, <3>1, AtOnceStep, Zenon
  <2>. QED
    BY <2>1, <2>2, <2>3, Zenon
<1>. QED
  BY <1>5, <1>6, <1>7, <1>8, Zenon

LEMMA AnswersInit == Init => AnswersInv
<1>. SUFFICES ASSUME Init PROVE AnswersInv
  BY Zenon
<1>1. /\ out = <<>> /\ fed = <<>> /\ wq = <<>> /\ replies = <<>> /\ next = 1 /\ held = 0
      /\ pc = "select"
  BY Zenon DEF Init
<1>2. /\ out \in Seq(Answer) /\ fed \in Seq(Answer) /\ DOMAIN Written = {}
  BY <1>1 DEF Written
<1>3. /\ DOMAIN wq = {} /\ DOMAIN replies = {} /\ next \in Sent
      /\ \A i \in Sent : ~(i < next) /\ held # i
  BY <1>1 DEF Sent
<1>4. Rising(wq) /\ Rising(Firsts(replies))
  BY <1>3, Zenon DEF Rising, Firsts
<1>5. \A i : ~InQueue(i) /\ ~InReplies(i) /\ ~Answered(i) /\ ~GotReceipt(i)
  BY <1>2, <1>3, Zenon DEF InQueue, InReplies, Answered, GotReceipt
<1>6. Told
  BY <1>2, <1>3, <1>5, Zenon DEF Told, InOneOrder
<1>7. Lines
  BY <1>3, <1>4, <1>5, Zenon DEF Lines
<1>8. Placed
  <2>1. held = 0 /\ pc # "slot"
    BY <1>1, Zenon
  <2>. QED
    BY <1>3, <1>5, <2>1, Zenon DEF Placed, InOrder, OnePlace, ReceiptsFirst, Waits
<1>. QED
  BY <1>6, <1>7, <1>8, Zenon DEF AnswersInv

LEMMA AnswersNext == AnswersInv /\ Typed /\ [Next]_vars => AnswersInv'
<1>. SUFFICES ASSUME AnswersInv, Typed, [Next]_vars PROVE AnswersInv'
  BY Zenon
<1>1. CASE \E i \in 1..MaxSends :
              send_too_large(i) \/ send_volatile(i) \/ send_persistent(i) \/ send_memory(i)
  BY <1>1, SendSteps, Zenon
<1>2. CASE slot_free
  <2>1. /\ pc = "slot" /\ pc' = "select" /\ held' = 0 /\ UNCHANGED <<next, limits, replies, durable>>
        /\ Enqueue(held)
    BY <1>2, Zenon DEF slot_free, envVars
  <2>2. \/ wq' = Append(wq, held) /\ Flush
        \/ wq' = wq /\ Reply("error", held)
    BY <2>1, Zenon DEF Enqueue
  <2>. QED
    BY <2>1, <2>2, SlotStep, Zenon
<1>3. CASE wq_commit
  BY <1>3, CommitStep, Zenon
<1>4. CASE complete_persistent_send
  BY <1>4, CompleteStep, Zenon
<1>5. CASE UNCHANGED vars
  <2>1. UNCHANGED <<out, fed, wq, replies, durable, held, next, limits, pc>>
    BY <1>5, Zenon DEF vars, outVars, queueVars, sendVars, envVars
  <2>. QED
    BY <2>1, QuietStep, Zenon
<1>. QED
  BY <1>1, <1>2, <1>3, <1>4, <1>5, QuietSteps, EndSteps, Zenon DEF Next

\* What the invariant says of one Send: its one answer, or the one place where it waits.
LEMMA OneAnswer ==
    ASSUME AnswersInv, pc # "ended", NEW i \in 1..(next - 1)
    PROVE  Cardinality(Answers(i)) + (IF InQueue(i) THEN 1 ELSE 0)
              + (IF InReplies(i) THEN 1 ELSE 0) + (IF held = i THEN 1 ELSE 0) = 1
<1>1. Placed /\ Told /\ i \in Sent /\ i < next
  BY DEF AnswersInv, Told, Sent
<1>2. CASE Answered(i)
  <2>1. PICK k \in DOMAIN Written : Written[k][2] = i
    BY <1>2, Zenon DEF Answered
  <2>2. Answers(i) = {k}
    BY <1>1, <2>1, Zenon DEF Answers, Told, InOneOrder
  <2>3. Cardinality(Answers(i)) = 1
    BY <2>2, FS_Singleton, Zenon
  <2>4. ~InQueue(i) /\ ~InReplies(i) /\ held # i
    BY <1>1, <1>2, Zenon DEF Placed, OnePlace, Waits
  <2>. QED
    BY <2>3, <2>4
<1>3. CASE ~Answered(i)
  <2>1. Answers(i) = {}
    BY <1>3, Zenon DEF Answered, Answers
  <2>2. Cardinality(Answers(i)) = 0
    BY <2>1, FS_EmptySet, Zenon
  <2>3. InQueue(i) \/ InReplies(i) \/ held = i
    BY <1>1, <1>3, Zenon DEF Placed, OnePlace, Waits
  <2>4. ~(i < i)
    BY <1>1 DEF Sent
  <2>5. ~(InReplies(i) /\ InQueue(i)) /\ ~((InReplies(i) \/ InQueue(i)) /\ held = i)
    BY <1>1, <2>4, Zenon DEF Placed, InOrder
  <2>. QED
    BY <2>2, <2>3, <2>5
<1>. QED
  BY <1>2, <1>3, Zenon

\* Every Send the task has read is answered once, or is at one place on its way: held
\* back, in the write queue, or among the outcomes; what has a receipt of the write
\* queue is stored; and the receipts of a producer come in the order of its Sends.
\* handle_send, the worker of the write queue and complete_persistent_send share
\* no lock and no table of Sends: what keeps them in step is that appends are
\* queued, stored and reported in the order of the Sends (Lines, InOrder), that a Send
\* that is held back comes after all of them, and that a Send answered at once is a
\* receipt only for another topic or without a write queue (ReceiptsFirst).
THEOREM AnsweredOnce == Spec => []EachSendAnsweredOnce
<1>1. Inv => Typed
  BY Zenon DEF Inv
<1>2. AnswersInv => EachSendAnsweredOnce
  <2>. SUFFICES ASSUME AnswersInv PROVE EachSendAnsweredOnce
    BY Zenon
  <2>1. ASSUME NEW k \in DOMAIN Written, IsReceipt(k), ProducerOf[Written[k][2]] \notin Volatile
        PROVE  Written[k][2] \in durable
    BY <2>1, Zenon DEF AnswersInv, Told, GotReceipt, Persistent
  <2>2. InOneOrder
    BY Zenon DEF AnswersInv, Told
  <2>. QED
    BY <2>1, <2>2, OneAnswer, Zenon DEF EachSendAnsweredOnce, InOneOrder
<1>. QED
  BY <1>1, <1>2, InvAlways, AnswersInit, AnswersNext, PTL DEF Spec

=============================================================================
