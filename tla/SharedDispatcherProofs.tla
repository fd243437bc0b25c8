----------------------- MODULE SharedDispatcherProofs -----------------------
(***************************************************************************)
(* SharedDispatcher, for every number of consumers, dispatch tasks and     *)
(* messages, every weight, budget and limit: one dispatch loop runs at a   *)
(* time, a message has one owner, none is lost, and redelivery counts      *)
(* grow.  With one dispatch at a time, none ends with work left to do.     *)
(***************************************************************************)
EXTENDS SharedDispatcher, FiniteSetTheorems, WellFoundedInduction, TLAPS

Pcs == {"idle", "spawned", "enter", "merge", "batch", "pick", "send", "slot",
        "release", "check", "retake"}

\* Where a task holds the guard of the loop, and where it holds a message.
Busy == {"batch", "pick", "send", "slot", "release"}
Hands == {"send", "slot"}

TaskRecords == [pc : Pcs, write : BOOLEAN, cons : Consumers \cup {Nobody}, msg : Nat,
                count : Nat, fresh : BOOLEAN, left : Int, any : BOOLEAN]

\* A map from messages of the log to redelivery counts.
CountMap(f) == DOMAIN f \subseteq 1..last /\ \A m \in DOMAIN f : f[m] \in Nat

Typed ==
    /\ last \in Nat /\ last <= MaxMessages /\ acked \subseteq 1..last
    /\ readPos \in Nat /\ readPos <= last + 1
    /\ connected \subseteq Consumers
    /\ permits \in [Consumers -> Int] /\ total \in Int
    /\ CountMap(queue)
    /\ DOMAIN pending = Consumers /\ \A c \in Consumers : CountMap(pending[c])
    /\ DOMAIN handler = Consumers /\ sent \in [Messages -> Int]
    /\ seeks \in Nat /\ failed \in BOOLEAN /\ inProgress \in BOOLEAN
    /\ task \in [Tasks -> TaskRecords]

\* dispatch_in_progress is a lock: one task at most is past it.
Exclusion ==
    /\ \A t \in Tasks : task[t].pc \in Busy => inProgress
    /\ \A t, u \in Tasks : task[t].pc \in Busy /\ task[u].pc \in Busy => t = u

\* A message in hand s is neither acknowledged nor queued; it was read at the read
\* position or is behind it; its count is new; it belongs to nobody until it is
\* tracked, and then to its consumer alone, unless an ack or a seek has taken it.
HandOf(s) ==
    /\ s.msg \in (1..last) \ acked /\ s.cons \in connected /\ ~Queued(s.msg)
    /\ s.fresh => readPos = s.msg
    /\ ~s.fresh => ~Unread(s.msg)
    /\ s.count > sent[s.msg]
    /\ s.pc = "send" => \A c \in Consumers : ~Owns(c, s.msg)
    /\ s.pc = "slot" => \A c \in Consumers :
          Owns(c, s.msg) => c = s.cons /\ pending[c][s.msg] = s.count
    /\ s.pc = "slot" /\ seeks = 0 => Owns(s.cons, s.msg) \/ AckInFlight(s.msg)

Hand == \A t \in Tasks : task[t].pc \in Hands => HandOf(task[t])

\* What is queued, or was sent before, is behind the read position, unless acknowledged.
Past == \A m \in (1..last) \ acked : Queued(m) \/ sent[m] >= 0 => ~Unread(m)

\* Counts never fall behind the last delivery, and what is queued is ahead of it.
Counts ==
    /\ \A m \in DOMAIN queue : queue[m] > sent[m]
    /\ \A c \in Consumers : \A m \in DOMAIN pending[c] : pending[c][m] >= sent[m]
    /\ \A m \in Messages : m > last => sent[m] < 0

\* A connection is in the middle of a seek only after one.
Started == \A c \in Consumers : handler[c] = Seeking => seeks > 0

Ledger == Hand /\ OneOwner /\ Past /\ Counts /\ Started /\ ConservedUnlessUpset

Inv == Typed /\ Exclusion /\ Ledger

----------------------------------------------------------------------------
(* Helpers. *)

\* A non-empty set of numbers has a least element.
LEMMA MinOf ==
    ASSUME NEW S, S \subseteq Nat, S # {}
    PROVE  Min(S) \in S /\ \A x \in S : Min(S) <= x
<1>. DEFINE R == OpToRel(<, Nat)
<1>1. \A x, y \in Nat : y < x => <<y, x>> \in R
  BY Zenon DEF OpToRel
<1>2. IsWellFoundedOn(R, Nat)
  BY NatLessThanWellFounded, Zenon
<1>. HIDE DEF R
<1>3. PICK x \in S : \A y \in S : ~ (<<y, x>> \in R)
  BY <1>2, WFMin, Zenon
<1>4. x \in Nat /\ S \subseteq Nat
  BY Zenon
<1>5. \A y \in S : ~ (y < x)
  BY <1>1, <1>3, <1>4, Zenon
<1>6. \A y \in S : x <= y
  BY <1>4, <1>5
<1>. QED
  BY <1>6, Zenon DEF Min

\* Drop takes messages out and leaves the counts of the others.
LEMMA Dropped ==
    ASSUME NEW f, NEW S
    PROVE  DOMAIN Drop(f, S) = DOMAIN f \ S /\ \A m \in DOMAIN f \ S : Drop(f, S)[m] = f[m]
BY Zenon DEF Drop, Restrict

\* Messages on their way back to the queue have one delivery more.
LEMMA Recounted ==
    ASSUME NEW p, NEW S
    PROVE  /\ DOMAIN Redelivered(p, S) = DOMAIN p \cap S
           /\ \A m \in DOMAIN p \cap S : Redelivered(p, S)[m] = p[m] + 1
BY Zenon DEF Redelivered

\* The queue keeps what it has, takes what it is given, and no count becomes smaller.
LEMMA Requeued ==
    ASSUME NEW q, NEW e, \A m \in DOMAIN q : q[m] \in Nat, \A m \in DOMAIN e : e[m] \in Nat
    PROVE  /\ DOMAIN Requeue(q, e) = DOMAIN q \cup DOMAIN e
           /\ \A m \in DOMAIN q : Requeue(q, e)[m] \in Nat /\ Requeue(q, e)[m] >= q[m]
           /\ \A m \in DOMAIN e : Requeue(q, e)[m] \in Nat /\ Requeue(q, e)[m] >= e[m]
           /\ \A m \in DOMAIN Requeue(q, e) :
                 \/ m \in DOMAIN q /\ Requeue(q, e)[m] = q[m]
                 \/ m \in DOMAIN e /\ Requeue(q, e)[m] = e[m]
BY DEF Requeue, Max2

\* The states of a connection's handler differ.
LEMMA HandlersDiffer ==
    /\ \A m, n : Acking(m) = Acking(n) => m = n
    /\ \A m : Acking(m) # None /\ Acking(m) # Seeking
    /\ Seeking # None
BY Zenon DEF Acking, None, Seeking

\* Nothing unacknowledged lies below the first unacknowledged message.
LEMMA FirstIsLeast ==
    ASSUME NEW n \in Nat, NEW A
    PROVE  /\ FirstUnacked(n, A) \in 0..n
           /\ FirstUnacked(n, A) # 0 => FirstUnacked(n, A) \notin A
           /\ \A m \in 1..n : m \in A \/ (FirstUnacked(n, A) # 0 /\ FirstUnacked(n, A) <= m)
<1>. DEFINE S == (1..n) \ A
<1>1. CASE S = {}
  BY <1>1 DEF FirstUnacked
<1>2. CASE S # {}
  <2>1. S \subseteq Nat
    OBVIOUS
  <2>2. Min(S) \in S /\ \A x \in S : Min(S) <= x
    BY <1>2, <2>1, MinOf, Zenon
  <2>3. FirstUnacked(n, A) = Min(S)
    BY <1>2, Zenon DEF FirstUnacked
  <2>. HIDE DEF S
  <2>4. Min(S) \in 1..n /\ Min(S) \notin A /\ \A m \in 1..n : m \in A \/ Min(S) <= m
    BY <2>2, Zenon DEF S
  <2>. QED
    BY <2>3, <2>4
<1>. QED
  BY <1>1, <1>2, Zenon

----------------------------------------------------------------------------
(* Steps in general. *)

\* One task changes.
LEMMA TaskBecomes ==
    ASSUME task \in [Tasks -> TaskRecords], NEW t \in Tasks, NEW r \in TaskRecords,
           task' = [task EXCEPT ![t] = r]
    PROVE  /\ task' \in [Tasks -> TaskRecords] /\ \A u \in Tasks \ {t} : task'[u] = task[u]
           /\ task'[t] = r
BY Zenon

\* One task goes on elsewhere.
LEMMA TaskGoes ==
    ASSUME task \in [Tasks -> TaskRecords], NEW t \in Tasks, NEW pc \in Pcs,
           task' = [task EXCEPT ![t].pc = pc]
    PROVE  /\ task' \in [Tasks -> TaskRecords] /\ \A u \in Tasks \ {t} : task'[u] = task[u]
           /\ task'[t].pc = pc /\ task'[t].cons = task[t].cons /\ task'[t].msg = task[t].msg
           /\ task'[t].count = task[t].count /\ task'[t].fresh = task[t].fresh
           /\ task'[t].left = task[t].left
<1>1. task[t] \in TaskRecords
  BY Zenon
<1>2. [task[t] EXCEPT !.pc = pc] \in TaskRecords
  BY <1>1, Zenon DEF TaskRecords
<1>. QED
  BY <1>1, <1>2, TaskBecomes, Zenon DEF TaskRecords

\* A task goes idle.
LEMMA TaskEnds ==
    ASSUME task \in [Tasks -> TaskRecords], NEW t \in Tasks, Return(t)
    PROVE  /\ task' \in [Tasks -> TaskRecords] /\ \A u \in Tasks \ {t} : task'[u] = task[u]
           /\ task'[t].pc = "idle"
<1>1. IdleTask \in TaskRecords /\ IdleTask.pc = "idle"
  BY DEF IdleTask, TaskRecords, Pcs
<1>. QED
  BY <1>1, TaskBecomes, Zenon DEF Return

\* A step of task t that passes the guard only when it is free, and releases it only
\* as its holder.
LEMMA GuardKept ==
    ASSUME Typed, Exclusion, NEW t \in Tasks, \A u \in Tasks \ {t} : task'[u] = task[u],
           task'[t].pc \in Busy => inProgress' /\ (task[t].pc \in Busy \/ ~inProgress),
           inProgress => inProgress' \/ task[t].pc \in Busy
    PROVE  Exclusion'
<1>1. ASSUME NEW u \in Tasks, task'[u].pc \in Busy PROVE inProgress'
  BY <1>1, Zenon DEF Exclusion
<1>2. ASSUME NEW u \in Tasks, NEW v \in Tasks, task'[u].pc \in Busy, task'[v].pc \in Busy
      PROVE  u = v
  BY <1>2, Zenon DEF Exclusion
<1>. QED
  BY <1>1, <1>2, Zenon DEF Exclusion

\* A step that leaves the messages where they are, and those in hand in the same hands.
LEMMA MessagesStay ==
    ASSUME Inv, UNCHANGED <<last, acked, readPos, queue, pending, handler, sent, seeks>>,
           connected \subseteq connected', failed => failed',
           \A u \in Tasks : task'[u].pc \in Hands \/ task[u].pc \in Hands => task'[u] = task[u]
    PROVE  Ledger'
<1>. USE DEF Inv, Ledger
<1>1. \A m : InHand(m)' <=> InHand(m)
  BY Zenon DEF InHand, Hands
<1>2. \A m : /\ Queued(m)' <=> Queued(m)
             /\ AckInFlight(m)' <=> AckInFlight(m)
             /\ Unread(m)' <=> Unread(m)
             /\ \A c : Owns(c, m)' <=> Owns(c, m)
  BY Zenon DEF Queued, AckInFlight, Unread, Owns
<1>3. Hand'
  <2>1. ASSUME NEW t \in Tasks, task'[t].pc \in Hands PROVE HandOf(task[t])'
    <3>1. task'[t] = task[t] /\ HandOf(task[t])
      BY <2>1, Zenon DEF Hand
    <3>. QED
      BY <1>2, <3>1, Zenon DEF HandOf
  <2>. QED
    BY <2>1, Zenon DEF Hand
<1>4. OneOwner'
  BY <1>1, <1>2, Zenon DEF OneOwner
<1>5. Past' /\ Counts' /\ Started'
  BY <1>2, Zenon DEF Past, Counts, Started
<1>6. ConservedUnlessUpset'
  BY <1>1, <1>2, Zenon DEF ConservedUnlessUpset, Conserved
<1>. QED
  BY <1>3, <1>4, <1>5, <1>6, Zenon

\* The same for the types.
LEMMA TypesStay ==
    ASSUME Typed, UNCHANGED <<last, acked, readPos, queue, pending, handler, sent, seeks>>,
           connected' \subseteq Consumers, permits' \in [Consumers -> Int], total' \in Int,
           failed' \in BOOLEAN, inProgress' \in BOOLEAN, task' \in [Tasks -> TaskRecords]
    PROVE  Typed'
BY Zenon DEF Typed, CountMap

----------------------------------------------------------------------------
(* The guard of the loop, and steps that touch no message. *)

\* A task comes to the loop, leaves it or starts a batch.
LEMMA LoopSteps ==
    ASSUME Inv, NEW t \in Tasks,
           Enter(t) \/ Merge(t) \/ Batch(t) \/ Release(t) \/ Check(t) \/ Retake(t)
    PROVE  Inv'
<1>. USE DEF Inv
<1>0. task \in [Tasks -> TaskRecords] /\ task[t] \in TaskRecords /\ inProgress \in BOOLEAN
      /\ total \in Int
  BY Zenon DEF Typed
<1>1. /\ UNCHANGED <<last, acked, readPos, queue, pending, handler, sent, seeks>>
      /\ UNCHANGED <<connected, permits, total, failed>>
  <2>1. CASE Enter(t) \/ Merge(t) \/ Batch(t)
    BY <2>1, Zenon DEF Enter, Merge, Batch, cursorVars, consVars, flagVars, envVars
  <2>2. CASE Release(t) \/ Check(t) \/ Retake(t)
    BY <2>2, Zenon DEF Release, Check, Retake, cursorVars, consVars, flagVars, envVars
  <2>. QED
    BY <2>1, <2>2, Zenon
<1>2. /\ task' \in [Tasks -> TaskRecords] /\ \A u \in Tasks \ {t} : task'[u] = task[u]
      /\ task[t].pc \notin Hands /\ task'[t].pc \notin Hands
      /\ inProgress' \in BOOLEAN
      /\ task'[t].pc \in Busy => inProgress' /\ (task[t].pc \in Busy \/ ~inProgress)
      /\ inProgress => inProgress' \/ task[t].pc \in Busy
  <2>1. CASE Enter(t)
    <3>1. PICK pc \in {"merge", "batch"} :
             /\ task' = [task EXCEPT ![t].pc = pc] /\ inProgress' = TRUE
             /\ pc = "batch" => ~inProgress
             /\ task[t].pc \in {"spawned", "enter"}
      BY <2>1, Zenon DEF Enter, Go
    <3>. QED
      BY <1>0, <3>1, TaskGoes, Zenon DEF Busy, Hands, Pcs
  <2>2. CASE Merge(t)
    <3>1. task[t].pc = "merge" /\ Return(t) /\ inProgress' = inProgress
      BY <2>2, Zenon DEF Merge
    <3>. QED
      BY <1>0, <3>1, TaskEnds, Zenon DEF Busy, Hands
  <2>3. CASE Batch(t)
    <3>0. task[t].pc = "batch" /\ inProgress' = inProgress /\ inProgress
      BY <2>3, Zenon DEF Batch, flagVars, Exclusion, Busy
    <3>1. CASE total <= 0
      <4>1. task' = [task EXCEPT ![t].pc = "release"]
        BY <2>3, <3>1, Zenon DEF Batch, Go
      <4>. QED
        BY <1>0, <3>0, <4>1, TaskGoes, Zenon DEF Busy, Hands, Pcs
    <3>2. CASE ~(total <= 0)
      <4>. DEFINE left == IF total < RoundSize THEN total ELSE RoundSize
                  r == [task[t] EXCEPT !.pc = "pick", !.any = FALSE, !.left = left]
      <4>1. left \in Int
        BY <1>0, SizesAssumption
      <4>2. task' = [task EXCEPT ![t].pc = "pick", ![t].any = FALSE, ![t].left = left]
        BY <2>3, <3>2, Zenon DEF Batch
      <4>. HIDE DEF left
      <4>3. task' = [task EXCEPT ![t] = r]
        BY <1>0, <4>2, Zenon
      <4>4. r \in TaskRecords /\ r.pc = "pick"
        BY <1>0, <4>1, Zenon DEF TaskRecords, Pcs
      <4>. HIDE DEF r
      <4>. QED
        BY <1>0, <3>0, <4>3, <4>4, TaskBecomes, Zenon DEF Busy, Hands
    <3>. QED
      BY <3>1, <3>2, Zenon
  <2>4. CASE Release(t)
    <3>1. task[t].pc = "release" /\ task' = [task EXCEPT ![t].pc = "check"] /\ inProgress' = FALSE
      BY <2>4, Zenon DEF Release, Go
    <3>. QED
      BY <1>0, <3>1, TaskGoes, Zenon DEF Busy, Hands, Pcs
  <2>5. CASE Check(t)
    <3>1. /\ task[t].pc = "check" /\ inProgress' = inProgress
          /\ task' = [task EXCEPT ![t].pc = "retake"] \/ Return(t)
      BY <2>5, Zenon DEF Check, Go
    <3>2. CASE Return(t)
      BY <1>0, <3>1, <3>2, TaskEnds, Zenon DEF Busy, Hands
    <3>3. CASE task' = [task EXCEPT ![t].pc = "retake"]
      BY <1>0, <3>1, <3>3, TaskGoes, Zenon DEF Busy, Hands, Pcs
    <3>. QED
      BY <3>1, <3>2, <3>3, Zenon
  <2>6. CASE Retake(t)
    <3>1. /\ task[t].pc = "retake" /\ inProgress' = TRUE
          /\ (~inProgress /\ task' = [task EXCEPT ![t].pc = "batch"]) \/ Return(t)
      BY <2>6, Zenon DEF Retake, Go
    <3>2. CASE Return(t)
      BY <1>0, <3>1, <3>2, TaskEnds, Zenon DEF Busy, Hands
    <3>3. CASE ~inProgress /\ task' = [task EXCEPT ![t].pc = "batch"]
      BY <1>0, <3>1, <3>3, TaskGoes, Zenon DEF Busy, Hands, Pcs
    <3>. QED
      BY <3>1, <3>2, <3>3, Zenon
  <2>. QED
    BY <2>1, <2>2, <2>3, <2>4, <2>5, <2>6, Zenon
<1>3. Exclusion'
  BY <1>2, GuardKept, Zenon
<1>4. \A u \in Tasks : task'[u].pc \in Hands \/ task[u].pc \in Hands => task'[u] = task[u]
  BY <1>2, Zenon
<1>5. Ledger'
  BY <1>1, <1>4, MessagesStay, Zenon
<1>6. Typed'
  BY <1>1, <1>2, TypesStay, Zenon DEF Typed
<1>. QED
  BY <1>3, <1>5, <1>6, Zenon

\* A spawned task waits outside the loop.
LEMMA Spawned ==
    ASSUME task \in [Tasks -> TaskRecords], NEW t \in Tasks, Spawn(t)
    PROVE  /\ task' \in [Tasks -> TaskRecords] /\ \A u \in Tasks \ {t} : task'[u] = task[u]
           /\ task[t].pc = "idle" /\ task'[t].pc = "spawned"
<1>1. task[t].pc = "idle" /\ task' = [task EXCEPT ![t].pc = "spawned"]
  BY Zenon DEF Spawn
<1>. QED
  BY <1>1, TaskGoes, Zenon DEF Pcs

\* A new message is ahead of the read position and belongs to nobody.
LEMMA Publishing ==
    ASSUME Inv, NEW t \in Tasks, Publish(t)
    PROVE  Inv'
<1>. USE DEF Inv, Ledger
<1>0. task \in [Tasks -> TaskRecords]
  BY Zenon DEF Typed
<1>1. /\ last < MaxMessages /\ last' = last + 1 /\ Spawn(t)
      /\ UNCHANGED <<acked, readPos, queue, connected, permits, pending, total, inProgress,
                     handler, sent, seeks, failed>>
  BY Zenon DEF Publish, consVars, flagVars, envVars
<1>2. /\ task' \in [Tasks -> TaskRecords] /\ \A u \in Tasks \ {t} : task'[u] = task[u]
      /\ task[t].pc = "idle" /\ task'[t].pc = "spawned"
  BY <1>0, <1>1, Spawned, Zenon
<1>3. \A u \in Tasks : task'[u].pc \in Hands \/ task[u].pc \in Hands => task'[u] = task[u]
  BY <1>2, Zenon DEF Hands
<1>4. /\ last \in Nat /\ 1..last \subseteq 1..last'
      /\ \A m \in 1..last' : m \in 1..last \/ m = last + 1
  BY <1>1 DEF Typed
<1>5. Typed'
  <2>1. CountMap(queue)' /\ \A c \in Consumers : CountMap(pending[c])'
    BY <1>1, <1>4, Zenon DEF Typed, CountMap
  <2>2. last' \in Nat /\ last' <= MaxMessages /\ readPos <= last' + 1
    BY <1>1, SizesAssumption DEF Typed
  <2>. QED
    BY <1>1, <1>2, <1>4, <2>1, <2>2, Zenon DEF Typed
<1>6. Exclusion'
  BY <1>1, <1>2, GuardKept, Zenon DEF Busy
<1>7. \A m : InHand(m)' <=> InHand(m)
  BY <1>3, Zenon DEF InHand, Hands
<1>8. \A m : /\ Queued(m)' <=> Queued(m)
             /\ AckInFlight(m)' <=> AckInFlight(m)
             /\ Unread(m)' <=> Unread(m)
             /\ \A c : Owns(c, m)' <=> Owns(c, m)
  BY <1>1, Zenon DEF Queued, AckInFlight, Unread, Owns
<1>9. /\ ~Queued(last + 1) /\ \A c \in Consumers : ~Owns(c, last + 1)
      /\ ~(sent[last + 1] >= 0) /\ Unread(last + 1)
  <2>1. last + 1 \notin 1..last /\ last + 1 \in Messages
    BY <1>1, <1>4, SizesAssumption DEF Messages
  <2>2. ~Queued(last + 1) /\ \A c \in Consumers : ~Owns(c, last + 1)
    BY <2>1, Zenon DEF Typed, CountMap, Queued, Owns
  <2>. QED
    BY <1>4, <2>1, <2>2 DEF Counts, Unread, Typed
<1>10. Hand'
  <2>1. ASSUME NEW u \in Tasks, task'[u].pc \in Hands PROVE HandOf(task[u])'
    <3>1. task'[u] = task[u] /\ HandOf(task[u])
      BY <1>3, <2>1, Zenon DEF Hand
    <3>. QED
      BY <1>1, <1>4, <1>8, <3>1, Zenon DEF HandOf
  <2>. QED
    BY <2>1, Zenon DEF Hand
<1>11. OneOwner'
  BY <1>1, <1>4, <1>7, <1>8, <1>9 DEF OneOwner
<1>12. Past'
  BY <1>1, <1>4, <1>8, <1>9, Zenon DEF Past
<1>13. Counts'
  BY <1>1, <1>4 DEF Counts, Messages
<1>14. Started' /\ ConservedUnlessUpset'
  BY <1>1, <1>4, <1>7, <1>8, <1>9, Zenon DEF Started, ConservedUnlessUpset, Conserved
<1>. QED
  BY <1>5, <1>6, <1>10, <1>11, <1>12, <1>13, <1>14, Zenon

\* Permits and new consumers move no message.
LEMMA QuietHandlers ==
    ASSUME Inv, NEW c \in Consumers, add_consumer(c) \/ \E t \in Tasks : handle_flow(c, t)
    PROVE  Inv'
<1>. USE DEF Inv
<1>0. /\ task \in [Tasks -> TaskRecords] /\ permits \in [Consumers -> Int] /\ total \in Int
      /\ connected \subseteq Consumers
  BY Zenon DEF Typed
<1>1. ASSUME NEW t \in Tasks, handle_flow(c, t) PROVE Inv'
  <2>1. /\ UNCHANGED <<last, acked, readPos, queue, pending, handler, sent, seeks>>
        /\ UNCHANGED <<connected, failed, inProgress>>
        /\ permits' = [permits EXCEPT ![c] = @ + FlowSize] /\ total' = total + FlowSize
        /\ Spawn(t)
    BY <1>1, Zenon DEF handle_flow, cursorVars, flagVars, envVars
  <2>2. /\ task' \in [Tasks -> TaskRecords] /\ \A u \in Tasks \ {t} : task'[u] = task[u]
        /\ task[t].pc = "idle" /\ task'[t].pc = "spawned"
    BY <1>0, <2>1, Spawned, Zenon
  <2>3. permits' \in [Consumers -> Int] /\ total' \in Int
    BY <1>0, <2>1, SizesAssumption
  <2>4. Exclusion'
    BY <2>1, <2>2, GuardKept, Zenon DEF Busy
  <2>5. \A u \in Tasks : task'[u].pc \in Hands \/ task[u].pc \in Hands => task'[u] = task[u]
    BY <2>2, Zenon DEF Hands
  <2>6. Typed'
    BY <2>1, <2>2, <2>3, TypesStay, Zenon DEF Typed
  <2>. QED
    BY <2>1, <2>4, <2>5, <2>6, MessagesStay, Zenon
<1>2. CASE add_consumer(c)
  <2>1. /\ UNCHANGED <<last, acked, readPos, queue, pending, handler, sent, seeks>>
        /\ UNCHANGED <<permits, total, failed, inProgress, task>>
        /\ connected' = connected \cup {c}
    BY <1>2, Zenon DEF add_consumer, cursorVars, flagVars, envVars
  <2>2. Exclusion'
    BY <2>1, Zenon DEF Exclusion
  <2>3. Typed'
    BY <2>1, TypesStay, Zenon DEF Typed
  <2>. QED
    BY <2>1, <2>2, <2>3, MessagesStay, Zenon
<1>. QED
  BY <1>1, <1>2, Zenon

----------------------------------------------------------------------------
(* Handlers that take pending acks away without a lock. *)

\* Entries leave the pending acks of consumers; without a seek, only ones that are about
\* to be acknowledged.
LEMMA OwnersLeave ==
    ASSUME Inv,
           UNCHANGED <<last, acked, readPos, queue, connected, permits, total, inProgress,
                       task, sent, seeks, failed>>,
           DOMAIN pending' = Consumers, DOMAIN handler' = Consumers, Started',
           \A c \in Consumers : \A m \in DOMAIN pending'[c] :
               m \in DOMAIN pending[c] /\ pending'[c][m] = pending[c][m],
           \A m : AckInFlight(m) => AckInFlight(m)',
           seeks = 0 => \A c \in Consumers : \A m :
               Owns(c, m) => Owns(c, m)' \/ AckInFlight(m)'
    PROVE  Inv'
<1>. USE DEF Inv, Ledger
<1>1. Typed'
  <2>1. CountMap(queue)' /\ \A c \in Consumers : CountMap(pending[c])'
    BY Zenon DEF Typed, CountMap
  <2>. QED
    BY <2>1, Zenon DEF Typed
<1>2. Exclusion'
  BY Zenon DEF Exclusion
<1>3. \A m : /\ InHand(m)' <=> InHand(m)
             /\ Queued(m)' <=> Queued(m)
             /\ Unread(m)' <=> Unread(m)
  BY Zenon DEF InHand, Queued, Unread
<1>4. \A c \in Consumers : \A m :
         Owns(c, m)' => Owns(c, m) /\ pending'[c][m] = pending[c][m]
  BY Zenon DEF Owns
<1>5. Hand'
  <2>1. ASSUME NEW t \in Tasks, task'[t].pc \in Hands PROVE HandOf(task[t])'
    <3>1. task'[t] = task[t] /\ HandOf(task[t])
      BY <2>1, Zenon DEF Hand
    <3>2. task[t].cons \in Consumers
      BY <3>1, Zenon DEF HandOf, Typed
    <3>3. /\ Queued(task[t].msg)' <=> Queued(task[t].msg)
          /\ Unread(task[t].msg)' <=> Unread(task[t].msg)
      BY <1>3, <3>1, Zenon DEF Queued, Unread
    <3>4. \A c \in Consumers : Owns(c, task[t].msg)' =>
             Owns(c, task[t].msg) /\ pending'[c][task[t].msg] = pending[c][task[t].msg]
      BY <1>4, <3>1, Zenon DEF Owns
    <3>5. seeks = 0 /\ (Owns(task[t].cons, task[t].msg) \/ AckInFlight(task[t].msg)) =>
             Owns(task[t].cons, task[t].msg)' \/ AckInFlight(task[t].msg)'
      BY <3>2, Zenon
    <3>6. /\ task[t].msg \in (1..last') \ acked' /\ task[t].cons \in connected'
          /\ ~Queued(task[t].msg)' /\ (task[t].fresh => readPos' = task[t].msg)
          /\ (~task[t].fresh => ~Unread(task[t].msg)') /\ task[t].count > sent'[task[t].msg]
      BY <3>1, <3>3, Zenon DEF HandOf
    <3>7. /\ task[t].pc = "send" => \A c \in Consumers : ~Owns(c, task[t].msg)'
          /\ task[t].pc = "slot" => \A c \in Consumers : Owns(c, task[t].msg)' =>
                c = task[t].cons /\ pending'[c][task[t].msg] = task[t].count
          /\ task[t].pc = "slot" /\ seeks' = 0 =>
                Owns(task[t].cons, task[t].msg)' \/ AckInFlight(task[t].msg)'
      BY <3>1, <3>4, <3>5, Zenon DEF HandOf
    <3>. QED
      BY <3>1, <3>6, <3>7, Zenon DEF HandOf
  <2>. QED
    BY <2>1, Zenon DEF Hand
<1>6. OneOwner'
  BY <1>3, <1>4, Zenon DEF OneOwner
<1>7. Past'
  BY <1>3, Zenon DEF Past
<1>8. Counts'
  BY Zenon DEF Counts
<1>9. ConservedUnlessUpset'
  <2>1. connected \subseteq Consumers
    BY Zenon DEF Typed
  <2>. QED
    BY <1>3, <2>1, Zenon DEF ConservedUnlessUpset, Conserved
<1>. QED
  BY <1>1, <1>2, <1>5, <1>6, <1>7, <1>8, <1>9, Zenon

\* The first half of an ack, and the second drain of a seek.
LEMMA OpenHandlers ==
    ASSUME Inv, NEW c \in Consumers, seek_drain(c) \/ \E m \in 1..last : ack_resolve(c, m)
    PROVE  Inv'
<1>0. DOMAIN pending = Consumers /\ DOMAIN handler = Consumers /\ Started
      /\ connected \subseteq Consumers
  BY Zenon DEF Inv, Typed, Ledger
<1>1. ASSUME NEW m \in 1..last, ack_resolve(c, m) PROVE Inv'
  <2>1. /\ UNCHANGED <<last, acked, readPos, queue, connected, permits, total, inProgress,
                       task, sent, seeks, failed>>
        /\ handler[c] = None /\ handler' = [handler EXCEPT ![c] = Acking(m)]
    BY <1>1, Zenon DEF ack_resolve, Ready, Free, cursorVars, flagVars
  <2>2. PICK d \in connected : pending' = [pending EXCEPT ![d] = Drop(pending[d], {m})]
    BY <1>1, Zenon DEF ack_resolve
  <2>3. /\ \A e \in Consumers : e # c => handler'[e] = handler[e]
        /\ handler'[c] = Acking(m) /\ DOMAIN handler' = Consumers
    BY <1>0, <2>1, Zenon
  <2>4. \A x : AckInFlight(x) => AckInFlight(x)'
    BY <2>1, <2>3, HandlersDiffer, Zenon DEF AckInFlight
  <2>5. AckInFlight(m)'
    BY <2>3, Zenon DEF AckInFlight
  <2>6. Started'
    BY <1>0, <2>1, <2>3, HandlersDiffer, Zenon DEF Started
  <2>7. /\ \A e \in Consumers : e # d => pending'[e] = pending[e]
        /\ pending'[d] = Drop(pending[d], {m}) /\ DOMAIN pending' = Consumers
    BY <1>0, <2>2, Zenon
  <2>8. /\ DOMAIN pending'[d] = DOMAIN pending[d] \ {m}
        /\ \A x \in DOMAIN pending[d] \ {m} : pending'[d][x] = pending[d][x]
    <3>1. /\ DOMAIN Drop(pending[d], {m}) = DOMAIN pending[d] \ {m}
          /\ \A x \in DOMAIN pending[d] \ {m} : Drop(pending[d], {m})[x] = pending[d][x]
      BY Dropped, Zenon
    <3>. QED
      BY <2>7, <3>1, Zenon
  <2>9. \A e \in Consumers : \A x \in DOMAIN pending'[e] :
           x \in DOMAIN pending[e] /\ pending'[e][x] = pending[e][x]
    BY <2>7, <2>8, Zenon
  <2>10. \A e \in Consumers : \A x : Owns(e, x) => Owns(e, x)' \/ AckInFlight(x)'
    BY <2>5, <2>7, <2>8, Zenon DEF Owns
  <2>. QED
    BY <2>1, <2>3, <2>4, <2>6, <2>7, <2>9, <2>10, OwnersLeave, Zenon
<1>2. CASE seek_drain(c)
  <2>1. /\ UNCHANGED <<last, acked, readPos, queue, connected, permits, total, inProgress,
                       task, sent, seeks, failed>>
        /\ handler[c] = Seeking /\ handler' = [handler EXCEPT ![c] = None]
        /\ pending' = [pending EXCEPT ![c] = Nothing]
    BY <1>2, Zenon DEF seek_drain, cursorVars, flagVars
  <2>3. /\ \A e \in Consumers : e # c => handler'[e] = handler[e]
        /\ handler'[c] = None /\ DOMAIN handler' = Consumers
    BY <1>0, <2>1, Zenon
  <2>4. \A x : AckInFlight(x) => AckInFlight(x)'
    BY <2>1, <2>3, HandlersDiffer, Zenon DEF AckInFlight
  <2>5. seeks > 0 /\ seeks \in Nat
    BY <1>0, <2>1, Zenon DEF Started, Inv, Typed
  <2>6. Started'
    BY <2>1, <2>5, Zenon DEF Started
  <2>7. /\ \A e \in Consumers : e # c => pending'[e] = pending[e]
        /\ DOMAIN pending'[c] = {} /\ DOMAIN pending' = Consumers
    BY <1>0, <2>1, Zenon DEF Nothing
  <2>8. \A e \in Consumers : \A x \in DOMAIN pending'[e] :
           x \in DOMAIN pending[e] /\ pending'[e][x] = pending[e][x]
    BY <2>7, Zenon
  <2>9. seeks # 0
    BY <2>5
  <2>. QED
    BY <2>1, <2>3, <2>4, <2>6, <2>7, <2>8, <2>9, OwnersLeave, Zenon
<1>. QED
  BY <1>1, <1>2, Zenon

----------------------------------------------------------------------------
(* Handlers under the write lock: no dispatch is under way. *)

\* With the write lock free, no message is in hand.
LEMMA NothingInHand ==
    ASSUME Typed, WriteLockFree
    PROVE  (\A t \in Tasks : task[t].pc \in {"idle", "spawned"}) /\ \A m : ~InHand(m)
<1>1. \A t \in Tasks : task[t].pc \in {"idle", "spawned"}
  BY Zenon DEF WriteLockFree, Running
<1>. QED
  BY <1>1, Zenon DEF InHand

\* A handler under the lock leaves no task in the loop.
LEMMA LockedStep ==
    ASSUME Typed', \A t \in Tasks : task'[t].pc \in {"idle", "spawned", "enter"},
           OneOwner', Past', Counts', Started', ConservedUnlessUpset'
    PROVE  Inv'
BY Zenon DEF Inv, Ledger, Exclusion, Hand, Busy, Hands

\* The second half of an ack: the cursor, the queue and the read position.
LEMMA Acknowledging ==
    ASSUME Inv, NEW c \in Consumers, NEW m \in 1..last, acknowledge_message(c, m)
    PROVE  Inv'
<1>. USE DEF Inv, Ledger
<1>. DEFINE first == FirstUnacked(last, acked')
<1>1. /\ UNCHANGED <<last, connected, permits, pending, total, inProgress, task, sent, seeks,
                     failed>>
      /\ acked' = acked \cup {m} /\ queue' = Drop(queue, acked')
      /\ readPos' = Caught(readPos, first)
      /\ handler[c] = Acking(m) /\ handler' = [handler EXCEPT ![c] = None]
  BY Zenon DEF acknowledge_message, consVars, flagVars
<1>2. (\A t \in Tasks : task[t].pc \in {"idle", "spawned"}) /\ \A x : ~InHand(x)
  BY NothingInHand, Zenon DEF acknowledge_message
<1>3. DOMAIN handler = Consumers /\ last \in Nat /\ acked \subseteq 1..last /\ readPos \in Nat
      /\ readPos <= last + 1
  BY Zenon DEF Typed
<1>4. acked' \subseteq 1..last
  BY <1>1, <1>3, Zenon
<1>5. /\ first \in 0..last
      /\ \A x \in (1..last) \ acked' : first # 0 /\ first <= x
  BY <1>3, FirstIsLeast, Zenon
<1>. HIDE DEF first
<1>6. DOMAIN queue' = DOMAIN queue \ acked' /\ \A x \in DOMAIN queue' : queue'[x] = queue[x]
  <2>1. /\ DOMAIN Drop(queue, acked') = DOMAIN queue \ acked'
        /\ \A x \in DOMAIN queue \ acked' : Drop(queue, acked')[x] = queue[x]
    BY Dropped, Zenon
  <2>. QED
    BY <1>1, <2>1, Zenon
<1>7. readPos' \in Nat /\ readPos' <= last + 1
  BY <1>1, <1>3, <1>5 DEF Caught
<1>8. \A x \in (1..last) \ acked' : Unread(x)' <=> Unread(x)
  BY <1>1, <1>3, <1>5 DEF Caught, Unread
<1>9. /\ \A e \in Consumers : e # c => handler'[e] = handler[e]
      /\ handler'[c] = None /\ DOMAIN handler' = Consumers
  BY <1>1, <1>3, Zenon
<1>10. ASSUME NEW x, AckInFlight(x), x # m PROVE AckInFlight(x)'
  <2>1. PICK e \in Consumers : handler[e] = Acking(x)
    BY <1>10, Zenon DEF AckInFlight
  <2>2. e # c
    BY <1>1, <1>10, <2>1, HandlersDiffer, Zenon
  <2>3. handler'[e] = Acking(x)
    BY <1>9, <2>1, <2>2, Zenon
  <2>. QED
    BY <2>3, Zenon DEF AckInFlight
<1>11. Typed'
  <2>1. CountMap(queue)' /\ \A d \in Consumers : CountMap(pending[d])'
    BY <1>1, <1>6, Zenon DEF Typed, CountMap
  <2>. QED
    BY <1>1, <1>4, <1>7, <1>9, <2>1, Zenon DEF Typed
<1>12. /\ \A x \in (1..last) \ acked' : x \in (1..last) \ acked
       /\ \A x : Queued(x)' <=> Queued(x) /\ x \notin acked'
       /\ \A d, x : Owns(d, x)' <=> Owns(d, x)
       /\ \A x : InHand(x)' <=> InHand(x)
  BY <1>1, <1>6, Zenon DEF Queued, Owns, InHand
<1>13. OneOwner'
  BY <1>1, <1>8, <1>12, Zenon DEF OneOwner
<1>14. Past'
  BY <1>1, <1>8, <1>12, Zenon DEF Past
<1>15. Counts'
  BY <1>1, <1>6, Zenon DEF Counts
<1>16. Started'
  BY <1>1, <1>9, HandlersDiffer, Zenon DEF Started
<1>17. ConservedUnlessUpset'
  BY <1>1, <1>8, <1>10, <1>12, Zenon DEF ConservedUnlessUpset, Conserved
<1>. QED
  BY <1>1, <1>2, <1>11, <1>13, <1>14, <1>15, <1>16, <1>17, LockedStep, Zenon

\* The cursor update fails: from here on Conserved is not claimed.
LEMMA AckFailing ==
    ASSUME Inv, NEW c \in Consumers, NEW m \in 1..last, acknowledge_error(c, m)
    PROVE  Inv'
<1>. USE DEF Inv, Ledger
<1>1. /\ UNCHANGED <<last, acked, readPos, queue, connected, permits, pending, total,
                     inProgress, task, sent, seeks>>
      /\ failed' = TRUE /\ handler' = [handler EXCEPT ![c] = None]
  BY Zenon DEF acknowledge_error, cursorVars, consVars, flagVars
<1>2. \A t \in Tasks : task[t].pc \in {"idle", "spawned"}
  BY NothingInHand, Zenon DEF acknowledge_error
<1>3. /\ \A e \in Consumers : e # c => handler'[e] = handler[e]
      /\ handler'[c] = None /\ DOMAIN handler' = Consumers
  BY <1>1, Zenon DEF Typed
<1>4. Typed'
  <2>1. CountMap(queue)' /\ \A d \in Consumers : CountMap(pending[d])'
    BY <1>1, Zenon DEF Typed, CountMap
  <2>. QED
    BY <1>1, <1>3, <2>1, Zenon DEF Typed
<1>5. \A x : /\ Queued(x)' <=> Queued(x)
             /\ InHand(x)' <=> InHand(x)
             /\ Unread(x)' <=> Unread(x)
             /\ \A d : Owns(d, x)' <=> Owns(d, x)
  BY <1>1, Zenon DEF Queued, InHand, Unread, Owns
<1>6. OneOwner' /\ Past' /\ Counts'
  BY <1>1, <1>5, Zenon DEF OneOwner, Past, Counts
<1>7. Started'
  BY <1>1, <1>3, HandlersDiffer, Zenon DEF Started
<1>8. ConservedUnlessUpset'
  BY <1>1, Zenon DEF ConservedUnlessUpset
<1>. QED
  BY <1>1, <1>2, <1>4, <1>6, <1>7, <1>8, LockedStep, Zenon

\* A seek starts everything over.
LEMMA Seeks ==
    ASSUME Inv, NEW c \in Consumers, NEW m \in 1..last, seek(c, m)
    PROVE  Inv'
<1>. USE DEF Inv, Ledger
<1>1. /\ UNCHANGED <<last, connected, permits, total, inProgress, task, failed>>
      /\ acked' = 1..(m - 1) /\ readPos' = m /\ queue' = Nothing /\ seeks' = seeks + 1
      /\ pending' = [d \in Consumers |-> Nothing] /\ sent' = [x \in Messages |-> -1]
      /\ handler' = [handler EXCEPT ![c] = Seeking]
  BY Zenon DEF seek, flagVars
<1>2. \A t \in Tasks : task[t].pc \in {"idle", "spawned"}
  BY NothingInHand, Zenon DEF seek
<1>3. DOMAIN queue' = {} /\ \A d \in Consumers : DOMAIN pending'[d] = {}
  BY <1>1, Zenon DEF Nothing
<1>4. seeks' \in Nat /\ seeks' # 0 /\ seeks' > 0
  BY <1>1 DEF Typed
<1>5. Typed'
  <2>1. CountMap(queue)' /\ \A d \in Consumers : CountMap(pending[d])'
    BY <1>3, Zenon DEF CountMap
  <2>2. acked' \subseteq 1..last' /\ readPos' \in Nat /\ readPos' <= last' + 1
    BY <1>1 DEF Typed
  <2>3. DOMAIN handler' = Consumers /\ DOMAIN pending' = Consumers
        /\ sent' \in [Messages -> Int]
    BY <1>1 DEF Typed
  <2>. QED
    BY <1>1, <1>4, <2>1, <2>2, <2>3, Zenon DEF Typed
<1>6. OneOwner'
  BY <1>3, Zenon DEF OneOwner, Owns
<1>7. Past' /\ Counts'
  <2>1. \A x \in Messages : sent'[x] = -1
    BY <1>1, Zenon
  <2>2. 1..last' \subseteq Messages
    BY <1>1, SizesAssumption DEF Typed, Messages
  <2>. QED
    BY <1>3, <2>1, <2>2 DEF Past, Counts, Queued
<1>8. Started'
  BY <1>4, Zenon DEF Started
<1>9. ConservedUnlessUpset'
  BY <1>4, Zenon DEF ConservedUnlessUpset
<1>. QED
  BY <1>1, <1>2, <1>5, <1>6, <1>7, <1>8, <1>9, LockedStep, Zenon

\* A handler that holds the lock goes on to dispatch.
LEMMA LockedDispatch ==
    ASSUME Typed, WriteLockFree, NEW t \in Tasks, DispatchLocked(t) \/ UNCHANGED task
    PROVE  /\ task' \in [Tasks -> TaskRecords]
           /\ \A u \in Tasks : task'[u].pc \in {"idle", "spawned", "enter"}
<1>0. /\ task \in [Tasks -> TaskRecords] /\ task[t] \in TaskRecords
      /\ \A u \in Tasks : task[u].pc \in {"idle", "spawned"}
  BY NothingInHand, Zenon DEF Typed
<1>1. CASE UNCHANGED task
  BY <1>0, <1>1, Zenon
<1>2. CASE DispatchLocked(t)
  <2>. DEFINE r == [task[t] EXCEPT !.pc = "enter", !.write = TRUE]
  <2>1. task' = [task EXCEPT ![t] = r]
    BY <1>0, <1>2, Zenon DEF DispatchLocked
  <2>2. r \in TaskRecords /\ r.pc = "enter"
    BY <1>0, Zenon DEF TaskRecords, Pcs
  <2>. HIDE DEF r
  <2>. QED
    BY <1>0, <2>1, <2>2, TaskBecomes, Zenon
<1>. QED
  BY <1>1, <1>2, Zenon

\* Pending messages R of c go back to the queue; c keeps the others, but for ones that
\* are acknowledged, or leaves with all of them.
LEMMA GoingBack ==
    ASSUME Inv, WriteLockFree, NEW c \in Consumers, NEW R,
           UNCHANGED <<last, acked, readPos, handler, sent, seeks, failed>>,
           queue' = Requeue(queue, Redelivered(pending[c], R)), R \subseteq DOMAIN pending[c],
           Typed', \A u \in Tasks : task'[u].pc \in {"idle", "spawned", "enter"},
           \A e \in Consumers \ {c} : pending'[e] = pending[e],
           DOMAIN pending'[c] \subseteq DOMAIN pending[c] \ R,
           \A m \in DOMAIN pending'[c] : pending'[c][m] = pending[c][m],
           \A m \in DOMAIN pending[c] : m \in DOMAIN pending'[c] \cup R \cup acked,
           connected \ {c} \subseteq connected',
           DOMAIN pending'[c] # {} => c \in connected'
    PROVE  Inv'
<1>. USE DEF Inv, Ledger
<1>1. \A m : ~InHand(m)
  BY NothingInHand, Zenon
<1>2. /\ \A m \in DOMAIN queue : queue[m] \in Nat
      /\ \A m \in DOMAIN pending[c] : pending[c][m] \in Nat /\ pending[c][m] + 1 \in Nat
      /\ connected \subseteq Consumers /\ sent \in [Messages -> Int]
      /\ DOMAIN pending[c] \subseteq Messages /\ DOMAIN queue \subseteq Messages
  <2>1. CountMap(queue) /\ CountMap(pending[c]) /\ 1..last \subseteq Messages
        /\ connected \subseteq Consumers /\ sent \in [Messages -> Int]
    BY SizesAssumption DEF Typed, Messages
  <2>2. /\ DOMAIN queue \subseteq 1..last /\ DOMAIN pending[c] \subseteq 1..last
        /\ \A m \in DOMAIN queue : queue[m] \in Nat
        /\ \A m \in DOMAIN pending[c] : pending[c][m] \in Nat
    BY <2>1, Zenon DEF CountMap
  <2>3. \A x \in Nat : x + 1 \in Nat
    OBVIOUS
  <2>. QED
    BY <2>1, <2>2, <2>3, Zenon
<1>. DEFINE back == Redelivered(pending[c], R)
<1>3. DOMAIN back = R /\ \A m \in R : back[m] = pending[c][m] + 1 /\ back[m] \in Nat
  <2>1. /\ DOMAIN back = DOMAIN pending[c] \cap R
        /\ \A m \in DOMAIN pending[c] \cap R : back[m] = pending[c][m] + 1
    BY Recounted, Zenon
  <2>. HIDE DEF back
  <2>. QED
    BY <1>2, <2>1, Zenon
<1>4. /\ DOMAIN queue' = DOMAIN queue \cup R
      /\ \A m \in DOMAIN queue' :
            \/ m \in DOMAIN queue /\ queue'[m] = queue[m]
            \/ m \in R /\ queue'[m] = pending[c][m] + 1
  <2>. HIDE DEF back
  <2>1. /\ DOMAIN Requeue(queue, back) = DOMAIN queue \cup DOMAIN back
        /\ \A m \in DOMAIN Requeue(queue, back) :
              \/ m \in DOMAIN queue /\ Requeue(queue, back)[m] = queue[m]
              \/ m \in DOMAIN back /\ Requeue(queue, back)[m] = back[m]
    BY <1>2, <1>3, Requeued, Zenon
  <2>2. queue' = Requeue(queue, back)
    BY Zenon DEF back
  <2>. QED
    BY <1>3, <2>1, <2>2, Zenon
<1>. HIDE DEF back
<1>5. \A m : /\ Queued(m)' <=> Queued(m) \/ m \in R
             /\ AckInFlight(m)' <=> AckInFlight(m)
             /\ Unread(m)' <=> Unread(m)
  BY <1>4, Zenon DEF Queued, AckInFlight, Unread
<1>6. \A e \in Consumers : \A m : Owns(e, m)' => Owns(e, m) /\ (e = c => m \notin R)
  BY Zenon DEF Owns
<1>7. \A m \in R : Owns(c, m)
  BY Zenon DEF Owns
<1>8. \A m \in 1..last, e \in Consumers :
         Owns(e, m) => /\ e \in connected
                       /\ \A d \in Consumers : Owns(d, m) => e = d
                       /\ m \notin acked => ~Queued(m) /\ ~Unread(m)
  BY <1>1, Zenon DEF OneOwner
<1>9. OneOwner'
  <2>1. ASSUME NEW m \in 1..last, NEW e \in Consumers, Owns(e, m)'
        PROVE  /\ e \in connected'
               /\ \A d \in Consumers : Owns(d, m)' => e = d
               /\ m \notin acked => ~Queued(m)' /\ ~Unread(m)'
    <3>1. Owns(e, m) /\ (e = c => m \notin R)
      BY <1>6, <2>1, Zenon
    <3>2. e \in connected'
      BY <1>8, <2>1, <3>1, Zenon DEF Owns
    <3>3. \A d \in Consumers : Owns(d, m)' => e = d
      BY <1>6, <1>8, <3>1, Zenon
    <3>4. m \notin R
      BY <1>7, <1>8, <3>1, Zenon
    <3>. QED
      BY <1>5, <1>8, <3>1, <3>2, <3>3, <3>4, Zenon
  <2>. QED
    BY <2>1, Zenon DEF OneOwner
<1>10. Past'
  BY <1>5, <1>7, <1>8, Zenon DEF Past
<1>11. Counts'
  <2>1. \A m \in DOMAIN queue' : queue'[m] > sent[m]
    <3>1. \A m \in R : pending[c][m] + 1 > sent[m]
      BY <1>2 DEF Counts
    <3>. QED
      BY <1>4, <3>1, Zenon DEF Counts
  <2>2. \A e \in Consumers : \A m \in DOMAIN pending'[e] : pending'[e][m] >= sent[m]
    BY Zenon DEF Counts
  <2>. QED
    BY <2>1, <2>2, Zenon DEF Counts
<1>12. Started'
  BY Zenon DEF Started
<1>13. ConservedUnlessUpset'
  <2>1. \A m \in (1..last) \ acked, e \in connected :
           Owns(e, m) => Queued(m)' \/ \E d \in connected' : Owns(d, m)'
    <3>1. ASSUME NEW m \in (1..last) \ acked, NEW e \in connected, Owns(e, m), m \notin R
          PROVE  e \in connected' /\ Owns(e, m)'
      <4>1. CASE e = c
        <5>1. m \in DOMAIN pending'[c]
          BY <3>1, <4>1, Zenon DEF Owns
        <5>. QED
          BY <4>1, <5>1, Zenon DEF Owns
      <4>2. CASE e # c
        BY <1>2, <3>1, <4>2, Zenon DEF Owns
      <4>. QED
        BY <4>1, <4>2, Zenon
    <3>. QED
      BY <1>5, <3>1, Zenon
  <2>. QED
    BY <1>1, <1>5, <2>1, Zenon DEF ConservedUnlessUpset, Conserved
<1>. QED
  BY <1>9, <1>10, <1>11, <1>12, <1>13, LockedStep, Zenon

\* What becomes of the queue when pending messages go back to it has the queue's type.
LEMMA QueueType ==
    ASSUME Typed, NEW c \in Consumers, NEW R
    PROVE  LET q == Requeue(queue, Redelivered(pending[c], R))
           IN  DOMAIN q \subseteq 1..last /\ \A m \in DOMAIN q : q[m] \in Nat
<1>. DEFINE back == Redelivered(pending[c], R)
<1>1. /\ DOMAIN queue \subseteq 1..last /\ \A m \in DOMAIN queue : queue[m] \in Nat
      /\ DOMAIN pending[c] \subseteq 1..last /\ \A m \in DOMAIN pending[c] : pending[c][m] \in Nat
  BY Zenon DEF Typed, CountMap
<1>2. /\ DOMAIN back = DOMAIN pending[c] \cap R
      /\ \A m \in DOMAIN pending[c] \cap R : back[m] = pending[c][m] + 1
  BY Recounted, Zenon
<1>. HIDE DEF back
<1>3. DOMAIN back \subseteq 1..last /\ \A m \in DOMAIN back : back[m] \in Nat
  BY <1>1, <1>2
<1>4. /\ DOMAIN Requeue(queue, back) = DOMAIN queue \cup DOMAIN back
      /\ \A m \in DOMAIN Requeue(queue, back) :
            \/ m \in DOMAIN queue /\ Requeue(queue, back)[m] = queue[m]
            \/ m \in DOMAIN back /\ Requeue(queue, back)[m] = back[m]
  BY <1>1, <1>3, Requeued, Zenon
<1>5. /\ DOMAIN Requeue(queue, back) \subseteq 1..last
      /\ \A m \in DOMAIN Requeue(queue, back) : Requeue(queue, back)[m] \in Nat
  BY <1>1, <1>3, <1>4, Zenon
<1>. QED
  BY <1>5, Zenon DEF back

\* A client asks for messages again.
LEMMA Redelivering ==
    ASSUME Inv, NEW c \in Consumers, NEW t \in Tasks, NEW S \in SUBSET DOMAIN pending[c],
           redeliver(c, S, t)
    PROVE  Inv'
<1>. DEFINE R == S \ acked
<1>0. Typed /\ WriteLockFree /\ DOMAIN pending = Consumers
  BY Zenon DEF Inv, Typed, redeliver
<1>1. /\ UNCHANGED <<last, acked, readPos, connected, permits, total, inProgress, handler,
                     sent, seeks, failed>>
      /\ pending' = [pending EXCEPT ![c] = Drop(pending[c], S)]
      /\ queue' = Requeue(queue, Redelivered(pending[c], R))
      /\ DispatchLocked(t) \/ UNCHANGED task
  BY Zenon DEF redeliver, cursorVars, flagVars
<1>2. /\ task' \in [Tasks -> TaskRecords]
      /\ \A u \in Tasks : task'[u].pc \in {"idle", "spawned", "enter"}
  BY <1>0, <1>1, LockedDispatch, Zenon
<1>. HIDE DEF R
<1>3. /\ \A e \in Consumers \ {c} : pending'[e] = pending[e]
      /\ pending'[c] = Drop(pending[c], S) /\ DOMAIN pending' = Consumers
  BY <1>0, <1>1, Zenon
<1>4. /\ DOMAIN pending'[c] = DOMAIN pending[c] \ S
      /\ \A m \in DOMAIN pending'[c] : pending'[c][m] = pending[c][m]
  <2>1. /\ DOMAIN Drop(pending[c], S) = DOMAIN pending[c] \ S
        /\ \A m \in DOMAIN pending[c] \ S : Drop(pending[c], S)[m] = pending[c][m]
    BY Dropped, Zenon
  <2>. QED
    BY <1>3, <2>1, Zenon
<1>5. Typed'
  <2>1. CountMap(queue)'
    BY <1>0, <1>1, QueueType, Zenon DEF CountMap
  <2>2. \A e \in Consumers : CountMap(pending[e])'
    BY <1>0, <1>1, <1>3, <1>4, Zenon DEF CountMap, Typed
  <2>. QED
    BY <1>0, <1>1, <1>2, <1>3, <2>1, <2>2, Zenon DEF Typed
<1>6. /\ R \subseteq DOMAIN pending[c]
      /\ DOMAIN pending'[c] \subseteq DOMAIN pending[c] \ R
      /\ \A m \in DOMAIN pending[c] : m \in DOMAIN pending'[c] \cup R \cup acked
  BY <1>4, Zenon DEF R
<1>7. connected \ {c} \subseteq connected' /\ c \in connected'
  BY <1>1, Zenon DEF redeliver, Ready
<1>. QED
  BY <1>0, <1>1, <1>2, <1>3, <1>4, <1>5, <1>6, <1>7, GoingBack, Zenon

\* A consumer leaves, and everything pending at it goes back.
LEMMA Removing ==
    ASSUME Inv, NEW c \in Consumers, NEW t \in Tasks, remove_consumer(c, t)
    PROVE  Inv'
<1>0. Typed /\ WriteLockFree /\ DOMAIN pending = Consumers
  BY Zenon DEF Inv, Typed, remove_consumer
<1>1. /\ UNCHANGED <<last, acked, readPos, inProgress, handler, sent, seeks, failed>>
      /\ connected' = connected \ {c}
      /\ total' = total - Max2(permits[c], 0) /\ permits' = [permits EXCEPT ![c] = 0]
      /\ pending' = [pending EXCEPT ![c] = Nothing]
      /\ queue' = Requeue(queue, Redelivered(pending[c], DOMAIN pending[c]))
      /\ DispatchLocked(t)
  BY Zenon DEF remove_consumer, cursorVars, flagVars
<1>2. /\ task' \in [Tasks -> TaskRecords]
      /\ \A u \in Tasks : task'[u].pc \in {"idle", "spawned", "enter"}
  BY <1>0, <1>1, LockedDispatch, Zenon
<1>3. /\ \A e \in Consumers \ {c} : pending'[e] = pending[e]
      /\ DOMAIN pending'[c] = {} /\ DOMAIN pending' = Consumers
  BY <1>0, <1>1, Zenon DEF Nothing
<1>4. permits' \in [Consumers -> Int] /\ total' \in Int /\ connected' \subseteq Consumers
  BY <1>0, <1>1 DEF Typed, Max2
<1>5. Typed'
  <2>1. CountMap(queue)'
    BY <1>0, <1>1, QueueType, Zenon DEF CountMap
  <2>2. \A e \in Consumers : CountMap(pending[e])'
    BY <1>0, <1>1, <1>3, Zenon DEF CountMap, Typed
  <2>. QED
    BY <1>0, <1>1, <1>2, <1>3, <1>4, <2>1, <2>2, Zenon DEF Typed
<1>6. /\ \A m \in DOMAIN pending'[c] : pending'[c][m] = pending[c][m]
      /\ DOMAIN pending'[c] \subseteq DOMAIN pending[c] \ DOMAIN pending[c]
      /\ \A m \in DOMAIN pending[c] : m \in DOMAIN pending'[c] \cup DOMAIN pending[c] \cup acked
      /\ connected \ {c} \subseteq connected'
  BY <1>1, <1>3, Zenon
<1>. QED
  BY <1>0, <1>1, <1>2, <1>3, <1>5, <1>6, GoingBack, Zenon

----------------------------------------------------------------------------
(* The batch. *)

\* A task that holds the guard is alone in the loop.
LEMMA AloneInLoop ==
    ASSUME Inv, NEW t \in Tasks, task[t].pc \in Busy
    PROVE  inProgress /\ \A u \in Tasks \ {t} : task[u].pc \notin Busy /\ task[u].pc \notin Hands
BY Zenon DEF Inv, Exclusion, Busy, Hands

\* A batch ends.
LEMMA BatchEnds ==
    ASSUME task \in [Tasks -> TaskRecords], NEW t \in Tasks, NEW any, NEW n, BatchEnd(t, any, n)
    PROVE  /\ task' \in [Tasks -> TaskRecords] /\ \A u \in Tasks \ {t} : task'[u] = task[u]
           /\ task'[t].pc \in {"batch", "release"}
<1>. DEFINE pc == IF any /\ n # 0 THEN "batch" ELSE "release"
            r == [task[t] EXCEPT !.pc = pc, !.cons = Nobody, !.msg = 0, !.count = 0,
                                 !.fresh = FALSE, !.left = 0, !.any = FALSE]
<1>0. task[t] \in TaskRecords /\ pc \in {"batch", "release"}
  BY Zenon
<1>1. task' = [task EXCEPT ![t].pc = pc, ![t].cons = Nobody, ![t].msg = 0, ![t].count = 0,
                           ![t].fresh = FALSE, ![t].left = 0, ![t].any = FALSE]
  BY Zenon DEF BatchEnd
<1>. HIDE DEF pc
<1>2. task' = [task EXCEPT ![t] = r]
  BY <1>0, <1>1, Zenon
<1>3. r \in TaskRecords
  <2>1. pc \in Pcs /\ Nobody \in Consumers \cup {Nobody} /\ 0 \in Nat /\ 0 \in Int
        /\ FALSE \in BOOLEAN
    BY <1>0 DEF Pcs
  <2>. QED
    BY <1>0, <2>1, Zenon DEF TaskRecords
<1>4. r.pc = pc
  BY <1>0, Zenon DEF TaskRecords
<1>. HIDE DEF r
<1>. QED
  BY <1>0, <1>2, <1>3, <1>4, TaskBecomes, Zenon

\* One round less.
LEMMA RoundSpent ==
    ASSUME task \in [Tasks -> TaskRecords], NEW t \in Tasks,
           task' = [task EXCEPT ![t].left = @ - 1]
    PROVE  /\ task' \in [Tasks -> TaskRecords] /\ \A u \in Tasks \ {t} : task'[u] = task[u]
           /\ task'[t].pc = task[t].pc
<1>. DEFINE r == [task[t] EXCEPT !.left = task[t].left - 1]
<1>0. task[t] \in TaskRecords
  BY Zenon
<1>1. task[t].left - 1 \in Int
  BY <1>0 DEF TaskRecords
<1>2. task' = [task EXCEPT ![t] = r]
  BY <1>0, Zenon
<1>3. r \in TaskRecords /\ r.pc = task[t].pc
  BY <1>0, <1>1, Zenon DEF TaskRecords
<1>. HIDE DEF r
<1>. QED
  BY <1>2, <1>3, TaskBecomes, Zenon

\* A step with empty hands that passes only messages that have an owner, and takes from
\* the queue only acknowledged ones, unless storage fails.
LEMMA EmptyHanded ==
    ASSUME Inv, \A u \in Tasks : task[u].pc \notin Hands /\ task'[u].pc \notin Hands,
           UNCHANGED <<last, acked, connected, pending, handler, sent, seeks>>,
           failed => failed',
           \A m \in DOMAIN queue' : m \in DOMAIN queue /\ queue'[m] = queue[m],
           failed' \/ \A m \in DOMAIN queue : m \in DOMAIN queue' \cup acked,
           \A m \in (1..last) \ acked :
              /\ Unread(m)' => Unread(m)
              /\ Unread(m) => Unread(m)' \/ \E e \in connected : Owns(e, m)
    PROVE  Ledger'
<1>. USE DEF Inv, Ledger
<1>1. \A m : ~InHand(m) /\ ~InHand(m)'
  BY Zenon DEF InHand, Hands
<1>2. \A m : /\ Queued(m)' => Queued(m)
             /\ AckInFlight(m)' <=> AckInFlight(m)
             /\ \A c : Owns(c, m)' <=> Owns(c, m)
  BY Zenon DEF Queued, AckInFlight, Owns
<1>3. Hand'
  BY Zenon DEF Hand
<1>4. OneOwner'
  BY <1>1, <1>2, Zenon DEF OneOwner
<1>5. Past'
  BY <1>2, Zenon DEF Past
<1>6. Counts' /\ Started'
  BY Zenon DEF Counts, Started
<1>7. ConservedUnlessUpset'
  <2>1. ~failed' => \A m \in (1..last) \ acked : Queued(m) => Queued(m)'
    BY Zenon DEF Queued
  <2>. QED
    BY <1>1, <1>2, <2>1, Zenon DEF ConservedUnlessUpset, Conserved
<1>. QED
  BY <1>3, <1>4, <1>5, <1>6, <1>7, Zenon

\* The candidates are the unread messages that are neither acknowledged nor held.
LEMMA CandidatesAre ==
    ASSUME Typed
    PROVE  /\ Candidates(last) \subseteq (1..last) \ acked
           /\ \A m \in Candidates(last) : Unread(m) /\ \A e \in connected : ~Owns(e, m)
           /\ \A m \in (1..last) \ acked :
                 Unread(m) /\ m \notin Candidates(last) => \E e \in connected : Owns(e, m)
<1>. DEFINE from == IF readPos = 0 THEN FirstUnacked(last, acked) ELSE readPos
<1>1. last \in Nat /\ readPos \in Nat
  BY Zenon DEF Typed
<1>2. /\ FirstUnacked(last, acked) \in 0..last
      /\ \A m \in 1..last : m \in acked \/ (FirstUnacked(last, acked) # 0
                                            /\ FirstUnacked(last, acked) <= m)
  BY <1>1, FirstIsLeast, Zenon
<1>3. from \in Nat /\ \A m \in (1..last) \ acked : Unread(m) <=> from # 0 /\ from <= m
  BY <1>1, <1>2 DEF Unread
<1>4. Readable(last) = IF from = 0 THEN {} ELSE from..last
  BY Zenon DEF Readable
<1>5. \A m : m \in Candidates(last) <=>
         m \in Readable(last) /\ m \notin acked /\ \A e \in connected : ~Owns(e, m)
  BY Zenon DEF Candidates, Owns
<1>. HIDE DEF from
<1>6. Readable(last) \subseteq 1..last /\ \A m \in Readable(last) : from # 0 /\ from <= m
  BY <1>1, <1>3, <1>4
<1>7. \A m \in 1..last : from # 0 /\ from <= m => m \in Readable(last)
  BY <1>1, <1>3, <1>4
<1>. QED
  BY <1>3, <1>5, <1>6, <1>7, Zenon

\* A batch finds nothing to send, or meets a storage error.
LEMMA PickNoneSteps ==
    ASSUME Inv, NEW t \in Tasks, PickNothing(t) \/ PickError(t)
    PROVE  Inv'
<1>. USE DEF Inv
<1>0. /\ task \in [Tasks -> TaskRecords] /\ task[t].pc = "pick" /\ last \in Nat
      /\ readPos \in Nat /\ readPos <= last + 1 /\ inProgress \in BOOLEAN /\ failed \in BOOLEAN
  BY Zenon DEF Typed, PickNothing, PickError
<1>1. inProgress /\ \A u \in Tasks \ {t} : task[u].pc \notin Busy /\ task[u].pc \notin Hands
  BY <1>0, AloneInLoop, Zenon DEF Busy
<1>2. UNCHANGED <<last, acked, connected, permits, total, pending, handler, sent, seeks>>
  <2>1. CASE PickNothing(t)
    BY <2>1, Zenon DEF PickNothing, cursorVars, consVars, envVars
  <2>2. CASE PickError(t)
    BY <2>2, Zenon DEF PickError, cursorVars, consVars
  <2>. QED
    BY <2>1, <2>2, Zenon
<1>3. /\ task' \in [Tasks -> TaskRecords] /\ \A u \in Tasks \ {t} : task'[u] = task[u]
      /\ task'[t].pc \notin Hands
      /\ inProgress' \in BOOLEAN /\ failed' \in BOOLEAN
      /\ task'[t].pc \in Busy => inProgress'
  <2>1. CASE PickNothing(t)
    <3>1. BatchEnd(t, task[t].any, total) /\ inProgress' = inProgress /\ failed' = failed
      BY <2>1, Zenon DEF PickNothing, flagVars, envVars
    <3>2. /\ task' \in [Tasks -> TaskRecords] /\ \A u \in Tasks \ {t} : task'[u] = task[u]
          /\ task'[t].pc \in {"batch", "release"}
      BY <1>0, <3>1, BatchEnds, Zenon
    <3>. QED
      BY <1>0, <1>1, <3>1, <3>2, Zenon DEF Hands
  <2>2. CASE PickError(t)
    <3>1. /\ failed' = TRUE
          /\ \/ inProgress' = FALSE /\ Return(t)
             \/ task' = [task EXCEPT ![t].left = @ - 1] /\ inProgress' = inProgress
      BY <2>2, Zenon DEF PickError
    <3>2. CASE inProgress' = FALSE /\ Return(t)
      BY <1>0, <3>1, <3>2, TaskEnds, Zenon DEF Busy, Hands
    <3>3. CASE task' = [task EXCEPT ![t].left = @ - 1] /\ inProgress' = inProgress
      BY <1>0, <1>1, <3>1, <3>3, RoundSpent, Zenon DEF Hands
    <3>. QED
      BY <3>1, <3>2, <3>3, Zenon
  <2>. QED
    BY <2>1, <2>2, Zenon
<1>4. Exclusion'
  BY <1>0, <1>1, <1>3, GuardKept, Zenon DEF Busy
<1>5. \A u \in Tasks : task[u].pc \notin Hands /\ task'[u].pc \notin Hands
  BY <1>0, <1>1, <1>3, Zenon DEF Hands
<1>6. /\ readPos' \in Nat /\ readPos' <= last + 1
      /\ \A m \in (1..last) \ acked :
            /\ Unread(m)' => Unread(m)
            /\ Unread(m) => Unread(m)' \/ \E e \in connected : Owns(e, m)
  <2>1. CASE readPos' = readPos
    BY <1>0, <2>1, Zenon DEF Unread
  <2>2. CASE readPos' # readPos
    <3>1. Candidates(last) = {} /\ readPos' = last + 1
      BY <2>2, Zenon DEF PickNothing, PickError
    <3>2. \A m \in (1..last) \ acked : Unread(m) => \E e \in connected : Owns(e, m)
      BY <3>1, CandidatesAre, Zenon
    <3>3. \A m \in 1..last : ~Unread(m)'
      BY <1>0, <3>1 DEF Unread
    <3>. QED
      BY <1>0, <3>1, <3>2, <3>3
  <2>. QED
    BY <2>1, <2>2, Zenon
<1>7. /\ \A m \in DOMAIN queue' : m \in DOMAIN queue /\ queue'[m] = queue[m]
      /\ failed' \/ \A m \in DOMAIN queue : m \in DOMAIN queue' \cup acked
      /\ failed => failed'
  <2>1. CASE PickNothing(t)
    BY <2>1, Zenon DEF PickNothing, envVars
  <2>2. CASE PickError(t)
    <3>1. failed' = TRUE /\ (queue' = queue \/ queue' = Drop(queue, {Min(DOMAIN queue)}))
      BY <2>2, Zenon DEF PickError
    <3>2. \A m \in DOMAIN queue' : m \in DOMAIN queue /\ queue'[m] = queue[m]
      <4>1. /\ DOMAIN Drop(queue, {Min(DOMAIN queue)}) = DOMAIN queue \ {Min(DOMAIN queue)}
            /\ \A m \in DOMAIN queue \ {Min(DOMAIN queue)} :
                  Drop(queue, {Min(DOMAIN queue)})[m] = queue[m]
        BY Dropped, Zenon
      <4>. QED
        BY <3>1, <4>1, Zenon
    <3>. QED
      BY <3>1, <3>2, Zenon
  <2>. QED
    BY <2>1, <2>2, Zenon
<1>8. Ledger'
  BY <1>2, <1>5, <1>6, <1>7, EmptyHanded, Zenon
<1>9. Typed'
  <2>1. CountMap(queue)' /\ \A e \in Consumers : CountMap(pending[e])'
    BY <1>2, <1>7, Zenon DEF Typed, CountMap
  <2>. QED
    BY <1>2, <1>3, <1>6, <2>1, Zenon DEF Typed
<1>. QED
  BY <1>4, <1>8, <1>9, Zenon

\* A task takes message m for consumer c.
LEMMA TaskTakes ==
    ASSUME Typed, NEW t \in Tasks, NEW c \in Consumers, NEW m \in Messages, NEW k \in Nat,
           NEW isNew \in BOOLEAN, TakeInHand(t, c, m, k, isNew)
    PROVE  /\ task' \in [Tasks -> TaskRecords] /\ \A u \in Tasks \ {t} : task'[u] = task[u]
           /\ task'[t].pc = "send" /\ task'[t].cons = c /\ task'[t].msg = m
           /\ task'[t].count = k /\ task'[t].fresh = isNew /\ task'[t].left = task[t].left
           /\ permits' \in [Consumers -> Int] /\ total' \in Int
           /\ UNCHANGED <<connected, pending>>
<1>. DEFINE r == [task[t] EXCEPT !.pc = "send", !.cons = c, !.msg = m, !.count = k,
                                 !.fresh = isNew]
<1>0. task \in [Tasks -> TaskRecords] /\ task[t] \in TaskRecords /\ m \in Nat
      /\ permits \in [Consumers -> Int] /\ total \in Int /\ Weight[m] \in Int
  BY SizesAssumption DEF Typed, Messages
<1>1. /\ task' = [task EXCEPT ![t].pc = "send", ![t].cons = c, ![t].msg = m, ![t].count = k,
                              ![t].fresh = isNew]
      /\ permits' = [permits EXCEPT ![c] = @ - Weight[m]] /\ total' = total - Weight[m]
      /\ UNCHANGED <<connected, pending>>
  BY Zenon DEF TakeInHand
<1>2. task' = [task EXCEPT ![t] = r]
  BY <1>0, <1>1, Zenon
<1>3. r \in TaskRecords
  <2>1. "send" \in Pcs /\ c \in Consumers \cup {Nobody}
    BY Zenon DEF Pcs
  <2>. QED
    BY <1>0, <2>1, Zenon DEF TaskRecords
<1>4. /\ r.pc = "send" /\ r.cons = c /\ r.msg = m /\ r.count = k /\ r.fresh = isNew
      /\ r.left = task[t].left
  BY <1>0, Zenon DEF TaskRecords
<1>. HIDE DEF r
<1>5. /\ task' \in [Tasks -> TaskRecords] /\ \A u \in Tasks \ {t} : task'[u] = task[u]
      /\ task'[t] = r
  BY <1>0, <1>2, <1>3, TaskBecomes, Zenon
<1>6. permits' \in [Consumers -> Int] /\ total' \in Int
  BY <1>0, <1>1
<1>. QED
  BY <1>1, <1>4, <1>5, <1>6, Zenon

\* A message that nobody holds is taken in hand; the read position passes only messages
\* that have an owner.
LEMMA Taking ==
    ASSUME Inv, NEW t \in Tasks, NEW m \in (1..last) \ acked, NEW c \in connected,
           NEW k \in Nat, NEW isNew \in BOOLEAN, task[t].pc = "pick",
           \A u \in Tasks \ {t} : task'[u] = task[u],
           task'[t].pc = "send", task'[t].cons = c, task'[t].msg = m,
           task'[t].count = k, task'[t].fresh = isNew,
           UNCHANGED <<last, acked, connected, pending, handler, sent, seeks, failed>>,
           DOMAIN queue' = DOMAIN queue \ {m}, \A x \in DOMAIN queue' : queue'[x] = queue[x],
           \A e \in Consumers : ~Owns(e, m), k > sent[m],
           isNew => readPos' = m, ~isNew => ~Unread(m)',
           \A x \in (1..last) \ acked :
              /\ Unread(x)' => Unread(x)
              /\ Unread(x) => Unread(x)' \/ \E e \in connected : Owns(e, x)
    PROVE  Ledger'
<1>. USE DEF Inv, Ledger
<1>0. \A u \in Tasks \ {t} : task[u].pc \notin Busy /\ task[u].pc \notin Hands
  BY AloneInLoop, Zenon DEF Busy
<1>1. \A x : ~InHand(x) /\ (InHand(x)' <=> x = m)
  BY <1>0, Zenon DEF InHand, Hands
<1>2. \A x : /\ Queued(x)' <=> Queued(x) /\ x # m
             /\ AckInFlight(x)' <=> AckInFlight(x)
             /\ \A e : Owns(e, x)' <=> Owns(e, x)
  BY Zenon DEF Queued, AckInFlight, Owns
<1>3. Hand'
  <2>1. \A e \in Consumers : ~Owns(e, m)'
    BY <1>2, Zenon
  <2>2. ~Queued(m)' /\ sent'[m] = sent[m] /\ m \in (1..last') \ acked' /\ c \in connected'
    BY <1>2, Zenon
  <2>3. HandOf(task[t])'
    BY <2>1, <2>2, Zenon DEF HandOf
  <2>. QED
    BY <1>0, <2>3, Zenon DEF Hand
<1>4. OneOwner'
  <2>. SUFFICES ASSUME NEW x \in 1..last, NEW e \in Consumers, Owns(e, x)
                PROVE  /\ e \in connected
                       /\ \A d \in Consumers : Owns(d, x) => e = d
                       /\ x \notin acked => ~Queued(x)' /\ ~Unread(x)'
    BY <1>2, Zenon DEF OneOwner
  <2>1. /\ e \in connected /\ \A d \in Consumers : Owns(d, x) => e = d
        /\ x \notin acked => ~Queued(x) /\ ~Unread(x)
    BY <1>1, Zenon DEF OneOwner
  <2>. QED
    BY <1>2, <2>1, Zenon
<1>5. Past'
  BY <1>2, Zenon DEF Past
<1>6. Counts' /\ Started'
  BY Zenon DEF Counts, Started
<1>7. ConservedUnlessUpset'
  BY <1>1, <1>2, Zenon DEF ConservedUnlessUpset, Conserved
<1>. QED
  BY <1>3, <1>4, <1>5, <1>6, <1>7, Zenon

\* A batch takes the first message of the redelivery queue.
LEMMA PickQueuedSteps ==
    ASSUME Inv, NEW t \in Tasks, PickQueued(t)
    PROVE  Inv'
<1>. USE DEF Inv
<1>0. /\ task \in [Tasks -> TaskRecords] /\ task[t].pc = "pick" /\ last \in Nat
      /\ connected \subseteq Consumers /\ CountMap(queue) /\ DOMAIN queue # {}
      /\ last <= MaxMessages /\ acked \subseteq 1..last
  BY Zenon DEF Typed, PickQueued
<1>1. inProgress /\ \A u \in Tasks \ {t} : task[u].pc \notin Busy /\ task[u].pc \notin Hands
  BY <1>0, AloneInLoop, Zenon DEF Busy
<1>2. PICK least \in DOMAIN queue : least = Min(DOMAIN queue)
  <2>1. DOMAIN queue \subseteq Nat
    BY <1>0 DEF CountMap
  <2>. QED
    BY <1>0, <2>1, MinOf, Zenon
<1>3. /\ UNCHANGED <<last, acked, readPos, inProgress, handler, sent, seeks, failed>>
      /\ queue' = Drop(queue, {least})
  BY <1>2, Zenon DEF PickQueued, cursorVars, flagVars, envVars
<1>4. PICK c \in connected :
         IF least \in acked
         THEN task' = [task EXCEPT ![t].left = @ - 1] /\ UNCHANGED consVars
         ELSE TakeInHand(t, c, least, queue[least], FALSE)
  BY <1>2, Zenon DEF PickQueued, Available
<1>5. least \in 1..last /\ queue[least] \in Nat /\ least \in Messages
  BY <1>0, SizesAssumption DEF CountMap, Messages
<1>6. DOMAIN queue' = DOMAIN queue \ {least} /\ \A x \in DOMAIN queue' : queue'[x] = queue[x]
  <2>1. /\ DOMAIN Drop(queue, {least}) = DOMAIN queue \ {least}
        /\ \A x \in DOMAIN queue \ {least} : Drop(queue, {least})[x] = queue[x]
    BY Dropped, Zenon
  <2>. QED
    BY <1>3, <2>1, Zenon
<1>7. CASE least \in acked
  <2>1. task' = [task EXCEPT ![t].left = @ - 1]
        /\ UNCHANGED <<connected, permits, pending, total>>
    BY <1>4, <1>7, Zenon DEF consVars
  <2>2. /\ task' \in [Tasks -> TaskRecords] /\ \A u \in Tasks \ {t} : task'[u] = task[u]
        /\ task'[t].pc = "pick"
    BY <1>0, <2>1, RoundSpent, Zenon
  <2>3. Exclusion'
    BY <1>0, <1>1, <1>3, <2>2, GuardKept, Zenon DEF Busy
  <2>4. \A u \in Tasks : task[u].pc \notin Hands /\ task'[u].pc \notin Hands
    BY <1>0, <1>1, <2>2, Zenon DEF Hands
  <2>5. \A m : Unread(m)' <=> Unread(m)
    BY <1>3, Zenon DEF Unread
  <2>6. Ledger'
    BY <1>3, <1>6, <1>7, <2>1, <2>4, <2>5, EmptyHanded, Zenon
  <2>7. Typed'
    <3>1. CountMap(queue)' /\ \A e \in Consumers : CountMap(pending[e])'
      BY <1>3, <1>6, <2>1, Zenon DEF Typed, CountMap
    <3>. QED
      BY <1>3, <2>1, <2>2, <3>1, Zenon DEF Typed
  <2>. QED
    BY <2>3, <2>6, <2>7, Zenon
<1>8. CASE least \notin acked
  <2>0. TakeInHand(t, c, least, queue[least], FALSE)
    BY <1>4, <1>8, Zenon
  <2>1. /\ task' \in [Tasks -> TaskRecords] /\ \A u \in Tasks \ {t} : task'[u] = task[u]
        /\ task'[t].pc = "send" /\ task'[t].cons = c /\ task'[t].msg = least
        /\ task'[t].count = queue[least] /\ task'[t].fresh = FALSE
        /\ permits' \in [Consumers -> Int] /\ total' \in Int
        /\ UNCHANGED <<connected, pending>>
    BY <1>0, <1>5, <2>0, TaskTakes, Zenon
  <2>2. Exclusion'
    BY <1>0, <1>1, <1>3, <2>1, GuardKept, Zenon DEF Busy
  <2>3. /\ \A e \in Consumers : ~Owns(e, least)
        /\ queue[least] > sent[least]
        /\ ~Unread(least)'
    <3>1. Queued(least)
      BY <1>5, Zenon DEF Queued
    <3>2. ~Unread(least) /\ \A e \in Consumers : ~Owns(e, least)
      BY <1>5, <1>8, <3>1, Zenon DEF Ledger, Past, OneOwner
    <3>3. ~Unread(least)'
      BY <1>3, <3>2, Zenon DEF Unread
    <3>. QED
      BY <1>5, <3>2, <3>3, Zenon DEF Ledger, Counts
  <2>4. \A m : Unread(m)' <=> Unread(m)
    BY <1>3, Zenon DEF Unread
  <2>5. Ledger'
    BY <1>0, <1>3, <1>5, <1>6, <1>8, <2>1, <2>3, <2>4, Taking, Zenon
  <2>6. Typed'
    <3>1. CountMap(queue)' /\ \A e \in Consumers : CountMap(pending[e])'
      BY <1>3, <1>6, <2>1, Zenon DEF Typed, CountMap
    <3>. QED
      BY <1>3, <2>1, <3>1, Zenon DEF Typed
  <2>. QED
    BY <2>2, <2>5, <2>6, Zenon
<1>. QED
  BY <1>7, <1>8, Zenon

\* A batch reads the next message that nobody holds.
LEMMA PickNewSteps ==
    ASSUME Inv, NEW t \in Tasks, PickNew(t)
    PROVE  Inv'
<1>. USE DEF Inv
<1>. DEFINE least == Min(Candidates(last))
<1>0. /\ task \in [Tasks -> TaskRecords] /\ task[t].pc = "pick" /\ last \in Nat
      /\ connected \subseteq Consumers /\ DOMAIN queue = {} /\ Candidates(last) # {}
      /\ last <= MaxMessages /\ acked \subseteq 1..last /\ readPos \in Nat
      /\ sent \in [Messages -> Int]
  BY Zenon DEF Typed, PickNew
<1>1. inProgress /\ \A u \in Tasks \ {t} : task[u].pc \notin Busy /\ task[u].pc \notin Hands
  BY <1>0, AloneInLoop, Zenon DEF Busy
<1>2. /\ UNCHANGED <<last, acked, queue, inProgress, handler, sent, seeks, failed>>
      /\ readPos' = least
  BY Zenon DEF PickNew, cursorVars, flagVars, envVars
<1>3. PICK c \in connected : TakeInHand(t, c, least, 0, TRUE)
  BY Zenon DEF PickNew, Available
<1>4. /\ least \in Candidates(last) /\ \A m \in Candidates(last) : least <= m
      /\ least \in (1..last) \ acked /\ least \in Messages
  <2>1. Candidates(last) \subseteq (1..last) \ acked
    BY CandidatesAre, Zenon
  <2>2. Candidates(last) \subseteq Nat
    BY <1>0, <2>1
  <2>3. least \in Candidates(last) /\ \A m \in Candidates(last) : least <= m
    BY <1>0, <2>2, MinOf, Zenon
  <2>. QED
    BY <1>0, <2>1, <2>3, SizesAssumption DEF Messages
<1>. HIDE DEF least
<1>5. /\ task' \in [Tasks -> TaskRecords] /\ \A u \in Tasks \ {t} : task'[u] = task[u]
      /\ task'[t].pc = "send" /\ task'[t].cons = c /\ task'[t].msg = least
      /\ task'[t].count = 0 /\ task'[t].fresh = TRUE
      /\ permits' \in [Consumers -> Int] /\ total' \in Int
      /\ UNCHANGED <<connected, pending>>
  <2>1. 0 \in Nat /\ TRUE \in BOOLEAN /\ c \in Consumers
    BY <1>0, Zenon
  <2>. QED
    BY <1>3, <1>4, <2>1, TaskTakes, Zenon
<1>6. Exclusion'
  BY <1>0, <1>1, <1>2, <1>5, GuardKept, Zenon DEF Busy
<1>7. /\ \A e \in Consumers : ~Owns(e, least)
      /\ 0 > sent[least]
  <2>1. Unread(least) /\ \A e \in connected : ~Owns(e, least)
    BY <1>4, CandidatesAre, Zenon
  <2>2. \A e \in Consumers : ~Owns(e, least)
    BY <1>4, <2>1, Zenon DEF Ledger, OneOwner
  <2>3. ~(sent[least] >= 0)
    BY <1>4, <2>1, Zenon DEF Ledger, Past
  <2>4. sent[least] \in Int
    BY <1>0, <1>4, Zenon
  <2>. QED
    BY <2>2, <2>3, <2>4
<1>8. \A m \in (1..last) \ acked :
         /\ Unread(m)' => Unread(m)
         /\ Unread(m) => Unread(m)' \/ \E e \in connected : Owns(e, m)
  <2>. SUFFICES ASSUME NEW m \in (1..last) \ acked
                PROVE  /\ Unread(m)' => Unread(m)
                       /\ Unread(m) => Unread(m)' \/ \E e \in connected : Owns(e, m)
    BY Zenon
  <2>1. Unread(m)' <=> least <= m
    BY <1>0, <1>2, <1>4 DEF Unread
  <2>2. Unread(least) /\ (least <= m => Unread(m))
    <3>1. Unread(least)
      BY <1>4, CandidatesAre, Zenon
    <3>. QED
      BY <1>0, <1>4, <3>1 DEF Unread
  <2>3. Unread(m) /\ m \notin Candidates(last) => \E e \in connected : Owns(e, m)
    BY CandidatesAre, Zenon
  <2>. QED
    BY <1>4, <2>1, <2>2, <2>3, Zenon
<1>9. Ledger'
  <2>1. DOMAIN queue' = DOMAIN queue \ {least} /\ \A x \in DOMAIN queue' : queue'[x] = queue[x]
    BY <1>0, <1>2, Zenon
  <2>2. 0 \in Nat /\ TRUE \in BOOLEAN
    BY Zenon
  <2>. QED
    BY <1>0, <1>2, <1>4, <1>5, <1>7, <1>8, <2>1, <2>2, Taking, Zenon
<1>10. Typed'
  <2>1. readPos' \in Nat /\ readPos' <= last + 1
    BY <1>0, <1>2, <1>4
  <2>. QED
    BY <1>2, <1>5, <2>1, Zenon DEF Typed, CountMap
<1>. QED
  BY <1>6, <1>9, <1>10, Zenon

\* What is known of the message that a task holds.
LEMMA InTheHand ==
    ASSUME Inv, NEW t \in Tasks, task[t].pc \in Hands
    PROVE  /\ task[t] \in TaskRecords /\ task[t].msg \in (1..last) \ acked
           /\ task[t].msg \in Messages /\ task[t].cons \in Consumers
           /\ task[t].cons \in connected /\ task[t].count \in Nat /\ task[t].fresh \in BOOLEAN
           /\ sent[task[t].msg] \in Int /\ HandOf(task[t])
           /\ \A u \in Tasks \ {t} : task[u].pc \notin Busy /\ task[u].pc \notin Hands
           /\ \A x : InHand(x) <=> x = task[t].msg
<1>. USE DEF Inv
<1>1. HandOf(task[t])
  BY Zenon DEF Ledger, Hand
<1>2. task[t] \in TaskRecords /\ last \in Nat /\ last <= MaxMessages
      /\ connected \subseteq Consumers /\ sent \in [Messages -> Int]
  BY Zenon DEF Typed
<1>3. task[t].count \in Nat /\ task[t].fresh \in BOOLEAN
  BY <1>2, Zenon DEF TaskRecords
<1>4. task[t].msg \in (1..last) \ acked /\ task[t].cons \in connected
  BY <1>1, Zenon DEF HandOf
<1>5. task[t].msg \in Messages
  BY <1>2, <1>4, SizesAssumption DEF Messages
<1>6. \A u \in Tasks \ {t} : task[u].pc \notin Busy /\ task[u].pc \notin Hands
  BY AloneInLoop, Zenon DEF Busy, Hands
<1>7. \A x : InHand(x) <=> x = task[t].msg
  BY <1>6, Zenon DEF InHand, Hands
<1>8. sent[task[t].msg] \in Int /\ task[t].cons \in Consumers
  BY <1>2, <1>4, <1>5, Zenon
<1>. QED
  BY <1>1, <1>2, <1>3, <1>4, <1>5, <1>6, <1>7, <1>8, Zenon

\* The read position moves past a message that was read there.
LEMMA MovesPast ==
    ASSUME Inv, NEW t \in Tasks, task[t].pc \in Hands,
           readPos' = IF task[t].fresh THEN task[t].msg + 1 ELSE readPos
    PROVE  /\ readPos' \in Nat /\ readPos' <= last + 1
           /\ \A x \in 1..last : Unread(x)' <=> Unread(x) /\ x # task[t].msg
<1>1. last \in Nat /\ readPos \in Nat /\ readPos <= last + 1
  BY Zenon DEF Inv, Typed
<1>2. PICK m \in 1..last, f \in BOOLEAN :
         /\ m = task[t].msg /\ readPos' = IF f THEN m + 1 ELSE readPos
         /\ f => readPos = m
         /\ ~f => ~Unread(m)
  BY InTheHand, Zenon DEF HandOf
<1>3. /\ readPos' \in Nat /\ readPos' <= last + 1
      /\ \A x \in 1..last : Unread(x)' <=> Unread(x) /\ x # m
  BY <1>1, <1>2 DEF Unread
<1>. QED
  BY <1>2, <1>3, Zenon

\* A message in hand goes back to the queue.
LEMMA GivenBack ==
    ASSUME Inv, NEW t \in Tasks, task[t].pc \in Hands, GiveBack(t),
           UNCHANGED <<last, acked, connected, inProgress, handler, sent, seeks, failed>>,
           DOMAIN pending' = Consumers,
           \A e \in Consumers : \A x : Owns(e, x)' <=> Owns(e, x) /\ x # task[t].msg,
           \A e \in Consumers : \A x \in DOMAIN pending'[e] : pending'[e][x] = pending[e][x]
    PROVE  Inv'
<1>. USE DEF Inv, Ledger
<1>1. /\ queue' = Requeue(queue, Put(Nothing, task[t].msg, task[t].count + 1))
      /\ readPos' = IF task[t].fresh THEN task[t].msg + 1 ELSE readPos
      /\ permits' = [permits EXCEPT ![task[t].cons] = @ + Weight[task[t].msg]]
      /\ total' = total + Weight[task[t].msg] /\ BatchEnd(t, task[t].any, total')
  BY Zenon DEF GiveBack
<1>2. /\ task' \in [Tasks -> TaskRecords] /\ \A u \in Tasks \ {t} : task'[u] = task[u]
      /\ task'[t].pc \in {"batch", "release"}
  <2>1. task \in [Tasks -> TaskRecords]
    BY Zenon DEF Typed
  <2>. QED
    BY <1>1, <2>1, BatchEnds, Zenon
<1>3. /\ readPos' \in Nat /\ readPos' <= last + 1
      /\ \A x \in 1..last : Unread(x)' <=> Unread(x) /\ x # task[t].msg
  BY <1>1, MovesPast, Zenon
<1>4. PICK m \in (1..last) \ acked, k \in Nat :
         /\ m = task[t].msg /\ k = task[t].count /\ m \in Messages
         /\ ~Queued(m) /\ k > sent[m] /\ sent[m] \in Int
         /\ \A x : InHand(x) <=> x = m
  BY InTheHand, Zenon DEF HandOf
<1>5. \A u \in Tasks : task'[u].pc \notin Hands
  BY <1>2, InTheHand, Zenon DEF Hands
<1>6. \A x : ~InHand(x)'
  BY <1>5, Zenon DEF InHand, Hands
<1>7. /\ DOMAIN queue' = DOMAIN queue \cup {m} /\ queue'[m] = k + 1
      /\ \A x \in DOMAIN queue : queue'[x] = queue[x] /\ x # m
  <2>1. \A x \in DOMAIN queue : queue[x] \in Nat /\ x # m
    BY <1>4, Zenon DEF Typed, CountMap, Queued
  <2>2. queue' = Requeue(queue, Put(Nothing, m, k + 1)) /\ k + 1 \in Nat
    <3>1. queue' = Requeue(queue, Put(Nothing, m, k + 1))
      BY <1>1, <1>4, Zenon
    <3>. QED
      BY <3>1
  <2>. DEFINE one == Put(Nothing, m, k + 1)
  <2>3. DOMAIN one = {m} /\ one[m] = k + 1
    BY Zenon DEF one, Put, Nothing
  <2>. HIDE DEF one
  <2>4. /\ DOMAIN Requeue(queue, one) = DOMAIN queue \cup {m} /\ Requeue(queue, one)[m] = k + 1
        /\ \A x \in DOMAIN queue : Requeue(queue, one)[x] = queue[x]
    BY <2>1, <2>3, Zenon DEF Requeue
  <2>. QED
    BY <2>1, <2>2, <2>4, Zenon DEF one
<1>8. \A x : (Queued(x)' <=> Queued(x) \/ x = m) /\ (AckInFlight(x)' <=> AckInFlight(x))
  BY <1>7, Zenon DEF Queued, AckInFlight
<1>9. Exclusion'
  BY <1>2, GuardKept, AloneInLoop, Zenon DEF Busy, Hands
<1>10. Hand' /\ Started'
  BY <1>5, Zenon DEF Hand, Started
<1>11. OneOwner'
  <2>0. \A d \in Consumers : \A x : Owns(d, x)' <=> Owns(d, x) /\ x # m
    BY <1>4, Zenon
  <2>. SUFFICES ASSUME NEW x \in 1..last', NEW e \in Consumers, Owns(e, x)'
                PROVE  /\ e \in connected'
                       /\ \A d \in Consumers : Owns(d, x)' => e = d
                       /\ x \notin acked' => ~Queued(x)' /\ ~Unread(x)'
    BY Zenon DEF OneOwner
  <2>1. /\ e \in connected /\ \A d \in Consumers : Owns(d, x) => e = d
        /\ x \notin acked => ~Queued(x) /\ (Unread(x) => InHand(x))
    BY Zenon DEF OneOwner
  <2>. QED
    BY <1>3, <1>4, <1>8, <2>1, Zenon
<1>12. Past'
  BY <1>3, <1>4, <1>8, Zenon DEF Past
<1>13. Counts'
  <2>1. k + 1 > sent[m]
    BY <1>4
  <2>2. \A x \in DOMAIN queue' : queue'[x] > sent[x]
    BY <1>7, <2>1, Zenon DEF Counts
  <2>3. \A e \in Consumers : \A x \in DOMAIN pending'[e] : pending'[e][x] >= sent[x]
    BY Zenon DEF Counts, Owns
  <2>. QED
    BY <2>2, <2>3, Zenon DEF Counts
<1>14. ConservedUnlessUpset'
  <2>1. connected \subseteq Consumers
    BY Zenon DEF Typed
  <2>2. ASSUME seeks = 0 /\ ~failed, NEW x \in (1..last) \ acked
        PROVE  \/ Unread(x)' \/ Queued(x)' \/ AckInFlight(x)'
               \/ \E e \in connected : Owns(e, x)'
    <3>1. x = m \/ Unread(x) \/ Queued(x) \/ AckInFlight(x) \/ \E e \in connected : Owns(e, x)
      BY <1>4, <2>2, Zenon DEF ConservedUnlessUpset, Conserved
    <3>. QED
      BY <1>3, <1>4, <1>8, <2>1, <3>1, Zenon
  <2>. QED
    BY <2>2, Zenon DEF ConservedUnlessUpset, Conserved
<1>15. Typed'
  <2>1. CountMap(queue)'
    BY <1>4, <1>7 DEF Typed, CountMap
  <2>2. \A e \in Consumers : CountMap(pending[e])'
    BY Zenon DEF Typed, CountMap, Owns
  <2>3. permits' \in [Consumers -> Int] /\ total' \in Int
    <3>1. Weight[m] \in Int /\ permits \in [Consumers -> Int] /\ total \in Int
      BY <1>4, SizesAssumption DEF Typed, Messages
    <3>2. task[t].cons \in Consumers
      BY InTheHand, Zenon
    <3>3. /\ permits' = [permits EXCEPT ![task[t].cons] = permits[task[t].cons] + Weight[m]]
          /\ total' = total + Weight[m]
      BY <1>1, <1>4, Zenon
    <3>. QED
      BY <3>1, <3>2, <3>3
  <2>. QED
    BY <1>2, <1>3, <2>1, <2>2, <2>3, Zenon DEF Typed
<1>. QED
  BY <1>9, <1>10, <1>11, <1>12, <1>13, <1>14, <1>15, Zenon

\* A send fails, before or after the message is tracked.
LEMMA SendFailing ==
    ASSUME Inv, NEW t \in Tasks, SendUnwritable(t) \/ SlotFull(t)
    PROVE  Inv'
<1>. USE DEF Inv
<1>1. task[t].pc \in Hands /\ GiveBack(t)
      /\ UNCHANGED <<last, acked, connected, inProgress, handler, sent, seeks, failed>>
  <2>1. CASE SendUnwritable(t)
    BY <2>1, Zenon DEF SendUnwritable, Hands, cursorVars, flagVars
  <2>2. CASE SlotFull(t)
    BY <2>2, Zenon DEF SlotFull, Hands, cursorVars, flagVars
  <2>. QED
    BY <2>1, <2>2, Zenon
<1>2. PICK m \in 1..last, c \in Consumers : m = task[t].msg /\ c = task[t].cons
  BY <1>1, InTheHand, Zenon
<1>3. DOMAIN pending = Consumers
  BY Zenon DEF Typed
<1>4. /\ DOMAIN pending' = Consumers
      /\ \A e \in Consumers : \A x : Owns(e, x)' <=> Owns(e, x) /\ x # m
      /\ \A e \in Consumers : \A x \in DOMAIN pending'[e] : pending'[e][x] = pending[e][x]
  <2>1. CASE SendUnwritable(t)
    <3>1. pending' = pending /\ task[t].pc = "send"
      BY <2>1, Zenon DEF SendUnwritable
    <3>2. \A e \in Consumers : ~Owns(e, m)
      BY <1>1, <1>2, <3>1, InTheHand, Zenon DEF HandOf
    <3>. QED
      BY <1>3, <3>1, <3>2, Zenon DEF Owns
  <2>2. CASE SlotFull(t)
    <3>1. pending' = [pending EXCEPT ![c] = Drop(pending[c], {m})] /\ task[t].pc = "slot"
      BY <1>2, <2>2, Zenon DEF SlotFull
    <3>2. \A e \in Consumers : Owns(e, m) => e = c
      BY <1>1, <1>2, <3>1, InTheHand, Zenon DEF HandOf
    <3>3. /\ DOMAIN pending' = Consumers /\ pending'[c] = Drop(pending[c], {m})
          /\ \A e \in Consumers \ {c} : pending'[e] = pending[e]
      BY <1>3, <3>1, Zenon
    <3>4. /\ DOMAIN Drop(pending[c], {m}) = DOMAIN pending[c] \ {m}
          /\ \A x \in DOMAIN pending[c] \ {m} : Drop(pending[c], {m})[x] = pending[c][x]
      BY Dropped, Zenon
    <3>. QED
      BY <3>2, <3>3, <3>4, Zenon DEF Owns
  <2>. QED
    BY <2>1, <2>2, Zenon
<1>. QED
  BY <1>1, <1>2, <1>4, GivenBack, Zenon

\* The message in hand is tracked for its consumer.
LEMMA Tracking ==
    ASSUME Inv, NEW t \in Tasks, SendTrack(t)
    PROVE  Inv'
<1>. USE DEF Inv, Ledger
<1>0. /\ task \in [Tasks -> TaskRecords] /\ task[t].pc = "send" /\ "slot" \in Pcs
      /\ task[t].pc \in Hands /\ task[t].pc \in Busy
  BY Zenon DEF Typed, SendTrack, Pcs, Hands, Busy
<1>1. /\ UNCHANGED <<last, acked, readPos, queue, connected, permits, total, inProgress,
                     handler, sent, seeks, failed>>
      /\ task' = [task EXCEPT ![t].pc = "slot"]
  BY Zenon DEF SendTrack, Go, cursorVars, flagVars, envVars
<1>2. /\ task' \in [Tasks -> TaskRecords] /\ \A u \in Tasks \ {t} : task'[u] = task[u]
      /\ task'[t].pc = "slot" /\ task'[t].cons = task[t].cons /\ task'[t].msg = task[t].msg
      /\ task'[t].count = task[t].count /\ task'[t].fresh = task[t].fresh
  BY <1>0, <1>1, TaskGoes, Zenon
<1>3. PICK m \in (1..last) \ acked, c \in Consumers, k \in Nat :
         /\ m = task[t].msg /\ c = task[t].cons /\ k = task[t].count /\ c \in connected
         /\ ~Queued(m) /\ k > sent[m] /\ sent[m] \in Int
         /\ \A x : InHand(x) <=> x = m
         /\ \A e \in Consumers : ~Owns(e, m)
  BY <1>0, InTheHand, Zenon DEF HandOf
<1>4. \A u \in Tasks \ {t} : task[u].pc \notin Busy /\ task[u].pc \notin Hands
  BY <1>0, InTheHand, Zenon
<1>5. /\ DOMAIN pending' = Consumers
      /\ DOMAIN pending'[c] = DOMAIN pending[c] \cup {m} /\ pending'[c][m] = k
      /\ \A x \in DOMAIN pending[c] \ {m} : pending'[c][x] = pending[c][x]
      /\ \A e \in Consumers \ {c} : pending'[e] = pending[e]
  <2>1. pending' = [pending EXCEPT ![c] = Put(pending[c], m, k)] /\ DOMAIN pending = Consumers
    BY <1>3, Zenon DEF SendTrack, Typed
  <2>2. /\ DOMAIN pending' = Consumers /\ pending'[c] = Put(pending[c], m, k)
        /\ \A e \in Consumers \ {c} : pending'[e] = pending[e]
    BY <2>1, Zenon
  <2>3. /\ DOMAIN Put(pending[c], m, k) = DOMAIN pending[c] \cup {m}
        /\ Put(pending[c], m, k)[m] = k
        /\ \A x \in DOMAIN pending[c] \ {m} : Put(pending[c], m, k)[x] = pending[c][x]
    BY Zenon DEF Put
  <2>. QED
    BY <2>2, <2>3, Zenon
<1>6. \A e \in Consumers : \A x : Owns(e, x)' <=> Owns(e, x) \/ (e = c /\ x = m)
  BY <1>5, Zenon DEF Owns
<1>7. \A x : /\ Queued(x)' <=> Queued(x)
             /\ AckInFlight(x)' <=> AckInFlight(x)
             /\ Unread(x)' <=> Unread(x)
             /\ InHand(x)' <=> x = m
  <2>1. \A x : InHand(x)' <=> x = m
    BY <1>2, <1>3, <1>4, Zenon DEF InHand, Hands
  <2>. QED
    BY <1>1, <2>1, Zenon DEF Queued, AckInFlight, Unread
<1>8. Exclusion'
  BY <1>0, <1>1, <1>2, <1>4, GuardKept, AloneInLoop, Zenon DEF Busy
<1>9. Hand'
  <2>1. HandOf(task[t])
    BY <1>0, InTheHand, Zenon
  <2>2. /\ task[t].fresh => readPos' = m
        /\ ~task[t].fresh => ~Unread(m)'
    BY <1>1, <1>3, <1>7, <2>1, Zenon DEF HandOf
  <2>3. \A e \in Consumers : Owns(e, m)' => e = c /\ pending'[e][m] = k
    BY <1>3, <1>5, <1>6, Zenon
  <2>4. Owns(c, m)'
    BY <1>6, Zenon
  <2>5. /\ task'[t].msg = m /\ task'[t].cons = c /\ task'[t].count = k
        /\ m \in (1..last') \ acked' /\ c \in connected' /\ ~Queued(m)' /\ k > sent'[m]
    BY <1>1, <1>2, <1>3, <1>7, Zenon
  <2>6. HandOf(task[t])'
    BY <1>2, <2>2, <2>3, <2>4, <2>5, Zenon DEF HandOf
  <2>. QED
    BY <1>2, <1>4, <2>6, Zenon DEF Hand
<1>10. OneOwner'
  <2>. SUFFICES ASSUME NEW x \in 1..last, NEW e \in Consumers, Owns(e, x)'
                PROVE  /\ e \in connected
                       /\ \A d \in Consumers : Owns(d, x)' => e = d
                       /\ x \notin acked => ~Queued(x) /\ (Unread(x) => x = m)
    BY <1>1, <1>7, Zenon DEF OneOwner
  <2>1. CASE x = m
    BY <1>3, <1>6, <2>1, Zenon
  <2>2. CASE x # m
    <3>1. Owns(e, x)
      BY <1>6, <2>2, Zenon
    <3>2. /\ e \in connected /\ \A d \in Consumers : Owns(d, x) => e = d
          /\ x \notin acked => ~Queued(x) /\ (Unread(x) => x = m)
      BY <1>3, <3>1, Zenon DEF OneOwner
    <3>. QED
      BY <1>6, <2>2, <3>2, Zenon
  <2>. QED
    BY <2>1, <2>2, Zenon
<1>11. Past' /\ Started'
  BY <1>1, <1>7, Zenon DEF Past, Started
<1>12. Counts'
  <2>1. k >= sent[m]
    BY <1>3
  <2>2. \A e \in Consumers : \A x \in DOMAIN pending'[e] : pending'[e][x] >= sent[x]
    BY <1>5, <2>1, Zenon DEF Counts
  <2>. QED
    BY <1>1, <2>2, Zenon DEF Counts
<1>13. ConservedUnlessUpset'
  <2>1. connected \subseteq Consumers
    BY Zenon DEF Typed
  <2>2. \A e \in connected : \A x : Owns(e, x) => Owns(e, x)'
    BY <1>6, <2>1, Zenon
  <2>3. \A x : InHand(x)' <=> InHand(x)
    BY <1>3, <1>7, Zenon
  <2>. QED
    BY <1>1, <1>7, <2>2, <2>3, Zenon DEF ConservedUnlessUpset, Conserved
<1>14. Typed'
  <2>1. CountMap(queue)' /\ \A e \in Consumers : CountMap(pending[e])'
    <3>1. \A e \in Consumers \ {c} : CountMap(pending[e])'
      BY <1>1, <1>5, Zenon DEF Typed, CountMap
    <3>2. CountMap(pending[c])'
      BY <1>1, <1>3, <1>5, Zenon DEF Typed, CountMap
    <3>. QED
      BY <1>1, <3>1, <3>2, Zenon DEF Typed, CountMap
  <2>. QED
    BY <1>1, <1>2, <1>5, <2>1, Zenon DEF Typed
<1>. QED
  BY <1>8, <1>9, <1>10, <1>11, <1>12, <1>13, <1>14, Zenon

\* A message is sent, and the task goes on to the next round.
LEMMA TaskSent ==
    ASSUME task \in [Tasks -> TaskRecords], NEW t \in Tasks,
           task' = [task EXCEPT ![t].pc = "pick", ![t].cons = Nobody, ![t].msg = 0,
                       ![t].count = 0, ![t].fresh = FALSE, ![t].left = @ - 1, ![t].any = TRUE]
    PROVE  /\ task' \in [Tasks -> TaskRecords] /\ \A u \in Tasks \ {t} : task'[u] = task[u]
           /\ task'[t].pc = "pick" /\ task'[t].left = task[t].left - 1 /\ task'[t].any
<1>. DEFINE r == [task[t] EXCEPT !.pc = "pick", !.cons = Nobody, !.msg = 0, !.count = 0,
                                 !.fresh = FALSE, !.left = task[t].left - 1, !.any = TRUE]
<1>0. task[t] \in TaskRecords
  BY Zenon
<1>1. task[t].left - 1 \in Int /\ "pick" \in Pcs /\ Nobody \in Consumers \cup {Nobody}
      /\ 0 \in Nat /\ FALSE \in BOOLEAN /\ TRUE \in BOOLEAN
  BY <1>0 DEF TaskRecords, Pcs
<1>2. task' = [task EXCEPT ![t] = r]
  BY <1>0, Zenon
<1>3. r \in TaskRecords /\ r.pc = "pick" /\ r.left = task[t].left - 1 /\ r.any = TRUE
  BY <1>0, <1>1, Zenon DEF TaskRecords
<1>. HIDE DEF r
<1>. QED
  BY <1>2, <1>3, TaskBecomes, Zenon

\* The channel takes the message, and the read position moves past it.
LEMMA Sending ==
    ASSUME Inv, NEW t \in Tasks, SlotTaken(t)
    PROVE  Inv'
<1>. USE DEF Inv, Ledger
<1>0. /\ task \in [Tasks -> TaskRecords] /\ task[t].pc = "slot"
      /\ task[t].pc \in Hands /\ task[t].pc \in Busy
  BY Zenon DEF Typed, SlotTaken, Hands, Busy
<1>1. /\ UNCHANGED <<last, acked, queue, connected, permits, pending, total, inProgress,
                     handler, seeks, failed>>
      /\ readPos' = IF task[t].fresh THEN task[t].msg + 1 ELSE readPos
  BY Zenon DEF SlotTaken, cursorVars, consVars, flagVars
<1>2. /\ task' \in [Tasks -> TaskRecords] /\ \A u \in Tasks \ {t} : task'[u] = task[u]
      /\ task'[t].pc = "pick"
  BY <1>0, TaskSent, Zenon DEF SlotTaken
<1>3. PICK m \in (1..last) \ acked, c \in Consumers, k \in Nat :
         /\ m = task[t].msg /\ c = task[t].cons /\ k = task[t].count /\ c \in connected
         /\ ~Queued(m) /\ m \in Messages
         /\ \A x : InHand(x) <=> x = m
         /\ \A e \in Consumers : Owns(e, m) => e = c /\ pending[e][m] = k
         /\ seeks = 0 => Owns(c, m) \/ AckInFlight(m)
  BY <1>0, InTheHand, Zenon DEF HandOf
<1>4. \A u \in Tasks : task'[u].pc \notin Hands
  BY <1>0, <1>2, InTheHand, Zenon DEF Hands
<1>5. \A x : /\ Queued(x)' <=> Queued(x)
             /\ AckInFlight(x)' <=> AckInFlight(x)
             /\ ~InHand(x)'
             /\ \A e : Owns(e, x)' <=> Owns(e, x)
  <2>1. \A x : ~InHand(x)'
    BY <1>4, Zenon DEF InHand, Hands
  <2>. QED
    BY <1>1, <2>1, Zenon DEF Queued, AckInFlight, Owns
<1>6. /\ readPos' \in Nat /\ readPos' <= last + 1
      /\ \A x \in 1..last : Unread(x)' <=> Unread(x) /\ x # m
  BY <1>0, <1>1, <1>3, MovesPast, Zenon
<1>7. sent' \in [Messages -> Int] /\ sent'[m] = k /\ \A x \in Messages \ {m} : sent'[x] = sent[x]
  <2>1. sent \in [Messages -> Int] /\ sent' = [sent EXCEPT ![m] = k]
    BY <1>3, Zenon DEF SlotTaken, Typed
  <2>. QED
    BY <1>3, <2>1
<1>8. Exclusion'
  BY <1>0, <1>1, <1>2, GuardKept, AloneInLoop, Zenon DEF Busy
<1>9. Hand' /\ Started'
  BY <1>1, <1>4, Zenon DEF Hand, Started
<1>10. OneOwner'
  BY <1>1, <1>3, <1>5, <1>6, Zenon DEF OneOwner
<1>11. 1..last \subseteq Messages
  BY SizesAssumption DEF Typed, Messages
<1>12. Past'
  BY <1>1, <1>3, <1>5, <1>6, <1>7, <1>11, Zenon DEF Past
<1>13. Counts'
  <2>0. k >= k /\ ~(m > last) /\ DOMAIN queue \subseteq Messages
        /\ \A e \in Consumers : DOMAIN pending[e] \subseteq Messages
    BY <1>11 DEF Typed, CountMap
  <2>1. \A x \in DOMAIN queue' : queue'[x] > sent'[x]
    BY <1>1, <1>3, <1>7, <2>0, Zenon DEF Counts, Queued
  <2>2. \A e \in Consumers : \A x \in DOMAIN pending'[e] : pending'[e][x] >= sent'[x]
    <3>. SUFFICES ASSUME NEW e \in Consumers, NEW x \in DOMAIN pending[e]
                  PROVE  pending[e][x] >= sent'[x]
      BY <1>1, Zenon
    <3>1. CASE x = m
      BY <1>3, <1>7, <2>0, <3>1, Zenon DEF Owns
    <3>2. CASE x # m
      BY <1>7, <2>0, <3>2, Zenon DEF Counts
    <3>. QED
      BY <3>1, <3>2, Zenon
  <2>3. \A x \in Messages : x > last' => sent'[x] < 0
    BY <1>1, <1>7, <2>0, Zenon DEF Counts
  <2>. QED
    BY <2>1, <2>2, <2>3, Zenon DEF Counts
<1>14. ConservedUnlessUpset'
  BY <1>1, <1>3, <1>5, <1>6, Zenon DEF ConservedUnlessUpset, Conserved
<1>15. Typed'
  <2>1. CountMap(queue)' /\ \A e \in Consumers : CountMap(pending[e])'
    BY <1>1, Zenon DEF Typed, CountMap
  <2>. QED
    BY <1>1, <1>2, <1>6, <1>7, <2>1, Zenon DEF Typed
<1>. QED
  BY <1>8, <1>9, <1>10, <1>12, <1>13, <1>14, <1>15, Zenon

----------------------------------------------------------------------------
(* The invariant, and what follows from it. *)

\* Nothing is appended, connected or under way at first.
LEMMA Beginning == Init => Inv
<1>. SUFFICES ASSUME Init PROVE Inv
  BY Zenon
<1>1. IdleTask \in TaskRecords /\ IdleTask.pc = "idle"
  BY DEF IdleTask, TaskRecords, Pcs
<1>2. task \in [Tasks -> TaskRecords] /\ \A t \in Tasks : task[t].pc = "idle"
  BY <1>1, Zenon DEF Init
<1>3. DOMAIN queue = {} /\ DOMAIN pending = Consumers /\ \A c \in Consumers : DOMAIN pending[c] = {}
  BY Zenon DEF Init, Nothing
<1>4. Typed
  <2>1. /\ last = 0 /\ acked = {} /\ readPos = 0 /\ connected = {}
        /\ permits = [c \in Consumers |-> 0] /\ total = 0 /\ inProgress = FALSE
        /\ handler = [c \in Consumers |-> None] /\ sent = [m \in Messages |-> -1]
        /\ seeks = 0 /\ failed = FALSE
    BY Zenon DEF Init
  <2>2. CountMap(queue) /\ \A c \in Consumers : CountMap(pending[c])
    BY <1>3, Zenon DEF CountMap
  <2>. QED
    <3>1. /\ permits \in [Consumers -> Int] /\ sent \in [Messages -> Int]
          /\ DOMAIN handler = Consumers
      BY <2>1
    <3>2. /\ last \in Nat /\ last <= MaxMessages /\ acked \subseteq 1..last
          /\ readPos \in Nat /\ readPos <= last + 1 /\ connected \subseteq Consumers
          /\ total \in Int /\ seeks \in Nat
      BY <2>1, SizesAssumption
    <3>3. failed \in BOOLEAN /\ inProgress \in BOOLEAN
      BY <2>1, Zenon
    <3>. QED
      BY <1>2, <1>3, <2>1, <2>2, <3>1, <3>2, <3>3, Zenon DEF Typed
<1>5. Exclusion /\ Hand
  BY <1>2, Zenon DEF Exclusion, Busy, Hand, Hands
<1>6. last = 0 /\ sent = [m \in Messages |-> -1] /\ handler = [c \in Consumers |-> None]
  BY Zenon DEF Init
<1>7. OneOwner /\ Past /\ ConservedUnlessUpset
  BY <1>6 DEF OneOwner, Past, ConservedUnlessUpset, Conserved
<1>8. Counts
  BY <1>3, <1>6 DEF Counts
<1>9. Started
  BY <1>6, HandlersDiffer, Zenon DEF Started
<1>. QED
  BY <1>4, <1>5, <1>7, <1>8, <1>9, Zenon DEF Inv, Ledger

\* A step that changes nothing.
LEMMA Stuttering ==
    ASSUME Inv, UNCHANGED vars
    PROVE  Inv'
<1>1. Ledger'
  <2>1. UNCHANGED <<last, acked, readPos, queue, pending, handler, sent, seeks>>
        /\ UNCHANGED <<connected, failed, task>>
    BY Zenon DEF vars
  <2>. QED
    BY <2>1, MessagesStay, Zenon
<1>2. Typed' /\ Exclusion'
  <2>1. Typed /\ Exclusion
    BY Zenon DEF Inv
  <2>2. Exclusion'
    BY <2>1, Zenon DEF Exclusion, vars
  <2>3. Typed'
    BY <2>1, Zenon DEF Typed, CountMap, vars
  <2>. QED
    BY <2>2, <2>3, Zenon
<1>. QED
  BY <1>1, <1>2, Zenon DEF Inv

\* Every step of a task, a publisher or a client's connection preserves the invariant.
LEMMA Preserved == Inv /\ [Next]_vars => Inv'
<1>. SUFFICES ASSUME Inv, [Next]_vars PROVE Inv'
  BY Zenon
<1>1. ASSUME NEW t \in Tasks, Dispatch(t) PROVE Inv'
  BY <1>1, LoopSteps, PickNoneSteps, PickQueuedSteps, PickNewSteps, SendFailing, Tracking,
     Sending, Zenon DEF Dispatch
<1>2. ASSUME NEW t \in Tasks, Publish(t) PROVE Inv'
  BY <1>2, Publishing, Zenon
<1>3. ASSUME NEW c \in Consumers, add_consumer(c) \/ seek_drain(c) PROVE Inv'
  BY <1>3, QuietHandlers, OpenHandlers, Zenon
<1>4. ASSUME NEW c \in Consumers, NEW m \in 1..last,
             \/ seek(c, m) \/ ack_resolve(c, m)
             \/ acknowledge_message(c, m) \/ acknowledge_error(c, m)
      PROVE  Inv'
  BY <1>4, Seeks, OpenHandlers, Acknowledging, AckFailing, Zenon
<1>5. ASSUME NEW c \in Consumers, NEW t \in Tasks, handle_flow(c, t) \/ remove_consumer(c, t)
      PROVE  Inv'
  BY <1>5, QuietHandlers, Removing, Zenon
<1>6. ASSUME NEW c \in Consumers, NEW t \in Tasks, NEW S \in (SUBSET DOMAIN pending[c]) \ {{}},
             redeliver(c, S, t)
      PROVE  Inv'
  BY <1>6, Redelivering, Zenon
<1>7. CASE UNCHANGED vars
  BY <1>7, Stuttering, Zenon
<1>. QED
  BY <1>1, <1>2, <1>3, <1>4, <1>5, <1>6, <1>7, Zenon DEF Next

\* The invariant holds always.
LEMMA InvAlways == Spec => []Inv
<1>. QED
  BY Beginning, Preserved, PTL DEF Spec

\* dispatch_in_progress, set and cleared with atomic operations by tasks that hold no
\* exclusive lock, lets one task at most into the batch loop.
THEOREM OneLoopAtATime == Spec => []Exclusion
<1>1. Inv => Exclusion
  BY Zenon DEF Inv
<1>. QED
  BY <1>1, InvAlways, PTL

\* However acks, seeks, removals and dispatches interleave, a message that a consumer
\* holds is held by that one alone and is neither queued nor about to be read again.
THEOREM OwnedByOne == Spec => []OneOwner
<1>1. Inv => OneOwner
  BY Zenon DEF Inv, Ledger
<1>. QED
  BY <1>1, InvAlways, PTL

\* Without seeks and storage errors no message is lost: every failed send, removal and
\* redelivery leaves it where some later dispatch finds it.
THEOREM NothingLost == Spec => []ConservedUnlessUpset
<1>1. Inv => ConservedUnlessUpset
  BY Zenon DEF Inv, Ledger
<1>. QED
  BY <1>1, InvAlways, PTL

\* A message is sent with a larger redelivery count each time, until a seek.
THEOREM CountsGrow == Spec => CountGrows
<1>1. Inv /\ [Next]_vars =>
         [\A t \in Tasks : task[t].pc = "slot" /\ task'[t].pc = "pick" =>
             task[t].count > sent[task[t].msg]]_vars
  <2>1. ASSUME Inv, NEW t \in Tasks, task[t].pc = "slot" PROVE task[t].count > sent[task[t].msg]
    BY <2>1, InTheHand, Zenon DEF Hands, HandOf
  <2>. QED
    BY <2>1, Zenon
<1>. QED
  BY <1>1, InvAlways, PTL DEF Spec, CountGrows

----------------------------------------------------------------------------
(* One dispatch at a time. *)

\* What it takes for a dispatch to leave nothing behind: dispatches that do not overlap,
\* sends, storage and cursor that do not fail, and budgets that are never used up.
OneAtATime ==
    /\ \E t : Tasks = {t}
    /\ SendMayFail = FALSE /\ StorageMayFail = FALSE /\ MaxSeeks = 0
    /\ MaxUnacked \in Int /\ MaxMessages < MaxUnacked

\* A batch goes on while it has rounds left, and ends for want of rounds only after it
\* has sent something.
RoundsOf(s) ==
    /\ s.pc = "pick" => s.left >= 0 /\ (s.left > 0 \/ s.any)
    /\ s.pc \in Hands => s.left > 0

\* No trigger finds the guard taken.
Loop ==
    /\ resched = FALSE
    /\ \A t \in Tasks : /\ task[t].pc \notin {"merge", "retake"}
                        /\ inProgress => task[t].pc \in Busy
                        /\ RoundsOf(task[t])

\* What is acknowledged, or about to be, never comes back.
Gone(m) == m \in acked \/ AckInFlight(m)
Settled ==
    \A m : Gone(m) =>
        /\ m \in 1..last /\ ~Queued(m) /\ \A c \in Consumers : ~Owns(c, m)
        /\ m \in acked \/ ~Unread(m)
        /\ \A t \in Tasks : ~(task[t].pc = "send" /\ task[t].msg = m)

\* Whoever is not connected has no permits.
Away == \A c \in Consumers \ connected : permits[c] = 0

\* A message to deliver, and a consumer to take it.
Work == (DOMAIN queue # {} \/ Candidates(last) # {}) /\ total > 0 /\ Available # {}

\* A dispatch that is over has left no work.
Finished == \A t \in Tasks : task[t].pc \in {"idle", "release", "check"} => ~Work

Lone == seeks = 0 /\ Loop /\ Settled /\ Away /\ Finished

\* A step that touches no message and no permit.
LEMMA LoneQuiet ==
    ASSUME Lone, UNCHANGED <<last, acked, readPos, queue, connected, permits, pending, total>>,
           UNCHANGED <<handler, seeks>>, Loop',
           \A u \in Tasks : task'[u].pc # "send",
           \A u \in Tasks : task'[u].pc \in {"idle", "release", "check"} => ~Work
    PROVE  Lone'
<1>1. \A m : /\ Queued(m)' <=> Queued(m)
             /\ Unread(m)' <=> Unread(m)
             /\ Gone(m)' <=> Gone(m)
             /\ \A c : Owns(c, m)' <=> Owns(c, m)
  BY Zenon DEF Queued, AckInFlight, Unread, Owns, Gone
<1>2. Settled'
  <2>1. SUFFICES ASSUME NEW m, Gone(m)
                 PROVE  /\ m \in 1..last /\ ~Queued(m)' /\ \A c \in Consumers : ~Owns(c, m)'
                        /\ m \in acked \/ ~Unread(m)'
                        /\ \A t \in Tasks : ~(task'[t].pc = "send" /\ task'[t].msg = m)
    BY <1>1, Zenon DEF Settled
  <2>2. /\ m \in 1..last /\ ~Queued(m) /\ \A c \in Consumers : ~Owns(c, m)
        /\ m \in acked \/ ~Unread(m)
    BY <2>1, Zenon DEF Lone, Settled
  <2>. QED
    BY <1>1, <2>2, Zenon
<1>3. Candidates(last)' = Candidates(last) /\ Available' = Available
  <2>1. FirstUnacked(last, acked)' = FirstUnacked(last, acked)
    BY Zenon DEF FirstUnacked
  <2>2. Readable(last)' = Readable(last)
    BY <2>1, Zenon DEF Readable
  <2>3. Candidates(last)' = Candidates(last)
    BY <2>2, Zenon DEF Candidates
  <2>4. Available' = Available
    BY Zenon DEF Available
  <2>. QED
    BY <2>3, <2>4, Zenon
<1>4. Work' <=> Work
  BY <1>3, Zenon DEF Work
<1>5. Finished'
  BY <1>4, Zenon DEF Finished
<1>6. Away'
  BY Zenon DEF Lone, Away
<1>. QED
  BY <1>2, <1>5, <1>6, Zenon DEF Lone

\* The task comes to the loop, leaves it or starts a batch.
LEMMA LoneLoop ==
    ASSUME OneAtATime, Inv, Lone, NEW t \in Tasks,
           Enter(t) \/ Merge(t) \/ Batch(t) \/ Release(t) \/ Check(t) \/ Retake(t)
    PROVE  Lone'
<1>1. /\ UNCHANGED <<last, acked, readPos, queue, connected, permits, pending, total>>
      /\ UNCHANGED <<handler, seeks>>
  <2>1. CASE Enter(t) \/ Merge(t) \/ Batch(t)
    BY <2>1, Zenon DEF Enter, Merge, Batch, cursorVars, consVars, flagVars, envVars
  <2>2. CASE Release(t) \/ Check(t) \/ Retake(t)
    BY <2>2, Zenon DEF Release, Check, Retake, cursorVars, consVars, flagVars, envVars
  <2>. QED
    BY <2>1, <2>2, Zenon
<1>2. \A u \in Tasks : u = t
  BY Zenon DEF OneAtATime
<1>3. /\ task \in [Tasks -> TaskRecords] /\ task[t] \in TaskRecords /\ total \in Int
      /\ resched = FALSE /\ task[t].pc \notin {"merge", "retake"}
      /\ inProgress => task[t].pc \in Busy
  BY Zenon DEF Inv, Typed, Lone, Loop
\* The task, the guard and the flag afterwards.
<1>4. /\ resched' = FALSE /\ task'[t].pc \notin {"merge", "retake"} /\ task'[t].pc # "send"
      /\ inProgress' => task'[t].pc \in Busy
      /\ RoundsOf(task'[t])
      /\ task'[t].pc \in {"idle", "release", "check"} => ~Work
  <2>1. CASE Enter(t)
    <3>1. task[t].pc \in {"spawned", "enter"}
      BY <2>1, Zenon DEF Enter
    <3>2. ~inProgress
      BY <1>3, <3>1, Zenon DEF Busy
    <3>3. task' = [task EXCEPT ![t].pc = "batch"] /\ resched' = resched
      BY <2>1, <3>2, Zenon DEF Enter, Go
    <3>4. task'[t].pc = "batch"
      BY <1>3, <3>3, TaskGoes, Zenon DEF Pcs
    <3>. QED
      BY <1>3, <3>3, <3>4, Zenon DEF Busy, RoundsOf, Hands
  <2>2. CASE Merge(t) \/ Retake(t)
    BY <1>3, <2>2, Zenon DEF Merge, Retake
  <2>3. CASE Batch(t)
    <3>0. resched' = resched
      BY <2>3, Zenon DEF Batch, flagVars
    <3>1. CASE total <= 0
      <4>1. task' = [task EXCEPT ![t].pc = "release"]
        BY <2>3, <3>1, Zenon DEF Batch, Go
      <4>2. task'[t].pc = "release"
        BY <1>3, <4>1, TaskGoes, Zenon DEF Pcs
      <4>3. ~Work
        BY <1>3, <3>1 DEF Work
      <4>. QED
        BY <1>3, <3>0, <4>2, <4>3, Zenon DEF Busy, RoundsOf, Hands
    <3>2. CASE ~(total <= 0)
      <4>. DEFINE left == IF total < RoundSize THEN total ELSE RoundSize
                  r == [task[t] EXCEPT !.pc = "pick", !.any = FALSE, !.left = left]
      <4>1. left \in Int /\ left > 0 /\ left >= 0
        BY <1>3, <3>2, SizesAssumption
      <4>2. task' = [task EXCEPT ![t].pc = "pick", ![t].any = FALSE, ![t].left = left]
        BY <2>3, <3>2, Zenon DEF Batch
      <4>. HIDE DEF left
      <4>3. task'[t] = r
        BY <1>3, <4>2, Zenon
      <4>4. r.pc = "pick" /\ r.left = left
        BY <1>3, Zenon DEF TaskRecords
      <4>. HIDE DEF r
      <4>. QED
        BY <1>3, <3>0, <4>1, <4>3, <4>4, Zenon DEF Busy, RoundsOf, Hands
    <3>. QED
      BY <3>1, <3>2, Zenon
  <2>4. CASE Release(t)
    <3>1. /\ task[t].pc = "release" /\ task' = [task EXCEPT ![t].pc = "check"]
          /\ inProgress' = FALSE /\ resched' = resched
      BY <2>4, Zenon DEF Release, Go
    <3>2. task'[t].pc = "check" /\ ~Work
      BY <1>3, <3>1, TaskGoes, Zenon DEF Pcs, Lone, Finished
    <3>. QED
      BY <1>3, <3>1, <3>2, Zenon DEF RoundsOf, Hands
  <2>5. CASE Check(t)
    <3>1. /\ task[t].pc = "check" /\ Return(t) /\ inProgress' = inProgress /\ resched' = FALSE
      BY <1>3, <2>5, Zenon DEF Check
    <3>2. task'[t].pc = "idle" /\ ~Work
      BY <1>3, <3>1, TaskEnds, Zenon DEF Lone, Finished
    <3>3. ~inProgress
      BY <1>3, <3>1, Zenon DEF Busy
    <3>. QED
      BY <3>1, <3>2, <3>3, Zenon DEF RoundsOf, Hands
  <2>. QED
    BY <2>1, <2>2, <2>3, <2>4, <2>5, Zenon
<1>5. Loop'
  BY <1>2, <1>4, Zenon DEF Loop
<1>. QED
  BY <1>1, <1>2, <1>4, <1>5, LoneQuiet, Zenon

\* A step that acknowledges nothing and brings nothing back.
LEMMA SettledStep ==
    ASSUME Settled, 1..last \subseteq 1..last', UNCHANGED <<acked, handler>>,
           \A m : Gone(m) =>
              /\ Queued(m)' => Queued(m)
              /\ \A c \in Consumers : Owns(c, m)' => Owns(c, m)
              /\ ~Unread(m) => ~Unread(m)'
              /\ \A u \in Tasks : ~(task'[u].pc = "send" /\ task'[u].msg = m)
    PROVE  Settled'
<1>1. \A m : Gone(m)' <=> Gone(m)
  BY Zenon DEF Gone, AckInFlight
<1>2. SUFFICES ASSUME NEW m, Gone(m)
               PROVE  /\ m \in 1..last' /\ ~Queued(m)' /\ \A c \in Consumers : ~Owns(c, m)'
                      /\ m \in acked' \/ ~Unread(m)'
                      /\ \A u \in Tasks : ~(task'[u].pc = "send" /\ task'[u].msg = m)
  BY <1>1, Zenon DEF Settled
<1>3. /\ m \in 1..last /\ ~Queued(m) /\ \A c \in Consumers : ~Owns(c, m)
      /\ m \in acked \/ ~Unread(m)
  BY <1>2, Zenon DEF Settled
<1>. QED
  BY <1>2, <1>3, Zenon

\* The candidates are the same while the log, the cursor, the read position and the
\* pending acks are.
LEMMA SameCandidates ==
    ASSUME UNCHANGED <<last, acked, readPos, connected, pending>>
    PROVE  Candidates(last)' = Candidates(last)
<1>1. FirstUnacked(last, acked)' = FirstUnacked(last, acked)
  BY Zenon DEF FirstUnacked
<1>2. Readable(last)' = Readable(last)
  BY <1>1, Zenon DEF Readable
<1>. QED
  BY <1>2, Zenon DEF Candidates

\* What the read position can reach is unread.
LEMMA ReachUnread ==
    ASSUME Typed, NEW m \in Readable(last)
    PROVE  Unread(m) /\ m <= last /\ (m \notin acked => m \in 1..last)
<1>1. last \in Nat /\ readPos \in Nat
  BY Zenon DEF Typed
<1>2. FirstUnacked(last, acked) \in 0..last
  BY <1>1, FirstIsLeast, Zenon
<1>3. PICK f : f = IF readPos = 0 THEN FirstUnacked(last, acked) ELSE readPos
  BY Zenon
<1>4. f # 0 /\ m \in f..last /\ f \in Nat
  BY <1>1, <1>2, <1>3 DEF Readable
<1>. QED
  BY <1>1, <1>3, <1>4 DEF Unread

\* No budget is used up.
LEMMA InBudget ==
    ASSUME OneAtATime, Inv, NEW c \in Consumers
    PROVE  ~OverBudget(c)
<1>1. DOMAIN pending[c] \subseteq 1..last /\ last \in Nat /\ last <= MaxMessages
  BY Zenon DEF Inv, Typed, CountMap
<1>2. IsFiniteSet(1..last) /\ Cardinality(1..last) = last
  <2>1. 1 \in Int /\ last \in Int
    BY <1>1
  <2>2. IsFiniteSet(1..last) /\ Cardinality(1..last) = IF 1 > last THEN 0 ELSE last - 1 + 1
    BY <2>1, FS_Interval, Zenon
  <2>. QED
    BY <1>1, <2>2
<1>3. IsFiniteSet(DOMAIN pending[c]) /\ Cardinality(DOMAIN pending[c]) <= Cardinality(1..last)
  BY <1>1, <1>2, FS_Subset, Zenon
<1>4. Cardinality(DOMAIN pending[c]) \in Nat
  BY <1>3, FS_CardinalityType, Zenon
<1>5. PICK n \in Nat : n = Cardinality(DOMAIN pending[c])
  BY <1>4, Zenon
<1>6. ~(n >= MaxUnacked)
  <2>1. n <= last
    BY <1>2, <1>3, <1>5, Zenon
  <2>. QED
    BY <1>1, <1>5, <2>1, SizesAssumption DEF OneAtATime
<1>. QED
  BY <1>5, <1>6, Zenon DEF OverBudget

\* A batch that finds nothing to send ends with no work left, or goes on.
LEMMA LonePickNothing ==
    ASSUME OneAtATime, Inv, Lone, NEW t \in Tasks, PickNothing(t)
    PROVE  Lone'
<1>1. /\ UNCHANGED <<last, acked, queue, connected, permits, pending, total>>
      /\ UNCHANGED <<inProgress, resched, handler, seeks>>
      /\ task[t].pc = "pick" /\ BatchEnd(t, task[t].any, total)
  BY Zenon DEF PickNothing, cursorVars, consVars, flagVars, envVars
<1>2. \A u \in Tasks : u = t
  BY Zenon DEF OneAtATime
<1>3. /\ task \in [Tasks -> TaskRecords] /\ last \in Nat /\ readPos \in Nat /\ total \in Int
      /\ connected \subseteq Consumers /\ task[t] \in TaskRecords
  BY Zenon DEF Inv, Typed
<1>4. /\ task'[t].pc \in {"batch", "release"}
      /\ task'[t].pc = "release" => task[t].any # TRUE \/ total = 0
  <2>1. task'[t].pc \in {"batch", "release"}
    BY <1>1, <1>3, BatchEnds, Zenon
  <2>2. ASSUME task[t].any = TRUE, total # 0
        PROVE  task'[t].pc = "batch"
    <3>1. task' = [task EXCEPT ![t].pc = "batch", ![t].cons = Nobody, ![t].msg = 0, ![t].count = 0,
                               ![t].fresh = FALSE, ![t].left = 0, ![t].any = FALSE]
      BY <1>1, <2>2, Zenon DEF BatchEnd
    <3>2. DOMAIN task = Tasks /\ "pc" \in DOMAIN task[t]
      BY <1>3, Zenon DEF TaskRecords
    <3>. QED
      BY <3>1, <3>2, Zenon
  <2>. QED
    BY <2>1, <2>2
<1>5. /\ task[t].left >= 0
      /\ task[t].left > 0 \/ task[t].any
      /\ inProgress => task[t].pc \in Busy
      /\ resched = FALSE
  BY <1>1, Zenon DEF Lone, Loop, RoundsOf
<1>6. Loop'
  <2>1. task'[t].pc \notin {"merge", "retake"} /\ task'[t].pc \in Busy /\ task'[t].pc # "pick"
        /\ task'[t].pc \notin Hands
    BY <1>4 DEF Busy, Hands
  <2>. QED
    BY <1>1, <1>2, <1>5, <2>1, Zenon DEF Loop, RoundsOf
<1>7. readPos' = readPos \/ readPos' = last + 1
  BY Zenon DEF PickNothing
<1>8. Settled'
  <2>1. \A m \in 1..last : ~Unread(m) => ~Unread(m)'
    BY <1>3, <1>7 DEF Unread
  <2>2. \A m : Gone(m) => m \in 1..last
    BY Zenon DEF Lone, Settled
  <2>3. task'[t].pc # "send"
    BY <1>4
  <2>4. \A m : /\ Queued(m)' => Queued(m)
               /\ \A c : Owns(c, m)' => Owns(c, m)
    BY <1>1, Zenon DEF Queued, Owns
  <2>. QED
    BY <1>1, <1>2, <2>1, <2>2, <2>3, <2>4, SettledStep, Zenon DEF Lone
<1>9. Away'
  BY <1>1, Zenon DEF Lone, Away
<1>10. Available' = Available
  BY <1>1, Zenon DEF Available
<1>11. ASSUME task'[t].pc = "release"
       PROVE  ~Work'
  <2>1. CASE task[t].left = 0
    <3>1. task[t].any = TRUE
      BY <1>3, <1>5, <2>1 DEF TaskRecords
    <3>2. total' = 0
      BY <1>1, <1>4, <1>11, <3>1, Zenon
    <3>3. ~(total' > 0)
      BY <3>2
    <3>. QED
      BY <3>3, Zenon DEF Work
  <2>2. CASE Available = {}
    BY <1>10, <2>2, Zenon DEF Work
  <2>3. CASE \E c \in Available : OverBudget(c)
    BY <1>3, <2>3, InBudget, Zenon DEF Available
  <2>4. CASE /\ DOMAIN queue = {} /\ Candidates(last) = {}
             /\ readPos' = IF Readable(last) = {} THEN readPos ELSE last + 1
    <3>1. Candidates(last)' = {}
      <4>1. CASE readPos' = readPos
        BY <1>1, <2>4, <4>1, SameCandidates, Zenon
      <4>2. CASE readPos' = last + 1
        <5>1. readPos' # 0 /\ Readable(last)' = readPos'..last'
          <6>1. readPos' # 0
            BY <1>3, <4>2
          <6>. QED
            BY <6>1, Zenon DEF Readable
        <5>2. readPos'..last' = {}
          BY <1>1, <1>3, <4>2
        <5>. QED
          BY <5>1, <5>2, Zenon DEF Candidates
      <4>. QED
        BY <1>7, <4>1, <4>2, Zenon
    <3>2. DOMAIN queue' = {}
      BY <1>1, <2>4, Zenon
    <3>. QED
      BY <3>1, <3>2, Zenon DEF Work
  <2>. QED
    BY <2>1, <2>2, <2>3, <2>4, Zenon DEF PickNothing
<1>12. Finished'
  <2>1. task'[t].pc \in {"idle", "release", "check"} => task'[t].pc = "release"
    BY <1>4
  <2>. QED
    BY <1>2, <1>11, <2>1, Zenon DEF Finished
<1>. QED
  BY <1>1, <1>6, <1>8, <1>9, <1>12, Zenon DEF Lone

\* The log holds no more than MaxMessages.
LEMMA InTheLog ==
    ASSUME Inv, NEW m \in 1..last
    PROVE  m \in Messages
<1>1. last \in Nat /\ last <= MaxMessages
  BY Zenon DEF Inv, Typed
<1>. QED
  BY <1>1, SizesAssumption DEF Messages

\* A message is taken in hand.
LEMMA LoneTake ==
    ASSUME OneAtATime, Inv, Lone, NEW t \in Tasks, NEW c \in connected, NEW m \in (1..last) \ acked,
           task[t].pc = "pick", task[t].left > 0, ~AckInFlight(m),
           task'[t].pc = "send", task'[t].msg = m, task'[t].left = task[t].left,
           permits' = [permits EXCEPT ![c] = @ - Weight[m]],
           UNCHANGED <<last, acked, connected, pending, inProgress, resched, handler, seeks>>,
           DOMAIN queue' \subseteq DOMAIN queue,
           \A x \in 1..last : ~Unread(x) => ~Unread(x)'
    PROVE  Lone'
<1>1. \A u \in Tasks : u = t
  BY Zenon DEF OneAtATime
<1>2. connected \subseteq Consumers /\ c \in Consumers /\ DOMAIN permits = Consumers
  BY Zenon DEF Inv, Typed
<1>3. /\ task'[t].pc = "send" /\ task'[t].msg = m /\ task'[t].left > 0
      /\ UNCHANGED <<connected, pending>>
  BY Zenon
<1>4. Loop'
  <2>1. task'[t].pc \notin {"merge", "retake"} /\ task'[t].pc \in Busy /\ task'[t].pc # "pick"
    BY <1>3, Zenon DEF Busy
  <2>. QED
    BY <1>1, <1>3, <2>1, Zenon DEF Lone, Loop, RoundsOf
<1>5. Settled'
  <2>1. \A x : Gone(x) => x \in 1..last /\ x # m
    BY Zenon DEF Lone, Settled, Gone
  <2>2. \A x : /\ Queued(x)' => Queued(x)
               /\ \A e : Owns(e, x)' => Owns(e, x)
    BY <1>3, Zenon DEF Queued, Owns
  <2>. QED
    BY <1>1, <1>3, <2>1, <2>2, SettledStep, Zenon DEF Lone
<1>6. Away'
  <2>2. \A e \in Consumers \ connected : permits'[e] = permits[e]
    BY <1>2, Zenon
  <2>. QED
    BY <1>3, <2>2, Zenon DEF Lone, Away
<1>7. Finished'
  <2>1. task'[t].pc \notin {"idle", "release", "check"}
    BY <1>3
  <2>. QED
    BY <1>1, <2>1, Zenon DEF Finished
<1>. QED
  BY <1>4, <1>5, <1>6, <1>7, Zenon DEF Lone

\* What a batch takes from the queue is not on its way to be acknowledged.
LEMMA LonePickQueued ==
    ASSUME OneAtATime, Inv, Lone, NEW t \in Tasks, PickQueued(t)
    PROVE  Lone'
<1>1. /\ task[t].pc = "pick" /\ task[t].left > 0 /\ DOMAIN queue # {}
      /\ UNCHANGED <<last, acked, readPos, inProgress, resched, handler, seeks>>
  BY Zenon DEF PickQueued, cursorVars, flagVars, envVars
<1>2. CountMap(queue) /\ last \in Nat /\ DOMAIN queue \subseteq 1..last
  BY Zenon DEF Inv, Typed, CountMap
<1>3. PICK least \in DOMAIN queue : least = Min(DOMAIN queue)
  <2>1. DOMAIN queue \subseteq Nat
    BY <1>2
  <2>. QED
    BY <1>1, <2>1, MinOf, Zenon
<1>4. ~Gone(least)
  <2>1. Queued(least)
    BY <1>3, Zenon DEF Queued
  <2>. QED
    BY <2>1, Zenon DEF Lone, Settled
<1>5. least \notin acked /\ ~AckInFlight(least)
  BY <1>4, Zenon DEF Gone
<1>6. PICK c \in connected : TakeInHand(t, c, least, queue[least], FALSE)
  BY <1>3, <1>5, Zenon DEF PickQueued, Available
<1>7. DOMAIN queue' \subseteq DOMAIN queue
  <2>1. queue' = Drop(queue, {least})
    BY <1>3, Zenon DEF PickQueued
  <2>2. DOMAIN Drop(queue, {least}) = DOMAIN queue \ {least}
    BY Dropped, Zenon
  <2>. QED
    BY <2>1, <2>2, Zenon
<1>8. \A x \in 1..last : ~Unread(x) => ~Unread(x)'
  BY <1>1, Zenon DEF Unread
<1>9. queue[least] \in Nat /\ FALSE \in BOOLEAN /\ least \in (1..last) \ acked
  BY <1>2, <1>3, <1>5, Zenon DEF CountMap
<1>10. Typed /\ least \in Messages /\ c \in Consumers
  BY <1>6, <1>9, InTheLog, Zenon DEF Inv, Typed
<1>11. /\ task'[t].pc = "send" /\ task'[t].msg = least /\ task'[t].left = task[t].left
       /\ task'[t].fresh = FALSE /\ UNCHANGED <<connected, pending>>
  BY <1>6, <1>9, <1>10, TaskTakes, Zenon
<1>12. permits' = [permits EXCEPT ![c] = @ - Weight[least]]
  BY <1>6, Zenon DEF TakeInHand
<1>. QED
  BY <1>1, <1>5, <1>7, <1>8, <1>9, <1>11, <1>12, LoneTake, Zenon

\* Nor is what it reads from the log.
LEMMA LonePickNew ==
    ASSUME OneAtATime, Inv, Lone, NEW t \in Tasks, PickNew(t)
    PROVE  Lone'
<1>1. /\ task[t].pc = "pick" /\ task[t].left > 0 /\ Candidates(last) # {}
      /\ UNCHANGED <<last, acked, queue, inProgress, resched, handler, seeks>>
  BY Zenon DEF PickNew, cursorVars, flagVars, envVars
<1>2. last \in Nat /\ readPos \in Nat
  BY Zenon DEF Inv, Typed
<1>3. Candidates(last) \subseteq (1..last) \ acked /\ \A m \in Candidates(last) : Unread(m)
  BY CandidatesAre, Zenon DEF Inv
<1>4. PICK least \in Candidates(last) : least = Min(Candidates(last))
  <2>1. Candidates(last) \subseteq Nat
    BY <1>2, <1>3
  <2>. QED
    BY <1>1, <2>1, MinOf, Zenon
<1>5. PICK c \in connected : TakeInHand(t, c, least, 0, TRUE)
  BY <1>4, Zenon DEF PickNew, Available
<1>6. readPos' = least /\ least \in (1..last) \ acked /\ Unread(least)
  BY <1>3, <1>4, Zenon DEF PickNew
<1>7. ~AckInFlight(least)
  BY <1>6, Zenon DEF Lone, Settled, Gone
<1>8. \A x \in 1..last : ~Unread(x) => ~Unread(x)'
  BY <1>2, <1>6 DEF Unread
<1>9. 0 \in Nat /\ TRUE \in BOOLEAN /\ DOMAIN queue' \subseteq DOMAIN queue
  BY <1>1
<1>10. least \in Messages /\ c \in Consumers
  BY <1>5, <1>6, InTheLog, Zenon DEF Inv, Typed
<1>11. /\ task'[t].pc = "send" /\ task'[t].msg = least /\ task'[t].left = task[t].left
       /\ UNCHANGED <<connected, pending>>
  BY <1>5, <1>9, <1>10, TaskTakes, Zenon DEF Inv
<1>12. permits' = [permits EXCEPT ![c] = @ - Weight[least]]
  BY <1>5, Zenon DEF TakeInHand
<1>. QED
  BY <1>1, <1>6, <1>7, <1>8, <1>9, <1>11, <1>12, LoneTake, Zenon

\* The message in hand is recorded as pending, then sent.
LEMMA LoneTrack ==
    ASSUME OneAtATime, Inv, Lone, NEW t \in Tasks, SendTrack(t)
    PROVE  Lone'
<1>1. /\ task \in [Tasks -> TaskRecords] /\ task[t].pc = "send" /\ "slot" \in Pcs
      /\ task[t].pc \in Hands /\ "slot" \in Hands /\ "slot" \in Busy
      /\ "slot" \notin {"merge", "retake", "pick", "send", "idle", "release", "check"}
  BY Zenon DEF Inv, Typed, SendTrack, Pcs, Hands, Busy
<1>2. /\ UNCHANGED <<last, acked, readPos, queue, connected, permits, total, inProgress,
                     resched, handler, seeks>>
      /\ task' = [task EXCEPT ![t].pc = "slot"]
  BY Zenon DEF SendTrack, Go, cursorVars, flagVars, envVars
<1>3. task'[t].pc = "slot" /\ task'[t].left = task[t].left
  BY <1>1, <1>2, TaskGoes, Zenon
<1>4. \A u \in Tasks : u = t
  BY Zenon DEF OneAtATime
<1>5. Loop'
  BY <1>1, <1>2, <1>3, <1>4, Zenon DEF Lone, Loop, RoundsOf
<1>6. PICK m \in Messages, c \in Consumers, k \in Nat :
         m = task[t].msg /\ c = task[t].cons /\ k = task[t].count
  BY <1>1, InTheHand, Zenon
<1>7. \A e \in Consumers : \A x : x # m /\ Owns(e, x)' => Owns(e, x)
  <2>1. pending' = [pending EXCEPT ![c] = Put(pending[c], m, k)] /\ DOMAIN pending = Consumers
    BY <1>6, Zenon DEF SendTrack, Inv, Typed
  <2>2. DOMAIN Put(pending[c], m, k) = DOMAIN pending[c] \cup {m}
    BY Zenon DEF Put
  <2>3. pending'[c] = Put(pending[c], m, k) /\ \A e \in Consumers \ {c} : pending'[e] = pending[e]
    BY <2>1, Zenon
  <2>. QED
    BY <2>2, <2>3, Zenon DEF Owns
<1>8. Settled'
  <2>1. \A x : Gone(x) => x # m
    BY <1>1, <1>6, Zenon DEF Lone, Settled
  <2>2. \A x : Queued(x)' => Queued(x)
    BY <1>2, Zenon DEF Queued
  <2>3. \A x : ~Unread(x) => ~Unread(x)'
    BY <1>2, Zenon DEF Unread
  <2>. QED
    BY <1>1, <1>2, <1>3, <1>4, <1>7, <2>1, <2>2, <2>3, SettledStep, Zenon DEF Lone
<1>9. Away' /\ Finished'
  BY <1>1, <1>2, <1>3, <1>4, Zenon DEF Lone, Away, Finished
<1>. QED
  BY <1>2, <1>5, <1>8, <1>9, Zenon DEF Lone

\* After a send there are rounds left, or something was sent.
LEMMA LoneSent ==
    ASSUME OneAtATime, Inv, Lone, NEW t \in Tasks, SlotTaken(t)
    PROVE  Lone'
<1>1. /\ task \in [Tasks -> TaskRecords] /\ task[t].pc = "slot"
      /\ task[t].pc \in Hands /\ "pick" \in Busy /\ "pick" \notin Hands
      /\ "pick" \notin {"merge", "retake", "send", "idle", "release", "check"}
  BY Zenon DEF Inv, Typed, SlotTaken, Hands, Busy
<1>2. /\ UNCHANGED <<last, acked, queue, connected, permits, pending, total, inProgress,
                     resched, handler, seeks>>
      /\ readPos' = IF task[t].fresh THEN task[t].msg + 1 ELSE readPos
  BY Zenon DEF SlotTaken, cursorVars, consVars, flagVars
<1>3. task'[t].pc = "pick" /\ task'[t].left = task[t].left - 1 /\ task'[t].any
  BY <1>1, TaskSent, Zenon DEF SlotTaken
<1>4. \A u \in Tasks : u = t
  BY Zenon DEF OneAtATime
<1>5. task'[t].left >= 0
  <2>1. PICK n \in Int : n = task[t].left
    BY <1>1, Zenon DEF TaskRecords
  <2>2. n > 0
    BY <1>1, <2>1, Zenon DEF Lone, Loop, RoundsOf
  <2>3. n - 1 >= 0
    BY <2>1, <2>2
  <2>. QED
    BY <1>3, <2>1, <2>3, Zenon
<1>6. Loop'
  BY <1>1, <1>2, <1>3, <1>4, <1>5, Zenon DEF Lone, Loop, RoundsOf
<1>7. Settled'
  <2>1. \A x : Gone(x) => x \in 1..last
    BY Zenon DEF Lone, Settled
  <2>2. \A x \in 1..last : ~Unread(x) => ~Unread(x)'
    BY <1>1, <1>2, MovesPast, Zenon
  <2>3. \A x : /\ Queued(x)' => Queued(x)
               /\ \A e : Owns(e, x)' => Owns(e, x)
    BY <1>2, Zenon DEF Queued, Owns
  <2>. QED
    BY <1>1, <1>2, <1>3, <1>4, <2>1, <2>2, <2>3, SettledStep, Zenon DEF Lone
<1>8. Away' /\ Finished'
  BY <1>1, <1>2, <1>3, <1>4, Zenon DEF Lone, Away, Finished
<1>. QED
  BY <1>2, <1>6, <1>7, <1>8, Zenon DEF Lone

\* A handler calls for a dispatch.
LEMMA LoneStarts ==
    ASSUME OneAtATime, Lone, NEW t \in Tasks, task[t].pc = "idle",
           task'[t].pc \in {"spawned", "enter"},
           UNCHANGED <<acked, readPos, inProgress, resched, handler, seeks>>,
           1..last \subseteq 1..last',
           \A m : Gone(m) => /\ Queued(m)' => Queued(m)
                             /\ \A c \in Consumers : Owns(c, m)' => Owns(c, m),
           Away'
    PROVE  Lone'
<1>1. \A u \in Tasks : u = t
  BY Zenon DEF OneAtATime
<1>2. task'[t].pc \notin {"merge", "retake", "pick", "send", "idle", "release", "check"}
      /\ task'[t].pc \notin Hands
  BY Zenon DEF Hands
<1>3. ~inProgress
  BY Zenon DEF Lone, Loop, Busy
<1>4. Loop' /\ Finished'
  BY <1>1, <1>2, <1>3, Zenon DEF Lone, Loop, RoundsOf, Finished
<1>5. \A m : ~Unread(m) => ~Unread(m)'
  BY Zenon DEF Unread
<1>6. Settled'
  BY <1>1, <1>2, <1>5, SettledStep, Zenon DEF Lone
<1>. QED
  BY <1>4, <1>6, Zenon DEF Lone

\* A message arrives, or permits do.
LEMMA LoneTriggers ==
    ASSUME OneAtATime, Inv, Lone, NEW t \in Tasks,
           Publish(t) \/ \E c \in Consumers : handle_flow(c, t)
    PROVE  Lone'
<1>1. /\ UNCHANGED <<acked, readPos, queue, connected, pending, inProgress, resched, handler,
                     seeks>>
      /\ Spawn(t) /\ (last' = last + 1 \/ last' = last)
      /\ \/ permits' = permits
         \/ \E c \in connected : permits' = [permits EXCEPT ![c] = permits[c] + FlowSize]
  BY Zenon DEF Publish, handle_flow, Ready, cursorVars, consVars, flagVars, envVars
<1>2. task \in [Tasks -> TaskRecords] /\ last \in Nat /\ DOMAIN permits = Consumers
  BY Zenon DEF Inv, Typed
<1>3. task[t].pc = "idle" /\ task'[t].pc \in {"spawned", "enter"}
  BY <1>1, <1>2, Spawned, Zenon
<1>4. 1..last \subseteq 1..last'
  BY <1>1, <1>2
<1>5. \A m : /\ Queued(m)' => Queued(m)
             /\ \A e \in Consumers : Owns(e, m)' => Owns(e, m)
  BY <1>1, Zenon DEF Queued, Owns
<1>6. \A e \in Consumers : e \notin connected => permits'[e] = permits[e]
  BY <1>1, <1>2, Zenon
<1>7. Away'
  BY <1>1, <1>6, Zenon DEF Lone, Away
<1>. QED
  BY <1>1, <1>3, <1>4, <1>5, <1>7, LoneStarts, Zenon

\* A handler dispatches under its lock.
LEMMA Entered ==
    ASSUME task \in [Tasks -> TaskRecords], NEW t \in Tasks, DispatchLocked(t)
    PROVE  task[t].pc = "idle" /\ task'[t].pc = "enter"
<1>. DEFINE r == [task[t] EXCEPT !.pc = "enter", !.write = TRUE]
<1>1. task[t].pc = "idle" /\ task' = [task EXCEPT ![t] = r] /\ task[t] \in TaskRecords
  BY Zenon DEF DispatchLocked
<1>2. r \in TaskRecords /\ r.pc = "enter"
  BY <1>1, Zenon DEF TaskRecords, Pcs
<1>. HIDE DEF r
<1>. QED
  BY <1>1, <1>2, TaskBecomes, Zenon

\* What goes back to the queue was pending.
LEMMA BackFrom ==
    ASSUME Typed, NEW c \in Consumers, NEW R, queue' = Requeue(queue, Redelivered(pending[c], R))
    PROVE  \A m : Queued(m)' => Queued(m) \/ Owns(c, m)
<1>. DEFINE back == Redelivered(pending[c], R)
<1>1. DOMAIN back = DOMAIN pending[c] \cap R
  BY Recounted, Zenon
<1>2. queue' = Requeue(queue, back)
  BY Zenon
<1>. HIDE DEF back
<1>3. DOMAIN Requeue(queue, back) = DOMAIN queue \cup DOMAIN back
  BY Zenon DEF Requeue
<1>. QED
  BY <1>1, <1>2, <1>3, Zenon DEF Queued, Owns

\* A redelivery dispatches: nothing pending is acknowledged.
LEMMA LoneRedeliver ==
    ASSUME OneAtATime, Inv, Lone, NEW c \in Consumers, NEW t \in Tasks,
           NEW S \in (SUBSET DOMAIN pending[c]) \ {{}}, redeliver(c, S, t)
    PROVE  Lone'
<1>1. /\ UNCHANGED <<last, acked, readPos, connected, permits, inProgress, resched, handler, seeks>>
      /\ pending' = [pending EXCEPT ![c] = Drop(pending[c], S)]
      /\ queue' = Requeue(queue, Redelivered(pending[c], S \ acked))
      /\ S \subseteq acked \/ DispatchLocked(t)
  BY Zenon DEF redeliver, cursorVars, flagVars
<1>2. Typed /\ task \in [Tasks -> TaskRecords] /\ DOMAIN pending = Consumers
  BY Zenon DEF Inv, Typed
<1>3. \A m : Gone(m) => \A e \in Consumers : ~Owns(e, m)
  BY Zenon DEF Lone, Settled
<1>4. ~(S \subseteq acked)
  <2>1. PICK m \in S : m \in DOMAIN pending[c]
    OBVIOUS
  <2>2. Owns(c, m)
    BY <2>1, Zenon DEF Owns
  <2>. QED
    BY <1>3, <2>1, <2>2, Zenon DEF Gone
<1>5. task[t].pc = "idle" /\ task'[t].pc \in {"spawned", "enter"}
  BY <1>1, <1>2, <1>4, Entered, Zenon
<1>6. \A m : Queued(m)' => Queued(m) \/ Owns(c, m)
  BY <1>1, <1>2, BackFrom, Zenon
<1>7. \A e \in Consumers : \A m : Owns(e, m)' => Owns(e, m)
  <2>1. DOMAIN Drop(pending[c], S) = DOMAIN pending[c] \ S
    BY Dropped, Zenon
  <2>2. pending'[c] = Drop(pending[c], S) /\ \A e \in Consumers \ {c} : pending'[e] = pending[e]
    BY <1>1, <1>2, Zenon
  <2>. QED
    BY <2>1, <2>2, Zenon DEF Owns
<1>8. Away' /\ 1..last \subseteq 1..last'
  BY <1>1, Zenon DEF Lone, Away
<1>. QED
  BY <1>1, <1>3, <1>5, <1>6, <1>7, <1>8, LoneStarts, Zenon

\* A removal dispatches, and leaves no permits behind.
LEMMA LoneRemove ==
    ASSUME OneAtATime, Inv, Lone, NEW c \in Consumers, NEW t \in Tasks, remove_consumer(c, t)
    PROVE  Lone'
<1>1. /\ UNCHANGED <<last, acked, readPos, inProgress, resched, handler, seeks>>
      /\ connected' = connected \ {c} /\ permits' = [permits EXCEPT ![c] = 0]
      /\ pending' = [pending EXCEPT ![c] = Nothing]
      /\ queue' = Requeue(queue, Redelivered(pending[c], DOMAIN pending[c]))
      /\ DispatchLocked(t)
  BY Zenon DEF remove_consumer, cursorVars, flagVars
<1>2. Typed /\ task \in [Tasks -> TaskRecords] /\ DOMAIN pending = Consumers
      /\ DOMAIN permits = Consumers
  BY Zenon DEF Inv, Typed
<1>3. \A m : Gone(m) => \A e \in Consumers : ~Owns(e, m)
  BY Zenon DEF Lone, Settled
<1>5. task[t].pc = "idle" /\ task'[t].pc \in {"spawned", "enter"}
  BY <1>1, <1>2, Entered, Zenon
<1>6. \A m : Queued(m)' => Queued(m) \/ Owns(c, m)
  BY <1>1, <1>2, BackFrom, Zenon
<1>7. \A e \in Consumers : \A m : Owns(e, m)' => Owns(e, m)
  <2>1. \A e \in Consumers : pending'[e] = pending[e] \/ DOMAIN pending'[e] = {}
    BY <1>1, <1>2, Zenon DEF Nothing
  <2>. QED
    BY <2>1, Zenon DEF Owns
<1>8. \A e \in Consumers : permits'[e] = 0 \/ (e # c /\ permits'[e] = permits[e])
  BY <1>1, <1>2, Zenon
<1>9. Away' /\ 1..last \subseteq 1..last'
  BY <1>1, <1>8, Zenon DEF Lone, Away
<1>. QED
  BY <1>1, <1>3, <1>5, <1>6, <1>7, <1>9, LoneStarts, Zenon

\* What is known of the candidates, here and after a step.
CandidatesKnown ==
    /\ Candidates(last) \subseteq (1..last) \ acked
    /\ \A m \in Candidates(last) : Unread(m) /\ \A e \in connected : ~Owns(e, m)

\* CandidatesAre, of the state after a step.
LEMMA CandidatesThen == Typed' => CandidatesKnown'
<1>1. Typed => CandidatesKnown
  BY CandidatesAre, Zenon DEF CandidatesKnown
<1>. QED
  BY <1>1, PTL

\* A step that leaves the loop alone and makes no work leaves none.
LEMMA LoneStays ==
    ASSUME Typed, Typed', Lone, UNCHANGED <<last, task, inProgress, resched, seeks>>,
           acked \subseteq acked', total' = total, Available' \subseteq Available,
           DOMAIN queue' \subseteq DOMAIN queue, Settled', Away',
           \A m \in (1..last) \ acked' :
              /\ Unread(m)' => Unread(m)
              /\ Unread(m)' => \A e \in connected : Owns(e, m) => e \in connected' /\ Owns(e, m)'
    PROVE  Lone'
<1>1. /\ Candidates(last)' \subseteq (1..last) \ acked'
      /\ \A m \in Candidates(last)' : Unread(m)' /\ \A e \in connected' : ~Owns(e, m)'
  BY CandidatesThen, Zenon DEF CandidatesKnown
<1>2. \A m \in (1..last) \ acked :
         Unread(m) /\ m \notin Candidates(last) => \E e \in connected : Owns(e, m)
  BY CandidatesAre, Zenon
<1>3. Candidates(last)' \subseteq Candidates(last)
  BY <1>1, <1>2, Zenon
<1>4. Work' => Work
  BY <1>3, Zenon DEF Work
<1>5. Finished' /\ Loop'
  BY <1>4, Zenon DEF Lone, Finished, Loop
<1>. QED
  BY <1>5, Zenon DEF Lone

\* A consumer arrives, without permits.
LEMMA LoneAdd ==
    ASSUME Inv, Inv', Lone, NEW c \in Consumers, add_consumer(c)
    PROVE  Lone'
<1>1. /\ UNCHANGED <<last, acked, readPos, queue, permits, pending, total, inProgress, resched,
                     task, handler, seeks>>
      /\ connected' = connected \cup {c} /\ c \notin connected
  BY Zenon DEF add_consumer, cursorVars, flagVars, envVars
<1>2. permits[c] = 0
  BY <1>1, Zenon DEF Lone, Away
<1>3. ~(permits[c] > 0)
  BY <1>2
<1>4. Available' \subseteq Available
  BY <1>1, <1>3, Zenon DEF Available
<1>5. \A m : /\ Queued(m)' <=> Queued(m)
             /\ Unread(m)' <=> Unread(m)
             /\ \A e : Owns(e, m)' <=> Owns(e, m)
  BY <1>1, Zenon DEF Queued, Unread, Owns
<1>6. \A m : Gone(m) => \A u \in Tasks : ~(task'[u].pc = "send" /\ task'[u].msg = m)
  BY <1>1, Zenon DEF Lone, Settled
<1>7. Settled'
  BY <1>1, <1>5, <1>6, SettledStep, Zenon DEF Lone
<1>8. Away'
  BY <1>1, Zenon DEF Lone, Away
<1>. QED
  BY <1>1, <1>4, <1>5, <1>7, <1>8, LoneStays, Zenon DEF Inv

\* An ack takes its message from the consumer that holds it.
LEMMA LoneResolve ==
    ASSUME Inv, Inv', Lone, NEW c \in Consumers, NEW m \in 1..last, ack_resolve(c, m)
    PROVE  Lone'
<1>1. /\ UNCHANGED <<last, acked, readPos, queue, connected, permits, total, inProgress,
                     resched, task, seeks>>
      /\ handler' = [handler EXCEPT ![c] = Acking(m)] /\ sent[m] >= 0
  BY Zenon DEF ack_resolve, cursorVars, flagVars
<1>2. PICK d \in connected : m \in DOMAIN pending[d]
                             /\ pending' = [pending EXCEPT ![d] = Drop(pending[d], {m})]
  BY Zenon DEF ack_resolve
<1>3. /\ DOMAIN pending = Consumers /\ DOMAIN handler = Consumers
      /\ connected \subseteq Consumers /\ d \in Consumers
  BY <1>2, Zenon DEF Inv, Typed
<1>4. Owns(d, m)
  BY <1>2, Zenon DEF Owns
<1>5. m \notin acked
  BY <1>3, <1>4, Zenon DEF Lone, Settled, Gone
<1>6. ~Queued(m) /\ ~Unread(m) /\ \A e \in Consumers : Owns(e, m) => e = d
  BY <1>1, <1>3, <1>4, <1>5, Zenon DEF Inv, Ledger, OneOwner, Past
<1>7. \A u \in Tasks : ~(task[u].pc = "send" /\ task[u].msg = m)
  BY <1>3, <1>4, Zenon DEF Inv, Ledger, Hand, HandOf, Hands
<1>8. \A e \in Consumers : \A x : Owns(e, x)' <=> Owns(e, x) /\ ~(e = d /\ x = m)
  <2>1. pending'[d] = Drop(pending[d], {m}) /\ \A e \in Consumers \ {d} : pending'[e] = pending[e]
    BY <1>2, <1>3, Zenon
  <2>2. DOMAIN Drop(pending[d], {m}) = DOMAIN pending[d] \ {m}
    BY Dropped, Zenon
  <2>. QED
    BY <2>1, <2>2, Zenon DEF Owns
<1>9. \A x : /\ Queued(x)' <=> Queued(x)
             /\ Unread(x)' <=> Unread(x)
  BY <1>1, Zenon DEF Queued, Unread
<1>10. \A x : Gone(x)' => Gone(x) \/ x = m
  <2>1. handler'[c] = Acking(m) /\ \A e \in Consumers \ {c} : handler'[e] = handler[e]
    BY <1>1, <1>3, Zenon
  <2>. QED
    BY <1>1, <2>1, HandlersDiffer, Zenon DEF Gone, AckInFlight
<1>11. Settled'
  <2>1. SUFFICES ASSUME NEW x, Gone(x)'
                 PROVE  /\ x \in 1..last' /\ ~Queued(x)' /\ \A e \in Consumers : ~Owns(e, x)'
                        /\ x \in acked' \/ ~Unread(x)'
                        /\ \A u \in Tasks : ~(task'[u].pc = "send" /\ task'[u].msg = x)
    BY Zenon DEF Settled
  <2>2. CASE x = m
    BY <1>1, <1>6, <1>7, <1>8, <1>9, <2>2, Zenon
  <2>3. CASE x # m
    <3>1. Gone(x)
      BY <1>10, <2>1, <2>3, Zenon
    <3>2. /\ x \in 1..last /\ ~Queued(x) /\ \A e \in Consumers : ~Owns(e, x)
          /\ x \in acked \/ ~Unread(x)
          /\ \A u \in Tasks : ~(task[u].pc = "send" /\ task[u].msg = x)
      BY <3>1, Zenon DEF Lone, Settled
    <3>. QED
      BY <1>1, <1>8, <1>9, <3>2, Zenon
  <2>. QED
    BY <2>2, <2>3, Zenon
<1>12. Away' /\ Available' = Available
  BY <1>1, Zenon DEF Lone, Away, Available
<1>13. \A x \in (1..last) \ acked' :
          /\ Unread(x)' => Unread(x)
          /\ Unread(x)' => \A e \in connected : Owns(e, x) => e \in connected' /\ Owns(e, x)'
  BY <1>1, <1>3, <1>6, <1>8, <1>9, Zenon
<1>. QED
  BY <1>1, <1>11, <1>12, <1>13, LoneStays, Zenon DEF Inv

\* The cursor, the queue and the read position are told of an ack.
LEMMA LoneAck ==
    ASSUME Inv, Inv', Lone, NEW c \in Consumers, NEW m \in 1..last, acknowledge_message(c, m)
    PROVE  Lone'
<1>. DEFINE first == FirstUnacked(last, acked')
<1>1. /\ UNCHANGED <<last, connected, permits, pending, total, inProgress, resched, task, seeks>>
      /\ acked' = acked \cup {m} /\ queue' = Drop(queue, acked')
      /\ readPos' = Caught(readPos, first)
      /\ handler[c] = Acking(m) /\ handler' = [handler EXCEPT ![c] = None]
  BY Zenon DEF acknowledge_message, consVars, flagVars
<1>2. DOMAIN handler = Consumers /\ last \in Nat /\ readPos \in Nat
  BY Zenon DEF Inv, Typed
<1>3. /\ first \in 0..last
      /\ \A x \in (1..last) \ acked' : first # 0 /\ first <= x
  BY <1>2, FirstIsLeast, Zenon
<1>. HIDE DEF first
<1>4. \A x \in (1..last) \ acked' : Unread(x)' <=> Unread(x)
  BY <1>1, <1>2, <1>3 DEF Caught, Unread
<1>5. DOMAIN queue' \subseteq DOMAIN queue
  <2>1. DOMAIN Drop(queue, acked') = DOMAIN queue \ acked'
    BY Dropped, Zenon
  <2>. QED
    BY <1>1, <2>1, Zenon
<1>6. \A x : /\ Queued(x)' => Queued(x)
             /\ \A e : Owns(e, x)' <=> Owns(e, x)
  BY <1>1, <1>5, Zenon DEF Queued, Owns
<1>7. \A x : Gone(x)' => Gone(x)
  <2>1. handler'[c] = None /\ \A e \in Consumers \ {c} : handler'[e] = handler[e]
    BY <1>1, <1>2, Zenon
  <2>. QED
    BY <1>1, <2>1, HandlersDiffer, Zenon DEF Gone, AckInFlight
<1>8. Settled'
  <2>1. SUFFICES ASSUME NEW x, Gone(x)'
                 PROVE  /\ x \in 1..last' /\ ~Queued(x)' /\ \A e \in Consumers : ~Owns(e, x)'
                        /\ x \in acked' \/ ~Unread(x)'
                        /\ \A u \in Tasks : ~(task'[u].pc = "send" /\ task'[u].msg = x)
    BY Zenon DEF Settled
  <2>2. /\ x \in 1..last /\ ~Queued(x) /\ \A e \in Consumers : ~Owns(e, x)
        /\ x \in acked \/ ~Unread(x)
        /\ \A u \in Tasks : ~(task[u].pc = "send" /\ task[u].msg = x)
    BY <1>7, <2>1, Zenon DEF Lone, Settled
  <2>. QED
    BY <1>1, <1>4, <1>6, <2>2, Zenon
<1>9. Away' /\ Available' = Available
  BY <1>1, Zenon DEF Lone, Away, Available
<1>. QED
  BY <1>1, <1>4, <1>5, <1>6, <1>8, <1>9, LoneStays, Zenon DEF Inv

\* Nothing is to be done at first.
LEMMA LoneFirst == Init => Lone
<1>. SUFFICES ASSUME Init PROVE Lone
  BY Zenon
<1>1. /\ acked = {} /\ seeks = 0 /\ total = 0 /\ inProgress = FALSE /\ resched = FALSE
      /\ permits = [c \in Consumers |-> 0] /\ handler = [c \in Consumers |-> None]
      /\ task = [t \in Tasks |-> IdleTask] /\ IdleTask.pc = "idle"
  BY Zenon DEF Init, IdleTask
<1>2. \A t \in Tasks : task[t].pc = "idle"
  BY <1>1, Zenon
<1>3. \A m : ~Gone(m)
  BY <1>1, HandlersDiffer, Zenon DEF Gone, AckInFlight
<1>4. ~Work
  <2>1. ~(total > 0)
    BY <1>1
  <2>. QED
    BY <2>1, Zenon DEF Work
<1>5. Loop /\ Settled /\ Away /\ Finished
  BY <1>1, <1>2, <1>3, <1>4, Zenon DEF Loop, RoundsOf, Hands, Settled, Away, Finished
<1>. QED
  BY <1>1, <1>5, Zenon DEF Lone

\* A step that changes nothing.
LEMMA LoneStutters ==
    ASSUME Lone, UNCHANGED vars
    PROVE  Lone'
<1>1. UNCHANGED <<last, acked, readPos, queue, connected, permits, pending, total, inProgress,
                  resched, task, handler, seeks>>
  BY Zenon DEF vars
<1>2. Candidates(last)' = Candidates(last) /\ Available' = Available
  BY <1>1, SameCandidates, Zenon DEF Available
<1>3. Work' <=> Work
  BY <1>1, <1>2, Zenon DEF Work
<1>4. Finished' /\ Loop' /\ Away'
  BY <1>1, <1>3, Zenon DEF Lone, Finished, Loop, Away
<1>5. \A m : /\ Queued(m)' <=> Queued(m)
             /\ Unread(m)' <=> Unread(m)
             /\ \A e : Owns(e, m)' <=> Owns(e, m)
  BY <1>1, Zenon DEF Queued, Unread, Owns
<1>6. \A m : Gone(m) => \A u \in Tasks : ~(task'[u].pc = "send" /\ task'[u].msg = m)
  BY <1>1, Zenon DEF Lone, Settled
<1>7. Settled'
  BY <1>1, <1>5, <1>6, SettledStep, Zenon DEF Lone
<1>. QED
  BY <1>1, <1>4, <1>7, Zenon DEF Lone

\* Every step keeps the promise of a lone dispatch.
LEMMA LonePreserved == OneAtATime /\ Inv /\ Lone /\ [Next]_vars => Lone'
<1>. SUFFICES ASSUME OneAtATime, Inv, Lone, [Next]_vars PROVE Lone'
  BY Zenon
<1>0. /\ Inv' /\ seeks = 0 /\ MaxSeeks = 0 /\ ~SendMayFail /\ ~StorageMayFail
      /\ \A c \in Consumers : handler[c] # Seeking
  <2>1. Inv'
    BY Preserved, Zenon
  <2>2. seeks = 0 /\ MaxSeeks = 0 /\ ~SendMayFail /\ ~StorageMayFail
    BY Zenon DEF Lone, OneAtATime
  <2>3. \A c \in Consumers : handler[c] = Seeking => seeks > 0
    BY Zenon DEF Inv, Ledger, Started
  <2>4. ~(seeks > 0)
    BY <2>2
  <2>. QED
    BY <2>1, <2>2, <2>3, <2>4, Zenon
<1>1. ASSUME NEW t \in Tasks, Dispatch(t) PROVE Lone'
  <2>1. ~PickError(t) /\ ~SendUnwritable(t) /\ ~SlotFull(t)
    BY <1>0, Zenon DEF PickError, SendUnwritable, SlotFull
  <2>. QED
    BY <1>1, <2>1, LoneLoop, LonePickNothing, LonePickQueued, LonePickNew, LoneTrack, LoneSent,
       Zenon DEF Dispatch
<1>2. ASSUME NEW t \in Tasks, Publish(t) \/ \E c \in Consumers : handle_flow(c, t) PROVE Lone'
  BY <1>2, LoneTriggers, Zenon
<1>3. ASSUME NEW c \in Consumers, add_consumer(c) \/ seek_drain(c) PROVE Lone'
  BY <1>0, <1>3, LoneAdd, Zenon DEF seek_drain
<1>4. ASSUME NEW c \in Consumers, NEW m \in 1..last,
             \/ seek(c, m) \/ ack_resolve(c, m)
             \/ acknowledge_message(c, m) \/ acknowledge_error(c, m)
      PROVE  Lone'
  <2>1. ~(seeks < MaxSeeks)
    BY <1>0
  <2>2. ~seek(c, m) /\ ~acknowledge_error(c, m)
    BY <1>0, <2>1, Zenon DEF seek, acknowledge_error
  <2>. QED
    BY <1>0, <1>4, <2>2, LoneResolve, LoneAck, Zenon
<1>5. ASSUME NEW c \in Consumers, NEW t \in Tasks, remove_consumer(c, t) PROVE Lone'
  BY <1>5, LoneRemove, Zenon
<1>6. ASSUME NEW c \in Consumers, NEW t \in Tasks, NEW S \in (SUBSET DOMAIN pending[c]) \ {{}},
             redeliver(c, S, t)
      PROVE  Lone'
  BY <1>6, LoneRedeliver, Zenon
<1>7. CASE UNCHANGED vars
  BY <1>7, LoneStutters, Zenon
<1>. QED
  BY <1>1, <1>2, <1>3, <1>4, <1>5, <1>6, <1>7, Zenon DEF Next

\* Where dispatches do not overlap, sends and storage do not fail, nobody seeks and no
\* budget is used up, a dispatch ends only when there is nothing to deliver or nobody to
\* take it, whatever publishes, flows, acks, redeliveries and removals come in between.
\* Two dispatches that overlap can lose a trigger, and then NoStranded fails.
THEOREM NeverStranded == OneAtATime /\ Spec => []NoStranded
<1>1. ASSUME OneAtATime PROVE Lone => NoStranded
  <2>1. ASSUME Lone, \A t \in Tasks : task[t].pc = "idle" PROVE ~Work
    BY <1>1, <2>1, Zenon DEF Lone, Finished, OneAtATime
  <2>. QED
    BY <2>1, Zenon DEF NoStranded, Work
<1>2. ASSUME OneAtATime PROVE Inv /\ Lone /\ [Next]_vars => Lone'
  BY <1>2, LonePreserved, Zenon
<1>3. ASSUME OneAtATime PROVE Spec => []NoStranded
  BY <1>1, <1>2, <1>3, InvAlways, LoneFirst, PTL DEF Spec
<1>. QED
  BY <1>3

=============================================================================
