------------------------- MODULE SingleActiveProofs -------------------------
(***************************************************************************)
(* SingleActive, for every number of consumers, dispatch tasks, messages   *)
(* and faults: only the active consumer is served, a takeover starts over, *)
(* no message is lost, although the tasks move one read position forwards  *)
(* and backwards without a lock, and the two layers of permits agree.      *)
(***************************************************************************)
EXTENDS SingleActive, FiniteSetTheorems, WellFoundedInduction, TLAPS

Handlers == {None, Seeking} \cup {Acking(m) : m \in Nat}

Pcs == {"idle", "spawned", "loop", "permit", "load", "first", "read", "send", "commit", "refund"}

TaskRecords == [pc : Pcs, write : BOOLEAN, cons : Consumers \cup {Nobody}, pos : Nat,
                left : Int, any : BOOLEAN]

\* Types, and the bounds that positions keep within the log.
Typed ==
    /\ last \in Nat /\ acked \subseteq 1..last
    /\ readPos \in Nat /\ readPos <= last + 1
    /\ connected \subseteq Consumers /\ active \in connected \cup {Nobody}
    /\ permits \in [Consumers -> Int] /\ total \in Int
    /\ pending \in [Consumers -> SUBSET (1..last)]
    /\ handler \in [Consumers -> Handlers]
    /\ task \in [Tasks -> TaskRecords]
    /\ \A t \in Tasks : /\ task[t].pc = "read" => task[t].pos \in 1..(last + 1)
                        /\ task[t].pc \in {"send", "commit"} => task[t].pos \in 1..last

\* A task that has begun a round serves the active consumer, and there is one.
Served ==
    \A t \in Tasks : task[t].pc \notin {"idle", "spawned", "loop"} =>
        task[t].cons = active /\ active # Nobody

\* Message m needs no dispatch: whatever becomes of the read position, it is not lost.
Safe(m) == m \in acked \/ Held(m) \/ AckInFlight(m) \/ m \in dropped

SafeBelow(p) == \A m \in 1..last : m < p => Safe(m)

\* What Accounted needs to be inductive: everything below the read position is safe,
\* and so is everything below the position a task has loaded, which the task may
\* make the read position later, whatever the others do meanwhile.
Frontier ==
    /\ readPos # 0 => SafeBelow(readPos)
    /\ \A t \in Tasks :
          /\ task[t].pc \in {"read", "send", "commit"} => SafeBelow(task[t].pos)
          /\ task[t].pc = "commit" => Safe(task[t].pos)

Inv == Typed /\ Served /\ Frontier

----------------------------------------------------------------------------
(* Helpers. *)

\* A non-empty set of numbers has a least element.
LEMMA MinOf ==
    ASSUME NEW S, S \subseteq Nat, S # {}
    PROVE  Min(S) \in S /\ \A x \in S : Min(S) <= x
<1>. DEFINE R == OpToRel(<, Nat)
<1>1. \A x, y \in Nat : y < x => <<y, x>> \in R
  BY Zenon DEF OpToRel
<1>2. IsWellFoundedOn(R, Nat)
  BY NatLessThanWellFounded, Zenon
<1>. HIDE DEF R
<1>3. PICK x \in S : \A y \in S : ~ (<<y, x>> \in R)
  BY <1>2, WFMin, Zenon
<1>4. x \in Nat /\ S \subseteq Nat
  BY Zenon
<1>5. \A y \in S : ~ (y < x)
  BY <1>1, <1>3, <1>4, Zenon
<1>6. \A y \in S : x <= y
  BY <1>4, <1>5
<1>. QED
  BY <1>6, Zenon DEF Min

\* The consumer that select_active picks is one of those there are.
LEMMA SelectedIsThere ==
    ASSUME NEW S, S \subseteq Consumers, S # {}
    PROVE  select_active(S) \in S
<1>. DEFINE ranks == {Rank[c] : c \in S}
<1>1. ranks \subseteq Nat /\ ranks # {}
  BY RankAssumption
<1>2. Min(ranks) \in ranks /\ \A x \in ranks : Min(ranks) <= x
  BY <1>1, MinOf, Zenon
<1>3. PICK c \in S : Rank[c] = Min(ranks)
  BY <1>2, Zenon
<1>4. \A d \in S : Rank[c] <= Rank[d]
  BY <1>2, <1>3, Zenon
<1>. QED
  BY <1>3, <1>4, Zenon DEF select_active

\* Nothing unacknowledged lies below the first unacknowledged message.
LEMMA FirstIsLeast ==
    ASSUME Typed
    PROVE  /\ FirstUnacked \in 0..last
           /\ \A m \in 1..last : m \in acked \/ (FirstUnacked # 0 /\ FirstUnacked <= m)
<1>1. CASE (1..last) \subseteq acked
  BY <1>1 DEF FirstUnacked, Typed
<1>2. CASE ~((1..last) \subseteq acked)
  <2>. DEFINE S == (1..last) \ acked
  <2>1. S \subseteq Nat /\ S # {}
    BY <1>2 DEF Typed
  <2>2. Min(S) \in S /\ \A x \in S : Min(S) <= x
    BY <2>1, MinOf, Zenon
  <2>3. FirstUnacked = Min(S)
    BY <1>2, Zenon DEF FirstUnacked
  <2>. HIDE DEF S
  <2>4. Min(S) \in 1..last /\ \A m \in 1..last : m \in acked \/ Min(S) <= m
    BY <2>2, Zenon DEF S
  <2>. QED
    BY <2>3, <2>4 DEF Typed
<1>. QED
  BY <1>1, <1>2, Zenon

\* Neither does anything lie below the position a takeover rewinds to.
LEMMA RewindIsLeast ==
    ASSUME Typed, NEW c \in Consumers
    PROVE  /\ rewind_read_position(c) \in 0..last
           /\ \A m \in 1..last :
                 m \in acked \/ rewind_read_position(c) = 0 \/ rewind_read_position(c) <= m
<1>. DEFINE first == IF FirstUnacked = 0 THEN {} ELSE {FirstUnacked}
            due == pending[c] \cup first
<1>1. /\ FirstUnacked \in 0..last
      /\ \A m \in 1..last : m \in acked \/ (FirstUnacked # 0 /\ FirstUnacked <= m)
  BY FirstIsLeast, Zenon
<1>2. due \subseteq 1..last
  BY <1>1 DEF Typed
<1>3. rewind_read_position(c) = IF due = {} THEN 0 ELSE Min(due)
  BY Zenon DEF rewind_read_position
<1>4. CASE due = {}
  BY <1>3, <1>4 DEF Typed
<1>5. CASE due # {}
  <2>1. due \subseteq Nat
    BY <1>2
  <2>2. Min(due) \in due /\ \A x \in due : Min(due) <= x
    BY <1>5, <2>1, MinOf, Zenon
  <2>3. rewind_read_position(c) \in due /\ \A x \in due : rewind_read_position(c) <= x
    BY <1>3, <1>5, <2>2, Zenon
  <2>4. rewind_read_position(c) \in 0..last
    BY <1>2, <2>3 DEF Typed
  <2>5. ASSUME NEW m \in 1..last, m \notin acked PROVE rewind_read_position(c) <= m
    <3>1. FirstUnacked \in due /\ FirstUnacked <= m
      BY <1>1, <2>5, Zenon
    <3>. QED
      BY <1>1, <2>3, <2>4, <3>1 DEF Typed
  <2>. QED
    BY <2>4, <2>5, Zenon
<1>. QED
  BY <1>4, <1>5, Zenon

----------------------------------------------------------------------------
(* Steps. *)

\* Permit counters wrap to integers.
LEMMA ModuloType == \A x \in Int : x % Modulus \in Int
BY SizesAssumption

\* A subscription starts with nothing to account for.
LEMMA Initially == Init => Inv
<1>. SUFFICES ASSUME Init PROVE Inv
  BY Zenon
<1>1. IdleTask \in TaskRecords
  BY DEF IdleTask, TaskRecords, Pcs
<1>2. Typed
  BY <1>1 DEF Init, Typed, Handlers, IdleTask
<1>3. Served /\ Frontier
  BY Zenon DEF Init, Served, Frontier, IdleTask
<1>. QED
  BY <1>2, <1>3, Zenon DEF Inv

\* A step of task t that takes no safety away preserves the invariant if the task keeps
\* its own part of it.
LEMMA TaskStep ==
    ASSUME Inv, NEW t \in Tasks,
           UNCHANGED <<last, acked, connected, active>>,
           readPos' \in Nat, readPos' <= last + 1,
           permits' \in [Consumers -> Int], total' \in Int,
           pending' \in [Consumers -> SUBSET (1..last)], handler' \in [Consumers -> Handlers],
           task' \in [Tasks -> TaskRecords], \A u \in Tasks \ {t} : task'[u] = task[u],
           \A m \in 1..last : Safe(m) => Safe(m)',
           task'[t].pc = "read" => task'[t].pos \in 1..(last + 1),
           task'[t].pc \in {"send", "commit"} => task'[t].pos \in 1..last,
           task'[t].pc \notin {"idle", "spawned", "loop"} =>
               task'[t].cons = active /\ active # Nobody,
           readPos' # 0 => SafeBelow(readPos'),
           task'[t].pc \in {"read", "send", "commit"} => SafeBelow(task'[t].pos),
           (task[t].pc = "commit" => Safe(task[t].pos))'
    PROVE  Inv'
<1>1. Typed'
  BY Zenon DEF Inv, Typed
<1>2. Served'
  BY Zenon DEF Inv, Served
<1>3. (readPos # 0 => SafeBelow(readPos))'
  BY Zenon DEF SafeBelow
<1>4. ASSUME NEW u \in Tasks, task'[u].pc \in {"read", "send", "commit"}
      PROVE  SafeBelow(task[u].pos)'
  <2>1. SafeBelow(task'[u].pos)
    BY <1>4, Zenon DEF Inv, Frontier
  <2>. QED
    BY <2>1, Zenon DEF SafeBelow
<1>5. ASSUME NEW u \in Tasks, task'[u].pc = "commit" PROVE Safe(task[u].pos)'
  <2>1. CASE u = t
    BY <1>5, <2>1, Zenon
  <2>2. CASE u # t
    <3>1. task'[u] = task[u] /\ Safe(task[u].pos) /\ task[u].pos \in 1..last
      BY <1>5, <2>2, Zenon DEF Inv, Typed, Frontier
    <3>2. PICK m \in 1..last : m = task[u].pos /\ Safe(m)
      BY <3>1, Zenon
    <3>3. Safe(m)' /\ m = task'[u].pos
      BY <3>1, <3>2, Zenon
    <3>. QED
      BY <3>3, Zenon
  <2>. QED
    BY <2>1, <2>2, Zenon
<1>6. Frontier'
  BY <1>3, <1>4, <1>5, Zenon DEF Frontier
<1>. QED
  BY <1>1, <1>2, <1>6, Zenon DEF Inv

\* A step after which no task is in the middle of a round.
LEMMA QuietStep ==
    ASSUME Typed', \A t \in Tasks : task'[t].pc \in {"idle", "spawned", "loop"},
           (readPos # 0 => SafeBelow(readPos))'
    PROVE  Inv'
BY Zenon DEF Inv, Served, Frontier

\* With the write lock free, no task is in the middle of a round.
LEMMA QuietTasks ==
    ASSUME Typed, WriteLockFree
    PROVE  \A t \in Tasks : task[t].pc \in {"idle", "spawned"}
BY Zenon DEF WriteLockFree, Running

\* Message by message, nothing is lost by steps that leave the consumers, their pending
\* acks and the cursor alone.
LEMMA SafeUnchanged ==
    ASSUME UNCHANGED <<acked, pending, connected, handler, dropped>>
    PROVE  \A m : Safe(m)' <=> Safe(m)
BY Zenon DEF Safe, Held, AckInFlight

\* What the types say of the parts that a step of a task touches.
LEMMA Types ==
    ASSUME Typed
    PROVE  /\ last \in Nat /\ readPos \in Nat /\ readPos <= last + 1 /\ total \in Int
           /\ acked \subseteq 1..last /\ task \in [Tasks -> TaskRecords]
           /\ permits \in [Consumers -> Int] /\ active \in Consumers \cup {Nobody}
           /\ pending \in [Consumers -> SUBSET (1..last)]
           /\ handler \in [Consumers -> Handlers]
BY Zenon DEF Typed

\* One task changes.
LEMMA TaskBecomes ==
    ASSUME task \in [Tasks -> TaskRecords], NEW t \in Tasks, NEW r \in TaskRecords,
           task' = [task EXCEPT ![t] = r]
    PROVE  /\ task' \in [Tasks -> TaskRecords] /\ \A u \in Tasks \ {t} : task'[u] = task[u]
           /\ task'[t] = r
BY Zenon

\* One task goes on elsewhere.
LEMMA TaskGoes ==
    ASSUME task \in [Tasks -> TaskRecords], NEW t \in Tasks, NEW pc \in Pcs,
           task' = [task EXCEPT ![t].pc = pc]
    PROVE  /\ task' \in [Tasks -> TaskRecords] /\ \A u \in Tasks \ {t} : task'[u] = task[u]
           /\ task'[t].pc = pc /\ task'[t].pos = task[t].pos /\ task'[t].cons = task[t].cons
<1>1. task[t] \in TaskRecords
  BY Zenon
<1>2. [task[t] EXCEPT !.pc = pc] \in TaskRecords
  BY <1>1, Zenon DEF TaskRecords
<1>. QED
  BY <1>1, <1>2, TaskBecomes, Zenon DEF TaskRecords

\* The steps of a dispatch task that only look, or move the read position.
LEMMA DispatchMoves ==
    ASSUME Inv, NEW t \in Tasks,
           \/ Round(t) \/ UsePermit(t) \/ LoadPosition(t) \/ LoadFirst(t) \/ ReadEntry(t)
           \/ ReadError(t) \/ Commit(t) \/ Refund(t)
    PROVE  Inv'
<1>. USE DEF Inv
<1>1. IdleTask \in TaskRecords /\ task[t] \in TaskRecords
  BY DEF IdleTask, TaskRecords, Pcs, Typed
<1>2. UNCHANGED <<last, acked, connected, active, pending, handler, dropped>>
  <2>0. CASE UsePermit(t)
    BY <2>0, Zenon DEF UsePermit, logVars, consVars, histVars
  <2>1. CASE Round(t) \/ Refund(t)
    BY <2>1, Zenon DEF Round, Refund, logVars, consVars, histVars
  <2>2. CASE LoadPosition(t) \/ LoadFirst(t) \/ ReadEntry(t)
    BY <2>2, Zenon DEF LoadPosition, LoadFirst, ReadEntry, logVars, consVars, histVars
  <2>3. CASE ReadError(t) \/ Commit(t)
    BY <2>3, Zenon DEF ReadError, Commit, logVars, consVars, histVars
  <2>. QED
    BY <2>0, <2>1, <2>2, <2>3, Zenon
<1>3. \A m : Safe(m)' <=> Safe(m)
  BY <1>2, SafeUnchanged, Zenon
<1>4. pending' \in [Consumers -> SUBSET (1..last)] /\ handler' \in [Consumers -> Handlers]
  BY <1>2, Zenon DEF Typed
<1>5. CASE Round(t)
  <2>1. /\ task' \in [Tasks -> TaskRecords] /\ \A u \in Tasks \ {t} : task'[u] = task[u]
        /\ task'[t].pc \in {"idle", "permit"}
        /\ task'[t].pc = "permit" => task'[t].cons = active /\ active # Nobody
    <3>0. task \in [Tasks -> TaskRecords] /\ active \in Consumers \cup {Nobody}
      BY Types, Zenon
    <3>1. CASE active = Nobody \/ total = 0
      <4>1. task' = [task EXCEPT ![t] = IdleTask]
        BY <1>5, <3>1, Zenon DEF Round, Return
      <4>. QED
        BY <1>1, <3>0, <4>1, TaskBecomes, Zenon DEF IdleTask
    <3>2. CASE active # Nobody /\ total # 0
      <4>. DEFINE left == IF total < BatchSize THEN total ELSE BatchSize
                  r == [task[t] EXCEPT !.pc = "permit", !.cons = active, !.any = FALSE,
                                       !.left = left]
      <4>1. left \in Int
        BY SizesAssumption, Types
      <4>2. task' = [task EXCEPT ![t].pc = "permit", ![t].cons = active, ![t].any = FALSE,
                                 ![t].left = left]
        BY <1>5, <3>2, Zenon DEF Round
      <4>. HIDE DEF left
      <4>3. task' = [task EXCEPT ![t] = r]
        BY <3>0, <4>2, Zenon
      <4>4. r \in TaskRecords /\ r.pc = "permit" /\ r.cons = active
        BY <1>1, <3>0, <4>1, Zenon DEF TaskRecords, Pcs
      <4>. HIDE DEF r
      <4>. QED
        BY <3>0, <3>2, <4>3, <4>4, TaskBecomes, Zenon
    <3>. QED
      BY <3>1, <3>2, Zenon
  <2>4. UNCHANGED <<readPos, permits, total>>
    BY <1>5, Zenon DEF Round, permitVars
  <2>. QED
    BY <1>2, <1>3, <1>4, <2>1, <2>4, TaskStep, Types, Zenon DEF Frontier
<1>6. CASE UsePermit(t)
  <2>1. /\ task' \in [Tasks -> TaskRecords] /\ \A u \in Tasks \ {t} : task'[u] = task[u]
        /\ task'[t].pc \in {"idle", "loop", "load"}
        /\ task'[t].pc = "load" => task'[t].cons = task[t].cons /\ task[t].pc = "permit"
    <3>1. CASE task[t].left > 0 /\ permits[task[t].cons] > 0
      BY <1>6, <3>1, TaskGoes, Types, Zenon DEF UsePermit, Go, Pcs
    <3>2. CASE ~(task[t].left > 0 /\ permits[task[t].cons] > 0)
      <4>1. \/ task' = [task EXCEPT ![t].pc = "loop", ![t].pos = 0]
            \/ task' = [task EXCEPT ![t] = IdleTask]
        BY <1>6, <3>2, Zenon DEF UsePermit, RoundEnd
      <4>2. CASE task' = [task EXCEPT ![t].pc = "loop", ![t].pos = 0]
        BY <1>1, <4>2, Zenon DEF Typed, TaskRecords, Pcs
      <4>3. CASE task' = [task EXCEPT ![t] = IdleTask]
        BY <1>1, <4>3, Zenon DEF Typed, IdleTask
      <4>. QED
        BY <4>1, <4>2, <4>3, Zenon
    <3>. QED
      BY <3>1, <3>2, Zenon
  <2>2. permits' \in [Consumers -> Int] /\ total' \in Int /\ readPos' = readPos
    BY <1>6, ModuloType, Types DEF UsePermit, permitVars
  <2>3. task'[t].pc = "load" => task'[t].cons = active /\ active # Nobody
    BY <2>1, Zenon DEF Served
  <2>. QED
    BY <1>2, <1>3, <1>4, <2>1, <2>2, <2>3, TaskStep, Types, Zenon DEF Frontier
<1>7. CASE LoadPosition(t)
  <2>1. /\ task' \in [Tasks -> TaskRecords] /\ \A u \in Tasks \ {t} : task'[u] = task[u]
        /\ task'[t].pc = IF readPos = 0 THEN "first" ELSE "read"
        /\ task'[t].pos = readPos /\ task'[t].cons = task[t].cons /\ task[t].pc = "load"
    BY <1>1, <1>7, Types, Zenon DEF LoadPosition, TaskRecords, Pcs
  <2>2. UNCHANGED <<readPos, permits, total>>
    BY <1>7, Zenon DEF LoadPosition, permitVars
  <2>3. task'[t].pc = "read" => readPos \in 1..(last + 1) /\ SafeBelow(readPos)
    BY <2>1, Types DEF Frontier
  <2>4. task'[t].cons = active /\ active # Nobody
    BY <2>1, Zenon DEF Served
  <2>. QED
    BY <1>2, <1>3, <1>4, <2>1, <2>2, <2>3, <2>4, TaskStep, Types, Zenon DEF Frontier
<1>8. CASE LoadFirst(t)
  <2>0. /\ FirstUnacked \in 0..last
        /\ \A m \in 1..last : m \in acked \/ (FirstUnacked # 0 /\ FirstUnacked <= m)
    BY FirstIsLeast, Zenon
  <2>1. /\ task' \in [Tasks -> TaskRecords] /\ \A u \in Tasks \ {t} : task'[u] = task[u]
        /\ task'[t].pc = IF FirstUnacked = 0 THEN "refund" ELSE "read"
        /\ task'[t].pos = FirstUnacked /\ task'[t].cons = task[t].cons /\ task[t].pc = "first"
    <3>1. FirstUnacked \in Nat
      BY <2>0 DEF Typed
    <3>2. /\ task[t].pc = "first"
          /\ task' = [task EXCEPT ![t].pc = IF FirstUnacked = 0 THEN "refund" ELSE "read",
                                 ![t].pos = FirstUnacked]
      BY <1>8, Zenon DEF LoadFirst
    <3>. HIDE DEF FirstUnacked
    <3>. QED
      BY <1>1, <3>1, <3>2, Types, Zenon DEF TaskRecords, Pcs
  <2>2. UNCHANGED <<permits, total>> /\ readPos' = FirstUnacked
    BY <1>8, Zenon DEF LoadFirst, permitVars
  <2>3. SafeBelow(FirstUnacked)
    BY <2>0 DEF SafeBelow, Safe, Typed
  <2>4. FirstUnacked \in Nat /\ FirstUnacked <= last + 1
    BY <2>0 DEF Typed
  <2>5. FirstUnacked # 0 => FirstUnacked \in 1..(last + 1)
    BY <2>0 DEF Typed
  <2>6. task'[t].cons = active /\ active # Nobody
    BY <2>1, Zenon DEF Served
  <2>. HIDE DEF FirstUnacked
  <2>. QED
    BY <1>2, <1>3, <1>4, <2>1, <2>2, <2>3, <2>4, <2>5, <2>6, TaskStep, Types, Zenon
<1>9. CASE ReadEntry(t)
  <2>. DEFINE p == task[t].pos
  <2>1. task[t].pc = "read" /\ p \in 1..(last + 1) /\ SafeBelow(p)
    BY <1>9, Zenon DEF ReadEntry, Typed, Frontier
  <2>2. /\ task' \in [Tasks -> TaskRecords] /\ \A u \in Tasks \ {t} : task'[u] = task[u]
        /\ task'[t].pc = IF p > last THEN "refund" ELSE IF p \in acked THEN "load" ELSE "send"
        /\ task'[t].pos = p /\ task'[t].cons = task[t].cons
    <3>1. PICK q \in {"refund", "load", "send"} :
             /\ q = IF p > last THEN "refund" ELSE IF p \in acked THEN "load" ELSE "send"
             /\ task' = [task EXCEPT ![t].pc = q]
      BY <1>9, Zenon DEF ReadEntry, Go
    <3>2. q \in Pcs /\ task \in [Tasks -> TaskRecords]
      BY Types, Zenon DEF Pcs
    <3>3. /\ task' \in [Tasks -> TaskRecords] /\ \A u \in Tasks \ {t} : task'[u] = task[u]
          /\ task'[t].pc = q /\ task'[t].pos = task[t].pos /\ task'[t].cons = task[t].cons
      BY <3>1, <3>2, TaskGoes, Zenon
    <3>. QED
      BY <3>1, <3>3, Zenon
  <2>3. /\ UNCHANGED <<permits, total>>
        /\ readPos' = IF p <= last /\ p \in acked THEN p + 1 ELSE readPos
    BY <1>9, <2>1, Types DEF ReadEntry, permitVars
  <2>4. p \in acked => SafeBelow(p + 1)
    BY <2>1, Types DEF SafeBelow, Safe
  <2>5. readPos' \in Nat /\ readPos' <= last + 1
    BY <2>1, <2>3, Types
  <2>6. readPos' # 0 => SafeBelow(readPos')
    BY <2>3, <2>4, Zenon DEF Frontier
  <2>7. task'[t].pc = "send" => p \in 1..last
    BY <2>1, <2>2, Types
  <2>8. task'[t].cons = active /\ active # Nobody
    BY <2>1, <2>2, Zenon DEF Served
  <2>. QED
    BY <1>2, <1>3, <1>4, <2>1, <2>2, <2>3, <2>5, <2>6, <2>7, <2>8, TaskStep, Types, Zenon
<1>10. CASE ReadError(t)
  <2>1. /\ task' \in [Tasks -> TaskRecords] /\ \A u \in Tasks \ {t} : task'[u] = task[u]
        /\ task'[t].pc = "idle"
    BY <1>1, <1>10, Types, Zenon DEF ReadError, Return, IdleTask
  <2>2. UNCHANGED <<readPos, permits, total>>
    BY <1>10, Zenon DEF ReadError, permitVars
  <2>. QED
    BY <1>2, <1>3, <1>4, <2>1, <2>2, TaskStep, Types, Zenon DEF Frontier
<1>11. CASE Commit(t)
  <2>. DEFINE p == task[t].pos
  <2>1. task[t].pc = "commit" /\ p \in 1..last /\ SafeBelow(p) /\ Safe(p)
    BY <1>11, Zenon DEF Commit, Typed, Frontier
  <2>2. /\ task' \in [Tasks -> TaskRecords] /\ \A u \in Tasks \ {t} : task'[u] = task[u]
        /\ task'[t].pc = "permit" /\ task'[t].cons = task[t].cons
    <3>. DEFINE r == [task[t] EXCEPT !.pc = "permit", !.pos = 0, !.left = task[t].left - 1,
                                     !.any = TRUE]
    <3>1. task' = [task EXCEPT ![t] = r]
      <4>1. task' = [task EXCEPT ![t].pc = "permit", ![t].pos = 0, ![t].left = @ - 1,
                                 ![t].any = TRUE]
        BY <1>11, Zenon DEF Commit
      <4>. QED
        BY <1>1, <4>1, Types, Zenon DEF TaskRecords
    <3>2. r \in TaskRecords /\ r.pc = "permit" /\ r.cons = task[t].cons
      <4>1. task[t].left - 1 \in Int /\ 0 \in Nat
        BY <1>1 DEF TaskRecords
      <4>. QED
        BY <1>1, <4>1, Zenon DEF TaskRecords, Pcs
    <3>. HIDE DEF r
    <3>. QED
      BY <3>1, <3>2, TaskBecomes, Types, Zenon
  <2>3. UNCHANGED <<permits, total>> /\ readPos' = p + 1
    BY <1>11, Zenon DEF Commit, permitVars
  <2>4. SafeBelow(p + 1)
    BY <2>1, Types DEF SafeBelow
  <2>5. p + 1 \in Nat /\ p + 1 <= last + 1
    BY <2>1, Types
  <2>6. task'[t].cons = active /\ active # Nobody
    BY <2>1, <2>2, Zenon DEF Served
  <2>. QED
    BY <1>2, <1>3, <1>4, <2>1, <2>2, <2>3, <2>4, <2>5, <2>6, TaskStep, Types, Zenon
<1>12. CASE Refund(t)
  <2>1. /\ task' \in [Tasks -> TaskRecords] /\ \A u \in Tasks \ {t} : task'[u] = task[u]
        /\ task'[t].pc \in {"idle", "loop"}
    <3>1. \/ task' = [task EXCEPT ![t].pc = "loop", ![t].pos = 0]
          \/ task' = [task EXCEPT ![t] = IdleTask]
      BY <1>12, Zenon DEF Refund, RoundEnd
    <3>2. CASE task' = [task EXCEPT ![t].pc = "loop", ![t].pos = 0]
      BY <1>1, <3>2, Types, Zenon DEF TaskRecords, Pcs
    <3>3. CASE task' = [task EXCEPT ![t] = IdleTask]
      BY <1>1, <3>3, TaskBecomes, Types, Zenon DEF IdleTask
    <3>. QED
      BY <3>1, <3>2, <3>3, Zenon
  <2>2. task[t].cons \in Consumers
    BY <1>12, Types, Zenon DEF Refund, Served
  <2>3. permits' \in [Consumers -> Int] /\ total' \in Int /\ readPos' = readPos
    BY <1>12, <2>2, ModuloType, Types DEF Refund
  <2>. QED
    BY <1>2, <1>3, <1>4, <2>1, <2>3, TaskStep, Types, Zenon DEF Frontier
<1>. QED
  BY <1>5, <1>6, <1>7, <1>8, <1>9, <1>10, <1>11, <1>12, Zenon

\* The steps of a dispatch task that hand a message over, or fail to.
LEMMA DispatchSends ==
    ASSUME Inv, NEW t \in Tasks, Send(t) \/ SendRefused(t)
    PROVE  Inv'
<1>. USE DEF Inv
<1>. DEFINE p == task[t].pos
            c == task[t].cons
<1>1. /\ task[t].pc = "send" /\ p \in 1..last /\ SafeBelow(p)
      /\ c \in Consumers /\ c \in connected /\ c = active /\ active # Nobody
  BY Zenon DEF Send, SendRefused, Typed, Served, Frontier
<1>2. /\ UNCHANGED <<last, acked, connected, active, handler, readPos, permits, total>>
      /\ handler' \in [Consumers -> Handlers]
  BY Zenon DEF Send, SendRefused, logVars, permitVars, Typed
<1>3. CASE Send(t)
  <2>1. /\ task' \in [Tasks -> TaskRecords] /\ \A u \in Tasks \ {t} : task'[u] = task[u]
        /\ task'[t].pc = "commit" /\ task'[t].pos = p /\ task'[t].cons = c
    BY <1>3 DEF Send, Go, Typed, TaskRecords, Pcs
  <2>2. /\ pending' = [pending EXCEPT ![c] = @ \cup {p}] /\ dropped' = dropped
    BY <1>3, Zenon DEF Send
  <2>3. pending' \in [Consumers -> SUBSET (1..last)]
    BY <1>1, <2>2, Zenon DEF Typed
  <2>4. \A m \in 1..last : Safe(m) => Safe(m)'
    BY <1>1, <1>2, <2>2, Zenon DEF Safe, Held, AckInFlight, Typed
  <2>5. p \in pending'[c]
    BY <1>1, <2>2, Zenon DEF Typed
  <2>6. Safe(task[t].pos)'
    BY <1>1, <1>2, <2>1, <2>5, Zenon DEF Safe, Held
  <2>. QED
    BY <1>1, <1>2, <2>1, <2>3, <2>4, <2>6, TaskStep, Zenon DEF Typed, Frontier
<1>4. CASE SendRefused(t)
  <2>1. /\ task' \in [Tasks -> TaskRecords] /\ \A u \in Tasks \ {t} : task'[u] = task[u]
        /\ task'[t].pc = "refund" /\ task'[t].cons = c
    BY <1>4 DEF SendRefused, Go, Typed, TaskRecords, Pcs
  <2>2. \/ UNCHANGED <<pending, dropped>>
        \/ /\ pending' = [pending EXCEPT ![c] = @ \ {p}]
           /\ dropped' = dropped \cup ({p} \cap pending[c])
    BY <1>4, Zenon DEF SendRefused
  <2>3. pending' \in [Consumers -> SUBSET (1..last)]
    BY <1>1, <2>2 DEF Typed
  <2>4. ASSUME NEW m \in 1..last, Safe(m) PROVE Safe(m)'
    BY <1>1, <1>2, <2>2, <2>4 DEF Safe, Held, AckInFlight, Typed
  <2>. QED
    BY <1>1, <1>2, <2>1, <2>3, <2>4, TaskStep, Zenon DEF Typed, Frontier
<1>. QED
  BY <1>3, <1>4, Zenon

\* A publish.
LEMMA Publishing ==
    ASSUME Inv, NEW t \in Tasks, Publish(t)
    PROVE  Inv'
<1>. USE DEF Inv
<1>1. /\ task[t].pc = "idle" /\ task' = [task EXCEPT ![t].pc = "spawned"]
      /\ last' = last + 1
      /\ UNCHANGED <<acked, readPos, connected, active, permits, total, pending, handler,
                     dropped>>
  BY Zenon DEF Publish, Spawn, consVars, permitVars, histVars
<1>2. \A n : Safe(n)' <=> Safe(n)
  BY <1>1, SafeUnchanged, Zenon
<1>3. /\ \A u \in Tasks \ {t} : task'[u] = task[u]
      /\ task' \in [Tasks -> TaskRecords] /\ task'[t].pc = "spawned"
  BY <1>1 DEF Typed, TaskRecords, Pcs
<1>4. Typed'
  BY <1>1, <1>3 DEF Typed
<1>5. Served'
  BY <1>1, <1>3, Zenon DEF Served
<1>6. ASSUME NEW n \in Nat, n <= last + 1, SafeBelow(n) PROVE SafeBelow(n)'
  BY <1>1, <1>2, <1>6 DEF SafeBelow, Typed
<1>7. (readPos # 0 => SafeBelow(readPos))'
  BY <1>1, <1>6, Zenon DEF Frontier, Typed
<1>8. ASSUME NEW u \in Tasks, task'[u].pc \in {"read", "send", "commit"}
      PROVE  SafeBelow(task[u].pos)'
  <2>1. task'[u] = task[u] /\ SafeBelow(task[u].pos) /\ task[u].pos \in 1..(last + 1)
    BY <1>3, <1>8 DEF Typed, Frontier
  <2>. QED
    BY <1>6, <2>1 DEF Typed
<1>9. ASSUME NEW u \in Tasks, task'[u].pc = "commit" PROVE Safe(task[u].pos)'
  BY <1>2, <1>3, <1>9, Zenon DEF Frontier
<1>. QED
  BY <1>4, <1>5, <1>7, <1>8, <1>9, Zenon DEF Frontier

\* Handlers that meet dispatch tasks: flow, the first half of an ack and the second
\* drain of a seek.
LEMMA OpenHandlers ==
    ASSUME Inv, NEW c \in Consumers, NEW t \in Tasks,
           handle_flow(c, t) \/ (\E m \in 1..last : ack_resolve(c, m)) \/ seek_drain(c)
    PROVE  Inv'
<1>. USE DEF Inv
<1>1. CASE handle_flow(c, t)
  <2>1. /\ task' = [task EXCEPT ![t].pc = "spawned"]
        /\ UNCHANGED <<last, acked, readPos, connected, active, pending, handler, dropped>>
    BY <1>1, Zenon DEF handle_flow, Spawn, logVars, consVars, histVars
  <2>2. \A n : Safe(n)' <=> Safe(n)
    BY <2>1, SafeUnchanged, Zenon
  <2>3. /\ \A u \in Tasks \ {t} : task'[u] = task[u]
        /\ task' \in [Tasks -> TaskRecords] /\ task'[t].pc = "spawned"
    <3>1. "spawned" \in Pcs /\ task \in [Tasks -> TaskRecords]
      BY Types, Zenon DEF Pcs
    <3>. QED
      BY <2>1, <3>1, TaskGoes, Zenon
  <2>4. permits' \in [Consumers -> Int] /\ total' \in Int
    BY <1>1, ModuloType, SizesAssumption DEF handle_flow, Typed
  <2>. QED
    BY <2>1, <2>2, <2>3, <2>4, TaskStep, Zenon DEF Typed, Frontier
<1>2. CASE \E m \in 1..last : ack_resolve(c, m)
  <2>0. PICK m \in 1..last : ack_resolve(c, m)
    BY <1>2, Zenon
  <2>1. /\ handler[c] = None /\ m \in pending[c]
        /\ pending' = [pending EXCEPT ![c] = @ \ {m}]
        /\ handler' = [handler EXCEPT ![c] = Acking(m)]
        /\ UNCHANGED <<last, acked, readPos, connected, active, permits, total, task, dropped>>
    BY <2>0, Zenon DEF ack_resolve, Ready, logVars, permitVars, histVars
  <2>2. handler' \in [Consumers -> Handlers] /\ pending' \in [Consumers -> SUBSET (1..last)]
    BY <2>1 DEF Typed, Handlers
  <2>3. ASSUME NEW n \in 1..last, Safe(n) PROVE Safe(n)'
    <3>1. CASE n = m
      <4>1. handler'[c] = Acking(n)
        BY <2>1, <3>1, Zenon DEF Typed
      <4>. QED
        BY <4>1, Zenon DEF Safe, AckInFlight
    <3>2. CASE n # m
      <4>1. Held(n) => Held(n)'
        BY <2>1, <3>2, Zenon DEF Held, Typed
      <4>2. AckInFlight(n) => AckInFlight(n)'
        BY <2>1 DEF AckInFlight, Typed, None, Acking
      <4>. QED
        BY <2>1, <2>3, <4>1, <4>2, Zenon DEF Safe
    <3>. QED
      BY <3>1, <3>2, Zenon
  <2>. QED
    BY <2>1, <2>2, <2>3, TaskStep, Zenon DEF Typed, Served, Frontier
<1>3. CASE seek_drain(c)
  <2>1. /\ handler[c] = Seeking
        /\ pending' = [pending EXCEPT ![c] = {}]
        /\ handler' = [handler EXCEPT ![c] = None]
        /\ dropped' = dropped \cup (pending[c] \ acked)
        /\ UNCHANGED <<last, acked, readPos, connected, active, permits, total, task>>
    BY <1>3, Zenon DEF seek_drain, logVars, permitVars
  <2>2. handler' \in [Consumers -> Handlers] /\ pending' \in [Consumers -> SUBSET (1..last)]
    BY <2>1, Zenon DEF Typed, Handlers
  <2>3. ASSUME NEW n \in 1..last, Safe(n) PROVE Safe(n)'
    <3>1. Held(n) => Held(n)' \/ n \in acked \/ n \in dropped'
      BY <2>1, Zenon DEF Held, Typed
    <3>2. AckInFlight(n) => AckInFlight(n)'
      BY <2>1 DEF AckInFlight, Typed, Seeking, Acking
    <3>. QED
      BY <2>1, <2>3, <3>1, <3>2, Zenon DEF Safe
  <2>. QED
    BY <2>1, <2>2, <2>3, TaskStep, Zenon DEF Typed, Served, Frontier
<1>. QED
  BY <1>1, <1>2, <1>3, Zenon

\* Handlers that hold the write lock and start no dispatch.
LEMMA LockedHandlers ==
    ASSUME Inv, NEW c \in Consumers,
           \/ add_consumer(c)
           \/ \E m \in 1..last : acknowledge_message(c, m) \/ ack_cumulative(c, m) \/ seek(c, m)
    PROVE  Inv'
<1>. USE DEF Inv
<1>1. WriteLockFree /\ task' = task /\ permits' = permits /\ last' = last
  BY Zenon DEF add_consumer, acknowledge_message, ack_cumulative, seek, logVars, permitVars
<1>2. \A t \in Tasks : task'[t].pc \in {"idle", "spawned", "loop"}
  BY <1>1, QuietTasks, Zenon
<1>3. CASE add_consumer(c)
  <2>1. /\ connected' = connected \cup {c}
        /\ active' = select_active(connected') /\ total' = permits[select_active(connected')]
        /\ UNCHANGED <<acked, readPos, pending, handler, dropped>>
    BY <1>3, Zenon DEF add_consumer, pick_active, logVars, histVars
  <2>2. active' \in connected' /\ connected' \subseteq Consumers
    BY <2>1, SelectedIsThere DEF Typed
  <2>3. total' \in Int
    BY <2>1, <2>2, Zenon DEF Typed
  <2>4. Typed'
    BY <1>1, <2>1, <2>2, <2>3, Zenon DEF Typed
  <2>5. \A m \in 1..last : Safe(m) => Safe(m)'
    BY <2>1, Zenon DEF Safe, Held, AckInFlight
  <2>6. (readPos # 0 => SafeBelow(readPos))'
    BY <1>1, <2>1, <2>5, Zenon DEF Frontier, SafeBelow
  <2>. QED
    BY <1>2, <2>4, <2>6, QuietStep, Zenon
<1>4. CASE \E m \in 1..last : acknowledge_message(c, m) \/ ack_cumulative(c, m)
  <2>1. PICK m \in 1..last : acknowledge_message(c, m) \/ ack_cumulative(c, m)
    BY <1>4, Zenon
  <2>2. UNCHANGED <<readPos, connected, active, pending, total, dropped>>
    BY <2>1, Zenon DEF acknowledge_message, ack_cumulative, consVars, permitVars, histVars
  <2>3. acked \subseteq acked' /\ acked' \subseteq 1..last
    <3>1. CASE acknowledge_message(c, m)
      BY <3>1, Zenon DEF acknowledge_message, Typed
    <3>2. CASE ack_cumulative(c, m)
      <4>1. acked' = 1..m /\ (\A x \in acked : x < m) /\ acked \subseteq 1..last
        BY <3>2, Zenon DEF ack_cumulative, Typed
      <4>. QED
        BY <4>1 DEF Typed
    <3>. QED
      BY <2>1, <3>1, <3>2, Zenon
  <2>4. handler' \in [Consumers -> Handlers]
    BY <2>1, Zenon DEF acknowledge_message, ack_cumulative, Typed, Handlers
  <2>5. Typed'
    BY <1>1, <2>2, <2>3, <2>4, Zenon DEF Typed
  <2>6. ASSUME NEW n \in 1..last, Safe(n) PROVE Safe(n)'
    <3>1. AckInFlight(n) => AckInFlight(n)' \/ n \in acked'
      <4>1. CASE acknowledge_message(c, m)
        BY <4>1 DEF acknowledge_message, AckInFlight, Acking, Typed
      <4>2. CASE ack_cumulative(c, m)
        BY <4>2, Zenon DEF ack_cumulative, AckInFlight
      <4>. QED
        BY <2>1, <4>1, <4>2, Zenon
    <3>2. Held(n) => Held(n)'
      BY <2>2, Zenon DEF Held
    <3>. QED
      BY <2>2, <2>3, <2>6, <3>1, <3>2, Zenon DEF Safe
  <2>7. (readPos # 0 => SafeBelow(readPos))'
    BY <1>1, <2>2, <2>6, Zenon DEF Frontier, SafeBelow
  <2>. QED
    BY <1>2, <2>5, <2>7, QuietStep, Zenon
<1>5. CASE \E m \in 1..last : seek(c, m)
  <2>1. PICK m \in 1..last : seek(c, m)
    BY <1>5, Zenon
  <2>2. /\ acked' = 1..(m - 1) /\ readPos' = m
        /\ pending' = [d \in Consumers |-> {}]
        /\ handler' = [handler EXCEPT ![c] = Seeking]
        /\ UNCHANGED <<connected, active, total>>
    BY <2>1, Zenon DEF seek, permitVars
  <2>3. Typed'
    BY <1>1, <2>2 DEF Typed, Handlers
  <2>4. (readPos # 0 => SafeBelow(readPos))'
    BY <1>1, <2>2 DEF SafeBelow, Safe, Typed
  <2>. QED
    BY <1>2, <2>3, <2>4, QuietStep, Zenon
<1>. QED
  BY <1>3, <1>4, <1>5, Zenon

\* A consumer leaves.
LEMMA Removing ==
    ASSUME Inv, NEW c \in Consumers, NEW t \in Tasks, remove_consumer(c, t)
    PROVE  Inv'
<1>. USE DEF Inv
<1>1. /\ WriteLockFree /\ c \in connected /\ connected' = connected \ {c}
      /\ active' = select_active(connected')
      /\ total' = IF connected' = {} THEN 0 ELSE permits[select_active(connected')]
      /\ permits' = [permits EXCEPT ![c] = 0] /\ pending' = [pending EXCEPT ![c] = {}]
      /\ UNCHANGED <<last, acked, handler>>
  BY Zenon DEF remove_consumer, pick_active, Ready, logVars
<1>2. /\ connected' \subseteq Consumers /\ active' \in connected' \cup {Nobody}
      /\ connected' # {} => active' \in connected'
  <2>1. CASE connected' = {}
    BY <1>1, <2>1, Zenon DEF select_active
  <2>2. CASE connected' # {}
    <3>1. connected' \subseteq Consumers
      BY <1>1, Zenon DEF Typed
    <3>. QED
      BY <1>1, <2>2, <3>1, SelectedIsThere, Zenon
  <2>. QED
    BY <1>1, <2>1, <2>2, Zenon DEF Typed
<1>3. total' \in Int /\ permits' \in [Consumers -> Int]
  BY <1>1, <1>2 DEF Typed
<1>4. pending' \in [Consumers -> SUBSET (1..last)]
  BY <1>1, Zenon DEF Typed
<1>5. /\ task' \in [Tasks -> TaskRecords]
      /\ \A u \in Tasks : task'[u].pc \in {"idle", "spawned", "loop"}
  <2>1. \A u \in Tasks : task[u].pc \in {"idle", "spawned"}
    BY <1>1, QuietTasks, Zenon
  <2>2. task' = task \/ task' = [task EXCEPT ![t].pc = "loop", ![t].write = TRUE]
    BY Zenon DEF remove_consumer
  <2>. QED
    BY <2>1, <2>2 DEF Typed, TaskRecords, Pcs
<1>6. /\ rewind_read_position(c) \in 0..last
      /\ \A m \in 1..last :
            m \in acked \/ rewind_read_position(c) = 0 \/ rewind_read_position(c) <= m
  BY RewindIsLeast, Zenon
<1>7. readPos' = 0 \/ readPos' = rewind_read_position(c) \/ readPos' = readPos
  BY Zenon DEF remove_consumer
<1>. HIDE DEF rewind_read_position
<1>8. Typed'
  BY <1>1, <1>2, <1>3, <1>4, <1>5, <1>6, <1>7 DEF Typed
<1>9. (readPos # 0 => SafeBelow(readPos))'
  <2>1. CASE readPos' = 0
    BY <2>1, Zenon
  <2>2. CASE readPos' = rewind_read_position(c)
    BY <1>1, <1>6, <2>2 DEF SafeBelow, Safe, Typed
  <2>3. CASE readPos' # 0 /\ readPos' # rewind_read_position(c)
    <3>1. readPos' = readPos /\ dropped' = dropped \cup (pending[c] \ acked)
      BY <2>3, Zenon DEF remove_consumer
    <3>2. ASSUME NEW m \in 1..last, Safe(m) PROVE Safe(m)'
      <4>1. Held(m) => Held(m)' \/ m \in pending[c]
        BY <1>1, Zenon DEF Held, Typed
      <4>2. AckInFlight(m) => AckInFlight(m)'
        BY <1>1, Zenon DEF AckInFlight
      <4>. QED
        BY <1>1, <3>1, <3>2, <4>1, <4>2, Zenon DEF Safe
    <3>. QED
      BY <1>1, <3>1, <3>2, Zenon DEF Frontier, SafeBelow
  <2>. QED
    BY <2>1, <2>2, <2>3, Zenon
<1>. QED
  BY <1>5, <1>8, <1>9, QuietStep, Zenon

\* Every step preserves the invariant, action by action.
LEMMA StepPreserves == Inv /\ [Next]_vars => Inv'
<1>. SUFFICES ASSUME Inv, [Next]_vars PROVE Inv'
  BY Zenon
<1>1. CASE \E t \in Tasks : Dispatch(t) \/ Publish(t)
  BY <1>1, DispatchMoves, DispatchSends, Publishing, Zenon DEF Dispatch
<1>2. CASE \E c \in Consumers :
              \/ add_consumer(c) \/ seek_drain(c)
              \/ \E m \in 1..last :
                    \/ ack_resolve(c, m) \/ acknowledge_message(c, m)
                    \/ ack_cumulative(c, m) \/ seek(c, m)
              \/ \E t \in Tasks : handle_flow(c, t) \/ remove_consumer(c, t)
  <2>1. PICK t0 \in Tasks : TRUE
    BY SizesAssumption, Zenon
  <2>. QED
    BY <1>2, <2>1, OpenHandlers, LockedHandlers, Removing, Zenon
<1>3. CASE UNCHANGED vars
  <2>1. \A m : Safe(m)' <=> Safe(m)
    BY <1>3, SafeUnchanged, Zenon DEF vars
  <2>. QED
    BY <1>3, <2>1, Zenon DEF vars, Inv, Typed, Served, Frontier, SafeBelow
<1>. QED
  BY <1>1, <1>2, <1>3, Zenon DEF Next

----------------------------------------------------------------------------
(* Theorems. *)

\* The invariant holds in every state.
LEMMA InvAlways == Spec => []Inv
BY Initially, StepPreserves, PTL DEF Spec

\* Only the active consumer is sent messages, although dispatch_messages looks it up once
\* per round: consumers change under the write lock only.
THEOREM OnlyActiveIsServed == Spec => []OnlyActiveReceives
<1>1. Inv => OnlyActiveReceives
  BY Zenon DEF Inv, Served, OnlyActiveReceives
<1>. QED
  BY <1>1, InvAlways, PTL

\* No message is lost, whatever the dispatch tasks, which share one read position without
\* a guard, do to it: next_unacked_candidate never passes a message that is neither
\* acknowledged, nor pending, nor on its way to the cursor, nor known to be dropped.
THEOREM NoMessageLost == Spec => []Accounted
<1>1. Inv => Accounted
  BY DEF Inv, Typed, Frontier, SafeBelow, Safe, Accounted, Ahead
<1>. QED
  BY <1>1, InvAlways, PTL

\* When the active consumer leaves, rewind_read_position puts every message that is not
\* acknowledged ahead of the read position for its successor.
THEOREM TakeoversStartOver == Spec => TakeoverStartsOver
<1>1. ASSUME Inv, Next, active # Nobody, active \notin connected', connected' # {},
             NEW m \in (1..last) \ acked
      PROVE  readPos' = 0 \/ m >= readPos'
  <2>1. active \in connected
    BY <1>1, Zenon DEF Inv, Typed
  <2>2. PICK c \in Consumers : \E t \in Tasks : remove_consumer(c, t)
    <3>1. ASSUME NEW t \in Tasks PROVE ~Dispatch(t) /\ ~Publish(t)
      <4>1. Round(t) \/ UsePermit(t) \/ LoadPosition(t) \/ LoadFirst(t) => connected' = connected
        BY Zenon DEF Round, UsePermit, LoadPosition, LoadFirst, consVars
      <4>2. ReadEntry(t) \/ ReadError(t) \/ Commit(t) \/ Refund(t) => connected' = connected
        BY Zenon DEF ReadEntry, ReadError, Commit, Refund, consVars
      <4>3. Send(t) \/ SendRefused(t) \/ Publish(t) => connected' = connected
        BY Zenon DEF Send, SendRefused, Publish, consVars
      <4>. QED
        BY <1>1, <2>1, <4>1, <4>2, <4>3, Zenon DEF Dispatch
    <3>2. ASSUME NEW c \in Consumers PROVE ~add_consumer(c) /\ ~seek_drain(c)
      BY <1>1, <2>1, Zenon DEF add_consumer, seek_drain
    <3>3. ASSUME NEW c \in Consumers, NEW n \in 1..last
          PROVE  /\ ~ack_resolve(c, n) /\ ~acknowledge_message(c, n)
                 /\ ~ack_cumulative(c, n) /\ ~seek(c, n)
      BY <1>1, <2>1, Zenon DEF ack_resolve, acknowledge_message, ack_cumulative, seek, consVars
    <3>4. ASSUME NEW c \in Consumers, NEW t \in Tasks PROVE ~handle_flow(c, t)
      BY <1>1, <2>1, Zenon DEF handle_flow, consVars
    <3>. QED
      BY <1>1, <3>1, <3>2, <3>3, <3>4, Zenon DEF Next
  <2>3. c = active /\ readPos' = rewind_read_position(c)
    BY <1>1, <2>1, <2>2, Zenon DEF remove_consumer
  <2>4. /\ rewind_read_position(c) \in 0..last
        /\ rewind_read_position(c) = 0 \/ rewind_read_position(c) <= m
    BY <1>1, RewindIsLeast, Zenon DEF Inv
  <2>. QED
    BY <1>1, <2>3, <2>4, Zenon DEF Inv, Typed
<1>2. Inv /\ [Next]_vars =>
         [ active # Nobody /\ active \notin connected' /\ connected' # {} =>
             \A m \in (1..last) \ acked : readPos' = 0 \/ m >= readPos' ]_vars
  BY <1>1, Zenon
<1>. QED
  BY <1>2, InvAlways, PTL DEF Spec, TakeoverStartsOver

----------------------------------------------------------------------------
(* The two layers of permits. *)

\* The tasks that have taken a permit of c and neither used it up nor given it back.
Holding(c) ==
    {t \in Tasks : /\ task[t].pc \in {"load", "first", "read", "send", "commit", "refund"}
                   /\ task[t].cons = c}

\* What LayersAgree needs to be inductive: no balance is negative, and what a consumer
\* has and what tasks hold for it stays below the point where the aggregate wraps.
Bounded ==
    \A c \in Consumers :
        permits[c] >= 0 /\ permits[c] + Cardinality(Holding(c)) <= PermitCap + Cardinality(Tasks)

\* The aggregate counts as integers do until it wraps.
LEMMA NoWrap == \A x \in Nat : x < Modulus => x % Modulus = x
BY SizesAssumption

\* The holders of permits are finitely many.
LEMMA HoldersFinite ==
    ASSUME NEW S, S \subseteq Tasks
    PROVE  IsFiniteSet(S) /\ Cardinality(S) \in Nat /\ Cardinality(S) <= Cardinality(Tasks)
           /\ Cardinality(Tasks) \in Nat
BY TasksAssumption, FS_Subset, FS_CardinalityType, Zenon

\* A set of tasks is no larger than one that contains it.
LEMMA FewerHold ==
    ASSUME NEW S, NEW T, T \subseteq Tasks, S \subseteq T
    PROVE  Cardinality(S) \in Nat /\ Cardinality(T) \in Nat /\ Cardinality(S) <= Cardinality(T)
BY HoldersFinite, FS_Subset, Zenon

\* A step that touches no balance and after which nobody holds a permit that did not
\* hold it before.
LEMMA BalancesKept ==
    ASSUME Typed, Bounded, LayersAgree, UNCHANGED <<permits, total, active>>,
           \A c \in Consumers : Holding(c)' \subseteq Holding(c)
    PROVE  (Bounded /\ LayersAgree)'
<1>1. ASSUME NEW c \in Consumers
      PROVE  permits'[c] >= 0
             /\ permits'[c] + Cardinality(Holding(c)') <= PermitCap + Cardinality(Tasks)
  <2>1. Holding(c)' \subseteq Holding(c) /\ Holding(c) \subseteq Tasks
    BY Zenon DEF Holding
  <2>2. /\ Cardinality(Holding(c)') \in Nat /\ Cardinality(Holding(c)) \in Nat
        /\ Cardinality(Holding(c)') <= Cardinality(Holding(c))
        /\ Cardinality(Tasks) \in Nat
    BY <2>1, FewerHold, HoldersFinite, Zenon
  <2>3. permits[c] \in Int /\ permits[c] >= 0
        /\ permits[c] + Cardinality(Holding(c)) <= PermitCap + Cardinality(Tasks)
    BY Zenon DEF Bounded, Typed
  <2>. QED
    BY <2>2, <2>3, SizesAssumption
<1>. QED
  BY <1>1, Zenon DEF Bounded, LayersAgree

Hands == {"load", "first", "read", "send", "commit", "refund"}

\* Only task t moves, and it takes no permit.
LEMMA HoldsNoMore ==
    ASSUME NEW t \in Tasks, \A u \in Tasks \ {t} : task'[u] = task[u],
           task'[t].pc \in Hands => task[t].pc \in Hands /\ task'[t].cons = task[t].cons
    PROVE  \A c \in Consumers : Holding(c)' \subseteq Holding(c)
BY Zenon DEF Holding, Hands

\* The steps of a dispatch task that leave the permits alone.
LEMMA TaskTakesNone ==
    ASSUME Typed, NEW t \in Tasks,
           \/ Round(t) \/ LoadPosition(t) \/ LoadFirst(t) \/ ReadEntry(t) \/ ReadError(t)
           \/ Send(t) \/ SendRefused(t) \/ Commit(t) \/ Publish(t)
    PROVE  /\ UNCHANGED <<permits, total, active>>
           /\ \A u \in Tasks \ {t} : task'[u] = task[u]
           /\ task'[t].pc \in Hands => task[t].pc \in Hands /\ task'[t].cons = task[t].cons
<1>0. task \in [Tasks -> TaskRecords] /\ task[t] \in TaskRecords
  BY Zenon DEF Typed
<1>1. CASE Round(t)
  <2>1. UNCHANGED <<permits, total, active>>
    BY <1>1, Zenon DEF Round, consVars, permitVars
  <2>2. CASE active = Nobody \/ total = 0
    <3>1. task' = [task EXCEPT ![t] = IdleTask]
      BY <1>1, <2>2, Zenon DEF Round, Return
    <3>. QED
      BY <1>0, <2>1, <3>1, Zenon DEF IdleTask, Hands
  <2>3. CASE ~(active = Nobody \/ total = 0)
    <3>. DEFINE left == IF total < BatchSize THEN total ELSE BatchSize
    <3>1. task' = [task EXCEPT ![t].pc = "permit", ![t].cons = active, ![t].any = FALSE,
                               ![t].left = left]
      BY <1>1, <2>3, Zenon DEF Round
    <3>. HIDE DEF left
    <3>. QED
      BY <1>0, <2>1, <3>1, Zenon DEF TaskRecords, Hands
  <2>. QED
    BY <2>2, <2>3, Zenon
<1>2. CASE LoadPosition(t)
  BY <1>0, <1>2, Zenon DEF LoadPosition, TaskRecords, Hands, consVars, permitVars
<1>3. CASE LoadFirst(t)
  BY <1>0, <1>3, Zenon DEF LoadFirst, TaskRecords, Hands, consVars, permitVars
<1>4. CASE ReadEntry(t)
  <2>1. UNCHANGED <<permits, total, active>> /\ task[t].pc = "read"
    BY <1>4, Zenon DEF ReadEntry, consVars, permitVars
  <2>2. PICK pc : task' = [task EXCEPT ![t].pc = pc]
    BY <1>4, Zenon DEF ReadEntry, Go
  <2>. QED
    BY <1>0, <2>1, <2>2, Zenon DEF TaskRecords, Hands
<1>5. CASE ReadError(t)
  BY <1>0, <1>5, Zenon DEF ReadError, Return, IdleTask, TaskRecords, Hands, consVars, permitVars
<1>6. CASE Send(t)
  BY <1>0, <1>6, Zenon DEF Send, Go, TaskRecords, Hands, consVars, permitVars
<1>7. CASE SendRefused(t)
  BY <1>0, <1>7, Zenon DEF SendRefused, Go, TaskRecords, Hands, consVars, permitVars
<1>8. CASE Commit(t)
  BY <1>0, <1>8, Zenon DEF Commit, TaskRecords, Hands, consVars, permitVars
<1>9. CASE Publish(t)
  BY <1>0, <1>9, Zenon DEF Publish, Spawn, TaskRecords, Hands, consVars, permitVars
<1>. QED
  BY <1>1, <1>2, <1>3, <1>4, <1>5, <1>6, <1>7, <1>8, <1>9, Zenon

\* The numbers that Bounded is about are numbers.
LEMMA Numbers ==
    ASSUME Typed, NEW c \in Consumers
    PROVE  /\ permits[c] \in Int /\ Cardinality(Holding(c)) \in Nat
           /\ Cardinality(Tasks) \in Nat /\ PermitCap \in Nat
           /\ Cardinality(Holding(c)) <= Cardinality(Tasks)
<1>1. Holding(c) \subseteq Tasks
  BY Zenon DEF Holding
<1>2. Cardinality(Holding(c)) \in Nat /\ Cardinality(Tasks) \in Nat
      /\ Cardinality(Holding(c)) <= Cardinality(Tasks)
  BY <1>1, HoldersFinite, Zenon
<1>. QED
  BY <1>2, SizesAssumption, Zenon DEF Typed

\* What becomes of the balances when one consumer's changes, and of the aggregate with it.
LEMMA OneBalance ==
    ASSUME Typed, Typed', Bounded, NEW c \in Consumers, NEW x \in Int,
           permits' = [permits EXCEPT ![c] = x],
           \A d \in Consumers \ {c} : Holding(d)' \subseteq Holding(d),
           x >= 0, x + Cardinality(Holding(c)') <= PermitCap + Cardinality(Tasks)
    PROVE  Bounded'
<1>. SUFFICES ASSUME NEW d \in Consumers
              PROVE  permits'[d] >= 0
                 /\ permits'[d] + Cardinality(Holding(d)') <= PermitCap + Cardinality(Tasks)
  BY Zenon DEF Bounded
<1>1. permits \in [Consumers -> Int]
  BY Zenon DEF Typed
<1>2. CASE d = c
  BY <1>1, <1>2, Zenon
<1>3. CASE d # c
  <2>1. permits'[d] = permits[d]
    BY <1>1, <1>3, Zenon
  <2>2. Holding(d)' \subseteq Holding(d) /\ Holding(d) \subseteq Tasks
    BY <1>3, Zenon DEF Holding
  <2>3. Cardinality(Holding(d)') \in Nat /\ Cardinality(Holding(d)') <= Cardinality(Holding(d))
    BY <2>2, FewerHold, Zenon
  <2>4. permits[d] >= 0 /\ permits[d] + Cardinality(Holding(d)) <= PermitCap + Cardinality(Tasks)
    BY Zenon DEF Bounded
  <2>. QED
    BY <2>1, <2>3, <2>4, Numbers
<1>. QED
  BY <1>2, <1>3, Zenon

\* use_permit takes one from each layer.
LEMMA UseKeepsLayers ==
    ASSUME Inv, Inv', Bounded, LayersAgree, NEW t \in Tasks, UsePermit(t)
    PROVE  (Bounded /\ LayersAgree)'
<1>0. task \in [Tasks -> TaskRecords] /\ task[t] \in TaskRecords
  BY Zenon DEF Inv, Typed
<1>1. task[t].pc = "permit" /\ active' = active
  BY Zenon DEF UsePermit, consVars
<1>2. PICK c \in Consumers : c = task[t].cons /\ c = active /\ active # Nobody
  BY <1>1, Zenon DEF Inv, Served, Typed
<1>3. CASE ~(task[t].left > 0 /\ permits[c] > 0)
  <2>1. UNCHANGED <<permits, total>> /\ RoundEnd(t, total)
    BY <1>2, <1>3, Zenon DEF UsePermit, permitVars
  <2>2. \A u \in Tasks \ {t} : task'[u] = task[u]
    BY <1>0, <2>1, Zenon DEF RoundEnd
  <2>3. task'[t].pc \in {"loop", "idle"}
    BY <1>0, <2>1, Zenon DEF RoundEnd, IdleTask, TaskRecords
  <2>4. task'[t].pc \notin Hands
    BY <2>3, Zenon DEF Hands
  <2>. QED
    BY <1>1, <2>1, <2>2, <2>4, HoldsNoMore, BalancesKept, Zenon DEF Inv
<1>4. CASE task[t].left > 0 /\ permits[c] > 0
  <2>1. /\ permits' = [permits EXCEPT ![c] = permits[c] - 1]
        /\ total' = (total - 1) % Modulus
        /\ task' = [task EXCEPT ![t].pc = "load"]
    BY <1>2, <1>4, Zenon DEF UsePermit, Go
  <2>2. /\ \A u \in Tasks \ {t} : task'[u] = task[u]
        /\ task'[t].pc = "load" /\ task'[t].cons = c
    BY <1>0, <1>2, <2>1, TaskGoes, Zenon DEF Pcs
  <2>3. Holding(c)' = Holding(c) \cup {t} /\ t \notin Holding(c)
    BY <1>1, <1>2, <2>2, Zenon DEF Holding
  <2>4. \A d \in Consumers \ {c} : Holding(d)' \subseteq Holding(d)
    BY <2>2, Zenon DEF Holding
  <2>5. Cardinality(Holding(c)') = Cardinality(Holding(c)) + 1
    <3>1. Holding(c) \subseteq Tasks
      BY Zenon DEF Holding
    <3>. QED
      BY <2>3, <3>1, HoldersFinite, FS_AddElement, Zenon
  <2>6. permits[c] >= 0 /\ permits[c] + Cardinality(Holding(c)) <= PermitCap + Cardinality(Tasks)
    BY <1>2, Zenon DEF Bounded
  <2>7. /\ permits[c] \in Int /\ Cardinality(Holding(c)) \in Nat
        /\ Cardinality(Tasks) \in Nat /\ PermitCap \in Nat
        /\ Cardinality(Holding(c)) <= Cardinality(Tasks)
    BY <1>2, Numbers, Zenon DEF Inv
  <2>8. /\ permits[c] - 1 >= 0 /\ permits[c] - 1 \in Int
        /\ (permits[c] - 1) + Cardinality(Holding(c)') <= PermitCap + Cardinality(Tasks)
    BY <1>4, <2>5, <2>6, <2>7
  <2>9. Bounded'
    BY <1>2, <2>1, <2>4, <2>8, OneBalance, Zenon DEF Inv
  <2>10. total = permits[c]
    BY <1>2, Zenon DEF LayersAgree
  <2>11. total' = permits[c] - 1
    <3>1. permits[c] - 1 \in Nat /\ permits[c] - 1 < Modulus
      BY <2>6, <2>7, <2>8, TasksAssumption, SizesAssumption
    <3>. QED
      BY <2>1, <2>10, <3>1, NoWrap, Zenon
  <2>12. permits'[c] = permits[c] - 1
    BY <1>2, <2>1, Zenon DEF Inv, Typed
  <2>. QED
    BY <1>1, <1>2, <2>9, <2>11, <2>12, Zenon DEF LayersAgree
<1>. QED
  BY <1>3, <1>4, Zenon

\* A refund gives one back to each.
LEMMA RefundKeepsLayers ==
    ASSUME Inv, Inv', Bounded, LayersAgree, NEW t \in Tasks, Refund(t)
    PROVE  (Bounded /\ LayersAgree)'
<1>0. task \in [Tasks -> TaskRecords] /\ task[t] \in TaskRecords
  BY Zenon DEF Inv, Typed
<1>1. /\ task[t].pc = "refund" /\ active' = active
      /\ permits' = [permits EXCEPT ![task[t].cons] = permits[task[t].cons] + 1]
      /\ total' = (total + 1) % Modulus
      /\ RoundEnd(t, total')
  BY Zenon DEF Refund, consVars
<1>2. PICK c \in Consumers : c = task[t].cons /\ c = active /\ active # Nobody
  BY <1>1, Zenon DEF Inv, Served, Typed
<1>3. \A u \in Tasks \ {t} : task'[u] = task[u]
  BY <1>0, <1>1, Zenon DEF RoundEnd
<1>4. task'[t].pc \in {"loop", "idle"}
  BY <1>0, <1>1, Zenon DEF RoundEnd, IdleTask, TaskRecords
<1>5. Holding(c)' = Holding(c) \ {t} /\ t \in Holding(c)
  BY <1>1, <1>2, <1>3, <1>4, Zenon DEF Holding
<1>6. \A d \in Consumers \ {c} : Holding(d)' \subseteq Holding(d)
  BY <1>3, <1>4, Zenon DEF Holding
<1>7. Cardinality(Holding(c)') = Cardinality(Holding(c)) - 1
  <2>1. Holding(c) \subseteq Tasks
    BY Zenon DEF Holding
  <2>. QED
    BY <1>5, <2>1, HoldersFinite, FS_RemoveElement, Zenon
<1>8. permits[c] >= 0 /\ permits[c] + Cardinality(Holding(c)) <= PermitCap + Cardinality(Tasks)
  BY <1>2, Zenon DEF Bounded
<1>9. /\ permits[c] \in Int /\ Cardinality(Holding(c)) \in Nat
      /\ Cardinality(Tasks) \in Nat /\ PermitCap \in Nat
      /\ Cardinality(Holding(c)) <= Cardinality(Tasks)
  BY <1>2, Numbers, Zenon DEF Inv
<1>10. /\ permits[c] + 1 >= 0 /\ permits[c] + 1 \in Int
       /\ (permits[c] + 1) + Cardinality(Holding(c)') <= PermitCap + Cardinality(Tasks)
  BY <1>7, <1>8, <1>9
<1>11. Bounded'
  BY <1>1, <1>2, <1>6, <1>10, OneBalance, Zenon DEF Inv
<1>12. total = permits[c]
  BY <1>2, Zenon DEF LayersAgree
<1>13. Cardinality(Holding(c)') \in Nat
  <2>1. Holding(c)' \subseteq Tasks
    BY <1>5, Zenon DEF Holding
  <2>. QED
    BY <2>1, HoldersFinite, Zenon
<1>14. total' = permits[c] + 1
  <2>1. permits[c] + 1 \in Nat /\ permits[c] + 1 < Modulus
    BY <1>8, <1>9, <1>10, <1>13, TasksAssumption, SizesAssumption
  <2>. QED
    BY <1>1, <1>12, <2>1, NoWrap, Zenon
<1>15. permits'[c] = permits[c] + 1
  BY <1>1, <1>2, Zenon DEF Inv, Typed
<1>. QED
  BY <1>1, <1>2, <1>11, <1>14, <1>15, Zenon DEF LayersAgree

\* handle_flow adds to the consumer, and to the aggregate if the consumer is active.
LEMMA FlowKeepsLayers ==
    ASSUME Inv, Inv', Bounded, LayersAgree, NEW c \in Consumers, NEW t \in Tasks,
           handle_flow(c, t)
    PROVE  (Bounded /\ LayersAgree)'
<1>0. task \in [Tasks -> TaskRecords]
  BY Zenon DEF Inv, Typed
<1>1. /\ permits[c] + FlowSize <= PermitCap /\ active' = active
      /\ permits' = [permits EXCEPT ![c] = permits[c] + FlowSize]
      /\ total' = IF c = active THEN (total + FlowSize) % Modulus ELSE total
      /\ task[t].pc = "idle" /\ task' = [task EXCEPT ![t].pc = "spawned"]
  BY Zenon DEF handle_flow, Spawn, consVars
<1>2. (\A u \in Tasks \ {t} : task'[u] = task[u]) /\ task'[t].pc = "spawned"
  BY <1>0, <1>1, TaskGoes, Zenon DEF Pcs
<1>3. \A d \in Consumers : Holding(d)' \subseteq Holding(d)
  BY <1>2, HoldsNoMore, Zenon DEF Hands
<1>4. /\ permits[c] \in Int /\ Cardinality(Holding(c)) \in Nat
      /\ Cardinality(Tasks) \in Nat /\ PermitCap \in Nat
      /\ Cardinality(Holding(c)) <= Cardinality(Tasks)
  BY Numbers, Zenon DEF Inv
<1>5. Cardinality(Holding(c)') \in Nat /\ Cardinality(Holding(c)') <= Cardinality(Holding(c))
  <2>1. Holding(c)' \subseteq Holding(c) /\ Holding(c) \subseteq Tasks
    BY <1>3, Zenon DEF Holding
  <2>. QED
    BY <2>1, FewerHold, Zenon
<1>6. permits[c] >= 0
  BY Zenon DEF Bounded
<1>7. /\ permits[c] + FlowSize >= 0 /\ permits[c] + FlowSize \in Int
      /\ (permits[c] + FlowSize) + Cardinality(Holding(c)') <= PermitCap + Cardinality(Tasks)
  BY <1>1, <1>4, <1>5, <1>6, SizesAssumption
<1>8. Bounded'
  BY <1>1, <1>3, <1>7, OneBalance, Zenon DEF Inv
<1>9. permits'[c] = permits[c] + FlowSize
      /\ \A d \in Consumers \ {c} : permits'[d] = permits[d]
  BY <1>1, Zenon DEF Inv, Typed
<1>10. LayersAgree'
  <2>1. CASE c = active
    <3>1. permits[c] + FlowSize \in Nat /\ permits[c] + FlowSize < Modulus
      BY <1>1, <1>4, <1>7, SizesAssumption
    <3>2. total = permits[c] /\ active # Nobody
      BY <2>1, RankAssumption, Zenon DEF LayersAgree
    <3>3. total' = permits[c] + FlowSize
      BY <1>1, <2>1, <3>1, <3>2, NoWrap, Zenon
    <3>. QED
      BY <1>1, <1>9, <2>1, <3>2, <3>3, Zenon DEF LayersAgree
  <2>2. CASE c # active
    <3>1. active \in Consumers \cup {Nobody}
      BY Types, Zenon DEF Inv
    <3>. QED
      BY <1>1, <1>9, <2>2, <3>1, Zenon DEF LayersAgree
  <2>. QED
    BY <2>1, <2>2, Zenon
<1>. QED
  BY <1>8, <1>10, Zenon

\* When the consumers change nobody holds a permit, and the aggregate is set to the
\* balance of the consumer that is active from then on.
LEMMA ChangeKeepsLayers ==
    ASSUME Inv, Inv', Bounded, NEW c \in Consumers, NEW t \in Tasks,
           add_consumer(c) \/ remove_consumer(c, t)
    PROVE  (Bounded /\ LayersAgree)'
<1>1. \A u \in Tasks : task[u].pc \in {"idle", "spawned"}
  BY QuietTasks, Zenon DEF Inv, add_consumer, remove_consumer
<1>2. \A u \in Tasks : task'[u].pc \in {"idle", "spawned", "loop"}
  <2>1. CASE add_consumer(c)
    BY <1>1, <2>1, Zenon DEF add_consumer
  <2>2. CASE remove_consumer(c, t) /\ connected' = {}
    BY <1>1, <2>2, Zenon DEF remove_consumer
  <2>3. CASE remove_consumer(c, t) /\ connected' # {}
    <3>1. task' = [task EXCEPT ![t].pc = "loop", ![t].write = TRUE]
      BY <2>3, Zenon DEF remove_consumer
    <3>. QED
      BY <1>1, <3>1, Types, Zenon DEF Inv, TaskRecords
  <2>. QED
    BY <2>1, <2>2, <2>3, Zenon
<1>3. \A d \in Consumers : Holding(d)' \subseteq Holding(d)
  BY <1>2, Zenon DEF Holding
<1>4. permits \in [Consumers -> Int] /\ permits' \in [Consumers -> Int]
      /\ connected \subseteq Consumers /\ connected' \subseteq Consumers
  BY Zenon DEF Inv, Typed
<1>5. \A d \in connected' : permits'[d] = permits[d]
  <2>1. CASE add_consumer(c)
    BY <2>1, Zenon DEF add_consumer
  <2>2. CASE remove_consumer(c, t)
    <3>1. connected' = connected \ {c} /\ permits' = [permits EXCEPT ![c] = 0]
      BY <2>2, Zenon DEF remove_consumer
    <3>. QED
      BY <1>4, <3>1, Zenon
  <2>. QED
    BY <2>1, <2>2, Zenon
<1>6. pick_active(connected')
  BY Zenon DEF add_consumer, remove_consumer
<1>7. LayersAgree'
  <2>1. CASE connected' = {}
    BY <1>6, <2>1, Zenon DEF LayersAgree, pick_active, select_active
  <2>2. CASE connected' # {}
    <3>1. select_active(connected') \in connected'
      BY <1>4, <2>2, SelectedIsThere, Zenon
    <3>2. active' = select_active(connected') /\ total' = permits[select_active(connected')]
      BY <1>6, <2>2, Zenon DEF pick_active
    <3>. QED
      BY <1>4, <1>5, <3>1, <3>2, RankAssumption, Zenon DEF LayersAgree
  <2>. QED
    BY <2>1, <2>2, Zenon
<1>8. Bounded'
  <2>1. CASE add_consumer(c)
    <3>1. permits' = [permits EXCEPT ![c] = permits[c]]
      BY <1>4, <2>1, Zenon DEF add_consumer
    <3>2. Cardinality(Holding(c)') <= Cardinality(Holding(c)) /\ Cardinality(Holding(c)') \in Nat
      <4>1. Holding(c)' \subseteq Holding(c) /\ Holding(c) \subseteq Tasks
        BY <1>3, Zenon DEF Holding
      <4>. QED
        BY <4>1, FewerHold, Zenon
    <3>3. /\ permits[c] >= 0 /\ permits[c] \in Int
          /\ permits[c] + Cardinality(Holding(c)') <= PermitCap + Cardinality(Tasks)
      BY <3>2, Numbers DEF Inv, Bounded
    <3>. QED
      BY <1>3, <3>1, <3>3, OneBalance, Zenon DEF Inv
  <2>2. CASE remove_consumer(c, t)
    <3>1. permits' = [permits EXCEPT ![c] = 0]
      BY <2>2, Zenon DEF remove_consumer
    <3>2. Cardinality(Holding(c)') <= Cardinality(Holding(c)) /\ Cardinality(Holding(c)') \in Nat
      <4>1. Holding(c)' \subseteq Holding(c) /\ Holding(c) \subseteq Tasks
        BY <1>3, Zenon DEF Holding
      <4>. QED
        BY <4>1, FewerHold, Zenon
    <3>3. 0 >= 0 /\ 0 \in Int /\ 0 + Cardinality(Holding(c)') <= PermitCap + Cardinality(Tasks)
      BY <3>2, Numbers DEF Inv
    <3>. QED
      BY <1>3, <3>1, <3>3, OneBalance, Zenon DEF Inv
  <2>. QED
    BY <2>1, <2>2, Zenon
<1>. QED
  BY <1>7, <1>8, Zenon

\* Every step keeps the layers in agreement.
LEMMA LayersPreserved == Inv /\ Bounded /\ LayersAgree /\ [Next]_vars => (Bounded /\ LayersAgree)'
<1>. SUFFICES ASSUME Inv, Bounded, LayersAgree, [Next]_vars PROVE (Bounded /\ LayersAgree)'
  BY Zenon
<1>0. Inv' /\ Typed
  BY StepPreserves, Zenon DEF Inv
<1>1. CASE \E t \in Tasks : Dispatch(t) \/ Publish(t)
  <2>1. PICK t \in Tasks : Dispatch(t) \/ Publish(t)
    BY <1>1, Zenon
  <2>2. CASE UsePermit(t)
    BY <1>0, <2>2, UseKeepsLayers, Zenon
  <2>3. CASE Refund(t)
    BY <1>0, <2>3, RefundKeepsLayers, Zenon
  <2>4. CASE ~UsePermit(t) /\ ~Refund(t)
    <3>1. \/ Round(t) \/ LoadPosition(t) \/ LoadFirst(t) \/ ReadEntry(t) \/ ReadError(t)
          \/ Send(t) \/ SendRefused(t) \/ Commit(t) \/ Publish(t)
      BY <2>1, <2>4, Zenon DEF Dispatch
    <3>2. UNCHANGED <<permits, total, active>>
          /\ \A c \in Consumers : Holding(c)' \subseteq Holding(c)
      BY <1>0, <3>1, TaskTakesNone, HoldsNoMore, Zenon
    <3>. QED
      BY <1>0, <3>2, BalancesKept, Zenon
  <2>. QED
    BY <2>2, <2>3, <2>4, Zenon
<1>2. ASSUME NEW c \in Consumers, NEW m \in 1..last,
             \/ ack_resolve(c, m) \/ acknowledge_message(c, m)
             \/ ack_cumulative(c, m) \/ seek(c, m)
      PROVE  (Bounded /\ LayersAgree)'
  <2>1. UNCHANGED <<permits, total, active, task>>
    BY <1>2, Zenon DEF ack_resolve, acknowledge_message, ack_cumulative, seek,
                       permitVars, consVars
  <2>2. \A d \in Consumers : Holding(d)' \subseteq Holding(d)
    BY <2>1, Zenon DEF Holding
  <2>. QED
    BY <1>0, <2>1, <2>2, BalancesKept, Zenon
<1>3. ASSUME NEW c \in Consumers, seek_drain(c) PROVE (Bounded /\ LayersAgree)'
  <2>1. UNCHANGED <<permits, total, active, task>>
    BY <1>3, Zenon DEF seek_drain, permitVars, consVars
  <2>2. \A d \in Consumers : Holding(d)' \subseteq Holding(d)
    BY <2>1, Zenon DEF Holding
  <2>. QED
    BY <1>0, <2>1, <2>2, BalancesKept, Zenon
<1>4. ASSUME NEW c \in Consumers, add_consumer(c) PROVE (Bounded /\ LayersAgree)'
  <2>1. PICK t \in Tasks : TRUE
    BY SizesAssumption, Zenon
  <2>. QED
    BY <1>0, <1>4, <2>1, ChangeKeepsLayers, Zenon
<1>5. CASE UNCHANGED vars
  <2>1. UNCHANGED <<permits, total, active, task>>
    BY <1>5, Zenon DEF vars
  <2>2. \A d \in Consumers : Holding(d)' \subseteq Holding(d)
    BY <2>1, Zenon DEF Holding
  <2>. QED
    BY <1>0, <2>1, <2>2, BalancesKept, Zenon
<1>. QED
  BY <1>0, <1>1, <1>2, <1>3, <1>4, <1>5, ChangeKeepsLayers, FlowKeepsLayers, Zenon DEF Next

\* total_available_permits is the balance of the active consumer, through flows of
\* standbys, takeovers, refunds and storage errors, and never wraps below zero.
THEOREM LayersAlwaysAgree == Spec => []LayersAgree
<1>1. Init => Bounded /\ LayersAgree
  <2>. SUFFICES ASSUME Init PROVE Bounded /\ LayersAgree
    BY Zenon
  <2>1. \A c \in Consumers : Holding(c) = {} /\ permits[c] = 0
    BY Zenon DEF Init, Holding, IdleTask
  <2>2. Cardinality({}) = 0 /\ Cardinality(Tasks) \in Nat
    BY FS_EmptySet, HoldersFinite, Zenon
  <2>3. LayersAgree
    BY Zenon DEF Init, LayersAgree
  <2>4. ASSUME NEW c \in Consumers
        PROVE  permits[c] >= 0
               /\ permits[c] + Cardinality(Holding(c)) <= PermitCap + Cardinality(Tasks)
    <3>1. permits[c] = 0 /\ Cardinality(Holding(c)) = 0
      BY <2>1, <2>2, Zenon
    <3>. QED
      BY <2>2, <3>1, SizesAssumption
  <2>. QED
    BY <2>3, <2>4, Zenon DEF Bounded
<1>. QED
  BY <1>1, InvAlways, LayersPreserved, PTL DEF Spec

=============================================================================
