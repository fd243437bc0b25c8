--------------------------- MODULE ConsumerOrder ---------------------------
(***************************************************************************)
(* The choice of the next consumer of a Shared subscription: consumer_order *)
(* and round_robin_index of dispatcher/shared.rs.  A lower priority level   *)
(* comes first; the consumers of one level take turns.  Indices count from  *)
(* 0 as in the code.                                                        *)
(***************************************************************************)
EXTENDS Naturals, Sequences, SequencesExt, FiniteSets, FiniteSetsExt

CONSTANTS
    Consumers,   \* consumer ids
    Priority,    \* priority_level of each
    MaxPermits   \* bound: permits of a consumer

ASSUME PriorityAssumption == Priority \in [Consumers -> Nat]

VARIABLES
    order,     \* consumer_order
    rr,        \* round_robin_index
    permits,   \* available permits
    passed     \* history: passed[c], the consumers of c's level picked since c
               \* last had its turn while c itself could have been picked

vars == <<order, rr, permits, passed>>

At(i) == order[i + 1]
Indices == 0..(Len(order) - 1)
Level(i) == Priority[At(i)]
Available(i) == permits[At(i)] > 0
Connected == {order[i] : i \in DOMAIN order}

----------------------------------------------------------------------------
(* The choice. *)

\* find_available_consumer_from_higher_priority
Higher(cur) == {i \in Indices : i < cur /\ Level(i) < Level(cur) /\ Available(i)}

\* find_available_consumer_from_same_or_lower_priority: the level is scanned from
\* the current index and around, then everything past the end of the level.
SameAfter(cur) == {i \in Indices : i >= cur /\ Level(i) = Level(cur) /\ Available(i)}
SameBefore(cur) == {i \in Indices : i < cur /\ Level(i) = Level(cur) /\ Available(i)}
Past(cur) == {i \in Indices : i > cur /\ Level(i) # Level(cur) /\ Available(i)}

\* The first index of a set, as a set of at most one.
First(S) == {i \in S : \A j \in S : i <= j}

\* get_next_available_consumer
NextIndex ==
    IF order = <<>> THEN {}
    ELSE LET cur == rr % Len(order)
             higher == IF Level(cur) # 0 THEN Higher(cur) ELSE {}
         IN  IF higher # {} THEN First(higher)
             ELSE IF SameAfter(cur) # {} THEN First(SameAfter(cur))
             ELSE IF SameBefore(cur) # {} THEN First(SameBefore(cur))
             ELSE First(Past(cur))

----------------------------------------------------------------------------
Init ==
    /\ order = <<>> /\ rr = 0
    /\ permits = [c \in Consumers |-> 0]
    /\ passed = [c \in Consumers |-> {}]

\* Mutant of InsertIndex: a consumer is put at the end whatever its level.
InsertLast(c) == Len(order)

\* insert_consumer_order: before the first consumer of a lower priority.
InsertIndex(c) ==
    LET later == {i \in Indices : Level(i) > Priority[c]}
    IN  IF later = {} THEN Len(order) ELSE Min(later)

add_consumer(c) ==
    /\ c \notin Connected
    /\ order' = InsertAt(order, InsertIndex(c) + 1, c)
    /\ permits' = [permits EXCEPT ![c] = 0]
    /\ passed' = [d \in Consumers |-> {}]
    /\ UNCHANGED rr

\* Mutant of RrWithout: the index does not follow the consumers that move down.
RrUnmoved(index, len) ==
    IF len = 0 THEN 0 ELSE rr % len

\* remove_consumer_order: the turn stays with whose it is.
RrWithout(index, len) ==
    IF len = 0 THEN 0
    ELSE IF rr > index THEN rr - 1
    ELSE IF rr >= len THEN rr % len
    ELSE rr

remove_consumer(c) ==
    \E index \in Indices :
        /\ At(index) = c
        /\ order' = RemoveAt(order, index + 1)
        /\ rr' = RrWithout(index, Len(order) - 1)
        /\ passed' = [d \in Consumers |-> IF d = c THEN {} ELSE passed[d] \ {c}]
        /\ UNCHANGED permits

consumer_flow(c) ==
    /\ c \in Connected /\ permits[c] < MaxPermits
    /\ permits' = [permits EXCEPT ![c] = @ + 1]
    /\ UNCHANGED <<order, rr, passed>>

\* The history: a consumer that was picked, or may not be picked, or sees another
\* level served starts over; the others have been passed over by the pick.
PassedBy(c) ==
    [d \in Consumers |->
        IF d = c \/ d \notin Connected \/ permits[d] = 0 \/ Priority[d] # Priority[c]
        THEN {} ELSE passed[d] \cup {c}]

pick(i) ==
    /\ i \in NextIndex
    /\ rr' = (i + 1) % Len(order)
    /\ permits' = [permits EXCEPT ![At(i)] = @ - 1]
    /\ passed' = PassedBy(At(i))
    /\ UNCHANGED order

Next ==
    \/ \E c \in Consumers : add_consumer(c) \/ remove_consumer(c) \/ consumer_flow(c)
    \/ \E i \in Indices : pick(i)

Spec == Init /\ [][Next]_vars

----------------------------------------------------------------------------
(* Properties. *)

\* A consumer is found whenever one has permits, and no consumer of a better level
\* has any: lower values come first, as consumer.rs says of priority_level.
BestLevel ==
    LET available == {i \in Indices : Available(i)}
    IN  /\ NextIndex = {} <=> available = {}
        /\ \A i \in NextIndex : \A j \in available : Level(i) <= Level(j)

\* The consumers of a level take turns: while only they are served, none is picked
\* a second time before every other one that could be, whoever leaves meanwhile.
TakeTurns ==
    \A i \in NextIndex : \A j \in Indices :
        Available(j) /\ Level(i) = Level(j) => At(i) \notin passed[At(j)]

=============================================================================
