---------------------------- MODULE ManagedCursor ----------------------------
(***************************************************************************)
(* The durable subscription cursor of the RocksDB backend                  *)
(* (storage/managed-ledger-rocksdb/src/{cursor,store}.rs) over the ledger  *)
(* list of its topic.  Every operation opens the cursor from the database, *)
(* works under the cursor lock and writes the record back one put at a     *)
(* time, so the state between two operations is the stored record.  An     *)
(* individual acknowledgement is several puts: the position itself, then   *)
(* one put per range the mark-delete frontier swallows.  Appends run in    *)
(* the write-queue thread and interleave with those puts.                  *)
(***************************************************************************)
EXTENDS RangeSet, Sequences, FiniteSets, FiniteSetsExt

CONSTANTS MaxEntriesPerLedger,  \* ManagedLedgerConfig::max_entries_per_ledger
          MixedAcks,            \* cumulative acks come in any order and while
                                \* individual ones are outstanding
          MaxAppends,           \* bound: messages appended
          MaxResets,            \* bound: cursor opened, moved or deleted
          MaxInterrupts         \* bound: acks cut short between two puts

ASSUME LedgerSizeAssumption == MaxEntriesPerLedger \in Nat \ {0}
ASSUME ModeAssumption == MixedAcks \in BOOLEAN
ASSUME BoundAssumption ==
    MaxAppends \in Nat /\ MaxResets \in Nat /\ MaxInterrupts \in Nat

\* Option::None for the mark-delete position; it precedes every position.
NoMark == <<0, 0>>

VARIABLES
    ledgers,  \* info.ledgers: ledger i holds ledgers[i] entries
    stored,   \* the cursor has a record in the database
    mark,     \* mark_delete of that record, NoMark for None
    holes,    \* individually_deleted_entries of that record
    folding,  \* an individual ack is in its frontier loop
    info,     \* the ledger list that ack took a snapshot of
    resets,   \* how often the cursor was opened, moved or deleted
    interrupts \* how many acks were cut short

cursor == <<stored, mark, holes>>
vars == <<ledgers, stored, mark, holes, folding, info, resets, interrupts>>

----------------------------------------------------------------------------
(* Positions of a ledger list. *)

Entries(ls) == UNION {{<<l, e>> : e \in 0..(ls[l] - 1)} : l \in DOMAIN ls}

Least(S) == {p \in S : \A q \in S : Leq(p, q)}

Greatest(S) == {p \in S : \A q \in S : Leq(q, p)}

first_position(ls) == Least(Entries(ls))

\* Nothing follows a position of a ledger that the list does not know.
next_position(p, ls) ==
    IF p[1] \in DOMAIN ls THEN Least({q \in Entries(ls) : Lt(p, q)}) ELSE {}

last_position(ls) == Greatest(Entries(ls))

previous_position(p, ls) ==
    IF p[2] > 0 THEN {<<p[1], p[2] - 1>>}
    ELSE Greatest({q \in Entries(ls) : q[1] < p[1]})

\* An Option of a position as a mark-delete value.
AsMark(opt) == IF opt = {} THEN NoMark ELSE CHOOSE p \in opt : TRUE

----------------------------------------------------------------------------
(* Reading the record. *)

is_acknowledged(p) == Leq(p, mark) \/ contains(holes, p)

\* The scan from the entry after the mark up to the last entry.
first_unacked_position ==
    LET scanned == IF mark = NoMark THEN Entries(ledgers)
                   ELSE UNION {{r \in Entries(ledgers) : Leq(q, r)} :
                               q \in next_position(mark, ledgers)}
    IN  Least({p \in scanned : ~is_acknowledged(p)})

SaturatingSub(a, b) == IF a < b THEN 0 ELSE a - b

backlog_entries ==
    LET total   == Cardinality(Entries(ledgers))
        retired == Cardinality({p \in Entries(ledgers) : p[1] < mark[1]})
        holed   == MapThenSumSet(LAMBDA r : r[2][2] - r[1][2] + 1, holes)
    IN  IF mark = NoMark THEN total
        ELSE SaturatingSub(total, retired + mark[2] + 1 + holed)

----------------------------------------------------------------------------
(* Operations. *)

Init == /\ ledgers = <<0>>
        /\ stored = FALSE /\ mark = NoMark /\ holes = {}
        /\ folding = FALSE /\ info = <<>> /\ resets = 0 /\ interrupts = 0

\* One entry of add_entries: the current ledger grows, and is rolled over to
\* an empty one as soon as it is full.
AddEntry ==
    /\ Cardinality(Entries(ledgers)) < MaxAppends
    /\ LET grown == [ledgers EXCEPT ![Len(ledgers)] = @ + 1]
       IN  ledgers' = IF grown[Len(ledgers)] >= MaxEntriesPerLedger
                      THEN grown \o <<0>> ELSE grown
    /\ UNCHANGED <<cursor, folding, info, resets, interrupts>>

\* The storage lock is free: no other cursor operation is between two puts.
Idle == ~folding

SetCursor(m, h) == stored' = TRUE /\ mark' = m /\ holes' = h

\* initialize_or_open_cursor when no record exists yet; otherwise it only reads.
Created(m) ==
    /\ Idle /\ ~stored /\ resets < MaxResets
    /\ SetCursor(m, holes)
    /\ resets' = resets + 1
    /\ UNCHANGED <<ledgers, folding, info, interrupts>>

OpenEarliest == Created(mark)

OpenLatest == Created(AsMark(last_position(ledgers)))

OpenAt(p) == Created(AsMark(previous_position(p, ledgers)))

seek_cursor(p) ==
    /\ Idle /\ stored /\ resets < MaxResets
    /\ SetCursor(AsMark(previous_position(p, ledgers)), {})
    /\ resets' = resets + 1
    /\ UNCHANGED <<ledgers, folding, info, interrupts>>

delete_cursor ==
    /\ Idle /\ stored /\ resets < MaxResets
    /\ stored' = FALSE /\ mark' = NoMark /\ holes' = {}
    /\ resets' = resets + 1
    /\ UNCHANGED <<ledgers, folding, info, interrupts>>

\* Acks come from consumers of a subscription that was opened; a consumer that
\* outlives an unsubscribe still acknowledges and brings the record back.
Acking == Idle /\ resets > 0

\* A cumulative ack.  Clients send them in order, and unless MixedAcks they do not
\* send one while acks of single messages past the mark are outstanding.
ack_message(p) ==
    /\ Acking
    /\ MixedAcks \/ (holes = {} /\ Leq(mark, p))
    /\ SetCursor(p, holes)
    /\ UNCHANGED <<ledgers, folding, info, resets, interrupts>>

\* ack_managed_cursor_shared up to and with its first put.
ack_message_shared(p) ==
    /\ Acking
    /\ ~is_acknowledged(p)
    /\ LET frontier == IF mark = NoMark THEN first_position(ledgers)
                       ELSE next_position(mark, ledgers)
       IN  IF p \in frontier THEN SetCursor(p, holes)
           ELSE SetCursor(mark, Insert(holes, p))
    /\ folding' = TRUE /\ info' = ledgers
    /\ UNCHANGED <<ledgers, resets, interrupts>>

\* The range the frontier loop takes next.
Taken ==
    IF mark = NoMark THEN {}
    ELSE UNION {TakeCovering(holes, q) : q \in next_position(mark, info)}

\* One round of the frontier loop: the range leaves memory and the new mark is
\* written with it, in one put.
Fold == /\ folding
        /\ \E r \in Taken : SetCursor(r[2], holes \ {r})
        /\ UNCHANGED <<ledgers, folding, info, resets, interrupts>>

\* Mutant of FoldDone: the loop may stop with a range left to swallow.
FoldStopsEarly == /\ folding
                  /\ folding' = FALSE /\ info' = <<>>
                  /\ UNCHANGED <<ledgers, cursor, resets, interrupts>>

FoldDone == /\ folding /\ Taken = {}
            /\ folding' = FALSE /\ info' = <<>>
            /\ UNCHANGED <<ledgers, cursor, resets, interrupts>>

\* A put of the loop fails, or the broker stops: the record keeps its last
\* stored form and the operation is gone.
Interrupted == /\ folding /\ interrupts < MaxInterrupts
               /\ folding' = FALSE /\ info' = <<>> /\ interrupts' = interrupts + 1
               /\ UNCHANGED <<ledgers, cursor, resets>>

Next == \/ AddEntry
        \/ OpenEarliest \/ OpenLatest \/ delete_cursor
        \/ \E p \in Entries(ledgers) :
              OpenAt(p) \/ seek_cursor(p) \/ ack_message(p) \/ ack_message_shared(p)
        \/ Fold \/ FoldDone \/ Interrupted

Spec == Init /\ [][Next]_vars

----------------------------------------------------------------------------
(* Properties. *)

Acked == {p \in Entries(ledgers) : is_acknowledged(p)}

\* The record holds positions of the log only, and its ranges are made of them.
TypeOK ==
    /\ ledgers \in Seq(0..MaxEntriesPerLedger)
    /\ stored \in BOOLEAN /\ folding \in BOOLEAN
    /\ mark \in Entries(ledgers) \cup {NoMark}
    /\ \A r \in holes : {r[1], r[2]} \subseteq Entries(ledgers)
    /\ info \in Seq(0..MaxEntriesPerLedger) /\ Entries(info) \subseteq Entries(ledgers)
    /\ resets \in 0..MaxResets /\ interrupts \in 0..MaxInterrupts

\* Managed-cursor state (managed-ledger/src/cursor.rs): the individually
\* deleted entries are kept as coalesced ranges, after every put.
HolesCoalesced == Coalesced(holes)

\* The same text: they are "out-of-order acknowledgements past the mark-delete
\* frontier".
HolesPastMark == \A r \in holes : Lt(mark, r[1])

\* The frontier loop leaves no acknowledged entry right after the mark: while no
\* ack was cut short, the mark at rest is the end of the acknowledged prefix, also
\* across a rollover.
MarkIsFrontier ==
    Idle /\ interrupts = 0 /\ mark # NoMark =>
        \A q \in next_position(mark, ledgers) : ~is_acknowledged(q)

\* Advancing the frontier never moves the mark-delete position back.
FrontierAdvances == [][folding /\ folding' => Leq(mark, mark')]_vars

\* The scan that positions a dispatcher after open, seek and ack finds the
\* first entry of the log that is not acknowledged, and none only if there is none.
FirstUnackedExact == first_unacked_position = Least(Entries(ledgers) \ Acked)

\* Appending changes what is acknowledged in no subscription: an entry is never
\* born acknowledged, whatever the cursor went through before.
BornUnacked == [][ledgers' # ledgers => Acked' = Acked]_vars

\* The backlog reported for a subscription with a mark-delete position is the
\* number of stored entries it has not acknowledged.
BacklogExact ==
    mark # NoMark => backlog_entries = Cardinality(Entries(ledgers) \ Acked)

\* The record implements a set of acknowledged positions: an ack adds exactly
\* its position with its first put, later puts and interruptions change
\* nothing, an appended entry is never acknowledged from the start.
AL == INSTANCE AckLog WITH log <- Entries(ledgers), acked <- Acked

AckLogSpec == AL!Spec

=============================================================================
