---------------------------- MODULE MemoryCursor ----------------------------
(***************************************************************************)
(* The in-memory backend (storage/managed-ledger/src/memory.rs): one topic  *)
(* and the cursor of one subscription on it.  Entries are numbered from 0.  *)
(* The cursor lives in two maps: `cursors` holds a plain frontier and is    *)
(* written by open, cumulative acks and seeks of Exclusive and Failover     *)
(* subscriptions; `subscription_cursors` holds a frontier with holes and is *)
(* written by acks of single messages and by seeks of Shared ones.  When    *)
(* both have the key, reads look at the second only.                        *)
(***************************************************************************)
EXTENDS Integers, FiniteSets

CONSTANTS MaxAppends,  \* bound: messages appended
          MaxResets    \* bound: cursor opened, moved or deleted

None == -1     \* Option::None, or the u64::MAX of a frontier before entry 0
Absent == -2   \* the map has no such key

VARIABLES
    length,  \* entries of the topic's ledger
    plain,   \* the key's value in `cursors`
    marked,  \* mark_delete of the key's value in `subscription_cursors`
    holes,   \* acked_holes of that value
    shared,  \* the subscription is Shared or KeyShared
    resets   \* how often the cursor was opened, moved or deleted

vars == <<length, plain, marked, holes, shared, resets>>

Entries == 0..(length - 1)

Init == /\ length = 0 /\ plain = Absent /\ marked = Absent /\ holes = {}
        /\ shared \in BOOLEAN /\ resets = 0

----------------------------------------------------------------------------
(* Reading. *)

cursor_exists == plain # Absent \/ marked # Absent

is_message_acknowledged(e) == e <= marked \/ e \in holes

is_acknowledged_inner(e) ==
    IF marked # Absent THEN is_message_acknowledged(e) ELSE e <= plain

SaturatingSub(a, b) == IF a < b THEN 0 ELSE a - b

\* Mutant of backlog_entries: the frontier counts one entry too many as done.
BacklogPastFrontier ==
    SaturatingSub(length, IF marked # Absent THEN marked + 2
                          ELSE IF plain # Absent THEN plain + 1 ELSE 0)

\* The holes are not subtracted.
backlog_entries ==
    SaturatingSub(length, IF marked # Absent THEN marked + 1
                          ELSE IF plain # Absent THEN plain + 1 ELSE 0)

----------------------------------------------------------------------------
(* Operations of ManagedLedgerStorage; each runs under the storage lock. *)

\* add_entry_in_place: the entry id is the length of the ledger.
append_message == /\ length < MaxAppends
                  /\ length' = length + 1
                  /\ UNCHANGED <<plain, marked, holes, shared, resets>>

Moved == resets < MaxResets /\ resets' = resets + 1

\* initialize_or_open_cursor where it creates: always in `cursors`, whatever the
\* type of the subscription.  A cursor that exists is only read.
Create(frontier) ==
    /\ Moved /\ ~cursor_exists
    /\ plain' = frontier
    /\ shared' \in BOOLEAN
    /\ UNCHANGED <<length, marked, holes>>

ensure_exclusive_cursor == Create(None)

apply_latest_exclusive == Create(length - 1)

apply_start_message_id_exclusive(e) == Create(e - 1)

delete_cursor ==
    /\ Moved /\ cursor_exists
    /\ plain' = Absent /\ marked' = Absent /\ holes' = {}
    /\ UNCHANGED <<length, shared>>

\* Mutant of seek_cursor: the value in the other map stays.
SeekKeepsOther(e) ==
    /\ Moved /\ cursor_exists
    /\ IF shared THEN marked' = e - 1 /\ holes' = {} /\ UNCHANGED plain
       ELSE plain' = e - 1 /\ UNCHANGED <<marked, holes>>
    /\ UNCHANGED <<length, shared>>

\* The frontier becomes the entry before the target, in the map of the
\* subscription's type, and the other map loses the key.
seek_cursor(e) ==
    /\ Moved /\ cursor_exists
    /\ IF shared THEN plain' = Absent /\ marked' = e - 1
       ELSE plain' = e - 1 /\ marked' = Absent
    /\ holes' = {}
    /\ UNCHANGED <<length, shared>>

\* Cumulative acks, of Exclusive and Failover subscriptions only.  A consumer that
\* outlives an unsubscribe still acknowledges.
ack_message(e) ==
    /\ resets > 0 /\ ~shared
    /\ plain' = e
    /\ UNCHANGED <<length, marked, holes, shared, resets>>

\* The frontier moves to the end of the run of holes right after it.
advance_mark_delete(m, H) ==
    LET end == CHOOSE e \in m..length : (m + 1)..e \subseteq H /\ e + 1 \notin H
    IN  [mark |-> end, holes |-> H \ (m + 1)..end]

\* Mutant of ack_shared: the frontier jumps to an entry that is not the next one.
AckJumps(m, H, e) ==
    IF e > m THEN advance_mark_delete(e, H) ELSE [mark |-> m, holes |-> H \cup {e}]

\* ack_shared on an entry that is not acknowledged.
ack_shared(m, H, e) ==
    IF e = m + 1 THEN advance_mark_delete(e, H) ELSE [mark |-> m, holes |-> H \cup {e}]

\* The first ack of a single message puts a default value in `subscription_cursors`.
ack_message_shared(e) ==
    /\ resets > 0
    /\ LET m == IF marked = Absent THEN None ELSE marked
           r == IF is_message_acknowledged(e) THEN [mark |-> m, holes |-> holes]
                ELSE ack_shared(m, holes, e)
       IN  marked' = r.mark /\ holes' = r.holes
    /\ UNCHANGED <<length, plain, shared, resets>>

Next == \/ append_message \/ delete_cursor
        \/ ensure_exclusive_cursor \/ apply_latest_exclusive
        \/ \E e \in Entries :
              \/ apply_start_message_id_exclusive(e) \/ seek_cursor(e)
              \/ ack_message(e) \/ ack_message_shared(e)

Spec == Init /\ [][Next]_vars

----------------------------------------------------------------------------
(* Properties. *)

Acked == {e \in Entries : is_acknowledged_inner(e)}

\* The steps on which this backend does not keep an acknowledgement: the first ack
\* of a single message over a plain frontier hides that frontier, and a cumulative
\* ack behind the plain frontier moves it back.
Forgets == /\ resets' = resets /\ marked = Absent
           /\ plain >= 0
           /\ marked' # Absent \/ plain' < plain

AL == INSTANCE AckLog WITH log <- {<<0, e>> : e \in Entries}, acked <- {<<0, e>> : e \in Acked}

\* Apart from those steps the two maps are a set of acknowledged positions: each ack
\* adds its entry or everything up to it, only opening, seeking and deleting replace
\* the set, by a prefix of the log, and no entry is born acknowledged.  (A cumulative
\* ack over acks of single messages changes nothing that is read.)
AckLogUnlessForgets == AL!Init /\ [][Forgets \/ AL!Next]_<<length, Acked, resets>>

\* The reported backlog is never short of the entries still to be acknowledged, and
\* is exact as long as there are no holes.
BacklogNeverShort ==
    LET open == Cardinality(Entries \ Acked)
    IN  backlog_entries >= open /\ (holes = {} => backlog_entries = open)

=============================================================================
