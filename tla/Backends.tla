------------------------------ MODULE Backends ------------------------------
(***************************************************************************)
(* The two implementations of ManagedLedgerStorage, the RocksDB cursor      *)
(* (ManagedCursor) and the in-memory one (MemoryCursor), given the same     *)
(* calls for one subscription of one topic.  The broker is written against  *)
(* the trait and runs on either.                                            *)
(***************************************************************************)
EXTENDS ManagedCursor

VARIABLES
    plain, marked, memHoles, shared,  \* the cursor in memory
    apart    \* the backends were given a call they answer differently since the
             \* cursor was last opened, moved or deleted

memory == <<plain, marked, memHoles, shared>>
bothVars == <<vars, memory, apart>>

Mem == INSTANCE MemoryCursor WITH length <- Cardinality(Entries(ledgers)), holes <- memHoles

\* The entry of the memory backend's only ledger that p is.
Index(p) == Cardinality({q \in Entries(ledgers) : Lt(q, p)})

BothInit == Init /\ Mem!Init /\ apart = FALSE

BothAppend == AddEntry /\ Mem!append_message /\ UNCHANGED apart

BothOpen == /\ \/ OpenEarliest /\ Mem!ensure_exclusive_cursor
               \/ OpenLatest /\ Mem!apply_latest_exclusive
               \/ \E p \in Entries(ledgers) :
                     OpenAt(p) /\ Mem!apply_start_message_id_exclusive(Index(p))
            /\ UNCHANGED apart

BothMove == /\ \/ delete_cursor /\ Mem!delete_cursor
               \/ \E p \in Entries(ledgers) : seek_cursor(p) /\ Mem!seek_cursor(Index(p))
            /\ apart' = FALSE

\* A cumulative ack is not seen in memory once single messages were acknowledged.
BothCumulative(p) == /\ ack_message(p) /\ Mem!ack_message(Index(p))
                     /\ apart' = (apart \/ marked # Mem!Absent)

\* An ack of a single message hides the frontier of cumulative acks, or of a start
\* position, in memory; one that RocksDB knows already changes nothing there.
BothIndividual(p) == /\ \/ ack_message_shared(p)
                        \/ Acking /\ is_acknowledged(p) /\ UNCHANGED vars
                     /\ Mem!ack_message_shared(Index(p))
                     /\ apart' = (apart \/ Mem!Forgets)

\* Later puts of an ack in RocksDB, or the end of them.
RocksOnly == (Fold \/ FoldDone \/ Interrupted) /\ UNCHANGED <<memory, apart>>

BothNext == \/ BothAppend \/ BothOpen \/ BothMove \/ RocksOnly
            \/ \E p \in Entries(ledgers) : BothCumulative(p) \/ BothIndividual(p)

BothSpec == BothInit /\ [][BothNext]_bothVars

----------------------------------------------------------------------------
(* Properties. *)

\* The backends have the same cursors; and unless one subscription mixes the two kinds
\* of acks, or acknowledges single messages after starting past the first entry, they
\* have the same messages acknowledged, between the puts of RocksDB as well.
BackendsAgree ==
    /\ stored = Mem!cursor_exists
    /\ apart \/ {Index(p) : p \in Acked} = Mem!Acked

\* Of the memory backend (see MemoryCursor): an acknowledged set, but for two steps.
MemoryAckLog == Mem!AckLogUnlessForgets

\* What the backends report is right.  The scan of RocksDB that positions a dispatcher
\* after open, seek and ack finds the first entry that is not acknowledged; its backlog
\* is the number of those entries once there is a mark; the backlog in memory is never
\* short, and exact without holes.
ReportsRight == FirstUnackedExact /\ BacklogExact /\ Mem!BacklogNeverShort

=============================================================================
