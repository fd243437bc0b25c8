-------------------------- MODULE MCManagedCursor --------------------------
(* The two backends for TLC: ledgers of a few entries, so that acks cross     *)
(* rollovers.  The record's ranges are also put through the code's own loops. *)
EXTENDS Backends, RangeSetLoop

\* The ranges of a record are what the code makes of them: the closed form of
\* insert_range that the cursor uses computes what its loop computes, for every
\* range of a ledger, and decode undoes encode.
RangesFaithful ==
    /\ \A p, q \in Entries(ledgers) : p[1] = q[1] =>
          InsertRange(holes, p, q) = InsertLoop(holes, p, q)
    /\ Decode(Encode(holes)) = holes

=============================================================================
