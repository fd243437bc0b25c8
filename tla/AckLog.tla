------------------------------- MODULE AckLog -------------------------------
(***************************************************************************)
(* What a subscription cursor promises, whatever its representation: a set *)
(* of acknowledged log positions that each acknowledgement enlarges by one *)
(* position or up to one, and that is replaced by a prefix of the log      *)
(* when, and only when, the cursor is opened, moved by a seek, or deleted. *)
(***************************************************************************)
EXTENDS RangeSet

VARIABLES log,     \* the positions appended so far
          acked,   \* the positions the subscription has acknowledged
          resets   \* how often the cursor was opened, moved or deleted

vars == <<log, acked, resets>>

Init == log = {} /\ acked = {} /\ resets = 0

\* Messages are appended in order; none is acknowledged from the start.
Append == /\ \E p \in log' \ log : /\ \A q \in log : Lt(q, p)
                                   /\ log' = log \cup {p}
          /\ UNCHANGED <<acked, resets>>

Ack == /\ \E p \in log : acked' = acked \cup {p}
       /\ UNCHANGED <<log, resets>>

\* S is a prefix of the log.
Prefix(S) == \A p \in S, q \in log \ S : Lt(p, q)

\* A cumulative ack comes when no single message past a gap is acknowledged.
AckThrough == /\ Prefix(acked)
              /\ \E p \in log : acked' = acked \cup {q \in log : Leq(q, p)}
              /\ UNCHANGED <<log, resets>>

Reset == /\ \E S \in SUBSET log : Prefix(S) /\ acked' = S
         /\ resets' = resets + 1
         /\ UNCHANGED log

Next == Append \/ Ack \/ AckThrough \/ Reset

Spec == Init /\ [][Next]_vars
=============================================================================
