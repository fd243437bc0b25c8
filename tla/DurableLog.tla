----------------------------- MODULE DurableLog -----------------------------
(***************************************************************************)
(* What the storage promises to publishers: a log per topic that only      *)
(* grows, in the order of submission; a publish is confirmed only when it  *)
(* is in the log and refused only when it is not; a stop of the broker     *)
(* loses the answers that were due, never an entry of the log.             *)
(***************************************************************************)
EXTENDS RangeSet, Sequences

CONSTANT Topics

VARIABLES reqs,    \* reqs[r]: the topic of publish r, in order of submission
          status,  \* what its publisher was told
          log      \* log[t]: the entries of t, each a position and a publish

vars == <<reqs, status, log>>

InLog(r) == \E e \in log[reqs[r]] : e[2] = r

Init == reqs = <<>> /\ status = <<>> /\ log = [t \in Topics |-> {}]

Submit == /\ \E t \in Topics : reqs' = Append(reqs, t)
          /\ status' = Append(status, "waiting")
          /\ UNCHANGED log

\* Some waiting publishes of one topic enter its log, in order and each once.
Commit ==
    \E t \in Topics : \E old \in {log[t]}, new \in {log'[t]} :
        /\ new # old /\ old \subseteq new
        /\ \A e \in new \ old :
              /\ e[2] \in DOMAIN reqs /\ reqs[e[2]] = t /\ status[e[2]] = "waiting"
              /\ \A f \in new : /\ Lt(f[1], e[1]) <=> f[2] < e[2]
                                /\ f[2] = e[2] => f = e
              /\ \A f \in old : Lt(f[1], e[1])
        /\ \A u \in Topics \ {t} : log'[u] = log[u]
        /\ UNCHANGED <<reqs, status>>

Answer(r) ==
    /\ status[r] = "waiting" /\ status'[r] # "waiting"
    /\ status' = [status EXCEPT ![r] = IF InLog(r) THEN "ok" ELSE "refused"]
    /\ UNCHANGED <<reqs, log>>

Stop ==
    /\ status' = [r \in DOMAIN status |->
                     IF status[r] = "waiting" THEN "lost" ELSE status[r]]
    /\ UNCHANGED <<reqs, log>>

Next == Submit \/ Commit \/ (\E r \in DOMAIN reqs : Answer(r)) \/ Stop

Spec == Init /\ [][Next]_vars

=============================================================================
