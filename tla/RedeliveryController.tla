------------------------ MODULE RedeliveryController ------------------------
(***************************************************************************)
(* dispatcher/redelivery_controller.rs: the queue of messages to deliver   *)
(* again, and the sticky-key hashes that are blocked meanwhile.  A hash is *)
(* blocked once for every queued entry that carries it and once for every  *)
(* message taken for delivery and not yet acknowledged or put back.        *)
(*                                                                         *)
(* A controller r is a record: block_hashes, entries (message -> count and *)
(* hash), in_flight (message -> hash) and blocked (hash -> count, zero for *)
(* a hash that the code's map does not hold).                              *)
(***************************************************************************)
EXTENDS Integers, FiniteSetsExt, Functions

CONSTANTS Hashes, NoHash

ASSUME HashAssumption == NoHash \notin Hashes

Entry(k, h) == [count |-> k, hash |-> h]

new(block) ==
    [block_hashes |-> block, entries |-> [m \in {} |-> Entry(0, NoHash)],
     in_flight |-> [m \in {} |-> NoHash], blocked |-> [h \in Hashes |-> 0]]

\* increment_hash and decrement_hash; the latter saturates at zero.
increment_hash(r, h) ==
    IF r.block_hashes /\ h # NoHash THEN [r EXCEPT !.blocked[h] = @ + 1] ELSE r

decrement_hash(r, h) ==
    IF r.block_hashes /\ h # NoHash /\ r.blocked[h] > 0
    THEN [r EXCEPT !.blocked[h] = @ - 1] ELSE r

is_hash_blocked(r, h) == r.blocked[h] > 0
has_in_flight_hash(r, h) == \E m \in DOMAIN r.in_flight : r.in_flight[m] = h
queued_message_ids(r) == DOMAIN r.entries

\* f with m mapped to v, and f without m.
With(f, m, v) == [x \in DOMAIN f \cup {m} |-> IF x = m THEN v ELSE f[x]]
Without(f, m) == Restrict(f, DOMAIN f \ {m})

\* Mutant of add: a message that is queued already blocks its hash once more.
AddBlockingTwice(r, m, k, h) ==
    increment_hash([r EXCEPT !.entries = With(@, m, Entry(k, h))], h)

\* An entry already queued keeps the larger count, and its hash if it has one.
add(r, m, k, h) ==
    IF m \in DOMAIN r.entries
    THEN LET old == r.entries[m]
             known == old.hash # NoHash
             kept == Entry(Max({old.count, k}), IF known THEN old.hash ELSE h)
         IN  increment_hash([r EXCEPT !.entries[m] = kept], IF known THEN NoHash ELSE h)
    ELSE increment_hash([r EXCEPT !.entries = With(@, m, Entry(k, h))], h)

\* take_for_delivery_with_hash of a queued message: it stays accounted to its hash,
\* now as in flight; an entry of unknown hash is accounted to h from here on.
take_for_delivery_with_hash(r, m, h) ==
    LET own == r.entries[m].hash
        hash == IF own = NoHash THEN h ELSE own
        taken == [r EXCEPT !.entries = Without(@, m)]
    IN  IF ~r.block_hashes \/ hash = NoHash THEN decrement_hash(taken, own)
        ELSE increment_hash([taken EXCEPT !.in_flight = With(@, m, hash)],
                            IF own = NoHash THEN hash ELSE NoHash)

release_in_flight_hash(r, m) ==
    IF m \in DOMAIN r.in_flight
    THEN decrement_hash([r EXCEPT !.in_flight = Without(@, m)], r.in_flight[m])
    ELSE r

restore(r, m, k, h) == add(release_in_flight_hash(r, m), m, k, h)

remove(r, m) ==
    LET s == release_in_flight_hash(r, m)
    IN  IF m \in DOMAIN s.entries
        THEN decrement_hash([s EXCEPT !.entries = Without(@, m)], s.entries[m].hash)
        ELSE s

\* add for each of the messages S, with their counts k and hashes h, in any order: the
\* entries and counts that one message changes are not those of another.
add_all(r, S, k, h) ==
    LET added(m) == add(r, m, k[m], h[m])
    IN  [r EXCEPT !.entries = [m \in DOMAIN @ \cup S |->
                                  IF m \in S THEN added(m).entries[m] ELSE @[m]],
                  !.blocked = [x \in Hashes |->
                                  @[x] + Cardinality({m \in S : added(m).blocked[x] # @[x]})]]

\* How often the messages of S block hash x.
Blocks(r, S, x) == Cardinality({m \in S \cap DOMAIN r.entries : r.entries[m].hash = x})
                 + Cardinality({m \in S \cap DOMAIN r.in_flight : r.in_flight[m] = x})

\* remove for each of the messages S.
remove_all(r, S) ==
    [r EXCEPT !.entries = Restrict(@, DOMAIN @ \ S), !.in_flight = Restrict(@, DOMAIN @ \ S),
              !.blocked = [x \in Hashes |-> IF r.block_hashes
                                           THEN Max({@[x] - Blocks(r, S, x), 0}) ELSE @[x]]]

clear(r) == new(r.block_hashes)

\* The bookkeeping: a hash is blocked as often as it is queued or in flight.
Counted(r) ==
    r.block_hashes =>
        \A h \in Hashes :
            r.blocked[h] = Blocks(r, DOMAIN r.entries \cup DOMAIN r.in_flight, h)

=============================================================================
