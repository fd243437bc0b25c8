---------------------------- MODULE TopicMetadata ----------------------------
(***************************************************************************)
(* What the broker remembers of its topics: the metadata crate and the     *)
(* resources over it.                                                      *)
(*                                                                         *)
(* A topic name is the sequence of its partition suffixes: <<>> is a topic *)
(* t, <<2>> is t-partition-2, <<2, 0>> is t-partition-2-partition-0.  Its  *)
(* domain, tenant and namespace do not change what is computed here and    *)
(* are left out, as is the name of the one subscription.                   *)
(*                                                                         *)
(* Metadata in memory is a record: topics, a function from the known names *)
(* to their number of partitions (0: not partitioned), and subs, the       *)
(* topics known to have the subscription.  A document is what the file     *)
(* holds.                                                                  *)
(***************************************************************************)
EXTENDS Naturals, Sequences

IsPartitionName(n) == n # <<>>
BaseName(n) == SubSeq(n, 1, Len(n) - 1)
PartitionIndex(n) == n[Len(n)]
logical_topic_name(n) == IF IsPartitionName(n) THEN BaseName(n) ELSE n

Put(f, k, v) == [x \in DOMAIN f \cup {k} |-> IF x = k THEN v ELSE f[x]]

(***************************************************************************)
(* A topic that is known as partitioned stays so; one that is not becomes  *)
(* partitioned, or changes its number, when count > 0 says so.             *)
(***************************************************************************)
upsert_topic_metadata(m, n, count) ==
    IF n \in DOMAIN m.topics /\ count = 0
    THEN m ELSE [m EXCEPT !.topics = Put(@, n, count)]

insert_subscription_metadata(m, n) == [m EXCEPT !.subs = @ \cup {n}]

get_partitioned_topic_metadata(m) ==
    [n \in {t \in DOMAIN m.topics : m.topics[t] > 0} |-> m.topics[n]]

(***************************************************************************)
(* The documents the metadata may be written as.  The file lists the       *)
(* topics that are not partitioned and the ones with subscriptions, and    *)
(* the partitioned topics under their logical names: where two have the    *)
(* same, the one the hash map happens to yield first is written.           *)
(***************************************************************************)
Partitioned(m) == DOMAIN get_partitioned_topic_metadata(m)
Documents(m) ==
    {[topics |-> (DOMAIN m.topics \ Partitioned(m)) \cup m.subs, subs |-> m.subs,
      partitioned |-> f] :
        f \in {g \in [{logical_topic_name(n) : n \in Partitioned(m)}
                        -> {m.topics[n] : n \in Partitioned(m)}] :
               \A l \in DOMAIN g :
                  \E n \in Partitioned(m) : logical_topic_name(n) = l /\ g[l] = m.topics[n]}}

apply_metadata_document(d) ==
    [topics |-> [n \in d.topics \cup DOMAIN d.partitioned |->
                    IF n \in DOMAIN d.partitioned THEN d.partitioned[n] ELSE 0],
     subs |-> d.subs]

(***************************************************************************)
(* n alone is written under its name: it is no partition name, and no      *)
(* other partitioned topic shares its logical name.                        *)
(***************************************************************************)
OwnsItsName(m, n) ==
    /\ ~IsPartitionName(n)
    /\ \A t \in Partitioned(m) : logical_topic_name(t) = n => t = n
==============================================================================
