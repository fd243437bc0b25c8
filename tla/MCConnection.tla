---------------------------- MODULE MCConnection ----------------------------
(***************************************************************************)
(* One connection with a producer on a persistent topic and one on a       *)
(* non-persistent topic.  The limits are so low that four Sends reach each *)
(* of them: the size limit, the pause of reading by number and by bytes,   *)
(* the number in flight, and the publish rate.                             *)
(***************************************************************************)
EXTENDS Connection

mcProducerOf == <<1, 1, 1, 2>>
mcSize == <<1, 1, 2, 1>>
mcVolatile == {2}
mcLimits == {[pending |-> 3, bytes |-> 9, size |-> 2, volatile |-> 3, rate |-> 2,
              queue |-> TRUE],
             [pending |-> 3, bytes |-> 2, size |-> 1, volatile |-> 1, rate |-> 0,
              queue |-> TRUE],
             [pending |-> 1, bytes |-> 9, size |-> 2, volatile |-> 1, rate |-> 3,
              queue |-> FALSE]}
=============================================================================
