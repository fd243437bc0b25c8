---------------------------- MODULE RangeSetLoop ----------------------------
(***************************************************************************)
(* insert_range of range_set.rs as the loop the code runs, one absorbed     *)
(* range at a time, and the stored form of a range set.  Both are pure      *)
(* operators, compared with the closed forms of RangeSet by model checking. *)
(***************************************************************************)
EXTENDS RangeSet, SequencesExt

\* The merging loop of insert_range, with start and end growing.
RECURSIVE AbsorbLoop(_, _, _)
AbsorbLoop(rs, start, end) ==
    LET after == From(rs, start)
        first == {r \in after : \A s \in after : RangeLeq(r, s)}
        merge == {r \in first : Leq(r[1], Succ(end))}
    IN  IF merge = {} THEN <<rs, start, end>>
        ELSE LET r == CHOOSE r \in merge : TRUE
             IN  AbsorbLoop(rs \ {r}, IF Lt(r[1], start) THEN r[1] ELSE start,
                            IF Lt(end, r[2]) THEN r[2] ELSE end)

InsertLoop(rs, start, end) ==
    LET out  == AbsorbLoop(rs, start, end)
        left == LeftNeighbour(out[1], out[2])
        from == IF left = {} THEN out[2] ELSE (CHOOSE r \in left : TRUE)[1]
    IN  IF Lt(end, start) THEN rs ELSE (out[1] \ left) \cup {<<from, out[3]>>}

\* StoredManagedCursorState: the ranges are written in order, and read back by
\* inserting them one by one into an empty set.
Encode(rs) == SetToSortSeq(rs, LAMBDA r, s : r # s /\ RangeLeq(r, s))

Decode(encoded) == FoldLeft(LAMBDA rs, r : InsertLoop(rs, r[1], r[2]), {}, encoded)

=============================================================================
