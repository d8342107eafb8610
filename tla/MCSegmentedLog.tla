--------------------------- MODULE MCSegmentedLog ----------------------------
(* An instance of SegmentedLog for TLC. *)
EXTENDS SegmentedLog

\* Every run of one to three entries, one batch with a gap, and the empty one.
Run(s, ops) == [k \in 1 .. Len(ops) |-> [slot |-> s + k - 1, op |-> ops[k]]]
Values == UNION {[1 .. n -> Op] : n \in 1 .. 3}
Runs ==
    {Run(s, ops) : s \in 1 .. MaxSlot, ops \in Values}
    \cup {<<>>, Run(1, <<1>>) \o Run(3, <<1>>)}
Offers == {es \in Runs : \A k \in 1 .. Len(es) : es[k].slot <= MaxSlot}
=============================================================================
