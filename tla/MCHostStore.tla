----------------------------- MODULE MCHostStore -----------------------------
(* Instances of HostStore for TLC. *)
EXTENDS HostStore

CONSTANTS g, x, y

\* One entry is framed longer than the other.
ShortThenLong == <<g, x, y>>
TwoWidths == [v \in {g, x, y} |-> IF v = y THEN 2 ELSE 1]
=============================================================================
