------------------------- MODULE MCReconfiguration -------------------------
(***************************************************************************)
(* Instances of Reconfiguration.                                           *)
(***************************************************************************)
EXTENDS Reconfiguration

CONSTANTS a, b, c, d

ABC == {a, b, c}
ABCD == {a, b, c, d}
OrderABC == <<a, b, c>>

Single(ops) == [mode |-> "single", ops |-> ops]
Fused(ops) == [mode |-> "fused", ops |-> ops]
Overlap(ops) == [mode |-> "overlap", ops |-> ops]

Favour(n) == [op |-> "Increment", node |-> n]
Retire(n) == [op |-> "Decrement", node |-> n]
Dismiss(n) == [op |-> "Leave", node |-> n]
Admit(n) == [op |-> "Join", node |-> n, position |-> 1]

\* Members gain, and lose their vote and leave in a batch of two eras; a learner
\* joins through a planned overlap, while the leader serves.
MixedChanges ==
    {Single(<<Favour(a)>>), Fused(<<Retire(c), Dismiss(c)>>), Overlap(<<Admit(d)>>)}

=============================================================================
