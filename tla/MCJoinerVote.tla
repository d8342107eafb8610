--------------------------- MODULE MCJoinerVote ---------------------------
(***************************************************************************)
(* One schedule of Reconfiguration, step by step.  Every step is a step of *)
(* Next of that module; `step` counts them and picks the action.           *)
(*                                                                         *)
(* Two fused batches take the cluster from era 1 to era 5, with a learner  *)
(* admitted by each.  A third change, an overlap, gives the first learner  *)
(* its vote in era 6.  The learner is Joining and has not heard a word: it *)
(* retains the StartView of era 6 and fetches, four entries it has missed  *)
(* in four chunks, and walks its ballot by a successor of its own making   *)
(* with each era.                                                          *)
(***************************************************************************)
EXTENDS MCReconfiguration

CONSTANT e

VARIABLE step

ABCDE == {a, b, c, d, e}

JoinAt(n, p) == [op |-> "Join", node |-> n, position |-> p]

First  == Fused(<<Retire(b), JoinAt(d, 3)>>)
Second == Fused(<<Favour(b), JoinAt(e, 4)>>)
Third  == Overlap(<<Favour(d), Dismiss(e)>>)

JoinerChanges == {First, Second, Third}

\* A fused batch, from step k: both followers accept it and learn its commit.
Round(k, change) ==
    \/ step = k     /\ Ask(change)
    \/ step = k + 1 /\ ReceiveFuse(b)
    \/ step = k + 2 /\ ReceiveFuse(c)
    \/ step = k + 3 /\ ReceiveOk
    \/ step = k + 4 /\ ReceiveCommit(b)
    \/ step = k + 5 /\ ReceiveCommit(c)

\* The overlap, from step k: b votes for it, c answers for the view change.
Handover(k) ==
    \/ step = k     /\ Ask(Third)
    \/ step = k + 1 /\ ReceivePrepare(b)
    \/ step = k + 2 /\ ReceiveOk
    \/ step = k + 3 /\ ReceivePlannedViewChange(c)
    \/ step = k + 4 /\ ReceivePlannedEvidence

\* The joiner, from step k: it retains the StartView and fetches chunk by chunk.
CatchUp(k) ==
    \/ step = k /\ ReceiveStartView(d)
    \/ step > k /\ (step - k) % 2 = 1 /\ ServeState
    \/ step > k /\ (step - k) % 2 = 0 /\ ReceiveNewState(d)

JoinerInit == Init /\ step = 0

JoinerNext ==
    /\ Round(0, First) \/ Round(6, Second) \/ Handover(12) \/ CatchUp(17)
    /\ step' = step + 1

JoinerSpec == JoinerInit /\ [][JoinerNext]_<<vars, step>>

=============================================================================
