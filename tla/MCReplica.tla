------------------------------ MODULE MCReplica ------------------------------
(* Instances of Replica for TLC. *)
EXTENDS Replica

Three == {1, 2, 3}
ThreeOrder == <<1, 2, 3>>

\* WeightedMajority over nodes of weight one.
Majority(S) == {Q \in SUBSET S : 2 * Cardinality(Q) > Cardinality(S)}
ThreeQuorum == Majority(Three)

Two == {1, 2}
TwoOrder == <<1, 2>>
TwoQuorum == Majority(Two)

AllTags == {"Prepare", "PrepareOk", "Commit", "StartViewChange",
            "DoViewChange", "StartView", "GetState", "NewState"}
NoTransfer == AllTags \ {"GetState", "NewState"}
=============================================================================
