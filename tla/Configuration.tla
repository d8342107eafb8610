--------------------------- MODULE Configuration ---------------------------
(***************************************************************************)
(* src/configuration.rs and src/quorum.rs: configurations, the operations  *)
(* that change them, the era table they are kept in, and the quorum gates  *)
(* a change has to pass.                                                   *)
(*                                                                         *)
(* A configuration is an era and the succession order, a sequence of       *)
(* members with their voting weights. What the code returns as a Result or *)
(* an Option is the set of the values it can return: one, or none when the *)
(* call is refused. The sixteen kinds of refusal are not told apart.       *)
(***************************************************************************)
EXTENDS Integers, Sequences, FiniteSets, SequencesExt, FiniteSetsExt

CONSTANTS
    MAX_MEMBERS,    \* the membership cap
    MaxEra          \* the last era number

MAX_WEIGHT == 2

--------------------------------------------------------------------------
(* Configurations.                                                         *)

Members(c) == {c.order[i].node : i \in DOMAIN c.order}

At(c, n) == {i \in DOMAIN c.order : c.order[i].node = n}

\* The units of weight the members hold, and how many of them a set holds. A
\* node that is no member holds none.
Units(c) == UNION {{i} \X (1 .. c.order[i].weight) : i \in DOMAIN c.order}

WeightOfSet(c, S) == Cardinality({u \in Units(c) : c.order[u[1]].node \in S})

WeightOf(c, n) == WeightOfSet(c, {n})

Total(c) == Cardinality(Units(c))

\* The view rotates over the members that vote, in succession order.
Selects(c, view, n) ==
    LET voters == SelectSeq(c.order, LAMBDA m : m.weight # 0)
    IN  voters # <<>> /\ voters[(view % Len(voters)) + 1].node = n

--------------------------------------------------------------------------
(* Quorums. The four roles have one threshold under WeightedMajority. A    *)
(* set with a node the configuration does not know is never a quorum.      *)

\* Mutant: half of the weight is enough.
IsQuorumHalf(c, S) ==
    S \subseteq Members(c) /\ WeightOfSet(c, S) >= Total(c) \div 2

IsQuorum(c, S) ==
    /\ S \subseteq Members(c)
    /\ WeightOfSet(c, S) >= Total(c) \div 2 + 1

\* The scan: a set and its complement, over the members of both.
DisjointQuorumsExist(c, d) ==
    LET universe == Members(c) \cup Members(d)
    IN  \E S \in SUBSET universe : IsQuorum(c, S) /\ IsQuorum(d, universe \ S)

ValidateEra(c) == ~DisjointQuorumsExist(c, c)

ValidateTransition(c, d) ==
    /\ Cardinality(Members(c) \cup Members(d)) <= MAX_MEMBERS
    /\ ~DisjointQuorumsExist(c, d)
    /\ ~DisjointQuorumsExist(d, c)

\* A pivot: a view change quorum of the current era and a commit quorum of
\* both, which share the leader and nobody else.
ValidPivot(c, d, leader, p) ==
    /\ p.q_i \cap p.q_ii = {leader}
    /\ IsQuorum(c, p.q_i)
    /\ IsQuorum(c, p.q_ii)
    /\ IsQuorum(d, p.q_ii)

--------------------------------------------------------------------------
(* One operation within an era: apply_in_era.                              *)

Reweighed(c, i, w) == [c EXCEPT !.order[i].weight = w]

Scaled(c, F(_)) ==
    [c EXCEPT !.order = [i \in DOMAIN c.order |->
                            [c.order[i] EXCEPT !.weight = F(@)]]]

Increment(c, n) ==
    {Reweighed(c, i, c.order[i].weight + 1) :
        i \in {j \in At(c, n) : c.order[j].weight < MAX_WEIGHT}}

Decrement(c, n) ==
    {Reweighed(c, i, c.order[i].weight - 1) :
        i \in {j \in At(c, n) : c.order[j].weight # 0 /\ Total(c) # 1}}

\* A call that answers S when its checks pass.
Provided(checks, S) == IF checks THEN S ELSE {}

Double(c) ==
    Provided(\A i \in DOMAIN c.order : 2 * c.order[i].weight <= MAX_WEIGHT,
             {Scaled(c, LAMBDA w : 2 * w)})

Halve(c) ==
    Provided(\A i \in DOMAIN c.order : c.order[i].weight % 2 = 0,
             {Scaled(c, LAMBDA w : w \div 2)})

Join(c, n, position) ==
    Provided(/\ n \notin Members(c)
             /\ Len(c.order) < MAX_MEMBERS
             /\ position <= Len(c.order),
             {[c EXCEPT !.order = InsertAt(@, position + 1,
                                           [node |-> n, weight |-> 0])]})

Leave(c, n) ==
    {[c EXCEPT !.order = RemoveAt(@, i)] :
        i \in {j \in At(c, n) : c.order[j].weight = 0}}

\* A rider changes no member and no weight.
Nominates(op) == op.op = "Nominate"

ApplyInEra(c, op) ==
    CASE op.op = "Increment" -> Increment(c, op.node)
      [] op.op = "Decrement" -> Decrement(c, op.node)
      [] op.op = "Double"    -> Double(c)
      [] op.op = "Halve"     -> Halve(c)
      [] op.op = "Join"      -> Join(c, op.node, op.position)
      [] op.op = "Leave"     -> Leave(c, op.node)
      [] op.op = "Nominate"  -> Provided(op.offset # 0, {c})
      [] OTHER               -> {}

--------------------------------------------------------------------------
(* Operations that establish an era: apply, apply_batch and fold_slots.    *)

\* Init, the operation of slot 2: every founder weighs one.
Founded(order) ==
    [era |-> 1, order |-> [i \in DOMAIN order |-> [node |-> order[i], weight |-> 1]]]

NextEra(c) == {[c EXCEPT !.era = @ + 1] : e \in {c.era} \ {MaxEra}}

InNextEra(S) == UNION {NextEra(d) : d \in S}

Distance(a, b) == IF a < b THEN b - a ELSE a - b

MassMoved(c, d) ==
    MapThenSumSet(LAMBDA n : Distance(WeightOf(c, n), WeightOf(d, n)),
                  Members(c) \cup Members(d))

Scales(op) == op.op \in {"Double", "Halve"}

\* The operations fold in order, in one era, and move one unit of weight at
\* most. A scaling stands alone.
ApplyBatch(c, ops) ==
    LET alone  == Len(ops) = 1 /\ Scales(ops[1])
        folded == FoldLeft(LAMBDA S, op : UNION {ApplyInEra(d, op) : d \in S},
                           {c}, ops)
    IN  Provided(/\ ops # <<>>
                 /\ alone \/ \A i \in DOMAIN ops : ~Scales(ops[i]),
                 InNextEra({d \in folded : alone \/ MassMoved(c, d) <= 1}))

Apply(c, op) ==
    CASE op.op = "Batch"    -> ApplyBatch(c, op.ops)
      [] op.op = "Nominate" -> {}
      [] OTHER              -> InNextEra(ApplyInEra(c, op))

\* The era each slot of a fused batch is stamped with: the era the slots
\* before it established, and for a rider the stamp of the slot it follows.
FoldSlots(c, ops) ==
    LET Stamp(f, op) == IF Nominates(op) /\ f.eras # <<>>
                        THEN f.eras[Len(f.eras)]
                        ELSE f.config.era
        Onto(f, op)  == {[eras |-> Append(f.eras, Stamp(f, op)), config |-> d] :
                            d \in IF Nominates(op)
                                  THEN ApplyInEra(f.config, op)
                                  ELSE InNextEra(ApplyInEra(f.config, op))}
    IN  FoldLeft(LAMBDA S, op : UNION {Onto(f, op) : f \in S},
                 {[eras |-> <<>>, config |-> c]}, ops)

--------------------------------------------------------------------------
(* The era table: the records of the current era and of the one before.    *)

\* The table after the two genesis slots. Nothing ever names the void era 0, and
\* its record is left out.
Genesis(order) == <<[config |-> Founded(order), at |-> 2, op |-> [op |-> "Init"]]>>

Current(t) == t[Len(t)]

\* The records of an era: one, or none when the era cannot be evaluated.
RecordsOf(t, era) == {r \in Range(t) : r.config.era = era}

\* The records in front whose era is older than the one before c's are drained.
Extend(t, op, at) ==
    LET Pushed(c) == Append(t, [config |-> c, at |-> at, op |-> op])
        Kept(c)   == {i \in DOMAIN Pushed(c) : Pushed(c)[i].config.era + 1 >= c.era}
    IN  {SubSeq(Pushed(c), Min(Kept(c)), Len(t) + 1) : c \in Apply(Current(t).config, op)}

=============================================================================
