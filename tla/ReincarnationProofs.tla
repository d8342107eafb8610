------------------------- MODULE ReincarnationProofs -------------------------
(***************************************************************************)
(* The chain of eras that the two machines of a leader propose, for every  *)
(* number of nodes and lives and every plan. The inductive invariant types *)
(* the eras, ties the view and the batch in flight to the last of them     *)
(* (ViewOK), and ties each armed plan to the eras its holder knows         *)
(* (ArmedOK with PlanInOrder): a machine that stood still while others     *)
(* led is behind them, never ahead.                                        *)
(*                                                                         *)
(* A batch is what a configuration's forced sequence starts with, or a     *)
(* step of a plan, and both are sequences of operations over identities    *)
(* (RemainingTyped, through the partitioner). That makes                   *)
(* BatchQuorumsMeet of ConfigurationProofs apply to every era chosen.      *)
(***************************************************************************)
EXTENDS Reincarnation, ConfigurationProofs

\* What the leader proposes for one era.
Batch == Seq(Operation)

\* Batches are over the identities.
LEMMA BatchOver ==
  ASSUME NEW ops \in Batch
  PROVE  OpsOver(Identity, ops)
  <1>1. \A op \in Operation : op.op = "Join" => op.node \in Identity /\ op.position \in Nat
    BY DEF Operation
  <1>2. \A i \in DOMAIN ops : ops[i] \in Operation
    BY DEF Batch
  <1> QED
    BY <1>1, <1>2 DEF OpsOver

\* What two sequences hold, one after the other.
LEMMA Joined ==
  ASSUME NEW S, NEW s \in Seq(S), NEW t \in Seq(S)
  PROVE  s \o t \in Seq(S)
  OBVIOUS

\* The operations that the sequences are made of.
LEMMA OperationsTyped ==
  /\ \A n \in Identity : Inc(n) \in Operation /\ Dec(n) \in Operation /\ Exit(n) \in Operation
  /\ [op |-> "Double"] \in Operation /\ [op |-> "Halve"] \in Operation
  BY DEF Inc, Dec, Exit, Operation

\* The place a newcomer takes.
LEMMA JoinTyped ==
  ASSUME NEW c \in Configs(Identity), NEW old \in Identity, NEW new \in Identity
  PROVE  JoinFor(c, old, new) \in Operation
  <1>1. Len(c.order) \in Nat /\ DOMAIN c.order = 1 .. Len(c.order)
    BY OrderType
  <1>2. ASSUME old \in Members(c) PROVE Max(At(c, old)) - 1 \in Nat
    <2>1. At(c, old) \in SUBSET (1 .. Len(c.order)) /\ At(c, old) # {}
      BY <1>1, <1>2 DEF At, Members
    <2>2. Max(At(c, old)) \in 1 .. Len(c.order)
      BY <1>1, <2>1, MaxIn
    <2> QED
      BY <1>1, <2>2
  <1>3. \A k \in Nat : [op |-> "Join", node |-> new, position |-> k] \in Operation
    BY DEF Operation
  <1> QED
    BY <1>1, <1>2, <1>3 DEF JoinFor

\* What a batch makes of a configuration.
LEMMA BatchTyped ==
  ASSUME NEW c \in Configs(Identity), NEW ops \in Batch, NEW d \in ApplyBatch(c, ops)
  PROVE  /\ d \in Configs(Identity) /\ d.era = c.era + 1 /\ ValidateEra(d)
         /\ Cardinality(Members(c) \cup Members(d)) <= MAX_MEMBERS =>
               ValidateTransition(c, d)
  <1>1. OpsOver(Identity, ops) /\ ops \in Seq(Operation)
    BY BatchOver DEF Batch
  <1> QED
    BY <1>1, BatchQuorumsMeet

\* Its quorums meet those of the configuration it came of.
LEMMA BatchMeets ==
  ASSUME NEW c \in Configs(Identity), NEW ops \in Batch, NEW d \in ApplyBatch(c, ops)
  PROVE  Meet(c, d)
  <1>1. OpsOver(Identity, ops) /\ ops \in Seq(Operation)
    BY BatchOver DEF Batch
  <1> QED
    BY <1>1, BatchQuorumsMeet

-----------------------------------------------------------------------------
(* The partitioner.                                                        *)

\* The partitioner's state.
Cuts == [steps : Seq(Batch), start : Configs(Identity), taken : Batch,
         reached : Configs(Identity)]

\* One operation more.
LEMMA CutTyped ==
  ASSUME NEW s \in Cuts, NEW op \in Operation
  PROVE  Onto(s, op) \subseteq Cuts /\ Closed(s, op) \subseteq Cuts
  <1>1. /\ Append(s.taken, op) \in Batch /\ <<op>> \in Batch
        /\ Append(s.steps, s.taken) \in Seq(Batch)
    BY DEF Batch, Cuts
  <1>2. s = [steps |-> s.steps, start |-> s.start, taken |-> s.taken, reached |-> s.reached]
    BY DEF Cuts
  <1>3. s.start \in Configs(Identity) /\ s.reached \in Configs(Identity)
    BY DEF Cuts
  <1>4. \A d \in ApplyBatch(s.start, Append(s.taken, op)) : d \in Configs(Identity)
    BY <1>1, <1>3, BatchTyped
  <1>5. \A d \in ApplyBatch(s.reached, <<op>>) : d \in Configs(Identity)
    BY <1>1, <1>3, BatchTyped
  <1>6. Onto(s, op) \subseteq Cuts
    <2> SUFFICES ASSUME NEW d \in ApplyBatch(s.start, Append(s.taken, op))
                 PROVE  [s EXCEPT !.taken = Append(s.taken, op), !.reached = d] \in Cuts
      BY DEF Onto
    <2>1. d \in Configs(Identity) /\ Append(s.taken, op) \in Batch
      BY <1>1, <1>4
    <2>2. \A x \in Batch, e \in Configs(Identity) :
             [s EXCEPT !.taken = x, !.reached = e] \in Cuts
      BY DEF Cuts
    <2> QED
      BY <2>1, <2>2
  <1>7. Closed(s, op) \subseteq Cuts
    <2> SUFFICES ASSUME NEW d \in ApplyBatch(s.reached, <<op>>)
                 PROVE  [steps |-> Append(s.steps, s.taken), start |-> s.reached,
                         taken |-> <<op>>, reached |-> d] \in Cuts
      BY DEF Closed, Provided
    <2> QED
      BY <1>1, <1>3, <1>5 DEF Cuts
  <1> QED
    BY <1>6, <1>7

\* The stream is cut into batches.
LEMMA PartitionTyped ==
  ASSUME NEW c \in Configs(Identity), NEW ops \in Batch
  PROVE  Partition(c, ops) \subseteq Seq(Batch)
  <1> DEFINE before == [steps |-> <<>>, start |-> c, taken |-> <<>>, reached |-> c]
             Taken(s, op) ==
                UNION {IF more # {} THEN more ELSE Closed(s, op) : more \in {Onto(s, op)}}
             Advance(i, v) == UNION {Taken(s, ops[i]) : s \in v}
             Solves(g, n) == g = [i \in 0 .. n |->
                                    IF i = 0 THEN {before} ELSE Advance(i, g[i - 1])]
             n == Len(ops)
             f == CHOOSE g : Solves(g, n)
  <1>1. n \in Nat /\ \A i \in 1 .. n : ops[i] \in Operation
    BY DEF Batch
  <1>2. before \in Cuts
    BY DEF Cuts, Batch
  <1>3. ASSUME NEW s \in Cuts, NEW op \in Operation PROVE Taken(s, op) \subseteq Cuts
    BY CutTyped
  <1>4. Partition(c, ops) = {IF s.taken = <<>> THEN s.steps ELSE Append(s.steps, s.taken) :
                                s \in f[n]}
    BY DEF Partition
  <1> HIDE DEF n, before, Taken
  <1>5. \E g : Solves(g, n)
    <2> DEFINE T == {k \in Nat : \E g : Solves(g, k)}
    <2> HIDE DEF Advance
    <2>1. 0 \in T
      <3> DEFINE g == [i \in 0 .. 0 |-> {before}]
      <3>1. g = [i \in 0 .. 0 |-> IF i = 0 THEN {before} ELSE Advance(i, g[i - 1])]
        OBVIOUS
      <3>2. Solves(g, 0)
        BY <3>1
      <3> HIDE DEF g, Solves
      <3> QED
        BY <3>2
    <2>2. ASSUME NEW k \in T PROVE k + 1 \in T
      <3>1. PICK g : Solves(g, k)
        OBVIOUS
      <3> DEFINE h == [i \in 0 .. k + 1 |-> IF i = 0 THEN {before} ELSE Advance(i, g[i - 1])]
      <3>2. \A i \in 0 .. k : h[i] = g[i]
        <4>1. \A i \in 0 .. k : g[i] = IF i = 0 THEN {before} ELSE Advance(i, g[i - 1])
          BY <3>1, Zenon
        <4>2. \A i \in 0 .. k : i \in 0 .. k + 1
          OBVIOUS
        <4>3. \A i \in 0 .. k : h[i] = IF i = 0 THEN {before} ELSE Advance(i, g[i - 1])
          BY <4>2, Zenon
        <4> QED
          BY <4>1, <4>3, Zenon
      <3>3. \A i \in 0 .. k + 1 : h[i] = IF i = 0 THEN {before} ELSE Advance(i, h[i - 1])
        <4> SUFFICES ASSUME NEW i \in 0 .. k + 1
                     PROVE  h[i] = IF i = 0 THEN {before} ELSE Advance(i, h[i - 1])
          OBVIOUS
        <4>1. h[i] = IF i = 0 THEN {before} ELSE Advance(i, g[i - 1])
          BY Zenon
        <4>2. i # 0 => i - 1 \in 0 .. k
          OBVIOUS
        <4> HIDE DEF h
        <4> QED
          BY <3>2, <4>1, <4>2
      <3>4. h = [i \in 0 .. k + 1 |-> h[i]]
        BY Zenon
      <3> HIDE DEF h
      <3>5. h = [i \in 0 .. k + 1 |-> IF i = 0 THEN {before} ELSE Advance(i, h[i - 1])]
        BY <3>3, <3>4, Zenon
      <3>6. Solves(h, k + 1)
        BY <3>5
      <3> HIDE DEF Solves
      <3> QED
        BY <3>6
    <2> HIDE DEF T
    <2>3. T = Nat
      BY <2>1, <2>2, SetInduction DEF T
    <2> QED
      BY <1>1, <2>3 DEF T
  <1>6. Solves(f, n)
    BY <1>5
  <1> HIDE DEF f
  <1>7. \A i \in 0 .. n : f[i] = IF i = 0 THEN {before} ELSE Advance(i, f[i - 1])
    BY <1>6, Zenon
  <1> HIDE DEF Solves
  <1> DEFINE T == {k \in Nat : k \in 0 .. n => f[k] \subseteq Cuts}
  <1>8. T = Nat
    <2>1. 0 \in T
      BY <1>1, <1>2, <1>7
    <2>2. ASSUME NEW k \in T, k + 1 \in 0 .. n PROVE f[k + 1] \subseteq Cuts
      <3>1. f[k + 1] = Advance(k + 1, f[k])
        <4>1. k + 1 # 0 /\ (k + 1) - 1 = k
          OBVIOUS
        <4> HIDE DEF Advance
        <4> QED
          BY <1>7, <2>2, <4>1
      <3>2. f[k] \subseteq Cuts /\ ops[k + 1] \in Operation
        BY <1>1, <2>2
      <3>3. \A s \in f[k] : Taken(s, ops[k + 1]) \subseteq Cuts
        BY <1>3, <3>2
      <3> QED
        BY <3>1, <3>3
    <2>3. \A k \in T : k + 1 \in T
      BY <2>2
    <2> HIDE DEF T
    <2> QED
      BY <2>1, <2>3, SetInduction DEF T
  <1>9. f[n] \subseteq Cuts
    BY <1>1, <1>8
  <1>10. ASSUME NEW s \in Cuts
         PROVE  (IF s.taken = <<>> THEN s.steps ELSE Append(s.steps, s.taken)) \in Seq(Batch)
    BY DEF Cuts
  <1> QED
    BY <1>4, <1>9, <1>10

-----------------------------------------------------------------------------
(* The forced sequence.                                                    *)

\* Nothing, or the operations.
LEMMA WhenTyped ==
  ASSUME NEW S, NEW ops \in Seq(S), NEW condition
  PROVE  When(condition, ops) \in Seq(S)
  BY DEF When

\* A run of one element.
LEMMA RunTyped ==
  ASSUME NEW S, NEW w \in Nat, NEW g \in [1 .. w -> S]
  PROVE  g \in Seq(S)
  OBVIOUS

\* The rows of the five-node table.
LEMMA FiveTyped ==
  ASSUME NEW c \in Configs(Identity), NEW old \in Identity, NEW new \in Identity
  PROVE  FiveNodeWeightedSteps(c, old, new) \subseteq Seq(Batch)
  <1> DEFINE survivors == {i \in DOMAIN c.order : c.order[i].node \notin {old, new}}
             All(v) == \A i \in survivors : c.order[i].weight = v
             unit == All(1) /\ WeightOf(c, old) = 1 /\ new \notin Members(c)
             w == IF unit THEN 2 ELSE WeightOf(c, old)
             run == [i \in 1 .. w |-> Dec(old)]
             ops == When(unit, <<[op |-> "Double"]>>)
                    \o When(new \notin Members(c), <<JoinFor(c, old, new)>>)
                    \o When(~Votes(c, new), <<Inc(new)>>)
                    \o When(old \in Members(c), run \o <<Exit(old)>>)
                    \o When(WeightOf(c, new) <= 1, <<Inc(new)>>)
                    \o <<[op |-> "Halve"]>>
  <1>1. FiveNodeWeightedSteps(c, old, new)
        \subseteq UNION {Partition(c, stream) : stream \in {ops}}
    BY DEF FiveNodeWeightedSteps, Provided
  <1>2. w \in Nat
    BY UnitSet DEF WeightOf
  <1> HIDE DEF survivors, All, unit, w
  <1>3. /\ Dec(old) \in Operation /\ Exit(old) \in Operation /\ Inc(new) \in Operation
        /\ [op |-> "Double"] \in Operation /\ [op |-> "Halve"] \in Operation
        /\ JoinFor(c, old, new) \in Operation
    BY OperationsTyped, JoinTyped
  <1>4. /\ <<[op |-> "Double"]>> \in Batch /\ <<[op |-> "Halve"]>> \in Batch
        /\ <<JoinFor(c, old, new)>> \in Batch /\ <<Inc(new)>> \in Batch
        /\ <<Exit(old)>> \in Batch
    BY <1>3 DEF Batch
  <1>5. run \in Batch
    BY <1>2, <1>3, RunTyped DEF Batch
  <1> HIDE DEF run
  <1>6. run \o <<Exit(old)>> \in Batch
    BY <1>4, <1>5, Joined DEF Batch
  <1>7. /\ When(unit, <<[op |-> "Double"]>>) \in Batch
        /\ When(new \notin Members(c), <<JoinFor(c, old, new)>>) \in Batch
        /\ When(~Votes(c, new), <<Inc(new)>>) \in Batch
        /\ When(old \in Members(c), run \o <<Exit(old)>>) \in Batch
        /\ When(WeightOf(c, new) <= 1, <<Inc(new)>>) \in Batch
    BY <1>4, <1>6 DEF When, Batch
  <1>8. \A s, t \in Batch : s \o t \in Batch
    BY Joined DEF Batch
  <1>9. ops \in Batch
    BY <1>4, <1>7, <1>8, Zenon
  <1> HIDE DEF ops
  <1> QED
    BY <1>1, <1>9, PartitionTyped

\* The lowering.
LEMMA LoweringTyped ==
  ASSUME NEW c \in Configs(Identity), NEW old \in Identity, NEW new \in Identity
  PROVE  Lowering(c, old, new) \in Seq(Batch)
  <1> DEFINE crossing == <<Dec(old)>> \o When(new \notin Members(c), <<JoinFor(c, old, new)>>)
             w == WeightOf(c, old)
  <1>1. w \in Nat
    BY UnitSet DEF WeightOf
  <1>2. Dec(old) \in Operation /\ JoinFor(c, old, new) \in Operation
    BY OperationsTyped, JoinTyped
  <1>3. <<Dec(old)>> \in Batch /\ <<JoinFor(c, old, new)>> \in Batch
    BY <1>2 DEF Batch
  <1>4. When(new \notin Members(c), <<JoinFor(c, old, new)>>) \in Batch
    BY <1>3, WhenTyped DEF Batch
  <1>5. crossing \in Batch
    BY <1>3, <1>4, Joined DEF Batch
  <1>6. Lowering(c, old, new) = [i \in 1 .. w |-> IF i < w THEN <<Dec(old)>> ELSE crossing]
    BY DEF Lowering
  <1> HIDE DEF crossing, w
  <1>7. [i \in 1 .. w |-> IF i < w THEN <<Dec(old)>> ELSE crossing] \in [1 .. w -> Batch]
    BY <1>3, <1>5
  <1> QED
    BY <1>1, <1>6, <1>7, RunTyped

\* The closing match.
LEMMA ClosingTyped ==
  ASSUME NEW c \in Configs(Identity), NEW old \in Identity, NEW new \in Identity
  PROVE  Closing(c, old, new) \in Seq(Batch)
  <1> DEFINE stays == old \in Members(c)
             joined == new \in Members(c) \/ WeightOf(c, old) >= 1
  <1>1. /\ Exit(old) \in Operation /\ Inc(new) \in Operation
        /\ JoinFor(c, old, new) \in Operation
    BY OperationsTyped, JoinTyped
  <1>2. /\ <<Exit(old)>> \in Batch /\ <<Inc(new)>> \in Batch
        /\ <<Inc(new), Exit(old)>> \in Batch /\ <<JoinFor(c, old, new)>> \in Batch
    BY <1>1 DEF Batch
  <1>3. <<JoinFor(c, old, new)>> \o When(stays, <<Exit(old)>>) \in Batch
    <2>1. When(stays, <<Exit(old)>>) \in Batch
      BY <1>2, WhenTyped DEF Batch
    <2> QED
      BY <1>2, <2>1, Joined DEF Batch
  <1>4. Closing(c, old, new) \in {<<<<Exit(old)>>>>, <<>>, <<<<Inc(new), Exit(old)>>>>,
           <<<<Inc(new)>>>>,
           <<<<JoinFor(c, old, new)>> \o When(stays, <<Exit(old)>>), <<Inc(new)>>>>}
    BY Zenon DEF Closing
  <1>5. \A x, y \in Batch : <<>> \in Seq(Batch) /\ <<x>> \in Seq(Batch) /\ <<x, y>> \in Seq(Batch)
    OBVIOUS
  <1> QED
    BY <1>2, <1>3, <1>4, <1>5

\* What is left of a replacement is a sequence of batches.
LEMMA RemainingTyped ==
  ASSUME NEW c \in Configs(Identity), NEW p \in Pairs
  PROVE  Remaining(c, p) \subseteq Seq(Batch)
  <1>1. p.old \in Identity /\ p.new \in Identity
    <2>1. PICK n \in Crashable, l \in 1 .. MaxLife :
             p = [old |-> <<n, l - 1>>, new |-> <<n, l>>]
      BY DEF Pairs
    <2>2. n \in Node /\ l \in 0 .. MaxLife /\ l - 1 \in 0 .. MaxLife
      BY ReincarnationAssumption
    <2> QED
      BY <2>1, <2>2 DEF Identity
  <1>2. FiveNodeWeightedSteps(c, p.old, p.new) \subseteq Seq(Batch)
    BY <1>1, FiveTyped
  <1>3. Lowering(c, p.old, p.new) \o Closing(c, p.old, p.new) \in Seq(Batch)
    BY <1>1, LoweringTyped, ClosingTyped, Joined
  <1> QED
    BY <1>2, <1>3 DEF Remaining, ForcedSteps

-----------------------------------------------------------------------------
(* The inductive invariant.                                                *)

\* A plan in execution.
Machines == [steps : Seq(Batch), next : Nat, since : Nat]

\* The eras are typed, and numbered as they were chosen.
HistoryOK ==
    /\ history \in Seq([config : Configs(Identity), ops : Batch])
    /\ Len(history) >= 1
    /\ \A k \in 1 .. Chosen : history[k].config.era = k

\* Views, and the batch in flight, are of the last era or the one before.
ViewOK ==
    /\ flight \in Batch
    /\ era \in 1 .. Chosen /\ Chosen <= era + 1
    /\ flight = <<>> \/ era = Chosen
    /\ leader = {} \/ \E n \in Identity : leader = {n}
    /\ leader \subseteq Running
    /\ known \in [Identity -> 1 .. Chosen]
    /\ \A n \in leader : known[n] >= era

\* What the machines hold.
ArmedOK ==
    /\ lives \in [Node -> 0 .. MaxLife]
    /\ forced \in [Identity -> SUBSET Pairs]
    /\ planned \in [Identity -> SUBSET Machines]
    /\ \A n \in Identity : \A m \in planned[n] :
          m.next \in DOMAIN m.steps /\ m.since \in 1 .. known[n]

\* A quorum of an era meets every quorum of the era itself and of the one
\* that follows.
ErasMeet ==
    \A k \in 1 .. Chosen :
        /\ ValidateEra(history[k].config)
        /\ k > 1 => Meet(history[k - 1].config, history[k].config)

IInv == HistoryOK /\ ViewOK /\ ArmedOK /\ ErasMeet /\ PlanInOrder

\* The identities that run are identities.
LEMMA RunningIdentities ==
  ASSUME lives \in [Node -> 0 .. MaxLife]
  PROVE  Running \subseteq Identity
  BY DEF Running, Now, Identity

\* What a leader knows is an era.
LEMMA ConfigTyped ==
  ASSUME HistoryOK, ViewOK, NEW n \in Identity
  PROVE  /\ known[n] \in 1 .. Chosen /\ Chosen \in Nat /\ Chosen >= 1
         /\ ConfigOf(n) \in Configs(Identity) /\ ConfigOf(n).era = known[n]
  <1>1. Chosen \in Nat /\ Chosen >= 1 /\ known[n] \in 1 .. Chosen
    BY DEF HistoryOK, ViewOK, Chosen
  <1>2. history[known[n]] \in [config : Configs(Identity), ops : Batch]
    <2> DEFINE R == [config : Configs(Identity), ops : Batch]
    <2>1. history \in Seq(R) /\ Chosen = Len(history)
      BY DEF HistoryOK, Chosen
    <2> HIDE DEF R
    <2>2. history[known[n]] \in R
      BY <1>1, <2>1
    <2> QED
      BY <2>2 DEF R
  <1>3. history[known[n]].config.era = known[n]
    BY <1>1 DEF HistoryOK
  <1> QED
    BY <1>1, <1>2, <1>3 DEF ConfigOf

\* Leaders are identities.
LEMMA LeaderTyped ==
  ASSUME ViewOK, ArmedOK
  PROVE  leader \subseteq Identity
  BY RunningIdentities DEF ViewOK, ArmedOK

\* At the start the founders vote.
LEMMA InitOK == Init => IInv
  <1> SUFFICES ASSUME Init PROVE IInv
    OBVIOUS
  <1> DEFINE order == [i \in DOMAIN Founders |-> <<Founders[i], 0>>]
             c == Founded(order)
  <1>1. /\ Founders \in Seq(Node) /\ Len(Founders) \in Nat /\ Len(Founders) >= 1
        /\ DOMAIN Founders = 1 .. Len(Founders)
        /\ \A i \in 1 .. Len(Founders) : Founders[i] \in Node
        /\ MaxLife \in Nat
    BY ReincarnationAssumption
  <1>2. \A i \in 1 .. Len(Founders) : order[i] \in Identity
    BY <1>1 DEF Identity
  <1>3. c \in Configs(Identity) /\ c.era = 1
    <2> DEFINE o == [i \in DOMAIN order |-> [node |-> order[i], weight |-> 1]]
    <2>1. DOMAIN order = 1 .. Len(Founders)
      BY <1>1
    <2> HIDE DEF order
    <2>2. o \in [1 .. Len(Founders) -> [node : Identity, weight : 0 .. 2]]
      BY <1>2, <2>1
    <2>3. o \in Seq([node : Identity, weight : 0 .. 2])
      BY <1>1, <2>2, RunTyped
    <2>4. c = [era |-> 1, order |-> o]
      BY DEF Founded
    <2> HIDE DEF o
    <2> QED
      BY <2>3, <2>4 DEF Configs, MAX_WEIGHT
  <1>4. history = <<[config |-> c, ops |-> <<>>]>>
    BY DEF Init
  <1> HIDE DEF c
  <1>5. Chosen = 1 /\ history[1].config = c
    BY <1>4 DEF Chosen
  <1>6. HistoryOK
    <2>1. <<>> \in Batch
      BY DEF Batch
    <2> QED
      BY <1>3, <1>4, <1>5, <2>1 DEF HistoryOK, Chosen
  <1>7. <<Founders[1], 0>> \in Identity
    BY <1>1 DEF Identity
  <1>8. ViewOK
    <2>1. leader = {<<Founders[1], 0>>} /\ lives = [n \in Node |-> 0]
      BY DEF Init
    <2>2. leader \subseteq Running
      <3>1. Now(Founders[1]) = <<Founders[1], 0>>
        BY <1>1, <2>1 DEF Now
      <3> QED
        BY <1>1, <2>1, <3>1 DEF Running
    <2>3. known = [n \in Identity |-> 1] /\ flight = <<>> /\ era = 1
      BY DEF Init
    <2> QED
      BY <1>5, <1>7, <2>1, <2>2, <2>3 DEF ViewOK, Batch
  <1>9. ArmedOK
    BY <1>1 DEF Init, ArmedOK
  <1>10. ErasMeet
    <2>1. ValidateEra(c)
      BY <1>3, EraQuorumsMeet
    <2> QED
      BY <1>5, <2>1 DEF ErasMeet
  <1>11. PlanInOrder
    BY DEF Init, PlanInOrder
  <1> QED
    BY <1>6, <1>8, <1>9, <1>10, <1>11 DEF IInv

-----------------------------------------------------------------------------
(* The machines, while the log grows.                                      *)

\* The steps before the machine's next one are among the first k eras of h.
Counted(m, k, h) ==
    \E at \in [1 .. m.next - 1 -> m.since + 1 .. k] :
        \A i \in DOMAIN at :
            /\ h[at[i]].ops = m.steps[i]
            /\ \A j \in 1 .. i - 1 : at[j] < at[i]

\* The property, machine by machine.
LEMMA OrderCounted ==
  PlanInOrder <=> \A n \in Identity : \A m \in planned[n] : Counted(m, known[n], history)
  BY DEF PlanInOrder, Counted

\* More eras count no less.
LEMMA CountedMore ==
  ASSUME NEW m \in Machines, NEW k \in Nat, NEW l \in Nat, k <= l, NEW h, NEW g,
         \A i \in 1 .. k : g[i] = h[i], Counted(m, k, h)
  PROVE  Counted(m, l, g)
  <1>1. PICK at \in [1 .. m.next - 1 -> m.since + 1 .. k] :
           \A i \in DOMAIN at :
               /\ h[at[i]].ops = m.steps[i]
               /\ \A j \in 1 .. i - 1 : at[j] < at[i]
    BY DEF Counted
  <1>2. m.since \in Nat
    BY DEF Machines
  <1>3. at \in [1 .. m.next - 1 -> m.since + 1 .. l]
    BY <1>1, <1>2
  <1>4. \A i \in DOMAIN at : at[i] \in 1 .. k
    BY <1>1, <1>2
  <1>5. \A i \in DOMAIN at :
           /\ g[at[i]].ops = m.steps[i]
           /\ \A j \in 1 .. i - 1 : at[j] < at[i]
    BY <1>1, <1>4
  <1> QED
    BY <1>3, <1>5, Zenon DEF Counted

\* The era that holds the machine's step counts it.
LEMMA CountedNext ==
  ASSUME NEW m \in Machines, NEW k \in Nat, NEW h, m.since <= k, m.next >= 1,
         Counted(m, k, h), h[k + 1].ops = m.steps[m.next]
  PROVE  Counted([m EXCEPT !.next = m.next + 1], k + 1, h)
  <1>1. PICK at \in [1 .. m.next - 1 -> m.since + 1 .. k] :
           \A i \in DOMAIN at :
               /\ h[at[i]].ops = m.steps[i]
               /\ \A j \in 1 .. i - 1 : at[j] < at[i]
    BY DEF Counted
  <1>2. m.since \in Nat /\ m.next \in Nat
    BY DEF Machines
  <1> DEFINE w == [m EXCEPT !.next = m.next + 1]
             to == [i \in 1 .. m.next |-> IF i = m.next THEN k + 1 ELSE at[i]]
  <1>3. w.next - 1 = m.next /\ w.since = m.since /\ w.steps = m.steps
    BY <1>2 DEF Machines
  <1> HIDE DEF w
  <1>4. \A i \in 1 .. m.next - 1 : at[i] \in m.since + 1 .. k
    BY <1>1
  <1>5. \A i \in 1 .. m.next : i = m.next \/ i \in 1 .. m.next - 1
    BY <1>2
  <1>6. to \in [1 .. m.next -> m.since + 1 .. k + 1]
    BY <1>2, <1>4, <1>5
  <1>7. ASSUME NEW i \in 1 .. m.next
        PROVE  h[to[i]].ops = m.steps[i] /\ \A j \in 1 .. i - 1 : to[j] < to[i]
    <2>1. CASE i = m.next
      <3>1. to[i] = k + 1
        BY <2>1
      <3>2. ASSUME NEW j \in 1 .. i - 1 PROVE to[j] < to[i]
        <4>1. j \in 1 .. m.next - 1 /\ j \in 1 .. m.next /\ j # m.next
          BY <1>2, <2>1
        <4>2. to[j] = at[j]
          BY <4>1
        <4> HIDE DEF to
        <4> QED
          BY <1>2, <1>4, <3>1, <4>1, <4>2
      <3> QED
        BY <2>1, <3>1, <3>2
    <2>2. CASE i \in 1 .. m.next - 1
      <3>1. to[i] = at[i] /\ i \in DOMAIN at
        BY <1>1, <1>2, <2>2
      <3>2. ASSUME NEW j \in 1 .. i - 1 PROVE to[j] = at[j]
        BY <1>2, <2>2
      <3> QED
        BY <1>1, <3>1, <3>2
    <2> QED
      BY <1>5, <2>1, <2>2
  <1>8. DOMAIN to = 1 .. m.next
    OBVIOUS
  <1> HIDE DEF to
  <1>9. /\ to \in [1 .. w.next - 1 -> w.since + 1 .. k + 1]
        /\ \A i \in DOMAIN to :
               /\ h[to[i]].ops = w.steps[i]
               /\ \A j \in 1 .. i - 1 : to[j] < to[i]
    BY <1>3, <1>6, <1>7, <1>8
  <1>10. Counted(w, k + 1, h)
    BY <1>9, Zenon DEF Counted
  <1> QED
    BY <1>10 DEF w

\* A machine that was armed stays counted, and so does a new one that is.
LEMMA MachinesKept ==
  ASSUME IInv, HistoryOK', ViewOK',
         Chosen' >= Chosen, \A k \in 1 .. Chosen : history'[k] = history[k],
         \A n \in Identity : known'[n] >= known[n],
         lives' \in [Node -> 0 .. MaxLife], forced' \in [Identity -> SUBSET Pairs],
         planned' \in [Identity -> SUBSET Machines],
         \A n \in Identity : \A m \in planned'[n] :
            \/ m \in planned[n]
            \/ /\ m.next \in DOMAIN m.steps /\ m.since \in 1 .. known'[n]
               /\ Counted(m, known'[n], history')
  PROVE  ArmedOK' /\ PlanInOrder'
  <1>1. \A n \in Identity : /\ known[n] \in 1 .. Chosen /\ known'[n] \in 1 .. Chosen'
                            /\ Chosen \in Nat /\ Chosen' \in Nat
    BY DEF IInv, HistoryOK, ViewOK, Chosen
  <1>2. \A n \in Identity : \A m \in planned[n] :
           m \in Machines /\ Counted(m, known[n], history)
    BY OrderCounted DEF IInv, ArmedOK
  <1>3. ASSUME NEW n \in Identity, NEW m \in planned'[n]
        PROVE  /\ m.next \in DOMAIN m.steps /\ m.since \in 1 .. known'[n]
               /\ Counted(m, known'[n], history')
    <2>1. CASE m \in planned[n]
      <3>1. m.next \in DOMAIN m.steps /\ m.since \in 1 .. known[n]
        BY <2>1 DEF IInv, ArmedOK
      <3>2. m.since \in 1 .. known'[n]
        BY <1>1, <3>1
      <3>3. \A i \in 1 .. known[n] : history'[i] = history[i]
        BY <1>1
      <3>4. Counted(m, known'[n], history')
        BY <1>1, <1>2, <2>1, <3>3, CountedMore
      <3> QED
        BY <3>1, <3>2, <3>4
    <2> QED
      BY <2>1
  <1>4. ArmedOK'
    BY <1>3 DEF ArmedOK
  <1>5. PlanInOrder'
    <2>1. \A n \in Identity : \A m \in planned'[n] : Counted(m, known'[n], history')
      BY <1>3
    <2>2. (PlanInOrder <=> \A n \in Identity : \A m \in planned[n] :
              Counted(m, known[n], history))'
      BY OrderCounted, PTL
    <2> QED
      BY <2>1, <2>2
  <1> QED
    BY <1>4, <1>5

-----------------------------------------------------------------------------
(* The steps.                                                              *)

\* A proposal puts a batch into flight, and changes nothing else of the log.
LEMMA ProposesKeeps ==
  ASSUME IInv, NEW n \in leader, NEW ops \in Batch, Proposes(n, ops), UNCHANGED lives
  PROVE  /\ HistoryOK' /\ ViewOK' /\ ErasMeet'
         /\ UNCHANGED <<history, era, leader, known>>
  <1>1. /\ known[n] = era /\ known[n] = Chosen
        /\ flight' = ops /\ UNCHANGED <<history, era, leader, known>>
    BY DEF Proposes, Plannable
  <1>2. Chosen' = Chosen /\ Running' = Running
    BY <1>1 DEF Chosen, Running, Now
  <1>3. HistoryOK'
    BY <1>1, <1>2 DEF IInv, HistoryOK
  <1>4. ViewOK'
    BY <1>1, <1>2 DEF IInv, ViewOK
  <1>5. ErasMeet'
    BY <1>1, <1>2 DEF IInv, ErasMeet
  <1> QED
    BY <1>1, <1>3, <1>4, <1>5

\* A step that leaves the log alone.
LEMMA LogKept ==
  ASSUME IInv, UNCHANGED <<logVars, lives>>
  PROVE  /\ HistoryOK' /\ ViewOK' /\ ErasMeet'
         /\ UNCHANGED <<history, era, leader, known>>
  <1>1. UNCHANGED <<history, flight, era, leader, known>>
    BY DEF logVars
  <1>2. Chosen' = Chosen /\ Running' = Running
    BY <1>1 DEF Chosen, Running, Now
  <1>3. HistoryOK'
    BY <1>1, <1>2 DEF IInv, HistoryOK
  <1>4. ViewOK'
    BY <1>1, <1>2 DEF IInv, ViewOK
  <1>5. ErasMeet'
    BY <1>1, <1>2 DEF IInv, ErasMeet
  <1> QED
    BY <1>1, <1>3, <1>4, <1>5

\* Machines that are kept or cleared, while no era is chosen.
LEMMA MachinesCleared ==
  ASSUME IInv, HistoryOK', ViewOK', ErasMeet', history' = history,
         \A n \in Identity : known'[n] >= known[n],
         lives' \in [Node -> 0 .. MaxLife], forced' \in [Identity -> SUBSET Pairs],
         planned' \in [Identity -> SUBSET Machines],
         \A n \in Identity : planned'[n] \subseteq planned[n]
  PROVE  IInv'
  <1>1. Chosen' = Chosen /\ Chosen \in Nat
    BY DEF Chosen, IInv, HistoryOK
  <1>2. ArmedOK' /\ PlanInOrder'
    BY <1>1, MachinesKept
  <1> QED
    BY <1>2 DEF IInv

\* An announcement arms the machine, and may propose its first step.
LEMMA ReceiveOK ==
  ASSUME IInv, NEW p \in Pairs, ReceiveReincarnation(p)
  PROVE  IInv'
  <1>1. PICK n \in leader : \E steps \in Remaining(ConfigOf(n), p) :
           /\ forced' = [forced EXCEPT ![n] = IF steps = <<>> THEN {} ELSE {p}]
           /\ IF steps # <<>> /\ Plannable(n, steps[1])
              THEN Proposes(n, steps[1])
              ELSE UNCHANGED logVars
    BY DEF ReceiveReincarnation
  <1>2. PICK steps \in Remaining(ConfigOf(n), p) :
           /\ forced' = [forced EXCEPT ![n] = IF steps = <<>> THEN {} ELSE {p}]
           /\ IF steps # <<>> /\ Plannable(n, steps[1])
              THEN Proposes(n, steps[1])
              ELSE UNCHANGED logVars
    BY <1>1
  <1>3. n \in Identity /\ ConfigOf(n) \in Configs(Identity)
    BY LeaderTyped, ConfigTyped DEF IInv
  <1>4. UNCHANGED <<planned, lives>>
    BY DEF ReceiveReincarnation
  <1>5. /\ HistoryOK' /\ ViewOK' /\ ErasMeet'
        /\ UNCHANGED <<history, era, leader, known>>
    <2>1. CASE UNCHANGED logVars
      BY <1>4, <2>1, LogKept
    <2>2. CASE steps # <<>> /\ Proposes(n, steps[1])
      <3>1. steps \in Seq(Batch)
        BY <1>3, RemainingTyped
      <3>2. steps[1] \in Batch
        BY <2>2, <3>1
      <3> QED
        BY <1>4, <2>2, <3>2, ProposesKeeps
    <2> QED
      BY <1>2, <2>1, <2>2
  <1>6. forced' \in [Identity -> SUBSET Pairs]
    BY <1>2, <1>3 DEF IInv, ArmedOK
  <1>7. \A i \in Identity : known[i] \in Nat
    BY DEF IInv, ViewOK
  <1> QED
    BY <1>4, <1>5, <1>6, <1>7, MachinesCleared DEF IInv, ArmedOK

\* A plan that is accepted starts with its first step.
LEMMA SubmitOK ==
  ASSUME IInv, NEW p \in Plan, SubmitPlan(p)
  PROVE  IInv'
  <1>1. PICK n \in leader :
           /\ p.steps # <<>>
           /\ IF Plannable(n, p.steps[1]) THEN Proposes(n, p.steps[1]) ELSE UNCHANGED logVars
           /\ planned' = [planned EXCEPT ![n] = {[steps |-> p.steps, next |-> 1,
                                                  since |-> known[n]]}]
           /\ UNCHANGED <<forced, lives>>
    BY DEF SubmitPlan
  <1>2. n \in Identity /\ known[n] \in 1 .. Chosen /\ Chosen \in Nat
    BY LeaderTyped, ConfigTyped DEF IInv
  <1>3. p.steps \in Seq(Batch)
    BY ReincarnationAssumption DEF Batch
  <1>4. p.steps[1] \in Batch /\ 1 \in DOMAIN p.steps
    BY <1>1, <1>3
  <1>5. /\ HistoryOK' /\ ViewOK' /\ ErasMeet'
        /\ UNCHANGED <<history, era, leader, known>>
    BY <1>1, <1>4, ProposesKeeps, LogKept
  <1> DEFINE w == [steps |-> p.steps, next |-> 1, since |-> known[n]]
  <1>6. w \in Machines /\ w.next = 1 /\ w.steps = p.steps /\ w.since = known[n]
    BY <1>2, <1>3 DEF Machines
  <1>7. planned' = [planned EXCEPT ![n] = {w}]
    BY <1>1
  <1> HIDE DEF w
  <1>8. Counted(w, known[n], history)
    <2> DEFINE at == [i \in 1 .. 0 |-> 1]
    <2>1. w.next - 1 = 0
      BY <1>6
    <2>2. at \in [1 .. w.next - 1 -> w.since + 1 .. known[n]] /\ DOMAIN at = {}
      BY <2>1
    <2> HIDE DEF at
    <2> QED
      BY <2>2 DEF Counted
  <1>9. planned \in [Identity -> SUBSET Machines]
    BY DEF IInv, ArmedOK
  <1>10. planned' \in [Identity -> SUBSET Machines]
    BY <1>6, <1>7, <1>9
  <1>11. \A i \in Identity : \A m \in planned'[i] : m \in planned[i] \/ (i = n /\ m = w)
    BY <1>7, <1>9
  <1>12. \A i \in Identity : known[i] \in Nat
    BY DEF IInv, ViewOK
  <1>13. Chosen' = Chosen
    BY <1>5 DEF Chosen
  <1>14. lives' \in [Node -> 0 .. MaxLife] /\ forced' \in [Identity -> SUBSET Pairs]
    BY <1>1 DEF IInv, ArmedOK
  <1>15. \A i \in Identity : \A m \in planned'[i] :
            \/ m \in planned[i]
            \/ /\ m.next \in DOMAIN m.steps /\ m.since \in 1 .. known'[i]
               /\ Counted(m, known'[i], history')
    BY <1>2, <1>4, <1>5, <1>6, <1>8, <1>11
  <1>16. \A i \in Identity : known'[i] >= known[i]
    BY <1>5, <1>12
  <1>17. ArmedOK' /\ PlanInOrder'
    BY <1>2, <1>5, <1>10, <1>13, <1>14, <1>15, <1>16, MachinesKept
  <1> QED
    BY <1>5, <1>17 DEF IInv

\* On a tick a machine ends, or proposes its next step.
LEMMA TickOK ==
  ASSUME IInv, Tick
  PROVE  IInv'
  <1>1. PICK n \in leader : ForcedOver(n) \/ ForcedStep(n) \/ PlanAborted(n) \/ PlanStep(n)
    BY DEF Tick
  <1>2. n \in Identity /\ ConfigOf(n) \in Configs(Identity)
    BY LeaderTyped, ConfigTyped DEF IInv
  <1>3. /\ forced \in [Identity -> SUBSET Pairs] /\ lives \in [Node -> 0 .. MaxLife]
        /\ planned \in [Identity -> SUBSET Machines]
    BY DEF IInv, ArmedOK
  <1>4. \A i \in Identity : known[i] \in Nat
    BY DEF IInv, ViewOK
  <1>5. CASE ForcedOver(n)
    <2>1. forced' = [forced EXCEPT ![n] = {}] /\ UNCHANGED <<logVars, planned, lives>>
      BY <1>5 DEF ForcedOver
    <2>2. /\ HistoryOK' /\ ViewOK' /\ ErasMeet'
          /\ UNCHANGED <<history, era, leader, known>>
      BY <2>1, LogKept
    <2>3. forced' \in [Identity -> SUBSET Pairs]
      BY <1>3, <2>1
    <2> QED
      BY <1>3, <1>4, <2>1, <2>2, <2>3, MachinesCleared
  <1>6. CASE ForcedStep(n)
    <2>1. PICK p \in forced[n] : \E steps \in Remaining(ConfigOf(n), p) :
             steps # <<>> /\ Proposes(n, steps[1])
      BY <1>6 DEF ForcedStep
    <2>2. PICK steps \in Remaining(ConfigOf(n), p) :
             steps # <<>> /\ Proposes(n, steps[1])
      BY <2>1
    <2>3. UNCHANGED <<forced, planned, lives>>
      BY <1>6 DEF ForcedStep, machineVars
    <2>4. steps[1] \in Batch
      <3>1. p \in Pairs
        BY <1>2, <1>3
      <3>2. steps \in Seq(Batch)
        BY <1>2, <3>1, RemainingTyped
      <3> QED
        BY <2>2, <3>2
    <2>5. /\ HistoryOK' /\ ViewOK' /\ ErasMeet'
          /\ UNCHANGED <<history, era, leader, known>>
      BY <2>2, <2>3, <2>4, ProposesKeeps
    <2> QED
      BY <1>3, <1>4, <2>3, <2>5, MachinesCleared
  <1>7. CASE PlanAborted(n)
    <2>1. planned' = [planned EXCEPT ![n] = {}] /\ UNCHANGED <<logVars, forced, lives>>
      BY <1>7 DEF PlanAborted
    <2>2. /\ HistoryOK' /\ ViewOK' /\ ErasMeet'
          /\ UNCHANGED <<history, era, leader, known>>
      BY <2>1, LogKept
    <2>3. planned' \in [Identity -> SUBSET Machines]
      BY <1>3, <2>1
    <2>4. \A i \in Identity : planned'[i] \subseteq planned[i]
      BY <1>3, <2>1
    <2> QED
      BY <1>3, <1>4, <2>1, <2>2, <2>3, <2>4, MachinesCleared
  <1>8. CASE PlanStep(n)
    <2>1. PICK m \in planned[n] : Proposes(n, m.steps[m.next])
      BY <1>8 DEF PlanStep
    <2>2. UNCHANGED <<forced, planned, lives>>
      BY <1>8 DEF PlanStep, machineVars
    <2>3. m.steps[m.next] \in Batch
      <3>1. m.steps \in Seq(Batch) /\ m.next \in DOMAIN m.steps
        BY <1>2, <1>3 DEF IInv, ArmedOK, Machines
      <3> QED
        BY <3>1
    <2>4. /\ HistoryOK' /\ ViewOK' /\ ErasMeet'
          /\ UNCHANGED <<history, era, leader, known>>
      BY <2>1, <2>2, <2>3, ProposesKeeps
    <2> QED
      BY <1>3, <1>4, <2>2, <2>4, MachinesCleared
  <1> QED
    BY <1>1, <1>5, <1>6, <1>7, <1>8

\* What a leader that sees a batch committed makes of its machine.
LEMMA CommittedCounts ==
  ASSUME NEW machine \in SUBSET Machines, NEW ops, NEW k \in Nat, NEW h,
         \A m \in machine :
            /\ m.next \in DOMAIN m.steps /\ m.since \in 1 .. k /\ Counted(m, k, h),
         h[k + 1].ops = ops, NEW m \in Committed(machine, ops)
  PROVE  /\ m \in Machines /\ m.next \in DOMAIN m.steps /\ m.since \in 1 .. k + 1
         /\ Counted(m, k + 1, h)
  <1>1. PICK x \in machine :
           /\ m = IF x.steps[x.next] = ops THEN [x EXCEPT !.next = x.next + 1] ELSE x
           /\ m.next <= Len(m.steps)
    BY DEF Committed
  <1>2. /\ x \in Machines /\ x.next \in DOMAIN x.steps /\ x.since \in 1 .. k
        /\ Counted(x, k, h)
    OBVIOUS
  <1>3. x.next \in Nat /\ x.next >= 1 /\ x.steps \in Seq(Batch) /\ x.since \in Nat
    BY <1>2 DEF Machines
  <1>4. CASE x.steps[x.next] = ops
    <2>1. m = [x EXCEPT !.next = x.next + 1]
      BY <1>1, <1>4
    <2>2. m \in Machines /\ m.next = x.next + 1 /\ m.steps = x.steps /\ m.since = x.since
      BY <1>2, <1>3, <2>1 DEF Machines
    <2>3. Counted([x EXCEPT !.next = x.next + 1], k + 1, h)
      BY <1>2, <1>3, <1>4, CountedNext
    <2>4. m.next \in DOMAIN m.steps
      BY <1>1, <1>3, <2>2
    <2>5. m.since \in 1 .. k + 1
      BY <1>2, <2>2
    <2> QED
      BY <2>1, <2>2, <2>3, <2>4, <2>5
  <1>5. CASE x.steps[x.next] # ops
    <2>1. m = x
      BY <1>1, <1>5
    <2>2. Counted(x, k + 1, h)
      BY <1>2, CountedMore
    <2> QED
      BY <1>2, <2>1, <2>2
  <1> QED
    BY <1>4, <1>5

\* An era is chosen, or one that was is learnt.
LEMMA CommitOK ==
  ASSUME IInv, Commit
  PROVE  IInv'
  <1>1. PICK n \in leader :
           /\ \/ known[n] < Chosen /\ UNCHANGED <<history, flight>>
              \/ /\ known[n] = Chosen /\ flight # <<>>
                 /\ \E d \in ApplyBatch(ConfigOf(n), flight) :
                       history' = Append(history, [config |-> d, ops |-> flight])
                 /\ flight' = <<>>
           /\ known' = [known EXCEPT ![n] = known[n] + 1]
           /\ planned' = [planned EXCEPT ![n] = Committed(planned[n], history'[known'[n]].ops)]
           /\ UNCHANGED <<era, leader, forced, lives>>
    BY DEF Commit
  <1>2. /\ n \in Identity /\ known[n] \in 1 .. Chosen /\ Chosen \in Nat
        /\ ConfigOf(n) \in Configs(Identity) /\ ConfigOf(n).era = known[n]
    BY LeaderTyped, ConfigTyped DEF IInv
  <1>3. known \in [Identity -> 1 .. Chosen] /\ \A i \in leader : known[i] >= era
    BY DEF IInv, ViewOK
  <1>4. known'[n] = known[n] + 1 /\ \A i \in Identity : i # n => known'[i] = known[i]
    BY <1>1, <1>2, <1>3
  <1>5. /\ HistoryOK' /\ ErasMeet' /\ flight' \in Batch
        /\ Chosen' \in Nat /\ Chosen' >= Chosen /\ Chosen' >= known[n] + 1
        /\ Chosen' <= era + 1 /\ (flight' = <<>> \/ era = Chosen')
        /\ \A k \in 1 .. Chosen : history'[k] = history[k]
    <2>1. /\ flight \in Batch /\ era \in 1 .. Chosen /\ Chosen <= era + 1
          /\ flight = <<>> \/ era = Chosen
      BY DEF IInv, ViewOK
    <2>2. CASE known[n] < Chosen /\ UNCHANGED <<history, flight>>
      <3>1. Chosen' = Chosen
        BY <2>2 DEF Chosen
      <3>2. HistoryOK' /\ ErasMeet'
        BY <2>2, <3>1 DEF IInv, HistoryOK, ErasMeet
      <3> QED
        BY <1>2, <2>1, <2>2, <3>1, <3>2
    <2>3. ASSUME known[n] = Chosen, flight # <<>>, flight' = <<>>,
                 NEW d \in ApplyBatch(ConfigOf(n), flight),
                 history' = Append(history, [config |-> d, ops |-> flight])
          PROVE  /\ HistoryOK' /\ ErasMeet' /\ flight' \in Batch
                 /\ Chosen' \in Nat /\ Chosen' >= Chosen /\ Chosen' >= known[n] + 1
                 /\ Chosen' <= era + 1 /\ (flight' = <<>> \/ era = Chosen')
                 /\ \A k \in 1 .. Chosen : history'[k] = history[k]
      <3>1. /\ d \in Configs(Identity) /\ d.era = Chosen + 1 /\ ValidateEra(d)
            /\ Meet(ConfigOf(n), d)
        <4>1. d \in Configs(Identity) /\ d.era = ConfigOf(n).era + 1 /\ ValidateEra(d)
          BY <1>2, <2>1, <2>3, BatchTyped
        <4>2. Meet(ConfigOf(n), d)
          BY <1>2, <2>1, <2>3, BatchMeets
        <4> QED
          BY <1>2, <2>3, <4>1, <4>2
      <3> DEFINE R == [config : Configs(Identity), ops : Batch]
                 w == [config |-> d, ops |-> flight]
      <3>2. w \in R /\ w.config = d
        BY <2>1, <3>1
      <3>3. history \in Seq(R) /\ Chosen = Len(history)
        BY DEF IInv, HistoryOK, Chosen
      <3>4. Chosen' = Len(history') /\ history' = Append(history, w)
        BY <2>3 DEF Chosen
      <3> HIDE DEF R, w
      <3>5. /\ history' \in Seq(R) /\ Len(history') = Len(history) + 1
            /\ history'[Len(history) + 1] = w
            /\ \A k \in 1 .. Len(history) : history'[k] = history[k]
        BY <3>2, <3>3, <3>4
      <3>6. Chosen' = Chosen + 1
        BY <3>3, <3>4, <3>5
      <3>7. \A k \in 1 .. Chosen : history'[k] = history[k]
        BY <3>3, <3>5
      <3>8. history'[Chosen + 1] = w
        BY <3>3, <3>5
      <3>9. \A k \in 1 .. Chosen : history[k].config.era = k
        BY DEF IInv, HistoryOK
      <3>10. ASSUME NEW k \in 1 .. Chosen' PROVE history'[k].config.era = k
        <4>1. k \in 1 .. Chosen \/ k = Chosen + 1
          BY <1>2, <3>6
        <4> QED
          BY <3>1, <3>2, <3>7, <3>8, <3>9, <4>1
      <3>11. HistoryOK'
        <4>1. history' \in Seq([config : Configs(Identity), ops : Batch])
          BY <3>5 DEF R
        <4>2. Len(history') >= 1
          BY <1>2, <3>4, <3>6
        <4> QED
          BY <3>10, <4>1, <4>2 DEF HistoryOK
      <3>12. ErasMeet'
        <4> SUFFICES ASSUME NEW k \in 1 .. Chosen'
                     PROVE  /\ ValidateEra(history'[k].config)
                            /\ k > 1 => Meet(history'[k - 1].config, history'[k].config)
          BY DEF ErasMeet
        <4>1. CASE k \in 1 .. Chosen
          <5>1. history'[k] = history[k] /\ (k > 1 => history'[k - 1] = history[k - 1])
            BY <1>2, <3>7, <4>1
          <5> QED
            BY <4>1, <5>1 DEF IInv, ErasMeet
        <4>2. CASE k = Chosen + 1
          <5>1. history'[k].config = d
            BY <3>2, <3>8, <4>2
          <5>2. history'[k - 1] = history[Chosen]
            BY <1>2, <3>7, <4>2
          <5>3. ConfigOf(n) = history[Chosen].config
            BY <2>3 DEF ConfigOf
          <5> QED
            BY <3>1, <5>1, <5>2, <5>3
        <4> QED
          BY <1>2, <3>6, <4>1, <4>2
      <3>13. flight' \in Batch
        BY <2>3 DEF Batch
      <3>14. /\ Chosen' \in Nat /\ Chosen' >= Chosen /\ Chosen' >= known[n] + 1
             /\ Chosen' <= era + 1
        <4>1. era = Chosen
          BY <2>1, <2>3
        <4> QED
          BY <1>2, <2>3, <3>6, <4>1
      <3> QED
        BY <2>3, <3>7, <3>11, <3>12, <3>13, <3>14
    <2> QED
      BY <1>1, <2>2, <2>3
  <1>6. known' \in [Identity -> 1 .. Chosen']
    <2>1. \A i \in Identity : known'[i] \in 1 .. Chosen'
      <3>1. \A i \in Identity : known[i] \in 1 .. Chosen
        BY <1>3
      <3> QED
        BY <1>2, <1>4, <1>5, <3>1
    <2>2. known' = [i \in Identity |-> known'[i]]
      BY <1>1, <1>3
    <2> QED
      BY <2>1, <2>2
  <1>7. Running' = Running
    BY <1>1 DEF Running, Now
  <1>8. ViewOK'
    <2>1. era \in 1 .. Chosen'
      <3>1. era \in 1 .. Chosen
        BY DEF IInv, ViewOK
      <3> QED
        BY <1>2, <1>5, <3>1
    <2>2. \A i \in leader : known'[i] >= era
      <3>1. leader \subseteq Identity
        BY LeaderTyped DEF IInv
      <3>2. \A i \in leader : known[i] \in Nat /\ known[i] >= era
        BY <1>3, <3>1
      <3>3. era \in Nat
        BY DEF IInv, ViewOK
      <3> QED
        BY <1>4, <3>1, <3>2, <3>3
    <2>3. leader \subseteq Running /\ (leader = {} \/ \E i \in Identity : leader = {i})
      BY DEF IInv, ViewOK
    <2> QED
      BY <1>1, <1>5, <1>6, <1>7, <2>1, <2>2, <2>3 DEF ViewOK
  <1>9. planned \in [Identity -> SUBSET Machines]
    BY DEF IInv, ArmedOK
  <1> DEFINE ops == history'[known'[n]].ops
  <1>10. \A m \in Committed(planned[n], ops) :
            /\ m \in Machines /\ m.next \in DOMAIN m.steps /\ m.since \in 1 .. known'[n]
            /\ Counted(m, known'[n], history')
    <2>1. ASSUME NEW m \in planned[n]
          PROVE  /\ m.next \in DOMAIN m.steps /\ m.since \in 1 .. known[n]
                 /\ Counted(m, known[n], history')
      <3>1. m.next \in DOMAIN m.steps /\ m.since \in 1 .. known[n] /\ m \in Machines
        BY <1>2, <1>9 DEF IInv, ArmedOK
      <3>2. Counted(m, known[n], history)
        BY <1>2, OrderCounted DEF IInv
      <3>3. \A i \in 1 .. known[n] : history'[i] = history[i]
        BY <1>2, <1>5
      <3>4. known[n] \in Nat
        BY <1>2
      <3> QED
        BY <3>1, <3>2, <3>3, <3>4, CountedMore
    <2>2. planned[n] \in SUBSET Machines /\ known[n] \in Nat
      BY <1>2, <1>9
    <2>3. history'[known[n] + 1].ops = ops
      BY <1>4
    <2> HIDE DEF ops
    <2>4. ASSUME NEW m \in Committed(planned[n], ops)
          PROVE  /\ m \in Machines /\ m.next \in DOMAIN m.steps
                 /\ m.since \in 1 .. known[n] + 1 /\ Counted(m, known[n] + 1, history')
      <3> DEFINE machine == planned[n]
                 k == known[n]
                 h == history'
      <3>1. machine \in SUBSET Machines /\ k \in Nat /\ h[k + 1].ops = ops
        BY <2>2, <2>3
      <3>2. \A x \in machine :
               /\ x.next \in DOMAIN x.steps /\ x.since \in 1 .. k /\ Counted(x, k, h)
        BY <2>1
      <3>3. m \in Committed(machine, ops)
        OBVIOUS
      <3> HIDE DEF machine, k, h
      <3>4. /\ m \in Machines /\ m.next \in DOMAIN m.steps
            /\ m.since \in 1 .. k + 1 /\ Counted(m, k + 1, h)
        BY <3>1, <3>2, <3>3, CommittedCounts
      <3> QED
        BY <3>4 DEF k, h
    <2> QED
      BY <1>4, <2>4
  <1>11. planned' = [planned EXCEPT ![n] = Committed(planned[n], ops)]
    BY <1>1
  <1> HIDE DEF ops
  <1>12. planned' \in [Identity -> SUBSET Machines]
    BY <1>9, <1>10, <1>11
  <1>13. \A i \in Identity : \A m \in planned'[i] :
            \/ m \in planned[i]
            \/ /\ m.next \in DOMAIN m.steps /\ m.since \in 1 .. known'[i]
               /\ Counted(m, known'[i], history')
    BY <1>2, <1>9, <1>10, <1>11
  <1>14. \A i \in Identity : known'[i] >= known[i]
    <2>1. \A i \in Identity : known[i] \in Nat
      BY <1>3
    <2> QED
      BY <1>2, <1>4, <2>1
  <1>15. lives' \in [Node -> 0 .. MaxLife] /\ forced' \in [Identity -> SUBSET Pairs]
    BY <1>1 DEF IInv, ArmedOK
  <1>16. ArmedOK' /\ PlanInOrder'
    BY <1>5, <1>8, <1>12, <1>13, <1>14, <1>15, MachinesKept
  <1> QED
    BY <1>5, <1>8, <1>16 DEF IInv

\* A view change leaves the machines with those that hold them.
LEMMA InstallsOK ==
  ASSUME IInv, NEW n \in Running, NEW e \in 1 .. Chosen, Installs(n, e),
         Chosen <= e + 1, flight = <<>> \/ e = Chosen
  PROVE  IInv'
  <1>1. n \in Identity
    BY RunningIdentities DEF IInv, ArmedOK
  <1>2. PICK k \in e .. Chosen : k >= known[n] /\ known' = [known EXCEPT ![n] = k]
    BY DEF Installs
  <1>3. /\ leader' = {n} /\ era' = e /\ flight' \in {flight, <<>>}
        /\ UNCHANGED <<history, forced, planned, lives>>
    BY DEF Installs, machineVars
  <1>4. Chosen' = Chosen /\ Running' = Running /\ Chosen \in Nat
    BY <1>3 DEF Chosen, Running, Now, IInv, HistoryOK
  <1>5. HistoryOK' /\ ErasMeet'
    BY <1>3, <1>4 DEF IInv, HistoryOK, ErasMeet
  <1>6. known \in [Identity -> 1 .. Chosen] /\ flight \in Batch
    BY DEF IInv, ViewOK
  <1>7. k \in 1 .. Chosen /\ k >= e
    BY <1>2, <1>4
  <1>8. known' \in [Identity -> 1 .. Chosen] /\ known'[n] = k
    BY <1>1, <1>2, <1>6, <1>7
  <1>9. ViewOK'
    <2>1. flight' \in Batch /\ (flight' = <<>> \/ e = Chosen)
      <3>1. <<>> \in Batch
        BY DEF Batch
      <3>2. flight' = flight \/ flight' = <<>>
        BY <1>3
      <3> QED
        BY <1>6, <3>1, <3>2
    <2> QED
      BY <1>1, <1>3, <1>4, <1>7, <1>8, <2>1 DEF ViewOK
  <1>10. \A i \in Identity : known'[i] >= known[i]
    <2>1. \A i \in Identity : known[i] \in Nat
      BY <1>6
    <2> QED
      BY <1>1, <1>2, <1>6, <2>1
  <1> QED
    BY <1>3, <1>5, <1>9, <1>10, MachinesCleared DEF IInv, ArmedOK

\* A process that ends leaves nothing behind.
LEMMA ForgetsOK ==
  ASSUME IInv, NEW n \in Identity, Forgets(n), lives' \in [Node -> 0 .. MaxLife],
         leader \ {n} \subseteq Running'
  PROVE  IInv'
  <1>1. /\ leader' = leader \ {n}
        /\ forced' = [forced EXCEPT ![n] = {}] /\ planned' = [planned EXCEPT ![n] = {}]
        /\ UNCHANGED <<history, flight, era, known>>
    BY DEF Forgets
  <1>2. Chosen' = Chosen
    BY <1>1 DEF Chosen
  <1>3. HistoryOK' /\ ErasMeet'
    BY <1>1, <1>2 DEF IInv, HistoryOK, ErasMeet
  <1>4. ViewOK'
    <2>1. leader' = {} \/ \E i \in Identity : leader' = {i}
      BY <1>1 DEF IInv, ViewOK
    <2> QED
      BY <1>1, <1>2, <2>1 DEF IInv, ViewOK
  <1>5. /\ forced' \in [Identity -> SUBSET Pairs]
        /\ planned' \in [Identity -> SUBSET Machines]
        /\ \A i \in Identity : planned'[i] \subseteq planned[i]
    BY <1>1 DEF IInv, ArmedOK
  <1>6. \A i \in Identity : known'[i] >= known[i]
    BY <1>1 DEF IInv, ViewOK
  <1> QED
    BY <1>1, <1>3, <1>4, <1>5, <1>6, MachinesCleared

\* Every step keeps it.
LEMMA NextOK == IInv /\ [Next]_vars => IInv'
  <1> SUFFICES ASSUME IInv, [Next]_vars PROVE IInv'
    OBVIOUS
  <1>1. Running \subseteq Identity /\ leader \subseteq Identity
    BY RunningIdentities, LeaderTyped DEF IInv, ArmedOK
  <1>2. /\ era \in 1 .. Chosen /\ Chosen <= era + 1 /\ Chosen \in Nat /\ Chosen >= 1
        /\ flight = <<>> \/ era = Chosen
    BY DEF IInv, ViewOK, HistoryOK, Chosen
  <1>3. CASE \E p \in Pairs : ReceiveReincarnation(p)
    BY <1>3, ReceiveOK
  <1>4. CASE \E p \in Plan : SubmitPlan(p)
    BY <1>4, SubmitOK
  <1>5. CASE Tick
    BY <1>5, TickOK
  <1>6. CASE Commit
    BY <1>6, CommitOK
  <1>7. CASE EnterEra
    <2>1. PICK n \in Running : Installs(n, Chosen) /\ era < Chosen
      BY <1>7 DEF EnterEra
    <2>2. Chosen \in 1 .. Chosen /\ Chosen <= Chosen + 1
      BY <1>2
    <2> QED
      BY <2>1, <2>2, InstallsOK
  <1>8. CASE Elect
    <2>1. PICK n \in Running : Installs(n, era)
      BY <1>8 DEF Elect
    <2> QED
      BY <1>2, <2>1, InstallsOK
  <1>9. CASE Suspect
    <2>1. PICK n \in Running \ leader : Installs(n, era)
      BY <1>9 DEF Suspect
    <2> QED
      BY <1>2, <2>1, InstallsOK
  <1>10. CASE \E n \in Identity : Restart(n)
    <2>1. PICK n \in Identity : Restart(n)
      BY <1>10
    <2>2. Forgets(n) /\ UNCHANGED lives
      BY <2>1 DEF Restart
    <2>3. Running' = Running
      BY <2>2 DEF Running, Now
    <2>4. leader \ {n} \subseteq Running' /\ lives' \in [Node -> 0 .. MaxLife]
      BY <2>2, <2>3 DEF IInv, ViewOK, ArmedOK
    <2> QED
      BY <2>2, <2>4, ForgetsOK
  <1>11. CASE \E m \in Node : Crash(m)
    <2>1. PICK m \in Node : Crash(m)
      BY <1>11
    <2>2. /\ lives[m] < MaxLife /\ lives' = [lives EXCEPT ![m] = lives[m] + 1]
          /\ Forgets(Now(m))
      BY <2>1 DEF Crash
    <2>3. lives \in [Node -> 0 .. MaxLife] /\ MaxLife \in Nat
      BY ReincarnationAssumption DEF IInv, ArmedOK
    <2>4. lives' \in [Node -> 0 .. MaxLife]
      <3>1. lives[m] + 1 \in 0 .. MaxLife
        BY <2>2, <2>3
      <3> QED
        BY <2>2, <2>3, <3>1
    <2>5. Now(m) \in Identity
      BY <2>3 DEF Now, Identity
    <2>6. leader \ {Now(m)} \subseteq Running'
      <3> SUFFICES ASSUME NEW i \in leader, i # Now(m) PROVE i \in Running'
        OBVIOUS
      <3>1. PICK j \in Node : i = Now(j)
        BY DEF IInv, ViewOK, Running
      <3>2. j # m
        BY <3>1
      <3>3. lives'[j] = lives[j]
        BY <2>2, <2>3, <3>2
      <3>4. Now(j)' = Now(j)
        BY <3>3 DEF Now
      <3> QED
        BY <3>1, <3>4 DEF Running
    <2> QED
      BY <2>2, <2>4, <2>5, <2>6, ForgetsOK
  <1>12. CASE UNCHANGED vars
    <2>1. UNCHANGED <<logVars, lives, forced, planned>>
      BY <1>12 DEF vars, machineVars
    <2>2. /\ HistoryOK' /\ ViewOK' /\ ErasMeet'
          /\ UNCHANGED <<history, era, leader, known>>
      BY <2>1, LogKept
    <2>3. \A i \in Identity : known'[i] >= known[i]
      BY <2>2 DEF IInv, ViewOK
    <2> QED
      BY <2>1, <2>2, <2>3, MachinesCleared DEF IInv, ArmedOK
  <1> QED
    BY <1>3, <1>4, <1>5, <1>6, <1>7, <1>8, <1>9, <1>10, <1>11, <1>12 DEF Next

\* It holds throughout.
LEMMA Invariance == Spec => []IInv
  BY InitOK, NextOK, PTL DEF Spec

-----------------------------------------------------------------------------
(* The theorems.                                                           *)

\* The eras of the log are numbered as they were chosen, whatever leaders
\* come and go the view stays within one era of them, a leader runs and knows
\* its era, and an armed plan has a step left.
THEOREM TypeCorrect == Spec => []TypeOK
  <1>1. IInv => TypeOK
    <2> SUFFICES ASSUME IInv PROVE TypeOK
      OBVIOUS
    <2>1. Cardinality(leader) <= 1
      <3>1. leader = {} \/ \E n \in Identity : leader = {n}
        BY DEF IInv, ViewOK
      <3>2. CASE leader = {}
        <4>1. Cardinality(leader) = 0
          BY <3>2, FS_EmptySet
        <4> QED
          BY <4>1
      <3>3. ASSUME NEW n, leader = {n} PROVE Cardinality(leader) <= 1
        <4>1. Cardinality(leader) = 1
          BY <3>3, FS_Singleton
        <4> QED
          BY <4>1
      <3> QED
        BY <3>1, <3>2, <3>3
    <2>2. ASSUME NEW n \in Identity, NEW m \in planned[n]
          PROVE  m.next \in DOMAIN m.steps /\ m.since \in 1 .. Chosen
      <3>1. m.next \in DOMAIN m.steps /\ m.since \in 1 .. known[n]
        BY DEF IInv, ArmedOK
      <3>2. known[n] \in 1 .. Chosen /\ Chosen \in Nat
        BY DEF IInv, ViewOK, HistoryOK, Chosen
      <3> QED
        BY <3>1, <3>2
    <2> QED
      BY <2>1, <2>2 DEF TypeOK, IInv, HistoryOK, ViewOK, ArmedOK
  <1> QED
    BY <1>1, Invariance, PTL

\* An armed plan counts committed batches: whatever its proposer learnt while
\* it did not lead, the steps before the next were chosen, in order, after the
\* plan was accepted.
THEOREM PlansInOrder == Spec => []PlanInOrder
  <1>1. IInv => PlanInOrder
    BY DEF IInv
  <1> QED
    BY <1>1, Invariance, PTL

\* Whatever sequences and plans two leaders and their successors propose, with
\* crashes, late announcements and lost batches, every era the log chooses has
\* quorums that meet one another and those of the era before.
THEOREM ChosenErasMeet == Spec => []ErasMeet
  <1>1. IInv => ErasMeet
    BY DEF IInv
  <1> QED
    BY <1>1, Invariance, PTL

\* With no more identities than the cap, the quorum gates take every step that
\* the fold takes: neither machine is held up by a refusal that its own checks
\* do not foresee.
THEOREM GatesTake ==
  ASSUME IsFiniteSet(Node), MAX_MEMBERS \in Nat, Cardinality(Identity) <= MAX_MEMBERS
  PROVE  Spec => []GatesAgree
  <1>1. IsFiniteSet(Identity)
    <2>1. IsFiniteSet(0 .. MaxLife)
      BY ReincarnationAssumption, FS_Interval
    <2> QED
      BY <2>1, FS_Product DEF Identity
  <1>2. ASSUME NEW c \in Configs(Identity), NEW ops \in Batch PROVE QuorumGates(c, ops)
    <2> SUFFICES ASSUME NEW d \in ApplyBatch(c, ops)
                 PROVE  ValidateTransition(c, d) /\ ValidateEra(d)
      BY DEF QuorumGates
    <2>1. d \in Configs(Identity) /\ ValidateEra(d)
      BY BatchTyped
    <2>2. \A b \in Configs(Identity) : Members(b) \subseteq Identity
      <3>1. \A b \in Configs(Identity) : \A i \in DOMAIN b.order : b.order[i].node \in Identity
        BY OrderType
      <3> QED
        BY <3>1 DEF Members
    <2>3. Members(c) \cup Members(d) \in SUBSET Identity
      BY <2>1, <2>2
    <2>4. Cardinality(Members(c) \cup Members(d)) <= Cardinality(Identity)
      BY <1>1, <2>3, FS_Subset
    <2>5. /\ Cardinality(Members(c) \cup Members(d)) \in Nat
          /\ Cardinality(Identity) \in Nat
      BY <1>1, <2>3, FS_Subset, FS_CardinalityType
    <2>6. Cardinality(Members(c) \cup Members(d)) <= MAX_MEMBERS
      BY <2>4, <2>5
    <2> QED
      BY <2>1, <2>6, BatchTyped
  <1>3. IInv => GatesAgree
    <2> SUFFICES ASSUME IInv, NEW n \in leader
                 PROVE  /\ \A p \in Announced : \A steps \in Remaining(ConfigOf(n), p) \ {<<>>} :
                              QuorumGates(ConfigOf(n), steps[1])
                        /\ \A m \in planned[n] : QuorumGates(ConfigOf(n), m.steps[m.next])
      BY DEF GatesAgree
    <2>1. n \in Identity /\ ConfigOf(n) \in Configs(Identity)
      BY LeaderTyped, ConfigTyped DEF IInv
    <2>2. ASSUME NEW p \in Announced, NEW steps \in Remaining(ConfigOf(n), p) \ {<<>>}
          PROVE  steps[1] \in Batch
      <3>1. p \in Pairs
        BY DEF Announced
      <3>2. steps \in Seq(Batch) /\ steps # <<>>
        BY <2>1, <3>1, RemainingTyped
      <3> QED
        BY <3>2
    <2>3. ASSUME NEW m \in planned[n] PROVE m.steps[m.next] \in Batch
      <3>1. m.steps \in Seq(Batch) /\ m.next \in DOMAIN m.steps
        BY <2>1 DEF IInv, ArmedOK, Machines
      <3> QED
        BY <3>1
    <2> QED
      BY <1>2, <2>1, <2>2, <2>3
  <1> QED
    BY <1>3, Invariance, PTL

=============================================================================
