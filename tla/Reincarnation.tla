---------------------------- MODULE Reincarnation ----------------------------
(***************************************************************************)
(* src/replica/reincarnation.rs, src/replica/plan_execution.rs, src/plan.rs *)
(* and src/reconfiguration.rs: the two machines of a leader that change the *)
(* configuration an era at a time. The forced sequence replaces the        *)
(* identity of a crashed node by that of its next life; a submitted plan   *)
(* is proposed step by step.                                               *)
(*                                                                         *)
(* Abstractions.                                                           *)
(*  - An identity is a node and a life. A crash starts the node's next     *)
(*    life at once; the marker file behind it is module Lifecycle.         *)
(*  - The replicated log is the eras it has established, each with its     *)
(*    batch, and at most one batch in flight. A view is its era and its    *)
(*    leader: view numbers may have gaps, so any voter is the primary of   *)
(*    some later view. That an elected leader has what was chosen is       *)
(*    checked in Reconfiguration.                                          *)
(*  - An announcement, once sent, may arrive late, again, or never.        *)
(***************************************************************************)
EXTENDS Configuration

CONSTANTS
    Node,           \* the machines
    Founders,       \* the succession order of the first era, nodes
    Plan,           \* the plans an operator may submit
    Electable,      \* bound: the nodes whose views come about
    Crashable,      \* bound: the nodes that may crash
    MaxLife,        \* bound: lives of a node after its first
    MaxCrashes,     \* bound: crashes
    MaxFaults,      \* bound: restarts, and suspicions of a leader that serves
    MaxPlans        \* bound: plans submitted

VARIABLES
    history,        \* the eras the log has chosen, with their batches
    flight,         \* a batch accepted and not chosen, <<>> when there is none
    era,            \* the era of the view in force
    leader,         \* its primary while that serves, a set of one or none
    known,          \* by identity: the eras it knew committed when it last led
    forced,         \* by identity: the armed reincarnation machine
    planned,        \* by identity: the armed plan-execution machine
    lives,          \* by node: its current life
    spent           \* what was used of the bounds

logVars     == <<history, flight, era, leader, known>>
machineVars == <<forced, planned>>
vars == <<logVars, machineVars, lives, spent>>

Identity == Node \X (0 .. MaxLife)

Operation ==
    [op : {"Increment", "Decrement", "Leave"}, node : Identity]
    \cup [op : {"Double", "Halve"}]
    \cup [op : {"Join"}, node : Identity, position : Nat]
    \cup [op : {"Nominate"}, offset : Nat]

ASSUME ReincarnationAssumption ==
    /\ Founders \in Seq(Node) /\ Founders # <<>>
    /\ Crashable \subseteq Node /\ MaxLife \in Nat
    /\ Plan \subseteq [initial : Seq([node : Identity, weight : 0 .. MAX_WEIGHT]),
                     steps : Seq(Seq(Operation))]

\* The identity a node runs under, and the one it gave up.
Now(n) == <<n, lives[n]>>
Running == {Now(n) : n \in Node}

\* The announcements Reincarnation(old, new) some life has sent. What was sent
\* once, at the dirty boot, the network may deliver late or again.
Pairs == {[old |-> <<n, l - 1>>, new |-> <<n, l>>] : n \in Crashable, l \in 1 .. MaxLife}
Announced == {p \in Pairs : p.new[2] <= lives[p.new[1]]}

--------------------------------------------------------------------------
(* Configuration::plan, the partitioner: a stream of operations cut into   *)
(* batches, each the longest the fold takes as one era.                    *)

\* An operation is taken into the open batch, or closes it and opens the next.
Onto(s, op) ==
    {[s EXCEPT !.taken = Append(@, op), !.reached = d] :
        d \in ApplyBatch(s.start, Append(s.taken, op))}

Closed(s, op) ==
    {[steps |-> Append(s.steps, s.taken), start |-> s.reached, taken |-> <<op>>, reached |-> d] :
        d \in Provided(s.taken # <<>>, ApplyBatch(s.reached, <<op>>))}

Partition(c, ops) ==
    LET before == [steps |-> <<>>, start |-> c, taken |-> <<>>, reached |-> c]
        Taken(s, op) == UNION {IF more # {} THEN more ELSE Closed(s, op) : more \in {Onto(s, op)}}
        folded[i \in 0 .. Len(ops)] ==
            IF i = 0 THEN {before} ELSE UNION {Taken(s, ops[i]) : s \in folded[i - 1]}
    IN  {IF s.taken = <<>> THEN s.steps ELSE Append(s.steps, s.taken) :
            s \in folded[Len(ops)]}

--------------------------------------------------------------------------
(* forced_steps: the batches still missing, from the committed             *)
(* configuration alone.                                                    *)

Inc(n)  == [op |-> "Increment", node |-> n]
Dec(n)  == [op |-> "Decrement", node |-> n]
Exit(n) == [op |-> "Leave", node |-> n]

Votes(c, n) == WeightOf(c, n) >= 1

When(condition, ops) == IF condition THEN ops ELSE <<>>

\* Mutant: always at the end.
JoinForLast(c, old, new) == [op |-> "Join", node |-> new, position |-> Len(c.order)]

\* The old identity's place in the succession, the end when it has none.
JoinFor(c, old, new) ==
    [op |-> "Join", node |-> new,
     position |-> IF old \in Members(c) THEN Max(At(c, old)) - 1 ELSE Len(c.order)]

\* Mutant: the rows after the first are not recognised.
FiveNodeFirstRow(c, old, new) ==
    Provided(/\ Len(c.order) = 5
             /\ \A i \in DOMAIN c.order : c.order[i].weight = 1
             /\ old \in Members(c) /\ new \notin Members(c),
             Partition(c, <<[op |-> "Double"], JoinFor(c, old, new), Inc(new), Dec(old),
                            Dec(old), Exit(old), Inc(new), [op |-> "Halve"]>>))

\* Mutant: the newcomer is given its weight without a doubling.
FiveNodeUndoubled(c, old, new) ==
    Provided(/\ Cardinality(Members(c) \ {old, new}) = 4
             /\ old \in Members(c) /\ new \notin Members(c),
             Partition(c, <<JoinFor(c, old, new), Inc(new), Dec(old), Exit(old)>>))

\* Four survivors at one weight are a cluster of five, or a row of its table.
FiveNodeWeightedSteps(c, old, new) ==
    LET survivors == {i \in DOMAIN c.order : c.order[i].node \notin {old, new}}
        All(w) == \A i \in survivors : c.order[i].weight = w
        unit   == All(1) /\ WeightOf(c, old) = 1 /\ new \notin Members(c)
        w      == IF unit THEN 2 ELSE WeightOf(c, old)
        ops    == When(unit, <<[op |-> "Double"]>>)
                  \o When(new \notin Members(c), <<JoinFor(c, old, new)>>)
                  \o When(~Votes(c, new), <<Inc(new)>>)
                  \o When(old \in Members(c), [i \in 1 .. w |-> Dec(old)] \o <<Exit(old)>>)
                  \o When(WeightOf(c, new) <= 1, <<Inc(new)>>)
                  \o <<[op |-> "Halve"]>>
    IN  Provided(Cardinality(survivors) = 4 /\ (unit \/ All(2)),
                 UNION {Partition(c, stream) : stream \in {ops}})

\* Mutant: one unit short.
LoweringShort(c, old, new) ==
    [i \in 1 .. WeightOf(c, old) - 1 |-> <<Dec(old)>>]

\* Down to weight nothing a unit an era, the newcomer joining with the last.
Lowering(c, old, new) ==
    LET crossing == <<Dec(old)>> \o When(new \notin Members(c), <<JoinFor(c, old, new)>>)
        w        == WeightOf(c, old)
    IN  [i \in 1 .. w |-> IF i < w THEN <<Dec(old)>> ELSE crossing]

\* Mutant: a new identity that votes is the end of it.
ClosingAtVote(c, old, new) ==
    LET stays  == old \in Members(c)
        joined == new \in Members(c) \/ WeightOf(c, old) >= 1
    IN  CASE Votes(c, new)    -> <<>>
          [] stays /\ joined  -> <<<<Inc(new), Exit(old)>>>>
          [] joined           -> <<<<Inc(new)>>>>
          [] OTHER            -> <<<<JoinFor(c, old, new)>> \o When(stays, <<Exit(old)>>),
                                   <<Inc(new)>>>>

\* The promotion, and the departure at weight nothing.
Closing(c, old, new) ==
    LET stays  == old \in Members(c)
        joined == new \in Members(c) \/ WeightOf(c, old) >= 1
    IN  CASE Votes(c, new) /\ stays -> <<<<Exit(old)>>>>
          [] Votes(c, new)          -> <<>>
          [] stays /\ joined        -> <<<<Inc(new), Exit(old)>>>>
          [] joined                 -> <<<<Inc(new)>>>>
          [] OTHER                  -> <<<<JoinFor(c, old, new)>> \o When(stays, <<Exit(old)>>),
                                         <<Inc(new)>>>>

ForcedSteps(c, old, new) ==
    UNION {IF five # {} THEN five ELSE {Lowering(c, old, new) \o Closing(c, old, new)} :
            five \in {FiveNodeWeightedSteps(c, old, new)}}

\* The steps of an announced pair, one sequence.
Remaining(c, p) == ForcedSteps(c, p.old, p.new)

--------------------------------------------------------------------------
(* What the leader may propose.                                            *)

Chosen == Len(history)

ConfigOf(n) == history[known[n]].config

\* plan_reincarnate: the announcements a life still repeats on every tick. It
\* stops for good when its own record gives it a vote, which is certainly not
\* so while no era that was chosen does.
Announcing(p) ==
    /\ p \in Announced /\ p.new \in Running
    /\ \A k \in 1 .. Chosen : ~Votes(history[k].config, p.new)

\* forced_step_plannable and plan_step_plannable: the view has entered the
\* last era, nothing is uncommitted, and the batch folds.
Plannable(n, ops) ==
    /\ known[n] = era
    /\ known[n] = Chosen /\ flight = <<>>
    /\ ApplyBatch(ConfigOf(n), ops) # {}

\* reconfigure_gates asks in addition that quorums meet.
QuorumGates(c, ops) ==
    \A d \in ApplyBatch(c, ops) : ValidateTransition(c, d) /\ ValidateEra(d)

\* plan_reconfigure and plan_fuse_batch: the batch enters the log.
Proposes(n, ops) ==
    /\ Plannable(n, ops) /\ QuorumGates(ConfigOf(n), ops)
    /\ flight' = ops
    /\ UNCHANGED <<history, era, leader, known>>

--------------------------------------------------------------------------
(* The reincarnation machine.                                              *)

\* plan_reincarnation: an announcement reaches the leader.
ReceiveReincarnation(p) ==
    /\ p \in Announced
    /\ \E n \in leader : \E steps \in Remaining(ConfigOf(n), p) :
          /\ forced' = [forced EXCEPT ![n] = IF steps = <<>> THEN {} ELSE {p}]
          /\ IF steps # <<>> /\ Plannable(n, steps[1])
             THEN Proposes(n, steps[1])
             ELSE UNCHANGED logVars
    /\ UNCHANGED <<planned, lives, spent>>

\* plan_forced_continuation, on a tick: the sequence is over, or goes on.
ForcedOver(n) ==
    /\ \E p \in forced[n] : <<>> \in Remaining(ConfigOf(n), p)
    /\ forced' = [forced EXCEPT ![n] = {}]
    /\ UNCHANGED <<logVars, planned, lives, spent>>

ForcedStep(n) ==
    /\ \E p \in forced[n] : \E steps \in Remaining(ConfigOf(n), p) :
          steps # <<>> /\ Proposes(n, steps[1])
    /\ UNCHANGED <<machineVars, lives, spent>>

\* It leaves the tick to the rest of plan_tick.
ForcedIdle(n) ==
    \A p \in forced[n] : \A steps \in Remaining(ConfigOf(n), p) :
        steps # <<>> /\ ~Plannable(n, steps[1])

--------------------------------------------------------------------------
(* The plan-execution machine.                                             *)

\* Plan::validate_against: the order and the weights it was computed for,
\* and every step folds.
ValidateAgainst(p, c) ==
    /\ p.initial = c.order
    /\ FoldLeft(LAMBDA S, ops : UNION {ApplyBatch(d, ops) : d \in S}, {c}, p.steps) # {}

\* plan_submit_plan. A plan without steps is answered and changes nothing.
SubmitPlan(p) ==
    \E n \in leader :
        /\ spent.plans < MaxPlans
        /\ ValidateAgainst(p, ConfigOf(n)) /\ p.steps # <<>>
        /\ IF Plannable(n, p.steps[1]) THEN Proposes(n, p.steps[1]) ELSE UNCHANGED logVars
        /\ planned' = [planned EXCEPT ![n] = {[steps |-> p.steps, next |-> 1,
                                               since |-> known[n]]}]
        /\ spent' = [spent EXCEPT !.plans = @ + 1]
        /\ UNCHANGED <<forced, lives>>

\* plan_execution_continuation: a step the configuration refuses ends the plan.
PlanAborted(n) ==
    /\ ForcedIdle(n)
    /\ \E m \in planned[n] : ApplyBatch(ConfigOf(n), m.steps[m.next]) = {}
    /\ planned' = [planned EXCEPT ![n] = {}]
    /\ UNCHANGED <<logVars, forced, lives, spent>>

PlanStep(n) ==
    /\ ForcedIdle(n)
    /\ \E m \in planned[n] : Proposes(n, m.steps[m.next])
    /\ UNCHANGED <<machineVars, lives, spent>>

\* Mutants: the machine moves on by any batch, or is kept after its last one.
CommittedAny(machine, ops) ==
    {[m EXCEPT !.next = @ + 1] : m \in {x \in machine : x.next < Len(x.steps)}}

CommittedKept(machine, ops) ==
    {IF m.steps[m.next] = ops THEN [m EXCEPT !.next = @ + 1] ELSE m : m \in machine}

\* plan_execution_commit: the machine moves on by its own batch, and clears
\* with the last one.
Committed(machine, ops) ==
    LET advanced == {IF m.steps[m.next] = ops THEN [m EXCEPT !.next = @ + 1] ELSE m :
                        m \in machine}
    IN  {m \in advanced : m.next <= Len(m.steps)}

\* plan_tick's last two branches.
Tick == \E n \in leader : ForcedOver(n) \/ ForcedStep(n) \/ PlanAborted(n) \/ PlanStep(n)

--------------------------------------------------------------------------
(* Commits and views.                                                      *)

\* The processes that can answer make a quorum of an era.
Live(c) == IsQuorum(c, Members(c) \cap Running)

\* finish_commit_quorum at the leader: a batch that an earlier leader chose,
\* or the one in flight.
Commit ==
    \E n \in leader :
        /\ Live(ConfigOf(n))
        /\ \/ known[n] < Chosen /\ UNCHANGED <<history, flight>>
           \/ /\ known[n] = Chosen /\ flight # <<>>
              /\ \E d \in ApplyBatch(ConfigOf(n), flight) :
                    history' = Append(history, [config |-> d, ops |-> flight])
              /\ flight' = <<>>
        /\ known' = [known EXCEPT ![n] = @ + 1]
        /\ planned' = [planned EXCEPT ![n] = Committed(@, history'[known'[n]].ops)]
        /\ UNCHANGED <<era, leader, forced, lives, spent>>

\* A view change ends with n as the primary of a view of era e. It knows
\* what its quorum told it to be committed; a batch nobody chose may be lost.
Installs(n, e) ==
    /\ n[1] \in Electable /\ n \in Running
    /\ Votes(history[e].config, n) /\ Live(history[e].config)
    /\ leader' = {n} /\ era' = e
    /\ \E k \in e .. Chosen : k >= known[n] /\ known' = [known EXCEPT ![n] = k]
    /\ flight' \in {flight, <<>>}
    /\ UNCHANGED <<history, machineVars, lives>>

\* view_change_target: the established era that no view has entered.
EnterEra == era < Chosen /\ \E n \in Running : Installs(n, Chosen) /\ UNCHANGED spent

\* The next view of the same era: the leader is gone, or is suspected.
Elect == leader = {} /\ \E n \in Running : Installs(n, era) /\ UNCHANGED spent

Suspect ==
    /\ leader # {} /\ spent.faults < MaxFaults
    /\ spent' = [spent EXCEPT !.faults = @ + 1]
    /\ \E n \in Running \ leader : Installs(n, era)

\* A new process has neither machine.
Forgets(n) ==
    /\ leader' = leader \ {n}
    /\ forced' = [forced EXCEPT ![n] = {}]
    /\ planned' = [planned EXCEPT ![n] = {}]
    /\ UNCHANGED <<history, flight, era, known>>

\* A clean stop and start: the same identity, fenced.
Restart(n) ==
    /\ n \in leader /\ spent.faults < MaxFaults
    /\ spent' = [spent EXCEPT !.faults = @ + 1]
    /\ Forgets(n)
    /\ UNCHANGED lives

\* An identity that never voted was never latched, and comes back itself.
Latched(n) == n[2] = 0 \/ \E k \in 1 .. Chosen : Votes(history[k].config, n)

Crash(m) ==
    /\ m \in Crashable /\ spent.crashes < MaxCrashes
    /\ Latched(Now(m)) /\ lives[m] < MaxLife
    /\ spent' = [spent EXCEPT !.crashes = @ + 1]
    /\ lives' = [lives EXCEPT ![m] = @ + 1]
    /\ Forgets(Now(m))

Init ==
    /\ history = <<[config |-> Founded([i \in DOMAIN Founders |-> <<Founders[i], 0>>]),
                    ops |-> <<>>]>>
    /\ flight = <<>> /\ era = 1
    /\ leader = {<<Founders[1], 0>>}
    /\ known = [n \in Identity |-> 1]
    /\ forced = [n \in Identity |-> {}]
    /\ planned = [n \in Identity |-> {}]
    /\ lives = [n \in Node |-> 0]
    /\ spent = [crashes |-> 0, faults |-> 0, plans |-> 0]

Next ==
    \/ \E p \in Pairs : ReceiveReincarnation(p)
    \/ \E p \in Plan : SubmitPlan(p)
    \/ Tick
    \/ Commit
    \/ EnterEra \/ Elect \/ Suspect
    \/ \E n \in Identity : Restart(n)
    \/ \E m \in Node : Crash(m)

\* A leader ticks and hears the acknowledgements, timeouts fire, and a node
\* without a vote announces itself on every tick, so that one announcement
\* gets through to a leader that stays. After the vote none is assumed to.
Fairness ==
    /\ WF_vars(Tick) /\ WF_vars(Commit) /\ WF_vars(EnterEra) /\ WF_vars(Elect)
    /\ \A p \in Pairs : WF_vars(Announcing(p) /\ ReceiveReincarnation(p))

Spec == Init /\ [][Next]_vars /\ Fairness

--------------------------------------------------------------------------

\* The state has its shape: eras are numbered as they were chosen, a leader
\* is at most an era ahead of its view, and an armed plan has a step left.
TypeOK ==
    /\ \A k \in 1 .. Chosen : history[k].config.era = k
    /\ era \in 1 .. Chosen /\ Chosen <= era + 1
    /\ leader \subseteq Running /\ Cardinality(leader) <= 1
    /\ known \in [Identity -> 1 .. Chosen]
    /\ \A n \in leader : known[n] >= era
    /\ flight = <<>> \/ era = Chosen
    /\ forced \in [Identity -> SUBSET Pairs]
    /\ \A n \in Identity : \A m \in planned[n] :
          m.next \in DOMAIN m.steps /\ m.since \in 1 .. Chosen

\* forced_steps never stores a step: wherever a leader stops, the steps
\* computed from the configuration it left are those it had not committed.
RecomputesTheRest ==
    \A p \in Announced :
        LET c == history[Chosen].config
        IN  \A steps \in Remaining(c, p) :
                p.new \in Running /\ steps # <<>> =>
                    \E d \in ApplyBatch(c, steps[1]) : Remaining(d, p) = {Tail(steps)}

\* What the fold takes the quorum gates take too, so that an announcement is
\* armed and neither machine is held up by a refusal that none of its own
\* checks foresees.
GatesAgree ==
    \A n \in leader :
        LET c == ConfigOf(n)
        IN  /\ \A p \in Announced : \A steps \in Remaining(c, p) \ {<<>>} :
                  QuorumGates(c, steps[1])
            /\ \A m \in planned[n] : QuorumGates(c, m.steps[m.next])

Replaced(order, p) ==
    [i \in DOMAIN order |-> IF order[i].node = p.old THEN [order[i] EXCEPT !.node = p.new]
                            ELSE order[i]]

Undisturbed == spent.plans = 0 /\ spent.crashes = 1

\* A sequence that is over, however often its leader changed, has put the new
\* identity in the old one's place and left everything else as it was.
ReplacedInPlace ==
    \A p \in Announced :
        LET c == history[Chosen].config
        IN  Undisturbed /\ <<>> \in Remaining(c, p) =>
                c.order = Replaced(history[1].config.order, p)

\* The replacement never costs the margin of the cluster: in every era, with
\* the old identity dead and the new one silent, another member may fail.
MarginKept ==
    \A p \in Announced : \A k \in 1 .. Chosen :
        LET c == history[k].config
        IN  Undisturbed =>
                \A n \in Members(c) : IsQuorum(c, Members(c) \ {p.old, p.new, n})

\* An armed plan counts the batches it sees committed: the steps before its
\* next one were chosen, in order, after it was accepted.
PlanInOrder ==
    \A n \in Identity : \A m \in planned[n] :
        \E at \in [1 .. m.next - 1 -> m.since + 1 .. known[n]] :
            \A i \in DOMAIN at :
                /\ history[at[i]].ops = m.steps[i]
                /\ \A j \in 1 .. i - 1 : at[j] < at[i]

\* The sequences the leader is armed with, and those that are over.
Carried == UNION {forced[n] : n \in leader}
Finished ==
    LET c == history[Chosen].config
    IN  {p \in Pairs : p.old \notin Members(c) /\ Votes(c, p.new)}

\* A crashed node votes again, whichever leaders come and go meanwhile: until
\* then it announces itself, and whoever leads is armed by that.
VotesAgain ==
    []<>(\A p \in Announced :
            p.new \in Running => Votes(history[Chosen].config, p.new))

\* A leader armed with a sequence that keeps the lead, through the era changes
\* of the sequence too, finishes it (here no second node announces itself):
\* it does not drop it, nor hold it for ever. From the new identity's vote on
\* nothing but the leader's own ticks carry the sequence, and a leader that
\* takes over then may never be armed.
StableLeaderFinishes ==
    /\ [][leader' = leader => Carried \subseteq Carried' \cup Finished']_vars
    /\ []<>(Carried \subseteq Finished)

=============================================================================
