-------------------------- MODULE Reconfiguration --------------------------
(***************************************************************************)
(* The reign of one leader that changes the configuration while it serves: *)
(* src/replica/reconfiguration.rs, with what normal.rs, transfer.rs and    *)
(* view_change.rs do while eras change, and Configuration underneath.      *)
(*                                                                         *)
(* The leader orders client operations, single changes and fused batches.  *)
(* Every replica folds the committed prefix of the log into its own era    *)
(* table, in the pieces in which its commit frontier happens to move. The  *)
(* leader's ballot enters a new era on the nomination a batch carries, or  *)
(* by the planned overlap: it solicits the view change quorum of the old   *)
(* era while it keeps committing with another quorum.                      *)
(*                                                                         *)
(* Abstractions.                                                           *)
(*  - One leader appends, so every log is a prefix of `hist` and an entry  *)
(*    is named by its slot. All traffic has the leader at one end.         *)
(*  - The network is a set that only grows, as in Replica.                 *)
(*  - Elections are the subject of Replica: a replica that sees a later    *)
(*    view is fenced until it adopts a StartView.                          *)
(*  - CommitBatch, which every receiver drops, is not sent.                *)
(*  - No replica restarts; nobody gossips, so nobody is streamed to who is *)
(*    no member. The budget counts entries.                                *)
(*  - Nominations are the ones solve::fold computes: they re-elect the     *)
(*    leader.                                                              *)
(***************************************************************************)
EXTENDS Configuration

CONSTANTS
    Node,           \* the founders and the nodes that may join
    InitOrder,      \* the founders, in succession order
    Changes,        \* what an operator may ask for: operations, riders left
                    \* out, and the mode: "single", "fused" or "overlap"
    MaxSlot,        \* bound: the last slot ordered
    MaxClient,      \* bound: the client operations among them
    Budget,         \* view_change_budget, in entries
    MaxServe        \* bound: the chunks served

\* The operations a change is made of, riders left out.
SystemOperation ==
    [op : {"Increment", "Decrement", "Leave"}, node : Node]
    \cup [op : {"Double", "Halve"}]
    \cup [op : {"Join"}, node : Node, position : Nat]

ASSUME ReconfigurationAssumption ==
    /\ InitOrder \in Seq(Node) /\ InitOrder # <<>> /\ IsInjective(InitOrder)
    /\ Changes \subseteq [mode : {"single", "fused", "overlap"}, ops : Seq(SystemOperation)]
    /\ MaxSlot \in Nat /\ MaxSlot >= 2
    /\ MaxClient \in Nat /\ Budget \in Nat /\ MaxServe \in Nat

VARIABLES
    hist,           \* the leader's log: operations with their era stamp
    accepted, committed, ballot, retained, status, table, fault,
    oks,            \* the leader's tallies, as pairs <<slot, node>>
    planned,        \* the leader's overlap, none or one
    transfer,       \* the open fetch of each node, none or one
    stalled,        \* the StartView each node retains, none or one
    msgs

progressVars == <<accepted, committed, ballot, retained, status, table, fault>>
leaderVars   == <<oks, planned>>
fetchVars    == <<transfer, stalled>>
vars == <<hist, progressVars, leaderVars, fetchVars, msgs>>

--------------------------------------------------------------------------
INIT_SLOT == 2
FUSE_MAX_OPS == 7

Leader == InitOrder[1]
Founders == {InitOrder[i] : i \in DOMAIN InitOrder}

\* The payload of a client operation, as opposed to a system operation.
Operation == [op |-> "Operation"]

System(s) == hist[s].op # Operation

Above(b, c) == b.era > c.era \/ (b.era = c.era /\ b.view > c.view)

AtMost(a, b) == IF a < b THEN a ELSE b
AtLeast(a, b) == IF a > b THEN a ELSE b

\* primary_of: n leads ballot b, and r can evaluate its era.
Leads(r, b, n) ==
    \E rec \in RecordsOf(table[r], b.era) : Selects(rec.config, b.view, n)

MemberOf(r, b, n) ==
    \E rec \in RecordsOf(table[r], b.era) : n \in Members(rec.config)

Config(r) == Current(table[r]).config

Serves(r) == ~fault[r] /\ status[r] = "Normal" /\ Leads(r, ballot[r], r)

\* The other members of the era of the leader's ballot.
Backups ==
    UNION {Members(rec.config) : rec \in RecordsOf(table[Leader], ballot[Leader].era)}
        \ {Leader}

\* plan_peer: r takes m, from the leader, whom it knows as a member.
Takes(r, m, tag) ==
    /\ m.tag = tag /\ r \in m.to
    /\ ~fault[r]
    /\ Leader \in Members(Config(r))

Send(ms) == msgs' = msgs \cup ms

--------------------------------------------------------------------------
(***************************************************************************)
(* fold_committed: committed entries move the era table.                   *)
(***************************************************************************)

\* The last slot of the run of system entries of one era that starts at s,
\* in a log that ends at `end`.
RunEnd(s, end) ==
    Max({e \in s .. end : \A k \in s .. e : System(k) /\ hist[k].era = hist[s].era})

OpsOf(s, e) == [i \in 1 .. e - s + 1 |-> hist[s + i - 1].op]

Batch(ops) == [op |-> "Batch", ops |-> ops]

\* run_nominations: the ballot after the riders of a run that match it.
Nominated(running, ops, era) ==
    LET riders == FlattenSeq([i \in DOMAIN ops |->
                      IF ops[i].op = "Batch" THEN ops[i].ops ELSE <<ops[i]>>])
    IN  FoldLeft(LAMBDA S, op :
                    {IF Nominates(op) /\ b.view = op.from
                     THEN [era |-> era, view |-> op.from + op.offset]
                     ELSE b : b \in S},
                 running, riders)

\* The run from slot `next` to slot `last`: a batch when it has two entries or
\* more, and its first entry alone when the batch is refused.
RunAt(t, next, last) ==
    LET Taken(op, ops, end) ==
            {[table |-> x, ops |-> ops, end |-> end] : x \in Extend(t, op, next)}
        whole == IF next = last THEN {}
                 ELSE Taken(Batch(OpsOf(next, last)), OpsOf(next, last), last)
    IN  IF whole # {} THEN whole
        ELSE Taken(hist[next].op, <<hist[next].op>>, next)

\* The fold f after the run x. A paced fold stops before an era more than one
\* ahead of the ballot, unless the run moves the ballot.
OntoRun(f, x, r, paced) ==
    LET era   == Current(x.table).config.era
        carry == IF f.running = {} THEN ballot[r].era
                 ELSE Max({b.era : b \in f.running})
        moved == Nominated(f.running, x.ops, era)
    IN  IF paced /\ era > carry + 1 /\ moved = f.running
        THEN [f EXCEPT !.halt = "Window"]
        ELSE [f EXCEPT !.slot = x.end, !.table = x.table, !.running = moved]

\* One turn of the loop; `halt` says why it stopped.
FoldRunAtFrontier(f, next, r, end, through, paced) ==
    LET folds == {OntoRun(f, x, r, paced) :
                     x \in RunAt(f.table, next, RunEnd(next, end))}
    IN  IF ~System(next) THEN [f EXCEPT !.slot = next]
        ELSE IF folds = {} THEN [f EXCEPT !.halt = "Breach"]
        ELSE CHOOSE g \in {[h EXCEPT !.table[Len(h.table)].at = through] : h \in folds} : TRUE
FoldRun(f, next, r, end, through, paced) ==
    LET last  == RunEnd(next, end)
        folds == {OntoRun(f, x, r, paced) : x \in RunAt(f.table, next, last)}
    IN  IF ~System(next) THEN [f EXCEPT !.slot = next]
        ELSE IF last > through THEN [f EXCEPT !.halt = "SplitBatch"]
        ELSE IF folds = {} THEN [f EXCEPT !.halt = "Breach"]
        ELSE CHOOSE g \in folds : TRUE

\* The fold of r's commits up to `through`, over a log that ends at `end`.
FoldCommitted(r, end, through, paced) ==
    {FoldLeft(LAMBDA f, k : IF f.halt # "no" \/ f.slot >= through THEN f
                            ELSE FoldRun(f, f.slot + 1, r, end, through, paced),
              [slot |-> committed[r], table |-> table[r], halt |-> "no",
               running |-> IF status[r] = "Normal" THEN {ballot[r]} ELSE {}],
              [k \in 1 .. through - committed[r] |-> k])}

--------------------------------------------------------------------------
(***************************************************************************)
(* Publishing what a fold came to. A candidate outside the era window is   *)
(* refused and nothing moves; one that is no legal successor is a fault,   *)
(* and so is a history the configuration refuses.                          *)
(***************************************************************************)

\* The ballot the riders of the fold walked to.
Walked(r, f) ==
    IF f.running = {} THEN {ballot[r]} ELSE f.running

InWindow(t, b) == Current(t).config.era \in {b.era, b.era + 1}

LegalSuccessor(b, c) == c.view > b.view /\ c.era \in {b.era, b.era + 1}

\* Every era the walk crosses has a record that the commits cover.
GroundedWalk(r, c, f) ==
    /\ c.era > ballot[r].era /\ c.view > ballot[r].view
    /\ c.era - ballot[r].era <= f.slot - committed[r]
    /\ \A e \in ballot[r].era + 1 .. c.era :
          \E rec \in RecordsOf(f.table, e) : rec.at <= f.slot

Legal(r, c, f) ==
    \/ c = ballot[r]
    \/ LegalSuccessor(ballot[r], c)
    \/ GroundedWalk(r, c, f)

Doomed(r, b, f) ==
    \/ f.halt = "Breach"
    \/ f.halt # "SplitBatch" /\ InWindow(f.table, b) /\ ~Legal(r, b, f)

Fault(r) ==
    /\ fault' = [fault EXCEPT ![r] = TRUE]
    /\ UNCHANGED <<hist, accepted, committed, ballot, retained, status, table>>
    /\ UNCHANGED <<leaderVars, fetchVars, msgs>>

Publish(r, st, acc, b, f) ==
    /\ f.halt \in {"no", "Window"}
    /\ InWindow(f.table, b) /\ Legal(r, b, f)
    /\ status' = [status EXCEPT ![r] = st]
    /\ accepted' = [accepted EXCEPT ![r] = acc]
    /\ committed' = [committed EXCEPT ![r] = f.slot]
    /\ ballot' = [ballot EXCEPT ![r] = b]
    /\ retained' = [retained EXCEPT ![r] = IF st = "ViewChange" THEN @ ELSE b]
    /\ table' = [table EXCEPT ![r] = f.table]
    /\ UNCHANGED fault

--------------------------------------------------------------------------
(***************************************************************************)
(* The leader orders.                                                      *)
(***************************************************************************)

\* The entry of an operation, at the era it is stamped with.
Entry(op, era) == [op |-> op, era |-> era]

OrderOne(entries) ==
    /\ Len(hist) + Len(entries) <= MaxSlot
    /\ hist' = hist \o entries
    /\ accepted' = [accepted EXCEPT ![Leader] = @ + 1]
    /\ UNCHANGED <<committed, ballot, retained, status, table, fault>>
Order(entries) ==
    /\ Len(hist) + Len(entries) <= MaxSlot
    /\ hist' = hist \o entries
    /\ accepted' = [accepted EXCEPT ![Leader] = @ + Len(entries)]
    /\ UNCHANGED <<committed, ballot, retained, status, table, fault>>

Prepare(to) ==
    [tag |-> "Prepare", to |-> to, view |-> ballot[Leader],
     slot |-> accepted[Leader] + 1, committed |-> committed[Leader]]

\* A client operation is stamped with the era the commits have established.
Propose ==
    /\ Serves(Leader)
    /\ Cardinality({s \in DOMAIN hist : ~System(s)}) < MaxClient
    /\ Order(<<Entry(Operation, Config(Leader).era)>>)
    /\ Send({Prepare(Backups)})
    /\ UNCHANGED <<leaderVars, fetchVars>>

\* reconfigure_gates: the tables the change may lead to.
ReconfigureGatesBusy(op) ==
    {t \in Extend(table[Leader], op, accepted[Leader] + 1) :
        /\ Config(Leader).era = ballot[Leader].era
        /\ ValidateTransition(Config(Leader), Current(t).config)
        /\ ValidateEra(Current(t).config)}
ReconfigureGates(op) ==
    {t \in Extend(table[Leader], op, accepted[Leader] + 1) :
        /\ Config(Leader).era = ballot[Leader].era
        /\ \A s \in committed[Leader] + 1 .. accepted[Leader] : ~System(s)
        /\ ValidateTransition(Config(Leader), Current(t).config)
        /\ ValidateEra(Current(t).config)}

\* next_view_selecting: the next view congruent to an index of the order.
NextViewSelecting(view, index, members) ==
    Min({v \in view + 1 .. view + members : v % members = index})

\* plan_reconfigure: one entry, at the era of the ballot. A pivot plans the
\* overlap, and the entry goes to the pivot's commit quorum only.
Reconfigure(op) ==
    /\ Serves(Leader)
    /\ ReconfigureGates(op) # {}
    /\ Order(<<Entry(op, ballot[Leader].era)>>)
    /\ Send({Prepare(Backups)})
    /\ UNCHANGED <<leaderVars, fetchVars>>

ReconfigureWithPivot(op) ==
    /\ Serves(Leader)
    /\ \E t \in ReconfigureGates(op) :
          LET next == Current(t).config
          IN  \E p \in [q_i : SUBSET Members(Config(Leader)),
                        q_ii : SUBSET Members(Config(Leader))],
                 i \in At(next, Leader) :
                /\ ValidPivot(Config(Leader), next, Leader, p)
                /\ planned' = {[establishing |-> accepted[Leader] + 1,
                                pivot |-> p,
                                target |-> [era |-> next.era,
                                            view |-> NextViewSelecting(
                                                ballot[Leader].view, i - 1,
                                                Len(next.order))],
                                solicited |-> FALSE, evidence |-> {}]}
                /\ Send({Prepare(p.q_ii \ {Leader})})
    /\ Order(<<Entry(op, ballot[Leader].era)>>)
    /\ UNCHANGED <<oks, fetchVars>>

\* solve::fold: the rider a change carries, which re-elects the leader in the
\* first view that does. A scaling carries none.
RiderOfNext(change) ==
    IF \E i \in DOMAIN change : Scales(change[i]) THEN <<>>
    ELSE <<[op |-> "Nominate", from |-> ballot[Leader].view, offset |-> 1]>>
RiderOf(change) ==
    LET view == ballot[Leader].view
        n    == Len(Config(Leader).order)
        re   == {k \in 1 .. 2 * n + 2 :
                    \E d \in Apply(Config(Leader), Batch(change)) :
                        Selects(d, view + k, Leader)}
    IN  IF re = {} \/ \E i \in DOMAIN change : Scales(change[i]) THEN <<>>
        ELSE <<[op |-> "Nominate", from |-> view, offset |-> Min(re)]>>

\* plan_fuse_batch: one entry per operation, each with its own stamp.
Fuse(ops) ==
    /\ Serves(Leader)
    /\ Len(ops) \in 2 .. FUSE_MAX_OPS
    /\ ReconfigureGates(Batch(ops)) # {}
    /\ \E f \in FoldSlots(Config(Leader), ops) :
          Order([i \in DOMAIN ops |-> Entry(ops[i], f.eras[i])])
    /\ Send({[tag |-> "Fuse", to |-> Backups, view |-> ballot[Leader],
              slot |-> accepted[Leader] + 1, ops |-> ops]})
    /\ UNCHANGED <<leaderVars, fetchVars>>

Ask(change) ==
    LET ops == change.ops \o RiderOf(change.ops)
    IN  \/ change.mode = "single" /\ Reconfigure(Batch(ops))
        \/ change.mode = "fused" /\ Fuse(ops)
        \/ change.mode = "overlap" /\ ReconfigureWithPivot(Batch(change.ops))

--------------------------------------------------------------------------
(***************************************************************************)
(* The leader commits.                                                     *)
(***************************************************************************)

\* commit_segment: a slot and the system entries of its era that follow it.
SegmentEnd(s, end) ==
    Max({e \in s .. end :
            \A k \in s + 1 .. e : System(k) /\ hist[k].era = hist[s].era})

\* commit_cascade_frontier: segments commit whole, one after the other, while
\* each of their slots has a quorum of the current configuration.
CascadeFrontierHalf(votes) ==
    Max({committed[Leader]} \cup
        {s \in committed[Leader] + 1 .. accepted[Leader] :
            2 * MapThenSumSet(LAMBDA n : WeightOf(Config(Leader), n),
                              {Leader} \cup {v[2] : v \in {w \in votes : w[1] = s}})
                >= Total(Config(Leader)) - 1})
CascadeFrontier(votes) ==
    LET end == accepted[Leader]
        Voted(s) == IsQuorum(Config(Leader),
                             {Leader} \cup {v[2] : v \in {w \in votes : w[1] = s}})
        Past(c, e) == IF \A s \in c + 1 .. e : Voted(s) THEN e ELSE c
    IN  FoldLeft(LAMBDA c, k : IF c < end THEN Past(c, SegmentEnd(c + 1, end)) ELSE c,
                 committed[Leader],
                 [k \in 1 .. end - committed[Leader] |-> k])

\* overlap_solicitation: the establishing entry has just committed.
Solicits(f) ==
    {p \in planned : /\ ~p.solicited
                     /\ p.establishing \in committed[Leader] + 1 .. f.slot
                     /\ Current(f.table).at = p.establishing}

\* finish_commit_quorum. The Commit goes out at the ballot it was voted in.
FinishCommitQuorum(frontier, votes) ==
    \E f \in FoldCommitted(Leader, accepted[Leader], frontier, TRUE) :
    \E b \in Walked(Leader, f) :
        \/ /\ frontier = committed[Leader]
           /\ oks' = votes
           /\ UNCHANGED <<hist, progressVars, planned, fetchVars, msgs>>
        \/ /\ frontier # committed[Leader]
           /\ Doomed(Leader, b, f)
           /\ Fault(Leader)
        \/ /\ frontier # committed[Leader]
           /\ Publish(Leader, "Normal", accepted[Leader], b, f)
           /\ oks' = votes
           /\ planned' = {IF p \in Solicits(f) THEN [p EXCEPT !.solicited = TRUE]
                          ELSE p : p \in planned}
           /\ Send({[tag |-> "Commit", to |-> Backups, view |-> ballot[Leader],
                     committed |-> f.slot]}
                   \cup {[tag |-> "PlannedViewChange", to |-> p.pivot.q_i \ {Leader},
                          view |-> p.target] : p \in Solicits(f)})
           /\ UNCHANGED <<hist, fetchVars>>

\* PrepareOk and FuseOk: a vote for a slot is a vote for those before it. A
\* learner's answer only prompts a recount.
ReceiveOk ==
    \E m \in msgs :
        LET votes == oks \cup {<<s, m.from>> : s \in committed[Leader] + 1 .. m.slot}
        IN  /\ m.tag = "Ok"
            /\ Serves(Leader)
            /\ m.view = ballot[Leader]
            /\ m.from \in Members(Config(Leader))
            /\ \/ /\ WeightOf(Config(Leader), m.from) = 0
                  /\ FinishCommitQuorum(CascadeFrontier(oks), oks)
               \/ /\ WeightOf(Config(Leader), m.from) # 0
                  /\ m.slot > committed[Leader]
                  /\ <<m.slot, m.from>> \notin oks
                  /\ FinishCommitQuorum(CascadeFrontier(votes), votes)

--------------------------------------------------------------------------
(***************************************************************************)
(* A replica follows.                                                      *)
(***************************************************************************)

Ok(r, slot) == [tag |-> "Ok", from |-> r, view |-> ballot[r], slot |-> slot]

\* fetch: ask the leader for the entries from slot `next` on.
Fetch(r, view, next) ==
    /\ transfer' = [transfer EXCEPT ![r] = {view}]
    /\ Send({[tag |-> "GetState", from |-> r, view |-> view, next |-> next]})

\* plan_higher_view_signal: the sight of a later view fences the replica.
HigherView(r, m) ==
    /\ Leads(r, m.view, Leader)
    /\ status[r] # "Joining"
    /\ LegalSuccessor(ballot[r], m.view)
    /\ InWindow(table[r], m.view)
    /\ status' = [status EXCEPT ![r] = "ViewChange"]
    /\ ballot' = [ballot EXCEPT ![r] = m.view]
    /\ Fetch(r, m.view, accepted[r] + 1)
    /\ UNCHANGED <<hist, accepted, committed, retained, table, fault,
                   leaderVars, stalled>>

\* A message of the replica's own view, from its leader.
Follows(r, m) ==
    /\ m.view = ballot[r]
    /\ Leads(r, m.view, Leader)
    /\ status[r] \in {"Normal", "Joining"}

\* A fenced entry node that is a member takes part from here on.
Adopted(r) == IF MemberOf(r, ballot[r], r) THEN "Normal" ELSE status[r]

\* Commit what a frontier covers, in a log that ends at acc.
Advance(r, acc, frontier, sends) ==
    \E f \in FoldCommitted(r, acc, AtLeast(committed[r], AtMost(frontier, acc)), TRUE) :
    \E b \in Walked(r, f) :
        \/ Doomed(r, b, f) /\ Fault(r)
        \/ /\ Publish(r, Adopted(r), acc, b, f)
           /\ Send(sends)
           /\ UNCHANGED <<hist, leaderVars, fetchVars>>

\* The tables after the system entries of from + 1 .. to, taken one by one.
Chained(t, from, to) ==
    LET slots == SelectSeq([i \in 1 .. to - from |-> from + i], System)
    IN  FoldLeft(LAMBDA S, s : UNION {Extend(x, hist[s].op, s) : x \in S},
                 {t}, slots)

\* Whether a system entry at slot s may follow the uncommitted entries: as one
\* more of the batch of its era, or alone.
Judged(t, from, s) ==
    LET peers == SelectSeq([i \in 1 .. s - from - 1 |-> from + i],
                           LAMBDA k : System(k) /\ hist[k].era = hist[s].era)
        run   == Append(peers, s)
        batch == Batch([i \in DOMAIN run |-> hist[run[i]].op])
    IN  \E x \in Chained(t, from, s - 1) :
            \/ Extend(x, hist[s].op, s) # {}
            \/ /\ peers # <<>>
               /\ \E y \in Chained(t, from, run[1] - 1) : Extend(y, batch, run[1]) # {}

\* The checks of an entry past the accepted log: in the ballot's era or the
\* next, no gap, an operation its predecessors allow, an era already known.
AcceptsNext(r, m) ==
    LET s == m.slot
    IN  \E f \in FoldCommitted(r, s, AtLeast(committed[r], AtMost(m.committed, s)), TRUE) :
        /\ s = accepted[r] + 1
        /\ ~(f.halt = "Breach" /\ f.slot = s - 1)
        /\ f.slot < s =>
              /\ System(s) => Judged(f.table, f.slot, s)
              /\ hist[s].era <= Current(f.table).config.era

ReceivePrepare(r) ==
    \E m \in msgs :
        /\ Takes(r, m, "Prepare")
        /\ \/ HigherView(r, m)
           \/ /\ Follows(r, m)
              /\ hist[m.slot].era \in {m.view.era, m.view.era + 1}
              /\ \/ /\ m.slot <= accepted[r]
                    /\ Advance(r, accepted[r], m.committed, {Ok(r, m.slot)})
                 \/ /\ AcceptsNext(r, m)
                    /\ Advance(r, m.slot, m.committed, {Ok(r, m.slot)})
                 \/ /\ m.slot > accepted[r] + 1
                    /\ Fetch(r, ballot[r], accepted[r] + 1)
                    /\ UNCHANGED <<hist, progressVars, leaderVars, stalled>>

\* plan_fuse: the receiver stamps the batch with its own configuration.
StampsOfBallot(r, m) ==
    {[i \in DOMAIN f.eras |-> ballot[r].era] : f \in FoldSlots(Config(r), m.ops)}
Stamps(r, m) == {f.eras : f \in FoldSlots(Config(r), m.ops)}

AcceptsFuse(r, m) ==
    /\ Follows(r, m)
    /\ m.slot = accepted[r] + 1
    /\ Stamps(r, m) # {}

ReceiveFuse(r) ==
    \E m \in msgs :
        /\ Takes(r, m, "Fuse")
        /\ \/ HigherView(r, m)
           \/ LET last == m.slot + Len(m.ops) - 1
              IN  /\ AcceptsFuse(r, m)
                  /\ accepted' = [accepted EXCEPT ![r] = last]
                  /\ status' = [status EXCEPT ![r] = Adopted(r)]
                  /\ Send({Ok(r, last)})
                  /\ UNCHANGED <<hist, committed, ballot, retained, table, fault,
                                 leaderVars, fetchVars>>

ReceiveCommit(r) ==
    \E m \in msgs :
        /\ Takes(r, m, "Commit")
        /\ HigherView(r, m) \/ (Follows(r, m) /\ Advance(r, accepted[r], m.committed, {}))

--------------------------------------------------------------------------
(***************************************************************************)
(* State transfer.                                                         *)
(***************************************************************************)

\* The leader serves a chunk to a member, old or new.
ServeState ==
    \E m \in msgs :
        LET through == AtMost(accepted[Leader], m.next + Budget - 1)
        IN  /\ m.tag = "GetState"
            /\ ~fault[Leader]
            /\ m.from \in Members(Config(Leader))
            /\ through >= m.next
            /\ Cardinality({n \in msgs : n.tag = "NewState"}) < MaxServe
            /\ Send({[tag |-> "NewState", to |-> {m.from}, view |-> m.view,
                      first |-> m.next, through |-> through,
                      committed |-> committed[Leader],
                      more |-> through < accepted[Leader]]})
            /\ UNCHANGED <<hist, progressVars, leaderVars, fetchVars>>

\* A chunk that answers the open fetch, or a boot push nobody asked for.
Qualified(r, m) ==
    /\ MemberOf(r, m.view, Leader)
    /\ IF transfer[r] # {} THEN m.view \in transfer[r]
       ELSE status[r] = "Joining" /\ m.view = ballot[r]
    /\ m.committed >= committed[r]

Continue(r, goes, view, next) ==
    IF goes THEN Fetch(r, view, next)
    ELSE transfer' = [transfer EXCEPT ![r] = {}] /\ UNCHANGED msgs

\* A member of the current view commits what the chunk covers; a fenced one
\* only keeps the entries.
FollowerState(r, m) ==
    LET reach == IF status[r] = "Normal" /\ m.view = ballot[r]
                 THEN AtLeast(committed[r], AtMost(m.committed, m.through))
                 ELSE committed[r]
    IN  \E f \in FoldCommitted(r, m.through, reach, TRUE) :
        \E b \in Walked(r, f) :
        \/ Doomed(r, b, f) /\ Fault(r)
        \/ /\ Publish(r, status[r], m.through, b, f)
           /\ Continue(r, m.more, m.view, m.through + 1)
           /\ UNCHANGED <<hist, leaderVars, stalled>>

\* A fenced entry node keeps what it can commit, no further than the StartView
\* it retains, and walks one era when the window stops it.
BootState(r, m) ==
    LET cap     == {AtMost(o.committed, m.committed) : o \in stalled[r]}
        take    == IF cap = {} THEN m.committed ELSE Min(cap)
        reach   == AtLeast(committed[r], AtMost(take, m.through))
        Walks(f) == f.halt = "Window" /\ Current(f.table).config.era > ballot[r].era
        Goes(f) == IF Walks(f)
                   THEN {[era |-> ballot[r].era + 1, view |-> ballot[r].view + 1]}
                   ELSE {ballot[r]}
    IN  \E f \in FoldCommitted(r, m.through, reach, TRUE) :
        \E b \in Goes(f), acc \in {AtLeast(accepted[r], f.slot)} :
        \/ Doomed(r, b, f) /\ Fault(r)
        \/ /\ Publish(r, status[r], acc, b, f)
           /\ Continue(r, m.more \/ Walks(f) \/ (f.slot < m.through /\ acc > accepted[r]),
                       b, acc + 1)
           /\ UNCHANGED <<hist, leaderVars, stalled>>

ReceiveNewState(r) ==
    \E m \in msgs :
        /\ Takes(r, m, "NewState")
        /\ Qualified(r, m)
        /\ \/ /\ m.through <= accepted[r] /\ ~m.more
              /\ transfer' = [transfer EXCEPT ![r] = {}]
              /\ UNCHANGED <<hist, progressVars, leaderVars, stalled, msgs>>
           \/ /\ m.through > accepted[r]
              /\ m.first <= accepted[r] + 1
              /\ IF status[r] = "Joining" /\ m.view = ballot[r]
                 THEN BootState(r, m)
                 ELSE FollowerState(r, m)

--------------------------------------------------------------------------
(***************************************************************************)
(* The planned overlap.                                                    *)
(***************************************************************************)

\* What a node can prove of an era: the operation and slot that established it.
Proof(n, era) == {[op |-> rec.op, at |-> rec.at] : rec \in RecordsOf(table[n], era)}

ReceivePlannedViewChange(r) ==
    \E m \in msgs :
        LET answer == [tag |-> "DoViewChange", from |-> r, view |-> m.view,
                       proof |-> Proof(r, ballot[r].era)]
            ask    == [tag |-> "GetState", from |-> r, view |-> ballot[r],
                       next |-> accepted[r] + 1]
            knows  == RecordsOf(table[r], m.view.era) # {}
        IN  /\ Takes(r, m, "PlannedViewChange")
            /\ m.view.era = ballot[r].era + 1
            /\ Leads(r, ballot[r], Leader)
            /\ status[r] = "Normal"
            /\ Send({answer} \cup IF knows THEN {} ELSE {ask})
            /\ transfer' = IF knows THEN transfer
                           ELSE [transfer EXCEPT ![r] = {ballot[r]}]
            /\ UNCHANGED <<hist, progressVars, leaderVars, stalled>>

\* The leader installs the target once all of the pivot's view change quorum
\* have answered; their histories are not consulted.
ReceivePlannedEvidence ==
    \E m \in msgs, p \in planned :
        LET heard == p.evidence \cup {m.from}
            same  == [slot |-> committed[Leader], table |-> table[Leader],
                      halt |-> "no", running |-> {}]
        IN  /\ m.tag = "DoViewChange"
            /\ ~fault[Leader]
            /\ p.solicited /\ m.view = p.target
            /\ m.from \in p.pivot.q_i \ {Leader}
            /\ m.proof = Proof(Leader, ballot[Leader].era)
            /\ \/ /\ ~(p.pivot.q_i \subseteq heard \cup {Leader})
                  /\ planned' = {[p EXCEPT !.evidence = heard]}
                  /\ UNCHANGED <<hist, progressVars, oks, fetchVars, msgs>>
               \/ /\ p.pivot.q_i \subseteq heard \cup {Leader}
                  /\ Publish(Leader, "Normal", accepted[Leader], p.target, same)
                  /\ planned' = {}
                  /\ Send({[tag |-> "StartView",
                            to |-> Members(Config(Leader)) \ {Leader},
                            view |-> p.target,
                            first |-> AtLeast(1, accepted[Leader] - Budget + 1),
                            accepted |-> accepted[Leader],
                            committed |-> committed[Leader],
                            proof |-> Proof(Leader, p.target.era)]})
                  /\ UNCHANGED <<hist, oks, fetchVars>>

--------------------------------------------------------------------------
(***************************************************************************)
(* Adopting a StartView.                                                   *)
(***************************************************************************)

Names(op, n) ==
    \E o \in IF op.op = "Batch" THEN Range(op.ops) ELSE {op} :
        o.op \in {"Join", "Increment"} /\ o.node = n

\* An announcement of an era the replica cannot evaluate is retained when it is
\* the next era, or names a fenced entry node; its history is fetched.
Retains(r, m) ==
    \/ m.view.era = ballot[r].era + 1
    \/ /\ m.view.era > ballot[r].era + 1
       /\ status[r] = "Joining"
       /\ \E p \in m.proof : Names(p.op, r)

Adoptable(r, m) ==
    Above(m.view, ballot[r]) \/ (m.view = ballot[r] /\ status[r] = "ViewChange")

StartView(r, m) ==
    \E f \in FoldCommitted(r, AtLeast(accepted[r], m.accepted), m.committed, FALSE) :
        \/ /\ RecordsOf(table[r], m.view.era) = {}
           /\ Retains(r, m)
           /\ stalled' = [stalled EXCEPT ![r] = {m}]
           /\ IF transfer[r] = {} THEN Fetch(r, ballot[r], committed[r] + 1)
              ELSE UNCHANGED <<transfer, msgs>>
           /\ UNCHANGED <<hist, progressVars, leaderVars>>
        \/ /\ Leads(r, m.view, Leader)
           /\ m.proof = Proof(r, m.view.era)
           /\ Adoptable(r, m)
           /\ m.committed >= committed[r]
           /\ \/ /\ m.first > accepted[r] + 1
                 /\ Fetch(r, m.view, accepted[r] + 1)
                 /\ stalled' = [stalled EXCEPT ![r] = {m}]
                 /\ UNCHANGED <<hist, progressVars, leaderVars>>
              \/ /\ m.first <= accepted[r] + 1
                 /\ Doomed(r, m.view, f)
                 /\ Fault(r)
              \/ /\ m.first <= accepted[r] + 1
                 /\ Publish(r, "Normal", m.accepted, m.view, f)
                 /\ stalled' = [stalled EXCEPT ![r] = {}]
                 /\ UNCHANGED <<hist, leaderVars, transfer, msgs>>

ReceiveStartView(r) ==
    \E m \in msgs : Takes(r, m, "StartView") /\ StartView(r, m)

\* A tick tries the retained announcement again once its history is at hand.
Resume(r) ==
    \E m \in stalled[r] :
        /\ ~fault[r]
        /\ \/ Adoptable(r, m)
           \/ m.view = ballot[r] /\ status[r] = "Joining"
        /\ m.first <= accepted[r] + 1
        /\ StartView(r, m)

--------------------------------------------------------------------------
Init ==
    LET founded == [op |-> "Init"]
    IN  /\ hist = <<Entry([op |-> "Void"], 0), Entry(founded, 1)>>
        /\ accepted = [n \in Node |-> INIT_SLOT]
        /\ committed = [n \in Node |-> INIT_SLOT]
        /\ ballot = [n \in Node |-> [era |-> 1, view |-> 0]]
        /\ retained = ballot
        /\ status = [n \in Node |-> IF n \in Founders THEN "Normal" ELSE "Joining"]
        /\ table = [n \in Node |-> Genesis(InitOrder)]
        /\ fault = [n \in Node |-> FALSE]
        /\ oks = {} /\ planned = {}
        /\ transfer = [n \in Node |-> {}]
        /\ stalled = [n \in Node |-> {}]
        /\ msgs = {}

Leading ==
    \/ Propose
    \/ \E change \in Changes : Ask(change)
    \/ ReceiveOk
    \/ ServeState
    \/ ReceivePlannedEvidence

Following(r) ==
    \/ ReceivePrepare(r)
    \/ ReceiveFuse(r)
    \/ ReceiveCommit(r)
    \/ ReceiveNewState(r)
    \/ ReceivePlannedViewChange(r)
    \/ ReceiveStartView(r)
    \/ Resume(r)

Next == Leading \/ \E r \in Node \ {Leader} : Following(r)

Spec == Init /\ [][Next]_vars

-----------------------------------------------------------------------------
(***************************************************************************)
(* Properties.                                                             *)
(***************************************************************************)

\* Every replica's frontiers are ordered, its era table ends in the era of its
\* ballot or the next, and its log is a prefix of the leader's.
TypeOK ==
    /\ \A r \in Node :
          /\ accepted[r] \in INIT_SLOT .. Len(hist)
          /\ committed[r] \in INIT_SLOT .. accepted[r]
          /\ status[r] \in {"Normal", "ViewChange", "Joining"}
          /\ Len(table[r]) \in 1 .. 2
          /\ InWindow(table[r], ballot[r])
    /\ accepted[Leader] = Len(hist)
    /\ Cardinality(planned) <= 1

\* fold_committed: in whatever pieces two replicas learn the commits, the same
\* era has the same configuration, establishing slot and operation. The era
\* proof of a StartView is compared with the receiver's own record.
RecordsAgree ==
    \A r, s \in Node :
        \A x \in Range(table[r]), y \in Range(table[s]) :
            x.config.era = y.config.era => x = y

\* plan_fuse: an acceptor stamps a fused batch, from its own configuration,
\* with the eras the leader stamped it with.
StampsAgree ==
    \A m \in msgs, r \in Node \ {Leader} :
        Takes(r, m, "Fuse") /\ AcceptsFuse(r, m) =>
            Stamps(r, m) = {[i \in DOMAIN m.ops |-> hist[m.slot + i - 1].era]}

\* Commit votes counted in one era against elections held in another: a quorum
\* of replicas that know an era and have not passed it elects a history, the
\* longest of those of the latest retained view, that has all commits.
ElectedKnowsCommitted ==
    \A c \in UNION {{rec.config : rec \in Range(table[r])} : r \in Node} :
        LET voters == {n \in Members(c) : /\ ballot[n].era <= c.era
                                          /\ RecordsOf(table[n], c.era) # {}}
        IN  \A Q \in SUBSET voters :
              IsQuorum(c, Q) =>
                 \A n \in Q :
                    (\A k \in Q : /\ ~Above(retained[k], retained[n])
                                  /\ retained[k] = retained[n] => accepted[k] <= accepted[n])
                    => accepted[n] >= committed[Leader]

\* The leader leads the view that it founds or that a nomination of its own
\* brings it to.  Only an overlap, whose StartView it sends, may leave it in the
\* view of another.
LeaderReigns ==
    \/ fault[Leader]
    \/ Leads(Leader, ballot[Leader], Leader)
    \/ \E m \in msgs : m.tag = "StartView" /\ m.view = ballot[Leader]

\* A committed history folds and publishes everywhere: no replica faults.
NoFault == \A r \in Node : ~fault[r]

=============================================================================
