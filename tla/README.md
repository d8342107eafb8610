# uvrr-core in TLA+

`uvrr-core` is a Rust implementation of Viewstamped Replication Revisited as a
passive core: the crate holds no socket, no file and no clock. A host feeds it
inputs (messages, ticks, operations, storage confirmations), publishes the
transition the core plans for each, and carries out the effects it is handed.
This directory holds TLA+ modules for the parts of the crate that decide whether
a cluster is correct, the TLC configurations that check them on small instances,
and TLAPS proofs of what holds for every size.

Paths below are relative to the repository (`src/replica/mod.rs` and so on).

## 1. Inventory

| part | sources | state it keeps | operations | model |
|---|---|---|---|---|
| replica core | `replica/mod.rs`, `normal.rs`, `view_change.rs`, `transfer.rs` | progress (status, ballots, frontiers, fault), proposal tallies, the view-change attempt, the open fetch, the stalled StartView | tick, propose, one handler per message, applied, checkpointed, administrative force | `Replica` |
| journal | `journal.rs` | slabs of entries, retained start, frontier | accept, install_suffix, copy_out, reclaim_through | `SegmentedLog`, `Journal`; a sequence and its first slot in `Replica` |
| progress | `progress.rs`, `invariant.rs` | ballots, frontiers, status, fault, revision | check, legal | `Replica` (ordering), `Pipeline` (candidate and published) |
| plan/publish/confirm | `replica/mod.rs`, `effects.rs` | published progress, the parked transition | plan, plan_confirmation, publish | `Pipeline`, `Serial` |
| boot gate | `lifecycle.rs`, `ids.rs` | four superblock copies, the session | classify, boot, the latches, begin_stop, drain, finish_stop | `Lifecycle` |
| configuration, eras, quorums | `configuration.rs`, `quorum.rs` | members, weights, succession order, era table | primary, quorum tests, apply, fold_slots, extend, the era, transition and pivot gates | `Configuration`; constants of `Replica` |
| reconfiguration | `replica/reconfiguration.rs`, with `normal.rs`, `transfer.rs`, `view_change.rs`; `solve.rs` for the riders | era table, planned overlap, tallies | reconfigure, fuse, fold commits, solicit, install, adopt an era | `Reconfiguration` |
| plan execution | `replica/plan_execution.rs`, `reconfiguration.rs`, `plan.rs`, `solve.rs` | the armed plan and its next step | submit, continue on a tick, advance on a commit, abort | `Reincarnation` |
| reincarnation | `replica/reincarnation.rs` | the armed pair of identities | take an announcement, compute the missing steps, continue on a tick | `Reincarnation`; its boot side is `Lifecycle` |
| observation | `observe.rs` | a generation counter and a payload | write, read with retry | not modelled |
| locks | `locks.rs` | lock table with leases | acquire, renew, release, expire | not modelled |
| timeouts | `timeout.rs`, `backoff.rs` | nothing shared | draw, back off | not modelled: arithmetic |
| wire codec | `wire.rs`, `message.rs` | nothing | encode, decode | not modelled: byte layout |
| state file of the key-value host | `bin/maelstrom-lin-kv/store.rs`, `main.rs` | two header slots, the journal region, the store's mirror of it | create, load, commit, drain; the three boots, the write-through, the deferred latch, the clean stop | `HostStore` |
| other hosts | demo node, the host's clients, Zig superblock store | sockets, files | | not modelled |

The exact source files of each part are listed under `components` in
`PROJECT.json`.

**How the parts interact.** The host is the only caller. `boot` reads the
superblock copies and gives the host a session; the session's latch must
complete, or a `Rejoined` witness exist, before the engine is run under an
identity. After that every input goes through `plan`, which reads the published
progress and the journal and computes a candidate plus effects; `publish`
installs it, or parks it behind a `Persist` effect until the host confirms.
The journal is mutated in the same step as progress. Messages reach peers only
as released effects. A tick of the leader ends in the two machines that change
the configuration by themselves: the forced sequence that replaces a crashed
identity, then the plan an operator submitted. The key-value host keeps journal,
progress and markers of one node in one file, and boots from it.

**What is hard.** Messages are lost, repeated, delayed and reordered, so a
handler meets messages of views its replica has left. Two view changes can
overlap. Evidence, fetches and offers are kept between inputs and used after
other inputs moved the replica. A process dies between two of the four writes of
a marker. A host publishes a plan late, or confirms one twice. A leader stops half way
through a replacement of several eras, and its successor has only the
configuration to go by. A message budget
can be smaller than the history it has to carry. `PROJECT.json` lists each of
these under `hazards` at the line where it bites.

**What makes each part correct.**

- *Replica core*: replicas never disagree on a committed slot; a new primary has
  every committed operation; a replica never takes back what it committed; one
  view has one history; the journal and progress agree; honest input never makes
  a replica fault itself; an ordered operation commits.
- *Pipeline*: no lost update, effects at most once and behind durable state, a
  parked transition is always resolved.
- *Boot gate*: a clean start is one whose promises are all on disk; an identity
  never serves two lives; the identity read from disk never goes back.
- *Journal*: the slabs represent one contiguous sequence, whatever is reclaimed.
- *Configuration and reconfiguration*: quorums of neighbouring eras intersect, and
  no election in any era misses a commit; replicas that learn the same commits in
  different pieces come to the same eras; the leader that a change keeps in office
  leads the view it moves to; a committed change never faults a replica.
- *Reincarnation*: whoever leads computes the steps that are still missing, no
  gate refuses them, the cluster keeps its margin meanwhile, and the new identity
  ends up voting in the old one's place.
- *Plan execution*: the steps an armed plan counts were committed, in order.
- *State file*: the file loads after a crash at any instant, never to an older
  state than the last completed write; a Stopped marker stands over the last
  published state; an identity that latched and died is never used again.

## 2. Modules

### `Replica`

One configuration that does not change. The variables are functions from node to
the field of the same name in the code: `status`, `view` (`Progress.current`),
`retained`, `accepted`, `committed`, `applied`, `checkpoint`, `fault`; `log` and
`first` for the journal; `open` and `oks` for the proposal tallies; `fences`,
`evidence` and `selected` for the view-change attempt; `transfer` and `stalled`
for the fetch and the retained StartView. `msgs` is every message ever sent: loss,
duplication, delay and reordering are choices of what to deliver and when.

A step is one input, planned and published. `TickPromote`, `TickSuspect`,
`TickStalled` and `TickSelected` are the outcomes of a tick; `Propose`,
`Applied`, `Checkpointed`, `Reclaim`, `AdminForceView` and `Resume` (a clean stop
and start) are the host's inputs; `ReceivePrepare` to `ReceiveNewState` the eight
message handlers. `CheckSuffix`, `BoundedSuffix`, `BoundedOverlaySuffix`,
`SelectHistory` and `WinOrWait` follow the functions of those names.

Abstractions: a ballot is its view number; an entry is named by the view that
ordered it, which identifies it because one primary orders a slot of a view at
most once; the budget counts entries; a timeout may elapse at any tick; a plan
that changes nothing but emits a diagnostic is a stutter.

### `Pipeline` and `Serial`

`Pipeline` is `plan`, `plan_confirmation` and `publish` with a host that holds any
number of plans, publishes one late or twice, and repeats or delays a
confirmation. A transition is an identity; whether the legality gate or the
journal refuses it is a choice made where the code asks. `Serial` is the abstract
specification: transitions take effect one at a time, each once, each behind
durable state unless the host declared `Volatile`. `ImplementsSerial` is the
refinement (`stability`, `history` and `durable` are the same variables).

### `Lifecycle`

The boot gate. A commit of the four copies is split into one step per copy, so a
`Crash` or a `CommitFails` may happen between any two. `BootFirst`, `BootClean`
and `BootCrashed` are the classifications; each session method that commits is a
pair of actions, the call and its completion. `promised` and `durable` count what
an identity did in the sight of its peers and what of it is on stable storage;
`life`, `spoke` and `latched` are history the properties need.

### `SegmentedLog` and `Journal`

`SegmentedLog` is the journal as it is stored: `slabs`, the index `boundaries`,
the `tail`, `first_slot` and `accepted`. A call is `Ask`, then the steps that carry
it out and answer it; the loop of `accept`, which seals the tail when it is full,
is one `Push` per entry, and `AcceptSlab` is its shortcut for a batch of a slab's
size. `Refuse` is every error return. `Get` and `CopyOut` are the views' reads,
through `entry_at`'s search of the index. `Journal` is the abstract
specification, what the trait promises: one contiguous run that a call extends,
replaces from a slot on, or shortens at the front. `ImplementsJournal` maps the
run's content to what `Get` reads at each slot held.

### `Configuration`

Operators, no state. A configuration is its era and the succession order with the
weights; `ApplyInEra`, `ApplyBatch`, `Apply`, `FoldSlots` and `Extend` follow the
functions of those names, and answer the set of the values the code can return:
one, or none for a refusal. `DisjointQuorumsExist` is the scan of `quorum.rs`,
`ValidateEra`, `ValidateTransition` and `ValidPivot` its gates, under
`WeightedMajority`. `MAX_MEMBERS` and the last era are constants.

### `Reconfiguration`

The reign of one leader over changing eras. `hist` is the log the leader appends
to; every replica holds a prefix, `accepted[r]` long, of which it has committed
`committed[r]`; `table[r]` is its era table, `ballot[r]` and `retained[r]` its
views. `oks` and `planned` are the leader's, `transfer` and `stalled` the
receivers' bookkeeping. `Propose`, `Reconfigure`, `ReconfigureWithPivot` and `Fuse`
order entries; `ReceiveOk` counts a vote, cascades, folds what commits, moves the
ballot on a nomination and solicits a planned overlap; `ReceivePlannedEvidence`
installs the overlap's view. A follower has one action per message, and `Resume`
for the tick that tries a retained StartView again.

`FoldCommitted` is the heart: the loop of `fold_committed` with its runs of equal
era, its batch-or-alone extension, its window and its riders. `Publish` is what
happens to its result: a candidate outside the era window is refused, one that is
no legal successor (`LegalSuccessor`, `GroundedWalk`) is a fault.

Abstractions: one leader, who is never elected away, so an entry is named by its
slot; a later view fences a follower (`HigherView`) and a StartView frees it; no
restarts, no gossip, no streamed copies; the budget counts entries; any valid
pivot may be chosen; the nominations are those that `solve::fold` computes.
`Replica` and `Reconfiguration` divide the work: the first has elections and no
changes, the second changes and no elections. `ElectedKnowsCommitted` is the
bridge: it says what any election in any era would find.

### `Reincarnation`

The two machines over the operators of `Configuration`. `history` is the chain of
eras the log has chosen, `flight` the batch in flight, `era` and `leader` the view
in force, `known` what each leader knew committed, `forced` and `planned` the
machines of each identity. An identity is a node and a life; `Crash` starts the
node's next life, whose announcement may then arrive at any time and any number
of times (`Announced`: what the boot sent once may be late or repeated).
`Announcing` is the part the code goes on sending: `plan_reincarnate` and the host's
tick stop for good when the new identity's own record gives it a vote, and only until
then is an arrival assumed.

`Partition` is `Configuration::plan`, which cuts a stream of operations into
batches. `ForcedSteps` is `forced_steps`, with the five-node table apart
(`FiveNodeWeightedSteps`), the lowering, and the closing match. `ReceiveReincarnation` is the
handler of the announcement; `ForcedOver`, `ForcedStep` and `ForcedIdle` are the
outcomes of `plan_forced_continuation`; `SubmitPlan`, `PlanStep`, `PlanAborted` and
`Committed` are the plan machine. `Plannable` is the precheck that both machines
make, `QuorumGates` what `plan_reconfigure` asks beyond it.

The consensus underneath is abstract: `Commit` is a quorum's acknowledgement at
the leader, `Installs` the end of a view change with any knowledge its quorum may
have. What makes that sound is the subject of `Replica` and `Reconfiguration`. A
view is an era and a leader, the announcement carries no log, and the memo stream
to the standby is not in the model.

### `HostStore`

One node's file and its lives. `file` is two header slots and the journal region,
as cells; `mirror` is the store's `LogFile`; `io` the commit in progress. A commit
is a call that moves the mirror, a region sync and a slot sync, and `Interrupted`
says what a crash in between leaves: any prefix of the region write, a slot that is
old, torn or new. `Loaded` is the load, with its check of the counted bytes;
`CommitOf` is the delta (`Stand` is the walk for the standing prefix). `BootFirst`,
`BootClean` and `BootCrashed` are the three boots of `on_init`, `WriteState` and
`InitOk` its last write; `Accept`, `Advance` and `Install` are the replica's
transitions, external here; `TickVoting`, `SettleDeferred`, `Latched` and
`LatchRefused` the deferred latch; `BeginStop` to `Exit` the clean stop. `Lifecycle`
has the same boots with four independent copies; here all four sit under one
checksum, and what is at stake is the journal beside them.

`Persist` is inert, as in the code: `on_init` has moved the store into the gate
(`main.rs:527`), so `persist` finds none and returns (`main.rs:887`). The file
changes at boots, at the latch and at stops only.

### Proof modules

`ReplicaProofs`, `LifecycleProofs`, `PipelineProofs`, `SegmentedLogProofs`,
`HostStoreProofs`, `ConfigurationProofs`, and `ReconfigurationProofs` and
`ReincarnationProofs`, which extend it: see section 5.

## 3. Runs

| run | asks | instance |
|---|---|---|
| `replica_view_change` | Agreement, PrimaryComplete, ViewHistory, NoFault, types | 3 replicas, views 0..2, one operation slot after the two genesis slots, no state transfer |
| `replica_transfer` | CommittedStable, JournalMatchesProgress, PrimaryComplete | 2 replicas, 3 views, two operation slots, state transfer with a budget of one entry, one clean restart |
| `replica_liveness` | ProposalCommits, ProgressOK | 2 replicas, one view, two operations, applied and checkpoint reports, reclamation |
| `pipeline` | PlannedOnPublished, ImplementsSerial, ParkedResolves | 5 transitions, every stability |
| `journal` | TypeOK, CopiesTold, ImplementsJournal | slabs of two entries, batches of up to three, every suffix and checkpoint over five slots |
| `lifecycle_boot` | VouchedIsDrained, LatchedIdentityDies, types | 4 lives, 3 identities, 2 units of work each |
| `reconfiguration` | RecordsAgree, StampsAgree, ElectedKnowsCommitted, LeaderReigns, NoFault, types | 3 founders and a joiner, 3 eras, 4 slots after genesis; a single reweighing, a fused batch of two eras, an overlap that admits the joiner with every valid pivot, one client operation, one chunk served |
| `reincarnation` | RecomputesTheRest, GatesAgree, ReplacedInPlace, MarginKept, PlanInOrder, VotesAgain, StableLeaderFinishes, types | 5 founders and a sixth node, one crash of the first leader or of a backup, one restart or wrong suspicion, one plan of two steps, leaders among two nodes |
| `host_store` | NeverOlder, AppendHarmless, StoppedIsFinal, SpentStaysDead, types | 3 slots, entries of one and of two cells, 3 identities, starts from a file of up to 4 writes |
| `replica_stale_transfer`, `host_stale_tail`, `joiner_vote` | one property each, violated | section 4 |

**Why the bounds are enough for what is asked.** Three views are the least for
the classic error of view changes: a view in which an operation commits, one that
does not see it, and one that has to choose between the two; three replicas are
the least with quorums that overlap in one node. One contested slot suffices to
disagree. In the transfer run two slots and a budget of one make the selected
history longer than a message, so that the wait, the fetch and the retrying tick
all happen; with two replicas every quorum is the whole cluster, so what is at
stake there is the resumption, not the intersection (with three, the divergences
of section 4 appear). In the journal run three slabs
fit below the last slot, so that a suffix meets the tail, the edge of a slab and
the middle of one, and a batch of three both fills a tail and becomes a slab. The liveness run has two operations because the cascade
(an acknowledgement of a later slot that commits the earlier ones) needs two. In the
reconfiguration run four slots hold a batch of two eras with its nomination and an
operation beside it, so that one replica can fold in one piece what another folds in
two, and three eras let a change of one kind follow one of another; three founders are
the least of which one can leave, and the joiner knows neither the era it joins nor its
history. A chunk carries the whole log, which is what the theorems of section 5 assume;
with chunks of one or two entries the same instance has the same outcome. The branch of
StartView that fetches a missing suffix needs one slot more than the run affords, and is
not reached. `joiner_vote` needs six eras and nine slots, past what a search explores, so
`MCJoinerVote` prescribes the action of each step, and TLC the message, the pivot and the
extent: each step is one of `Reconfiguration`'s `Next`. Five
transitions let a stale plan, its successor, a parked transition and a repeated
confirmation of an earlier one coexist. Five
nodes of weight one are the case the code treats by a table of its own, and the
lowering, the crossing and the promotion all follow from it when a plan has changed
the weights first; two electable nodes let the lead pass back to a leader that
still holds its machines. In the store run three slots are a committed entry, one to
replace and one that shifts because the replacement is longer; four writes fill
each header slot twice, and three identities let two lives die. Four lives and four copies let two torn
commits overlap; three identities are one more than a crash can skip, and let the
counter run out.

`journal` and `reincarnation` check for deadlock: every call is answered, and an
announcement can always come again. The other runs do not:
with its bounds spent, an instance stops, and a faulted replica, an exhausted
counter or a lost quorum of copies stops the real one.

**Fairness.** `replica_liveness` assumes that the host's clock keeps ticking and
that a message the receiver can still act on is eventually delivered. The core
keeps no retransmission timer: `docs/uvr-host-notes.md` makes resending the
host's policy, and `ProposalCommits` is a promise to a host that follows it.
Nothing is assumed of proposals, suspicion or the host's reports. `pipeline`
assumes that the host answers each `Persist`, feeds the answer in and publishes the
completion; without these the contract of `effects.rs` is broken by the host. `reincarnation` assumes
that a leader ticks and hears the acknowledgements of the live, that timeouts
elect a leader and enter a committed era, and that an announcement reaches a
leader that stays while no era gives the announcing identity a vote: until then the
crashed host repeats it on every tick, and then never again (`main.rs:1453-1471`,
`replica/reincarnation.rs:487`).
Crashes, suspicions, restarts and plans are not assumed and are bounded. The
run has one crash; liveness over two is past what a run can explore.

## 4. Disagreements found

Each is a run whose property states what the repository says of itself.

1. **A fetch survives the view that opened it** (`replica_stale_transfer`,
   `replica/transfer.rs:320`). A chunk is accepted on the view and responder of the
   open fetch, and adopting a view leaves that fetch open. The answer of an old
   primary is journalled after the replica adopted the next view, and the next
   Commit of that view commits an operation the others never ordered.
2. **A tail replaced and committed at once is not rewritten**
   (`host_stale_tail`, `bin/maelstrom-lin-kv/store.rs:420`). The walk for replaced
   entries starts above the commit frontier that is being written, and a StartView
   can replace a tail and commit over it in one transition. The old entry stays in
   the region under the new frontier, and the next clean start serves it as
   committed.
3. **A joining node's ballots outrank those of a reign** (`joiner_vote`,
   `replica/transfer.rs:614`). A Joining node that fetches walks its ballot into each
   era that its fold establishes, one view an era, and keeps the walked ballot as its
   retained view; no leader ever led it. A fused batch can raise the era by two or more with
   one nomination, so the node's views overtake the cluster's. View changes count the
   evidence of any member, of weight zero too (`replica/view_change.rs:369`), and rank it
   by the retained view first (`replica/mod.rs:3165`). In the run two fused batches bring
   founders a, b and c to view 3 of era 5 and the learner d, whom the first batch
   admitted, to a view 4 of its own; a and b commit slot 9, the overlap that gives d its
   vote, and a enters era 6. A view change in era 5 past view 4 (c's second attempt after
   a clean restart, or a forced view) that hears b, c and d selects d's eight slots.
   Without fused batches this cannot happen, which is `ElectedHaveCommits` of section 5.

The models showed these too; they have no run of their own.

In the replica and its boot:

- With a budget that leaves no room for a suffix, `check_suffix`
  (`replica/mod.rs:2837`) lets a replica whose own uncommitted history has the right
  length keep it, and commit it, in place of the one the view selected.
- A suffix that starts above the slots where two histories differ installs over the
  difference: `check_suffix` (`replica/mod.rs:2823`) compares the slots the offer
  carries and nothing below them, though its comment (`:2801-2806`) and
  `docs/uvr-durability-model.md` §13.1 call what it accepts the cluster's history.
  Two ways lead there. With a budget of one entry, a primary deposed with a
  slot nobody acknowledged installs a StartView that carries the next slot
  only, and later commits both; three replicas, two operation slots and three views
  show it. With any budget, the others have applied, checkpointed and
  reclaimed that slot, and their StartView starts above it; the shipped hosts
  send without a budget and can meet this one. `WholeHistories` of
  section 5 excludes both.
- A boot-fenced replica re-checks only the committed part of a late chunk
  (`replica/transfer.rs:564`), reinstalls it over a longer journal and keeps its
  accepted frontier: an acknowledged slot is gone, every later plan refuses the
  journal, and the comment on `install` (`replica/mod.rs:2517`: published accepted is
  the journal's frontier) is not true of it. `JournalMatchesProgress` fails so with the constants of
  `ReplicaTransfer.cfg` changed to Budget 3, MaxView 0, MaxSlot 5, in twelve steps: the
  slots a backup asked for arrive late as Prepares, it restarts, then the chunk comes.
  A chunk of one entry has no part that can be left out, so that run stays clear of it
  (theorem `JournalAndProgressAgree`).
- A StartView with a shorter agreeing history is reinstalled from its base
  (`replica/mod.rs:2890`), which may lie below the retained start of a journal that
  was reclaimed: the replica faults on honest input.
- A crashed start announces itself under the bumped identity before any copy holds
  it (`lifecycle.rs:553`); a crash in between makes the next life use the same one,
  while `docs/uvr-io-obligations.md` promises durability before use.
- Two torn latches leave three identities on four copies, and the quorum read
  (`lifecycle.rs:179`) picks the oldest: the resolved identity goes back.

In the reconfiguration:

- A chunk can end inside a fused batch (`replica/transfer.rs:186`): the budget cuts
  between the operation and its nomination; the receiver folds the operation alone,
  which the comments at `replica/reconfiguration.rs:80-83` rule out, records another
  establishing operation than its peers, and faults on the nomination that arrives
  alone.
- An overlap can depose its leader (`replica/reconfiguration.rs:493`): the target
  view is found by the leader's index among all members, the primary of a view by an
  index among the voters (`:466-468`). After an overlap that admits a learner the two
  differ, and the leader installs a view it does not lead. LeaderReigns therefore
  asks nothing of the view of an installed overlap.
- A vote outlives its voter (`replica/normal.rs:595`): one recorded vote of a node
  that has left makes the whole tally no quorum, and the slot cannot commit in
  that view.
- A walk over three eras or more faults: `is_grounded_nomination_walk`
  (`invariant.rs:288`) asks for the record of every era it crosses, and the era
  table keeps two.
- A follower that loses the Commit of a nominated batch cannot evaluate the new
  era and drops its leader's traffic (`replica/normal.rs:149`).

In the reincarnation and plan machines, the first with the run's own instance and
the others with larger or smaller ones:

- A replacement can stop half done. The machine that carries it is volatile and armed by
  an announcement only, and the announcements end when the new identity votes
  (`replica/reincarnation.rs:487`, `main.rs:1463-1466`), in the five-node table with the
  second of six batches. The view change into that era, or any later one, may make a
  node the primary that was never armed, the new identity itself for one; then nobody
  carries the sequence and nobody announces it. The old identity keeps its weight, and
  the cluster of five its doubled weights, unless an operator's plan removes it.
  `replica/reincarnation.rs:16-21` and `:66-72` say that a leader crash in mid-sequence
  is harmless since the next leader recomputes the steps, and `main.rs:1449-1452` that
  the announcements last until the promotion or until a stable leader exists to finish.
  That the old identity always leaves in the end, once a node crashed, is violated under
  `Fairness`. What holds is `VotesAgain` and `StableLeaderFinishes`.
- With two lives, an announcement of the first replacement that arrives again after
  its new identity was itself replaced admits that identity once more and gives it
  weight: the handler checks the sender's name only (`replica/reincarnation.rs:134`).
  `docs/uvr-protocols.md:440` says that an evicted identity never regains eligibility.
- When the new identity crashes in turn while the old one still votes at its doubled
  weight, the sequence for the second pair has no step for the first: the old
  identity stays in the configuration and the cluster stays doubled.
- With as many nodes as `MAX_MEMBERS`, the crossing batch's Join is refused, on every
  tick: a full cluster cannot replace a crashed node.
- `quorum.rs:347-351` says that the union check cannot fire on a legitimate transition. It
  does after a batch in which one member leaves a full cluster and another joins: the fold
  takes it (`apply_batch` sees `MAX_MEMBERS` at every point), and `validate_transition`
  counts the members of both. A plan with such a step is accepted, and then neither
  proposed nor aborted: the continuation answers the gate's refusal on every tick, while
  `replica/plan_execution.rs:18-22` says that a refused step ends the plan. `GatesAgree`
  fails so with three founders, MAX_MEMBERS 4, and the plan that joins a fourth node and
  then replaces it by a fifth in one step.
- A step of a plan that is committed under another leader is not counted by the
  machine its proposer kept, which proposes it a second time when it leads again
  (`replica/plan_execution.rs:239`).

In the key-value host:

- The write-through of published transitions never happens (`HostStore`'s `Persist`
  above), while `main.rs:33-38` and `:880-885` promise it.
- A write inside the counted bytes, which a replaced tail makes, is not covered by the
  rule at `store.rs:27-33`: a crash before the header is synced can leave a region
  that no header counts correctly, and the next start refuses the file. This is why
  `AppendHarmless` excludes such writes.
- A tick on which the bumped identity votes ends the announcing before the latch is
  tried (`main.rs:1466`); if the status is not normal on that tick the latch is never
  tried again, and the next crashed start speaks under the same identity.

## 5. Theorems

All of them hold for every value of the constants that satisfies the named
assumptions of the modules (`NodeAssumption`, `OrderAssumption`,
`QuorumAssumption`, `BoundsAssumption`, `CounterAssumption`, `LifecycleBounds`,
`PipelineAssumption`, `JournalAssumption`, `EntryAssumption`, `ChosenAssumption`,
`StoreBounds`, `ReconfigurationAssumption`, `ReincarnationAssumption`). Those of `ConfigurationProofs` need none: `MAX_MEMBERS` and `MaxEra`
play no part in them.

**`ReplicaProofs`.** `TypeCorrect`, `ProgressOrdered` (the frontiers and the two
views stay ordered) and `CommittedHistoryStable` (no step rewrites a committed
slot or takes a commit frontier back). The inductive invariant is `TypeOK /\
ProgressOK /\ FirstOK /\ EvidenceShaped`. `EvidenceShaped` is the part that is
needed beyond the properties: a new primary installs a history from evidence it
stored earlier, so the shape checks made on receipt have to be carried to that
moment, through the selection. `FirstOK` says that the journal's
retained start is a slot. The argument for `CommittedHistoryStable` goes
through lemmas on `CheckSuffix`: a ruling that would install below the commit
frontier on different entries is a conflict, hence a fault, hence no
installation. The theorem holds for each replica by itself: it does not need the
quorums, and the violations of section 4 do not contradict it.

A section of its own proves `JournalAndProgressAgree`: the journal ends where the
accepted frontier says (`JournalMatchesProgress`), when chunks hold one entry or none is
delivered. Its invariant adds that a chunk in flight is no longer than the budget
(`ShortChunks`). The assumption is needed: a longer chunk at a
boot-fenced replica breaks the property (section 4).

The rest of `ReplicaProofs` is the argument of agreement. `ReplicasAgree` (`Agreement`), `PrimariesComplete`
(`PrimaryComplete`), `OneHistoryPerView` (`ViewHistory`) and `NeverFaults` (`NoFault`),
from `AgreementInvariance`: for every number of replicas, quorum system, view and
slot bound, with messages lost, repeated and reordered and with clean restarts. Two
conditions restrict them, and neither can be dropped, because the
code breaks agreement without it: chunks of state transfer are not delivered
(finding 1), and throughout the behaviour no journal is reclaimed and the budget cuts
no suffix (`WholeHistories`; the installed-over difference of section 4). `ViewChangeIsSafe`
states the four properties for every instance in which nothing is applied, the budget holds
every slot and no chunk is delivered: the bounds of `replica_view_change`, at any size.

The argument is that of view changes. Every entry a view orders names its view, so the
histories of one view are prefixes of one another (`History`): what its StartView carries (`Bases`),
then the view's own operations. A slot acknowledged by a quorum in a view is `Chosen`, and
it is `Choosable` as long as the members that did not acknowledge it have not gone to
a later view. The invariant `AInv` is `ReplicaOk` of every replica,
`MessageOk` of every message and `OneStart`. A StartView holds every slot choosable in an
earlier view (`StartOk`); stored and sent evidence holds whatever its reporter
acknowledged before it joined the view change (`Reported`), and an acknowledgement lasts until
its sender serves a later view (`AckKept`); every commit frontier, published or sent, is
chosen (`Backed`). The step that matters is the selection: among a quorum of
evidence, some reporter is in the quorum that acknowledged a choosable slot, the
preferred evidence is of a view at least as high, and by induction on views it holds the slot.
Then two committed slots lie in histories of which one holds the other. TLC checked `AInv`
as an invariant of 3 replicas, 3 views and one operation slot (230756 states),
so states meet the conditions in numbers.

**`LifecycleProofs`.** `LifecycleTypes`, `VouchedResumeIsSound`
(`VouchedIsDrained`) and `LatchedIdentityNeverReturns` (`LatchedIdentityDies`). A `Stopped` copy must vouch for its identity's work in every
state, not only when a boot reads it: that is `Vouching`. New work under that
identity would break it, so the rest of the invariant shows that a process never
speaks under an identity of which a `Stopped` copy is left. `Sessions` says what
the copies hold under each session (a running process has overwritten all four),
`Targets` what the commit in progress may write. For a crashed start, which speaks
before it writes, `Floor` (a copy that went past `Joining` is not above any
other) and `Below` (nor above the session's identity) put every `Stopped` copy
below the bumped identity. The third theorem has an invariant of its own, `LInv`. A
latched identity is a floor under every copy and every session (`Grounded`): however
commits tear, no copy falls below it. Where two copies agree on a clean stop, all four
carry that identity (`Whole`), and it latched, if it did, in the current life, as did that
of a session which was not classified crashed (`Current`, with `Dated` for the numbering of
lives). A crashed start therefore bumps past every latched identity, and the others go
on with one that is still theirs.

**`PipelineProofs`.** `PipelineTypes`, `NoLostUpdate` (`PlannedOnPublished`) and
`PipelineImplementsSerial`. The invariant ties every plan the host may still hold
to the revision it names: a plan on the current revision was computed after
exactly the current history (`PlansCurrent`), the parked transition likewise
(`ParkedCurrent`), an answer for the current revision is about the parked
transition and is backed by durability when it says so (`AnswersCurrent`), and
what has taken effect was planned earlier (`HistoryPlanned`), which gives
at-most-once. The refinement follows step by step.

**`SegmentedLogProofs`.** `JournalTypes`, `SegmentedImplementsJournal` and
`CopiesAreTold` (`CopiesTold`: `copy_out` answers with exactly the slots its outcome names). The
invariant is `Sound /\ Frontier /\ Pushing`. `Sound` says when slabs, index and
tail are one run: each slab carries the slots its boundary says, the boundaries
are sorted and leave no gap below the tail. `Frontier` places the end of that run
at `accepted`, or past it by what an accept in progress has pushed, which are the
first entries of its batch (`Pushing`). Lemmas over constants say what each
operation does to a sound view (`ExtendTail`, `Seal`, `DropFront`, `DropBound`,
`Cut`, `CutBy`) and what `entry_at` then reads (`ReadSlab`, `ReadTail`); one lemma
per action puts them together. `DropBound` is where the absence of gaps
matters: without it, dropping whole slabs could move the first slot past the
checkpoint.

**`HostStoreProofs`.** `SlotsNeverGoBack` (`NeverOlder`) and
`SpentIdentityNeverReturns` (`SpentStaysDead`). The invariant is `Shape /\ Turns /\
Dead /\ Owned`. `Turns` says that the two header slots never carry the same sequence
number and that the store's own slot carries the one it remembers, so a commit
overwrites the other. `Dead` says of every header that a crash could leave to be loaded
(the slots not older than the store's own, and the header being written) that it buries all spent
identities; `Owned` ties the copies a running store holds to the identity it speaks
under. What the region's entries are plays no part in it.

`TypeCorrect`, `AppendsAreHarmless` (`AppendHarmless`) and `StoppedVouches`
(`StoppedIsFinal`) are of the bytes, and add the invariant `Bytes == Types /\ Leads /\
Readable /\ Mirrored /\ Stops` to the one of the slots. `Mirrored` is the heart: while the
store's mirror can be trusted, the region begins with the mirror's frames, and a commit in
progress carries exactly the frames that follow a prefix it shares with the mirror. It is
not so after a refused latch, where the code has moved the mirror on and left the file;
`Trusted` names that life and the rest of the invariant still covers it. A cut commit
therefore leaves the store's own slot, which reads back what it counted, or the new header,
which reads back what was staged (`CutInRegion`, `CutInSlot`), unless it rewrote entries
in place (`inplace`, which `host_store_stale_tail` exhibits). `Stops` follows where a
`Stopped` that a load may pick came from. What a region decodes is a fold
over sequences of unbounded length, `FlattenSeq` of the frames; the lemmas about it
(`FlattenConcat`, `FramesSplit`, `DecodesThem`) are proved by induction in the form the
provers take, a set of naturals with zero and every successor (`SetInduction`, from the
well-foundedness of `<`), the recursive function unfolded by `FlattenIs`.

**`ConfigurationProofs`.** `EraQuorumsMeet`: two quorums of one configuration share a
member. `OperationQuorumsMeet`: so do the quorums of a configuration and of the one
that an operation of one slot makes of it, in both directions, for any number of
members. The argument counts units of weight; a reweighing moves one unit, a scaling
doubles or halves what every set holds, joining and leaving renumber the units and
keep their holders. So the scans of `quorum.rs`, which enumerate every subset, can only
refuse such an operation for the number of members. `BatchQuorumsMeet` says the same of a
batch of any length, which is what the two machines of a leader propose: nodes may join and
leave and units may go up and down again inside it, and what its first and last
configuration differ in is one unit of one node at most. The fold of a batch and the sum of
`MassMoved` are folds of the library over sets of any size, which choose a function that
satisfies a recursion; `FoldExists` proves that there is one, by induction over the subsets
of a finite set in the form the provers take (`SubsetInduction`, from the well-foundedness
of the strict subset order), and `FoldedInEra` and `MassBounds` carry what each says along
it.

Two more parts serve the module that extends this one. Replicas that apply one operation
to one configuration come to the same (`ApplyIsOne`, `SlotsAreOne`, `ExtendIsOne`): the
operations are modelled as sets of outcomes, and what keeps each to one outcome at most is
that no node has two positions (`Distinct`), which every operation preserves. And a fold
over a batch is a walk, step by step (`FoldedWalks`), so that what each step keeps, the
whole keeps.

**`ReconfigurationProofs`.** `TypeCorrect` (`TypeOK`), `RecordsAlike` (`RecordsAgree`) and
`StampsAlike` (`StampsAgree`), for any nodes, founders, changes, numbers of eras and slots.
The types need `TInv`: what each message says of the leader's log, that no replica commits
past the leader, and what `HistSound` says of the log. Every step is shown to be one of
three before anything is proved about it: the leader orders entries of one change
(`Orders`, `Lawful`), the leader commits and tells (`Leads1`), a replica follows (`Goes`,
from one lemma per handler).

The argument for the records: a fold goes from point to point of the log, a point being a
slot and the table there. Which point comes next depends on the log, the slot and the
table only (`Onward`, one at most), so the points of all folds form one chain (`Chain`),
and along it a record of an era never changes (`Alike`). Every replica's commit frontier is
at a point of the chain (`Agreed`). Two things could take a replica off it. A log that ends
inside a fused batch makes the fold take a part for the whole: `Cut` and `Whole` say that
what a replica has, and what a message makes it have, ends where no batch goes on. And a
batch ordered right after another one with the same stamp would be read as its
continuation: `Past` says that the stamps up to the leader's commit frontier are of
earlier eras than its table's, and that those after it lead on from it one at a time. For the
stamps of a fused batch, `Known` keeps the point at which the leader stamped it; an acceptor
of the batch's view, with client entries in between only, is at a point with the same
current configuration (`SameConfig`), since its table is in the ballot's era or the next.

`RecordsAlike` and `StampsAlike` assume `WholeRuns`: the budget covers the log, or no change
is fused. The code breaks the first without it: with a budget of one entry TLC finds two replicas that
recorded different operations for one era, in eight states (the first difference of section 4's
reconfiguration part). The run meets the assumption by its budget, and TLC checked the whole
invariant as an invariant of an instance of each half (36295 and 149841 states).

`ElectedHaveCommits` states `ElectedKnowsCommitted`: whoever a quorum elects, in any era that
it knows and has not passed, has all that the leader has committed. The quorums count votes
across eras, so the invariant `EInv` follows the reigns as well as the points. `R` gives each
era up to the leader's the one view it was led in and the slot at which that view began
(`Reigns`), by a rider, by an overlap or at genesis. A system entry is stamped with the reign
it was ordered in (`Entries`), one at most is uncommitted (`Pending`), and a rider walks
whoever folds it from the view of one reign to that of the next (`Rides`). So whoever retains
the view of a reign has the log up to its start (`Placed`): ranking by the retained view ranks by
length. The exception is the entry node that walks by itself, and it is harmless because a
view of its own is never above that of the reign of its era: a reign's view grows by one an
era at least (`R[e].view >= e - 1`). `Votes` and `Said` carry this to the messages. The quorums come
last: an era is `Fenced` when every quorum of it has a member that has left it, and an era
that is not is the leader's or its neighbour, whose quorums cross (`Crosses`, from
`ConfigurationProofs`); hence each quorum that may elect has a holder of what is committed
(`Covers`), and whom it elects ranks no lower (`RuledElects`). `NextEInv` has a step for each
of the three kinds: the leader's orders, its commits (`Rooted` finds the member of the quorum that
keeps an older era fenced), and a follower's step.

It assumes `NoFused`: no change is a fused batch. A fused batch breaks exactly the argument
about the entry node, since a batch of several eras has one nomination, and the third
disagreement of section 4 is the counterexample. Single changes and overlaps, state transfer
in chunks of any size, the walks of joining nodes and every interleaving of them are inside
the theorem.

**`ReincarnationProofs`.** The chain of eras that a leader's two machines propose, with the
leaders that follow one another, crashes, lives and late announcements of the model. The
inductive invariant has five parts. `HistoryOK` types the eras and numbers them as they were
chosen. `ViewOK` says that a batch is in flight only when the view has entered the last era,
so that what it is folded on when it commits is what it was proposed on. `ArmedOK` with
`PlanInOrder` ties an armed plan to the eras its holder knows and not to those the log has,
which is what lets it stand while others lead. `ErasMeet` is the result: `ChosenErasMeet`
says that every era has quorums that meet one another and those of the era before. The proof
uses what `ApplyBatch` checks and nothing that `QuorumGates` does: `RemainingTyped` shows
that a forced sequence, through the partitioner and its recursion, is made of batches over
identities, and `BatchQuorumsMeet` does the rest. `PlansInOrder` and `TypeCorrect` state the
run's properties, and `GatesTake` states `GatesAgree` where the cap has room for every
identity; at the cap it fails (section 4). The assumption is `ReincarnationAssumption`: the
founders are nodes, at least one, and plans are sequences of sequences of operations.

**Only model-checked.** Liveness (`ProposalCommits`, `ParkedResolves`,
`VotesAgain`, `StableLeaderFinishes`) needs
fairness and ENABLED, which the prover does not treat. `PrimaryComplete` with state
transfer (`replica_transfer`) is checked for two replicas only. Of
`Reconfiguration`, `ElectedKnowsCommitted` with fused batches is false in general and checked
for one batch beside the other changes; `LeaderReigns` is checked only, and `NoFault`
holds for changes of the run's kind and fails for a fold that crosses three eras at once
(section 4 and the hazards of `PROJECT.json`). `RecomputesTheRest`, `ReplacedInPlace` and `MarginKept` are about the table of the
five-node replacement, hold for clusters of the run's kind, and stay with it.

## 6. Not modelled

- *Observation* (`observe.rs`): a seqlock over atomics. What can go wrong is the
  order in which a weakly ordered machine shows the payload's words, which a model of
  interleaved steps would not have; nothing in the protocol reads it.
- *Locks* (`locks.rs`): a client of the log, a deterministic machine that committed
  entries drive.
- *Timeouts and backoff*: arithmetic on durations. The models let a timeout elapse at
  any tick.
- *Wire codec*: a byte layout, better served by property tests.
- *Streamed copies to witnesses and standbys*, the rejoin gossip, the search of
  `solve.rs` for a path, and the JSON of plans: they carry log entries or text and
  decide nothing that the models ask about.
- *The Zig store*: a second implementation of the marker store, whose rules `Lifecycle`
  states once.
- *Elections during a planned change*: `Replica` elects in one configuration,
  `Reconfiguration` changes it under one leader, and `ElectedKnowsCommitted` is the
  bridge. A product of the two is past what TLC explores. `Reincarnation` has both
  over an abstract consensus.
- *Liveness of the view change*: a replica in `ViewChange` never suspects again
  (`replica/mod.rs:1784`), so its progress rests on other replicas' timeouts and on
  the host's resending, and no fairness of the core justifies a property.
- The command-line tools, the conformance harness, the demo node, the host's client
  protocol and the vendored code.

What is worth proving next: `ElectedKnowsCommitted` for fused batches of one era, which keep
the learner's views below the cluster's, and `LeaderReigns` for the changes that nominate.
