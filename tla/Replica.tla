------------------------------- MODULE Replica -------------------------------
(***************************************************************************)
(* The replica of src/replica/: normal operation, view change, state       *)
(* transfer, checkpointing and clean restart, for a cluster whose          *)
(* configuration is fixed (one era).  A step is one host input planned and *)
(* published; the plan/publish/confirm pipeline itself is the module       *)
(* Pipeline.                                                               *)
(*                                                                         *)
(* Abstractions.                                                           *)
(*  - A ballot is its view number: the era never changes here.             *)
(*  - A log entry is the identity of its operation.  Operation identities  *)
(*    are unique, and one primary orders a slot of a view at most once, so *)
(*    an entry is named by the view that first ordered it.                 *)
(*  - The network is a set that only grows: loss, duplication, delay and   *)
(*    reordering are choices of which element to deliver, and when.        *)
(*    Delivered restricts an instance to a network that loses all other    *)
(*    tags.                                                                *)
(*  - The transport budget counts entries: all of them have one size.      *)
(*  - A drop plan (identity candidate plus a diagnostic) is a stutter.     *)
(*  - The clock is abstracted: a timeout may elapse at any tick.           *)
(***************************************************************************)
EXTENDS Integers, Sequences, FiniteSets, FiniteSetsExt

CONSTANTS
    Node,           \* the members of the configuration (NodeId, a number)
    Order,          \* the succession order, a sequence over Node
    Quorum,         \* the quorums of the configuration, for every role
    Budget,         \* view_change_budget, in entries
    Delivered,      \* the tags of the messages the network may deliver
    MaxView,        \* bound: the highest view any replica enters
    MaxSlot,        \* bound: the last slot a primary fills
    MaxApply,       \* bound: the last slot the host reports applied
    MaxRestart      \* bound: clean restarts, over all replicas

\* provision: a non-empty order of distinct nodes, all of weight one, and a
\* quorum system that validate_era accepted (every two quorums share a node).
ASSUME NodeAssumption == Node \subseteq Nat
ASSUME OrderAssumption ==
    /\ Order \in Seq(Node)
    /\ Len(Order) > 0
ASSUME QuorumAssumption ==
    /\ Quorum \subseteq SUBSET Node
    /\ \A P, Q \in Quorum : P \cap Q # {}
ASSUME BoundsAssumption ==
    /\ Budget \in Nat
    /\ MaxView \in Nat
    /\ MaxSlot \in Nat
    /\ MaxApply \in Nat
    /\ MaxRestart \in Nat

VARIABLES
    status,         \* Progress.status
    view,           \* Progress.current
    retained,       \* Progress.retained
    accepted,       \* Progress.accepted
    committed,      \* Progress.committed
    applied,        \* Progress.applied
    checkpoint,     \* Progress.checkpoint
    fault,          \* Progress.fault: TRUE once a fault is set
    log,            \* the journal's contents, slot by slot
    first,          \* the first slot the journal still holds
    open,           \* proposals: the slots that have a tally
    oks,            \* proposals: the votes, as pairs <<slot, node>>
    fences,         \* view_change.fences; {} when there is no attempt
    evidence,       \* view_change.evidence, one record per reporter
    selected,       \* view_change.selected, none or one evidence record
    transfer,       \* the open fetch, none or one
    stalled,        \* the retained StartView, none or one
    restarts,       \* bounds the restarts explored
    msgs            \* every message ever sent

progressVars == <<status, view, retained, accepted, committed, applied,
                  checkpoint, fault>>
journalVars  == <<log, first>>
proposalVars == <<open, oks>>
attemptVars  == <<fences, evidence, selected>>
fetchVars    == <<transfer, stalled>>
vars == <<progressVars, journalVars, proposalVars, attemptVars, fetchVars,
          restarts, msgs>>

-----------------------------------------------------------------------------
(***************************************************************************)
(* Values.                                                                 *)
(***************************************************************************)

\* Replaying is left out: applied and get_state test for it, nothing sets it.
Status == {"Normal", "ViewChange", "Restarting", "Joining"}

VOID_SLOT == 1
INIT_SLOT == 2

\* The two genesis entries of every journal, and the operation a primary
\* orders in view v.
GenesisEntry == 0
GenesisLog == <<GenesisEntry, GenesisEntry>>
Operation(v) == v + 1

\* A contiguous run of entries, as the messages carry it.
Suffix == [from : Nat, ents : Seq(Nat)]
LastSlot(sfx) == sfx.from + Len(sfx.ents) - 1
EntryAt(sfx, s) == sfx.ents[s - sfx.from + 1]

Evidence == [from : Node, retained : Nat, accepted : Nat, committed : Nat,
             suffix : Suffix]
Fetch == [view : Nat, to : Node, next : Nat]

PrepareMsg == [tag : {"Prepare"}, from : Node, view : Nat, slot : Nat,
               entry : Nat, committed : Nat]
PrepareOkMsg == [tag : {"PrepareOk"}, from : Node, to : Node, view : Nat,
                 slot : Nat]
CommitMsg == [tag : {"Commit"}, from : Node, view : Nat, committed : Nat]
StartViewChangeMsg == [tag : {"StartViewChange"}, from : Node, view : Nat]
DoViewChangeMsg == [tag : {"DoViewChange"}, to : Node, view : Nat,
                    ev : Evidence]
StartViewMsg == [tag : {"StartView"}, from : Node, view : Nat,
                 accepted : Nat, committed : Nat, suffix : Suffix]
GetStateMsg == [tag : {"GetState"}, from : Node, to : Node, view : Nat,
                next : Nat]
NewStateMsg == [tag : {"NewState"}, from : Node, to : Node, view : Nat,
                suffix : Suffix, committed : Nat, more : BOOLEAN]

Message == PrepareMsg \cup PrepareOkMsg \cup CommitMsg
           \cup StartViewChangeMsg \cup DoViewChangeMsg \cup StartViewMsg
           \cup GetStateMsg \cup NewStateMsg

\* Configuration.primary: the order indexed by the view modulo the voters.
Primary(v) == Order[(v % Len(Order)) + 1]

AtLeast(a, b) == IF a >= b THEN a ELSE b
AtMost(a, b) == IF a <= b THEN a ELSE b

\* A fenced entry node that has adopted nothing yet.
BootFenced(r) ==
    status[r] \in {"Restarting", "Joining"} /\ view[r] = retained[r]

\* plan refuses a faulted replica and one whose journal and progress disagree.
Live(r) == ~fault[r] /\ accepted[r] = Len(log[r])

IsPrimary(r) == status[r] = "Normal" /\ Primary(view[r]) = r

\* A learned commit frontier c, as far as the history through acc reaches.
FollowBack(r, c, acc) == AtMost(c, acc)
Follow(r, c, acc) == AtLeast(committed[r], AtMost(c, acc))

Send(ms) == msgs' = msgs \cup ms

Raise(r) ==
    /\ fault' = [fault EXCEPT ![r] = TRUE]
    /\ UNCHANGED <<status, view, retained, accepted, committed, applied,
                   checkpoint, journalVars, proposalVars, attemptVars,
                   fetchVars, restarts, msgs>>

-----------------------------------------------------------------------------
(***************************************************************************)
(* Suffixes: what a message carries and what a replica makes of it.        *)
(***************************************************************************)

\* The entries low..high of log l, normalised when there are none.
RunOf(l, low, high) ==
    IF low > high THEN [from |-> high + 1, ents |-> <<>>]
    ELSE [from |-> low, ents |-> [i \in 1 .. high - low + 1 |-> l[low + i - 1]]]

\* Log l with the run sfx written over it from slot s of the run on.
Splice(l, sfx, s) ==
    [i \in 1 .. LastSlot(sfx) |-> IF i < s THEN l[i] ELSE EntryAt(sfx, i)]

\* bounded_suffix without an overlay: the newest entries of r's journal, as
\* many as the budget and the retained range allow.
BoundedSuffix(r) ==
    RunOf(log[r], AtLeast(first[r], accepted[r] - Budget + 1), accepted[r])

\* bounded_suffix over an overlay, the selected suffix a new primary
\* installs: the overlay is used up before the journal is read below it.
BoundedOverlaySuffix(r, frontier, overlay) ==
    LET oldest == AtLeast(first[r], frontier - Budget + 1)
    IN  IF overlay.ents = <<>>
        THEN IF frontier > Len(log[r]) THEN RunOf(log[r], frontier + 1, frontier)
             ELSE RunOf(log[r], oldest, frontier)
        ELSE LET low == IF Budget < Len(overlay.ents)
                        THEN frontier - Budget + 1
                        ELSE AtMost(overlay.from, oldest)
             IN  RunOf(Splice(log[r], overlay, overlay.from), low, frontier)

\* suffix_shape_ok: the run ends at the frontier the message states.
ShapeOk(sfx, acc) == sfx.from >= 1 /\ (sfx.ents = <<>> \/ LastSlot(sfx) = acc)

Gap(expected) == [kind |-> "Gap", slot |-> expected]
Conflict == [kind |-> "Conflict", slot |-> 0]
\* Nothing to install.
Keep == [kind |-> "Keep", slot |-> 0]
\* Install the run over the journal from this slot on.
InstallFrom(s) == [kind |-> "Install", slot |-> s]

\* check_suffix: the ruling on an offered history that ends at acc.
CheckSuffix(r, sfx, acc, com, discharged) ==
    LET shared == {s \in sfx.from .. LastSlot(sfx) : s <= accepted[r]}
        letGo == {s \in shared : s < first[r] /\ s > discharged}
        differs == {s \in shared : s >= first[r]
                                   /\ log[r][s] # EntryAt(sfx, s)}
        stop == Min(letGo \cup differs)
    IN  IF sfx.ents = <<>>
        THEN IF acc = accepted[r] /\ com = accepted[r]
             THEN Keep ELSE Gap(accepted[r] + 1)
        ELSE IF sfx.from > accepted[r] + 1 THEN Gap(accepted[r] + 1)
        ELSE IF letGo \cup differs # {}
        THEN IF stop \in letGo THEN Gap(stop)
             ELSE IF stop <= committed[r] THEN Conflict
             ELSE InstallFrom(stop)
        ELSE IF LastSlot(sfx) > accepted[r] THEN InstallFrom(accepted[r] + 1)
        ELSE IF acc < accepted[r] THEN InstallFrom(sfx.from)
        ELSE Keep

Installable(c) == c.kind \in {"Keep", "Install"}

\* install_suffix refuses a run that starts below what the journal holds,
\* and publish then faults the node.
JournalRefuses(r, c) == c.kind = "Install" /\ c.slot < first[r]

\* The journal after the ruling.
InstalledExclusive(r, sfx, c) ==
    IF c.kind = "Install"
    THEN SubSeq(Splice(log[r], sfx, c.slot), 1, LastSlot(sfx) - 1)
    ELSE log[r]
Installed(r, sfx, c) ==
    IF c.kind = "Install" THEN Splice(log[r], sfx, c.slot) ELSE log[r]

\* fetch: ask one node for everything from slot s on, under view v.
GetState(r, v, to, s) ==
    [tag |-> "GetState", from |-> r, to |-> to, view |-> v, next |-> s]
OpenFetch(r, v, to, s) ==
    transfer' = [transfer EXCEPT ![r] = {[view |-> v, to |-> to, next |-> s]}]

-----------------------------------------------------------------------------
(***************************************************************************)
(* Provisioning, ticks and the host's reports.                             *)
(***************************************************************************)

\* provision: every member starts fenced, with the two genesis entries.
Init ==
    /\ status = [r \in Node |-> "Joining"]
    /\ view = [r \in Node |-> 0]
    /\ retained = [r \in Node |-> 0]
    /\ accepted = [r \in Node |-> INIT_SLOT]
    /\ committed = [r \in Node |-> INIT_SLOT]
    /\ applied = [r \in Node |-> INIT_SLOT]
    /\ checkpoint = [r \in Node |-> 0]
    /\ fault = [r \in Node |-> FALSE]
    /\ log = [r \in Node |-> GenesisLog]
    /\ first = [r \in Node |-> VOID_SLOT]
    /\ open = [r \in Node |-> {}]
    /\ oks = [r \in Node |-> {}]
    /\ fences = [r \in Node |-> {}]
    /\ evidence = [r \in Node |-> {}]
    /\ selected = [r \in Node |-> {}]
    /\ transfer = [r \in Node |-> {}]
    /\ stalled = [r \in Node |-> {}]
    /\ restarts = 0
    /\ msgs = {}

CommitOld(r, c) ==
    [tag |-> "Commit", from |-> r, view |-> view[r], committed |-> committed[r]]
Commit(r, c) ==
    [tag |-> "Commit", from |-> r, view |-> view[r], committed |-> c]

\* plan_tick: the genesis primary promotes itself.
TickPromoteReplaying(r) ==
    /\ Live(r) /\ BootFenced(r) /\ Primary(0) = r
    /\ status' = [status EXCEPT ![r] = "Replaying"]
    /\ UNCHANGED <<view, retained, accepted, committed, applied, checkpoint,
                   fault, journalVars, proposalVars, attemptVars, fetchVars,
                   restarts, msgs>>
TickPromote(r) ==
    /\ Live(r)
    /\ BootFenced(r)
    /\ view[r] = 0
    /\ accepted[r] = INIT_SLOT /\ committed[r] = INIT_SLOT
    /\ first[r] = VOID_SLOT
    /\ Primary(0) = r
    /\ status' = [status EXCEPT ![r] = "Normal"]
    /\ Send({Commit(r, committed[r])})
    /\ UNCHANGED <<view, retained, accepted, committed, applied, checkpoint,
                   fault, journalVars, proposalVars, attemptVars, fetchVars,
                   restarts>>

\* The host applied the next committed slot.
AppliedUncommitted(r) ==
    /\ Live(r) /\ applied[r] < accepted[r] /\ applied[r] < MaxApply
    /\ applied' = [applied EXCEPT ![r] = @ + 1]
    /\ UNCHANGED <<status, view, retained, accepted, committed, checkpoint,
                   fault, journalVars, proposalVars, attemptVars, fetchVars,
                   restarts, msgs>>
Applied(r) ==
    /\ Live(r)
    /\ applied[r] < committed[r]
    /\ applied[r] < MaxApply
    /\ applied' = [applied EXCEPT ![r] = @ + 1]
    /\ open' = [open EXCEPT ![r] = @ \ {applied[r] + 1}]
    /\ oks' = [oks EXCEPT ![r] = {v \in @ : v[1] # applied[r] + 1}]
    /\ UNCHANGED <<status, view, retained, accepted, committed, checkpoint,
                   fault, journalVars, attemptVars, fetchVars, restarts, msgs>>

\* The host made a snapshot through slot t stable.
Checkpointed(r, t) ==
    /\ Live(r)
    /\ checkpoint[r] < t /\ t <= applied[r]
    /\ checkpoint' = [checkpoint EXCEPT ![r] = t]
    /\ UNCHANGED <<status, view, retained, accepted, committed, applied,
                   fault, journalVars, proposalVars, attemptVars, fetchVars,
                   restarts, msgs>>

\* reclaim_journal drops whole slabs at or below the checkpoint.  The genesis
\* pair is one slab; the other slabs may end at any slot.
Reclaim(r, s) ==
    /\ AtLeast(first[r], INIT_SLOT) < s /\ s <= checkpoint[r] + 1
    /\ first' = [first EXCEPT ![r] = s]
    /\ UNCHANGED <<progressVars, log, proposalVars, attemptVars, fetchVars,
                   restarts, msgs>>

\* resume after a vouched clean stop: progress and journal as persisted,
\* fenced entry status, volatile state gone.
Resume(r) ==
    /\ restarts < MaxRestart
    /\ accepted[r] = Len(log[r])
    /\ restarts' = restarts + 1
    /\ status' = [status EXCEPT ![r] = "Restarting"]
    /\ open' = [open EXCEPT ![r] = {}]
    /\ oks' = [oks EXCEPT ![r] = {}]
    /\ fences' = [fences EXCEPT ![r] = {}]
    /\ evidence' = [evidence EXCEPT ![r] = {}]
    /\ selected' = [selected EXCEPT ![r] = {}]
    /\ transfer' = [transfer EXCEPT ![r] = {}]
    /\ stalled' = [stalled EXCEPT ![r] = {}]
    /\ UNCHANGED <<view, retained, accepted, committed, applied, checkpoint,
                   fault, journalVars, msgs>>

-----------------------------------------------------------------------------
(***************************************************************************)
(* View change.                                                            *)
(***************************************************************************)

OwnEvidence(r) ==
    [from |-> r, retained |-> retained[r], accepted |-> accepted[r],
     committed |-> committed[r], suffix |-> BoundedSuffix(r)]

Reporters(evs) == {e.from : e \in evs}

\* select_history: the latest retained view, then the longest history, then
\* the smallest node.
PreferredByLength(e, f) ==
    \/ e.accepted > f.accepted
    \/ e.accepted = f.accepted /\ e.from <= f.from
Preferred(e, f) ==
    \/ e.retained > f.retained
    \/ e.retained = f.retained /\ e.accepted > f.accepted
    \/ e.retained = f.retained /\ e.accepted = f.accepted /\ e.from <= f.from
SelectHistory(evs) == {e \in evs : \A f \in evs : Preferred(e, f)}

\* is_quorum for the Fence and the ViewChange role.
FenceQuorum(fs) == fs \in Quorum
EvidenceOfOne(evs) == evs # {}
EvidenceQuorum(evs) == Reporters(evs) \in Quorum

\* plan_win_view: the new primary installs the selected history of view v and
\* commits what any reporter or itself had committed.
StartView(r, v, e, c) ==
    [tag |-> "StartView", from |-> r, view |-> v, accepted |-> e.accepted,
     committed |-> c,
     suffix |-> BoundedOverlaySuffix(r, e.accepted, e.suffix)]

Win(r, v, e, c, sent, forced) ==
    /\ status' = [status EXCEPT ![r] = "Normal"]
    /\ view' = [view EXCEPT ![r] = v]
    /\ retained' = [retained EXCEPT ![r] = v]
    /\ accepted' = [accepted EXCEPT ![r] = e.accepted]
    /\ committed' = [committed EXCEPT ![r] = c]
    /\ log' = [log EXCEPT ![r] = Installed(r, e.suffix,
                   CheckSuffix(r, e.suffix, e.accepted, c, checkpoint[r]))]
    /\ open' = [open EXCEPT ![r] = c + 1 .. e.accepted]
    /\ oks' = [oks EXCEPT ![r] = {}]
    /\ fences' = [fences EXCEPT ![r] = {}]
    /\ evidence' = [evidence EXCEPT ![r] = {}]
    /\ selected' = [selected EXCEPT ![r] = {}]
    /\ transfer' = [transfer EXCEPT ![r] = IF forced = {} THEN @ ELSE forced]
    /\ Send(sent \cup {StartView(r, v, e, c)})
    /\ UNCHANGED <<applied, checkpoint, fault, first, stalled, restarts>>

\* The attempt for view v goes on: fences fs, evidence evs, selection sel.
Attempt(r, v, fs, evs, sel, sent, fetched) ==
    /\ status' = [status EXCEPT ![r] = "ViewChange"]
    /\ view' = [view EXCEPT ![r] = v]
    /\ fences' = [fences EXCEPT ![r] = fs]
    /\ evidence' = [evidence EXCEPT ![r] = evs]
    /\ selected' = [selected EXCEPT ![r] = sel]
    /\ transfer' = [transfer EXCEPT ![r] = IF fetched = {} THEN @ ELSE fetched]
    /\ Send(sent)
    /\ UNCHANGED <<retained, accepted, committed, applied, checkpoint, fault,
                   journalVars, proposalVars, stalled, restarts>>

Asks(r, fs) == {GetState(r, f.view, f.to, f.next) : f \in fs}

\* continue_view_change with a selection: win, wait for the missing history
\* (asking its reporter when no fetch is open), or fault.
WinOrWait(r, v, fs, evs, e, sent, forced) ==
    \E c \in {committed[r]} \cup {f.committed : f \in evs} :
        LET ruling == CheckSuffix(r, e.suffix, e.accepted, c, checkpoint[r])
            missing == IF c > e.accepted THEN e.accepted + 1 ELSE ruling.slot
            asked == IF transfer[r] = {}
                     THEN {[view |-> v, to |-> e.from, next |-> missing]}
                     ELSE {}
            fetched == IF forced = {} THEN asked ELSE forced
        IN  /\ committed[r] <= c
            /\ \A f \in evs : f.committed <= c
            /\ \/ /\ c > e.accepted \/ ruling.kind = "Gap"
                  /\ Attempt(r, v, fs, evs, {e},
                             sent \cup Asks(r, asked \cup forced), fetched)
               \/ /\ c <= e.accepted
                  /\ ruling.kind = "Conflict" \/ JournalRefuses(r, ruling)
                  /\ Raise(r)
               \/ /\ c <= e.accepted
                  /\ Installable(ruling) /\ ~JournalRefuses(r, ruling)
                  /\ Win(r, v, e, c, sent \cup Asks(r, forced), forced)

\* continue_view_change: the attempt for view v after an input.  Own evidence
\* is recorded at a quorum of fences; the primary of v selects at a quorum of
\* evidence.  forced is the fetch a higher-view signal opens.
ContinueViewChange(r, v, fs, evs, sel, sent, forced) ==
    LET reports == r \notin Reporters(evs) /\ FenceQuorum(fs)
        all == IF reports THEN evs \cup {OwnEvidence(r)} ELSE evs
        report == IF reports /\ Primary(v) # r
                  THEN {[tag |-> "DoViewChange", to |-> Primary(v),
                         view |-> v, ev |-> OwnEvidence(r)]}
                  ELSE {}
        leads == Primary(v) = r /\ r \in Reporters(all)
        chosen == IF leads /\ sel = {} /\ EvidenceQuorum(all)
                  THEN SelectHistory(all) ELSE sel
    IN  \/ /\ ~(leads /\ chosen # {})
           /\ Attempt(r, v, fs, all, chosen,
                      sent \cup report \cup Asks(r, forced), forced)
        \/ /\ leads
           /\ \E e \in chosen : WinOrWait(r, v, fs, all, e, sent, forced)

\* enter_view_change: fence at view v, tell everyone, go on.
EnterViewChange(r, v, heard, forced) ==
    ContinueViewChange(r, v, {r} \cup heard, {}, {},
        {[tag |-> "StartViewChange", from |-> r, view |-> v]}, forced)

\* plan_tick: the primary timeout elapsed.
TickSuspect(r) ==
    /\ Live(r)
    /\ status[r] \in {"Normal", "Restarting"}
    /\ view[r] < MaxView
    /\ EnterViewChange(r, view[r] + 1, {}, {})

AdminForceView(r, v) ==
    /\ Live(r)
    /\ view[r] < v /\ v <= MaxView
    /\ EnterViewChange(r, v, {}, {})

ReceiveStartViewChange(r, m) ==
    /\ Live(r)
    /\ m.tag = "StartViewChange" /\ m.from # r
    /\ \/ /\ m.view > view[r]
          /\ EnterViewChange(r, m.view, {m.from}, {})
       \/ /\ m.view = view[r] /\ fences[r] # {}
          /\ ContinueViewChange(r, view[r], fences[r] \cup {m.from},
                                evidence[r], selected[r], {}, {})

ReceiveDoViewChange(r, m) ==
    /\ Live(r)
    /\ m.tag = "DoViewChange" /\ m.to = r
    /\ m.ev.committed <= m.ev.accepted /\ ShapeOk(m.ev.suffix, m.ev.accepted)
    /\ m.view = view[r] /\ fences[r] # {} /\ Primary(view[r]) = r
    /\ ContinueViewChange(r, view[r], fences[r],
           IF m.ev.from \in Reporters(evidence[r]) THEN evidence[r]
           ELSE evidence[r] \cup {m.ev},
           selected[r], {}, {})

\* plan_tick: a selection that waited for history is tried again.
TickSelected(r) ==
    /\ Live(r)
    /\ status[r] = "ViewChange"
    /\ \E e \in selected[r] :
        LET c == Max({committed[r]} \cup {f.committed : f \in evidence[r]})
        IN  /\ c <= e.accepted
            /\ Installable(CheckSuffix(r, e.suffix, e.accepted, c, checkpoint[r]))
    /\ ContinueViewChange(r, view[r], fences[r], evidence[r], selected[r], {}, {})

\* The offer does not end below what the replica already committed.
NotBehind(r, m) == m.committed >= committed[r] /\ m.accepted >= committed[r]

\* plan_start_view, from the primary of the view: install and adopt, fetch
\* what is missing and keep the offer, or fault.
AdoptStartView(r, m) ==
    LET ruling == CheckSuffix(r, m.suffix, m.accepted, m.committed,
                              checkpoint[r])
    IN  /\ m.committed <= m.accepted /\ ShapeOk(m.suffix, m.accepted)
        /\ m.view > view[r] \/ (m.view = view[r] /\ status[r] = "ViewChange")
        /\ NotBehind(r, m)
        /\ \/ /\ Installable(ruling) /\ ~JournalRefuses(r, ruling)
              /\ status' = [status EXCEPT ![r] = "Normal"]
              /\ view' = [view EXCEPT ![r] = m.view]
              /\ retained' = [retained EXCEPT ![r] = m.view]
              /\ accepted' = [accepted EXCEPT ![r] = m.accepted]
              /\ committed' = [committed EXCEPT ![r] = m.committed]
              /\ log' = [log EXCEPT ![r] = Installed(r, m.suffix, ruling)]
              /\ open' = [open EXCEPT ![r] = {}]
              /\ oks' = [oks EXCEPT ![r] = {}]
              /\ fences' = [fences EXCEPT ![r] = {}]
              /\ evidence' = [evidence EXCEPT ![r] = {}]
              /\ selected' = [selected EXCEPT ![r] = {}]
              /\ stalled' = [stalled EXCEPT ![r] = {}]
              /\ UNCHANGED <<applied, checkpoint, fault, first, transfer,
                             restarts, msgs>>
           \/ /\ ruling.kind = "Gap"
              /\ OpenFetch(r, m.view, m.from, ruling.slot)
              /\ stalled' = [stalled EXCEPT ![r] = {m}]
              /\ Send({GetState(r, m.view, m.from, ruling.slot)})
              /\ UNCHANGED <<progressVars, journalVars, proposalVars,
                             attemptVars, restarts>>
           \/ /\ ruling.kind = "Conflict" \/ JournalRefuses(r, ruling)
              /\ Raise(r)

ReceiveStartView(r, m) ==
    /\ Live(r)
    /\ m.tag = "StartView" /\ m.from # r /\ Primary(m.view) = m.from
    /\ AdoptStartView(r, m)

\* plan_tick: the retained offer is tried again once history arrived for it.
TickStalled(r) ==
    /\ Live(r)
    /\ \E m \in stalled[r] :
        /\ Installable(CheckSuffix(r, m.suffix, m.accepted, m.committed, 0))
        /\ AdoptStartView(r, m)

-----------------------------------------------------------------------------
(***************************************************************************)
(* Normal operation.                                                       *)
(***************************************************************************)

\* plan_propose.
Propose(r) ==
    /\ Live(r)
    /\ IsPrimary(r)
    /\ accepted[r] < MaxSlot
    /\ accepted' = [accepted EXCEPT ![r] = @ + 1]
    /\ log' = [log EXCEPT ![r] = Append(@, Operation(view[r]))]
    /\ open' = [open EXCEPT ![r] = @ \cup {accepted[r] + 1}]
    /\ oks' = [oks EXCEPT ![r] = {v \in @ : v[1] # accepted[r] + 1}]
    /\ Send({[tag |-> "Prepare", from |-> r, view |-> view[r],
              slot |-> accepted[r] + 1, entry |-> Operation(view[r]),
              committed |-> committed[r]]})
    /\ UNCHANGED <<status, view, retained, committed, applied, checkpoint,
                   fault, first, attemptVars, fetchVars, restarts>>

\* plan_higher_view_signal: a message of a later view's primary reached a
\* replica that is not boot-fenced.
HigherViewSignal(r, m) ==
    /\ m.view > view[r]
    /\ ~BootFenced(r)
    /\ EnterViewChange(r, m.view, {},
           {[view |-> m.view, to |-> m.from, next |-> accepted[r] + 1]})

\* The view and status gate of Prepare and Commit.
InViewAnyStatus(r, m) == m.view = view[r]
InView(r, m) ==
    m.view = view[r] /\ (status[r] = "Normal" \/ BootFenced(r))

PrepareOk(r, m) ==
    [tag |-> "PrepareOk", from |-> r, to |-> m.from, view |-> m.view,
     slot |-> m.slot]

ReceivePrepare(r, m) ==
    /\ Live(r)
    /\ m.tag = "Prepare" /\ m.from # r /\ Primary(m.view) = m.from
    /\ \/ HigherViewSignal(r, m)
       \/ /\ InView(r, m)
          /\ first[r] <= m.slot /\ m.slot <= accepted[r]
          /\ log[r][m.slot] = m.entry
          /\ status' = [status EXCEPT ![r] = "Normal"]
          /\ committed' = [committed EXCEPT ![r] =
                               Follow(r, m.committed, accepted[r])]
          /\ Send({PrepareOk(r, m)})
          /\ UNCHANGED <<view, retained, accepted, applied, checkpoint, fault,
                         journalVars, proposalVars, attemptVars, fetchVars,
                         restarts>>
       \/ /\ InView(r, m)
          /\ m.slot = accepted[r] + 1
          /\ status' = [status EXCEPT ![r] = "Normal"]
          /\ accepted' = [accepted EXCEPT ![r] = m.slot]
          /\ committed' = [committed EXCEPT ![r] =
                               Follow(r, m.committed, m.slot)]
          /\ log' = [log EXCEPT ![r] = Append(@, m.entry)]
          /\ Send({PrepareOk(r, m)})
          /\ UNCHANGED <<view, retained, applied, checkpoint, fault, first,
                         proposalVars, attemptVars, fetchVars, restarts>>
       \/ /\ InView(r, m)
          /\ m.slot > accepted[r] + 1
          /\ OpenFetch(r, view[r], m.from, accepted[r] + 1)
          /\ Send({GetState(r, view[r], m.from, accepted[r] + 1)})
          /\ UNCHANGED <<progressVars, journalVars, proposalVars,
                         attemptVars, stalled, restarts>>

\* plan_prepare_ok: an ack of slot s stands for every open slot up to s, and
\* the commit frontier moves over the slots a quorum now holds.
Votes(r, n, slot, s) ==
    {r} \cup {v[2] : v \in {w \in oks[r] : w[1] = s}}
        \cup (IF s <= slot THEN {n} ELSE {})

ReceivePrepareOk(r, m) ==
    /\ Live(r)
    /\ m.tag = "PrepareOk" /\ m.to = r
    /\ IsPrimary(r) /\ m.view = view[r]
    /\ m.slot > committed[r] /\ m.slot \in open[r]
    /\ <<m.slot, m.from>> \notin oks[r]
    /\ oks' = [oks EXCEPT ![r] = @ \cup
                   {<<s, m.from>> : s \in open[r] \cap
                                         (committed[r] + 1 .. m.slot)}]
    /\ \E c \in committed[r] .. accepted[r] :
        /\ \A s \in committed[r] + 1 .. c : Votes(r, m.from, m.slot, s) \in Quorum
        /\ c < accepted[r] => Votes(r, m.from, m.slot, c + 1) \notin Quorum
        /\ committed' = [committed EXCEPT ![r] = c]
        /\ Send(IF c > committed[r] THEN {Commit(r, c)} ELSE {})
    /\ UNCHANGED <<status, view, retained, accepted, applied, checkpoint,
                   fault, journalVars, open, attemptVars, fetchVars, restarts>>

ReceiveCommit(r, m) ==
    /\ Live(r)
    /\ m.tag = "Commit" /\ m.from # r /\ Primary(m.view) = m.from
    /\ \/ HigherViewSignal(r, m)
       \/ /\ InView(r, m)
          /\ status' = [status EXCEPT ![r] = "Normal"]
          /\ committed' = [committed EXCEPT ![r] =
                               Follow(r, m.committed, accepted[r])]
          /\ UNCHANGED <<view, retained, accepted, applied, checkpoint, fault,
                         journalVars, proposalVars, attemptVars, fetchVars,
                         restarts, msgs>>

-----------------------------------------------------------------------------
(***************************************************************************)
(* State transfer.                                                         *)
(***************************************************************************)

\* plan_get_state: a chunk of the journal from the asked slot on, under the
\* asker's view.
ReceiveGetState(r, m) ==
    /\ Live(r)
    /\ m.tag = "GetState" /\ m.to = r
    /\ status[r] \in {"Normal", "ViewChange"}
    /\ first[r] <= m.next /\ m.next <= accepted[r]
    /\ Budget > 0
    /\ LET through == AtMost(accepted[r], m.next + Budget - 1)
       IN  Send({[tag |-> "NewState", from |-> r, to |-> m.from,
                  view |-> m.view, suffix |-> RunOf(log[r], m.next, through),
                  committed |-> committed[r],
                  more |-> through < accepted[r]]})
    /\ UNCHANGED <<progressVars, journalVars, proposalVars, attemptVars,
                   fetchVars, restarts>>

\* The chunk answers the open fetch, or reaches a boot-fenced replica that
\* has none.
Qualified(r, m) ==
    \/ \E f \in transfer[r] : f.view = m.view /\ f.to = m.from
    \/ transfer[r] = {} /\ BootFenced(r) /\ m.view = view[r]

\* The fetch that follows a chunk: the next one, or none.
NextFetch(r, m, goOn, next) ==
    /\ transfer' = [transfer EXCEPT ![r] =
           IF goOn THEN {[view |-> m.view, to |-> m.from, next |-> next]}
           ELSE {}]
    /\ Send(IF goOn THEN {GetState(r, m.view, m.from, next)} ELSE {})

\* plan_new_state outside a boot acquisition: the whole chunk is journalled,
\* and the commit frontier follows only in the replica's own view.
InstallChunk(r, m, through, ruling) ==
    LET current == m.view = view[r] /\ status[r] = "Normal"
    IN  /\ accepted' = [accepted EXCEPT ![r] = through]
        /\ committed' = [committed EXCEPT ![r] =
               IF current THEN Follow(r, m.committed, through) ELSE @]
        /\ log' = [log EXCEPT ![r] = Installed(r, m.suffix, ruling)]
        /\ NextFetch(r, m, m.more, through + 1)

\* plan_new_state in a boot acquisition: only the committed part is
\* journalled, capped by the commit frontier of a retained offer.
AcquireChunk(r, m, through) ==
    LET take == IF stalled[r] = {} THEN m.committed
                ELSE Min({m.committed} \cup {o.committed : o \in stalled[r]})
        com == Follow(r, take, through)
        acc == AtLeast(accepted[r], com)
        covered == [m.suffix EXCEPT !.ents = SubSeq(@, 1, com - m.suffix.from + 1)]
        ruling == CheckSuffix(r, covered, com, m.committed, 0)
    IN  \/ /\ covered.ents = <<>>
           /\ committed' = [committed EXCEPT ![r] = com]
           /\ NextFetch(r, m, m.more, acc + 1)
           /\ UNCHANGED <<accepted, fault, log>>
        \/ /\ covered.ents # <<>>
           /\ Installable(ruling)
           /\ accepted' = [accepted EXCEPT ![r] = acc]
           /\ committed' = [committed EXCEPT ![r] = com]
           /\ log' = [log EXCEPT ![r] = Installed(r, covered, ruling)]
           /\ NextFetch(r, m, m.more \/ (com < through /\ acc > accepted[r]),
                        acc + 1)
           /\ UNCHANGED fault

ReceiveNewState(r, m) ==
    /\ Live(r)
    /\ m.tag = "NewState" /\ m.to = r
    /\ Qualified(r, m)
    /\ m.committed >= committed[r]
    /\ LET through == LastSlot(m.suffix)
           ruling == CheckSuffix(r, m.suffix, through, m.committed, 0)
       IN  /\ m.more \/ m.committed <= through
           /\ \/ /\ through <= accepted[r] /\ ~m.more
                 /\ transfer' = [transfer EXCEPT ![r] = {}]
                 /\ UNCHANGED <<accepted, committed, fault, log, msgs>>
              \/ /\ through > accepted[r]
                 /\ ruling.kind = "Conflict"
                 /\ fault' = [fault EXCEPT ![r] = TRUE]
                 /\ UNCHANGED <<accepted, committed, log, transfer, msgs>>
              \/ /\ through > accepted[r]
                 /\ Installable(ruling)
                 /\ \/ /\ BootFenced(r) /\ m.view = view[r]
                       /\ AcquireChunk(r, m, through)
                    \/ /\ ~(BootFenced(r) /\ m.view = view[r])
                       /\ InstallChunk(r, m, through, ruling)
                       /\ UNCHANGED fault
    /\ UNCHANGED <<status, view, retained, applied, checkpoint, first,
                   proposalVars, attemptVars, stalled, restarts>>

-----------------------------------------------------------------------------
Step(r) ==
    \/ TickPromote(r)
    \/ TickSuspect(r)
    \/ TickStalled(r)
    \/ TickSelected(r)
    \/ Propose(r)
    \/ Applied(r)
    \/ \E t \in 1 .. MaxApply : Checkpointed(r, t)
    \/ \E s \in 1 .. MaxApply + 1 : Reclaim(r, s)
    \/ \E v \in 1 .. MaxView : AdminForceView(r, v)
    \/ Resume(r)

Receive(r, m) ==
    \/ ReceivePrepare(r, m)
    \/ ReceivePrepareOk(r, m)
    \/ ReceiveCommit(r, m)
    \/ ReceiveStartViewChange(r, m)
    \/ ReceiveDoViewChange(r, m)
    \/ ReceiveStartView(r, m)
    \/ ReceiveGetState(r, m)
    \/ ReceiveNewState(r, m)

Next ==
    \E r \in Node :
        \/ Step(r)
        \/ \E m \in msgs : m.tag \in Delivered /\ Receive(r, m)

Spec == Init /\ [][Next]_vars

\* The host's transport delivers again what a replica can still act on, and
\* the host's clock keeps ticking.
Deliveries(r, tag, n) ==
    \E m \in msgs :
        /\ m.tag = tag
        /\ \/ tag \in {"Prepare", "PrepareOk"} /\ m.slot = n
           \/ tag = "Commit" /\ m.committed = n
        /\ Receive(r, m)
Fairness ==
    \A r \in Node :
        /\ WF_vars(TickPromote(r))
        /\ \A n \in INIT_SLOT .. MaxSlot :
            /\ WF_vars(Deliveries(r, "Prepare", n))
            /\ WF_vars(Deliveries(r, "PrepareOk", n))
            /\ WF_vars(Deliveries(r, "Commit", n))
FairSpec == Spec /\ Fairness

-----------------------------------------------------------------------------
(***************************************************************************)
(* Properties.                                                             *)
(***************************************************************************)

\* Every field of a replica and every message has the type the code gives it.
TypeOK ==
    /\ status \in [Node -> Status]
    /\ view \in [Node -> Nat]
    /\ retained \in [Node -> Nat]
    /\ accepted \in [Node -> Nat]
    /\ committed \in [Node -> Nat]
    /\ applied \in [Node -> Nat]
    /\ checkpoint \in [Node -> Nat]
    /\ fault \in [Node -> BOOLEAN]
    /\ log \in [Node -> Seq(Nat)]
    /\ first \in [Node -> Nat]
    /\ open \in [Node -> SUBSET Nat]
    /\ oks \in [Node -> SUBSET (Nat \X Node)]
    /\ fences \in [Node -> SUBSET Node]
    /\ evidence \in [Node -> SUBSET Evidence]
    /\ selected \in [Node -> SUBSET Evidence]
    /\ transfer \in [Node -> SUBSET Fetch]
    /\ stalled \in [Node -> SUBSET StartViewMsg]
    /\ restarts \in Nat
    /\ msgs \subseteq Message

\* Progress.check: the frontiers stay in order, and a replica serves only the
\* view it retains.
ProgressOK ==
    \A r \in Node :
        /\ checkpoint[r] <= applied[r]
        /\ applied[r] <= committed[r]
        /\ committed[r] <= accepted[r]
        /\ retained[r] <= view[r]
        /\ status[r] = "Normal" => view[r] = retained[r]

\* Two replicas never commit different operations at one slot.
Agreement ==
    \A r, q \in Node : \A s \in 1 .. AtMost(committed[r], committed[q]) :
        log[r][s] = log[q][s]

\* A step never rewrites a slot below its replica's commit frontier, and the
\* frontier never goes back.
CommittedStable ==
    [][\A r \in Node :
         /\ committed[r] <= committed'[r]
         /\ \A s \in 1 .. committed[r] : log'[r][s] = log[r][s]]_vars

\* The journal ends where progress says it does: plan never refuses with
\* JournalViewDivergence.
JournalMatchesProgress == \A r \in Node : fault[r] \/ Len(log[r]) = accepted[r]

\* The primary of a view holds everything committed by the replicas that are
\* not ahead of it.
PrimaryComplete ==
    \A p, r \in Node :
        IsPrimary(p) /\ view[r] <= view[p] /\ ~fault[p] =>
            /\ committed[r] <= accepted[p]
            /\ \A s \in 1 .. committed[r] : log[r][s] = log[p][s]

\* Replicas that serve one view hold one history.
ViewHistory ==
    \A r, q \in Node :
        status[r] = "Normal" /\ status[q] = "Normal" /\ view[r] = view[q] =>
            \A s \in 1 .. AtMost(accepted[r], accepted[q]) :
                log[r][s] = log[q][s]

\* No input a correct peer sends makes a replica fault itself.
NoFault == \A r \in Node : ~fault[r]

\* While nobody suspects the primary, an operation it ordered is committed
\* by every replica.
ProposalCommits ==
    \A s \in INIT_SLOT + 1 .. MaxSlot : \A r \in Node :
        (accepted[Primary(0)] >= s) ~> (committed[r] >= s)

=============================================================================
