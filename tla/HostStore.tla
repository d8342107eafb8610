------------------------------ MODULE HostStore ------------------------------
(***************************************************************************)
(* The state file of the key-value host and the lives it carries:          *)
(* src/bin/maelstrom-lin-kv/store.rs, and the boot, the write-through, the *)
(* deferred latch and the clean stop of main.rs around it.                 *)
(*                                                                         *)
(* A file is two header slots, written in turn, and one journal region,    *)
(* written in place. A commit syncs the region first and the inactive slot *)
(* second; a crash may leave any prefix of an unsynced region write and an *)
(* unsynced slot old, torn or new.                                         *)
(*                                                                         *)
(* Abstractions.                                                           *)
(*  - The four superblock copies sit in one slot under one checksum, so    *)
(*    they are one identity and one marker; an identity is its crash       *)
(*    counter. Quorums of copies are the subject of Lifecycle.             *)
(*  - Bytes are cells: the entry v at slot s is framed as Width[v] cells   *)
(*    that name s, v and their place, and a digest is the entry itself.    *)
(*  - The roster never changes, and nothing is reclaimed: slot 1 is the    *)
(*    genesis entry and the base of every journal.                         *)
(*  - The replica is what it publishes: it accepts, commits and installs   *)
(*    as Replica does, and what the cluster commits slot by slot is given  *)
(*    in advance: a replica learns of it in any pieces, and any entry may  *)
(*    stand above its frontier.                                            *)
(***************************************************************************)
EXTENDS Integers, Sequences, SequencesExt, FiniteSetsExt

CONSTANTS
    Entry,          \* the entries above genesis, by payload
    Width,          \* by entry: the cells its frame takes
    Genesis,        \* the entry of slot 1, of one cell
    Chosen,         \* the history the cluster commits
    MaxSlot,        \* bound: the last slot
    MaxIdentity,    \* the last crash counter
    MaxSeq          \* bound: the last sequence number a start may read

ASSUME EntryAssumption ==
    /\ Genesis \notin Entry
    /\ Width \in [Entry \cup {Genesis} -> Nat \ {0}]
ASSUME ChosenAssumption ==
    /\ Chosen \in [1 .. MaxSlot -> Entry \cup {Genesis}]
    /\ Chosen[1] = Genesis
ASSUME StoreBounds ==
    MaxSlot \in Nat \ {0} /\ MaxIdentity \in Nat \ {0} /\ MaxSeq \in Nat

VARIABLES
    file,           \* the state file, none or one
    phase,          \* where the process is in its life
    io,             \* the commit in progress, none or one
    mirror,         \* the store's LogFile: the active side and its sequence
                    \* number, and the entries it takes for durable
    log, committed, \* the journal and commit frontier last published
    own,            \* the identity the replica speaks under
    copies,         \* the markers a write-through carries
    announce,       \* a bumped identity is still being announced
    deferred,       \* the latch of a bumped identity is still owed
    voting, normal, \* a bumped identity's weight and status
    spent,          \* identities that latched and then died uncleanly
    inplace         \* a region write began inside the counted bytes

replicaVars == <<log, committed>>
lifeVars    == <<own, copies, announce, deferred, voting, normal>>
vars == <<file, phase, io, mirror, replicaVars, lifeVars, spent, inplace>>

-----------------------------------------------------------------------------

Side == {"A", "B"}
flipNever(s) == s
flip(s) == IF s = "A" THEN "B" ELSE "A"

Identity == 1 .. MaxIdentity
Marker == {"Joining", "Restarting", "Stopping", "Stopped"}
CopyState == [id : Identity, marker : Marker]
Copies(i, m) == [id |-> i, marker |-> m]

AnyEntry == Entry \cup {Genesis}
History(n) == {h \in [1 .. n -> AnyEntry] : h[1] = Genesis}

\* A slot that was never written, or whose checksum fails, decodes to this.
Undecodable == [seq |-> 0]
Header == [seq : Nat, copies : CopyState, accepted : 1 .. MaxSlot,
           committed : 1 .. MaxSlot, count : 1 .. MaxSlot, bytes : Nat]

\* frame: the cells of the entries of history h from slot n on.
Frame(s, v) == [k \in 1 .. Width[v] |-> <<s, v, k>>]
FramesFrom(n, h) == FlattenSeq([i \in 1 .. Len(h) - n + 1 |-> Frame(n + i - 1, h[n + i - 1])])
Frames(h) == FramesFrom(1, h)

\* A write of the cells cs into region r after its first `at` cells.
Overwrite(r, at, cs) ==
    [j \in 1 .. Max({Len(r), at + Len(cs)}) |->
        IF j \in at + 1 .. at + Len(cs) THEN cs[j - at] ELSE r[j]]

-----------------------------------------------------------------------------
(***************************************************************************)
(* Store::load.                                                            *)
(***************************************************************************)

Vouches(f) == {s \in Side : f.slots[s] # Undecodable}

\* The valid slot with the higher sequence number.
Active(f) ==
    {s \in Vouches(f) : \A t \in Vouches(f) : f.slots[s].seq >= f.slots[t].seq}

\* decode_entries: the histories that the counted bytes are the frames of,
\* none or one.
Decoded(f, hdr) ==
    {h \in History(hdr.count) :
        /\ hdr.bytes <= Len(f.region)
        /\ Frames(h) = SubSeq(f.region, 1, hdr.bytes)}

\* What a load returns, none when it refuses: the header, its entries and
\* the side they were read from.
Loaded(f) ==
    UNION {{[side |-> s, hdr |-> f.slots[s], entries |-> h] :
                h \in Decoded(f, f.slots[s])} : s \in Active(f)}

\* The starts that find a file, up to the bound.
Starts == {x \in UNION {Loaded(f) : f \in file} : x.hdr.seq <= MaxSeq}

-----------------------------------------------------------------------------
(***************************************************************************)
(* Store::commit, in three steps: the delta, the region, the slot.         *)
(***************************************************************************)

\* The standing prefix: the walk compares the uncommitted tail alone, and
\* the lowest mismatch ends it.
StandHighest(m, l, c) ==
    LET hi == Min({Len(m.entries), Len(l)})
        mismatch == {s \in 2 .. hi : s > c /\ m.entries[s] # l[s]}
    IN  IF mismatch = {} THEN hi ELSE Max(mismatch)
Stand(m, l, c) ==
    LET hi == Min({Len(m.entries), Len(l)})
        mismatch == {s \in 2 .. hi : s > c /\ m.entries[s] # l[s]}
    IN  IF mismatch = {} THEN hi ELSE Min(mismatch) - 1

\* The append offset taken from the start of the last standing entry.
CommitOfAtStart(m, l, c, cp) ==
    LET stand   == Stand(m, l, c)
        entries == SubSeq(m.entries, 1, stand) \o SubSeq(l, stand + 1, Len(l))
    IN  [entries |-> entries,
         at      |-> Len(Frames(SubSeq(m.entries, 1, stand - 1))),
         cells   |-> FramesFrom(stand + 1, entries),
         header  |-> [seq |-> m.seq + 1, copies |-> cp, accepted |-> Len(l),
                      committed |-> c, count |-> Len(entries),
                      bytes |-> Len(Frames(entries))]]

\* The writes of one commit of journal l, committed to c, under copies cp:
\* everything from the standing prefix on, then the header that counts it.
CommitOf(m, l, c, cp) ==
    LET stand   == Stand(m, l, c)
        entries == SubSeq(m.entries, 1, stand) \o SubSeq(l, stand + 1, Len(l))
    IN  [entries |-> entries,
         at      |-> Len(Frames(SubSeq(m.entries, 1, stand))),
         cells   |-> FramesFrom(stand + 1, entries),
         header  |-> [seq |-> m.seq + 1, copies |-> cp, accepted |-> Len(l),
                      committed |-> c, count |-> Len(entries),
                      bytes |-> Len(Frames(entries))]]

\* The call: the mirror moves before anything is written.
Commit(p, m, l, c, cp) ==
    LET w == CommitOf(m, l, c, cp) IN
    /\ phase' = p
    /\ mirror' = [m EXCEPT !.entries = w.entries]
    /\ io' = {[stage |-> IF w.cells = <<>> THEN "slot" ELSE "region",
               at |-> w.at, cells |-> w.cells, header |-> w.header]}
    /\ inplace' = (w.cells # <<>> /\
                   \E f \in file : \E s \in Active(f) : w.at < f.slots[s].bytes)

RegionSync ==
    /\ \E w \in io, f \in file :
          /\ w.stage = "region"
          /\ file' = {[f EXCEPT !.region = Overwrite(@, w.at, w.cells)]}
          /\ io' = {[w EXCEPT !.stage = "slot"]}
    /\ UNCHANGED <<phase, mirror, replicaVars, lifeVars, spent, inplace>>

\* The slot is durable: the side flips, and the caller goes on.
SlotSynced(p) ==
    /\ \E w \in io, f \in file :
          /\ w.stage = "slot"
          /\ file' = {[f EXCEPT !.slots[flip(mirror.side)] = w.header]}
    /\ mirror' = [mirror EXCEPT !.side = flip(@), !.seq = @ + 1]
    /\ io' = {}
    /\ inplace' = FALSE
    /\ phase' = p
    /\ UNCHANGED <<replicaVars, spent>>

\* What an interrupted commit w can leave of the file f.
Interrupted(f, w) ==
    IF w.stage = "region"
    THEN {[f EXCEPT !.region = Overwrite(@, w.at, SubSeq(w.cells, 1, k))] :
            k \in 0 .. Len(w.cells)}
    ELSE {[f EXCEPT !.slots[flip(mirror.side)] = x] :
            x \in {f.slots[flip(mirror.side)], Undecodable, w.header}}

\* Gate::commit: a marker write lands over the state staged beneath it.
GateCommit(p, m, l, c, marker, id) == Commit(p, m, l, c, Copies(id, marker))

-----------------------------------------------------------------------------
(***************************************************************************)
(* on_init: the three boots, and the write-through that ends each.         *)
(***************************************************************************)

\* Store::create builds the file beside its name and renames it, so it is
\* there whole or not at all, with slot A alone valid.
Created(cp) ==
    [slots  |-> [A |-> [seq |-> 1, copies |-> cp, accepted |-> 1, committed |-> 1,
                        count |-> 1, bytes |-> Len(Frames(<<Genesis>>))],
                 B |-> Undecodable],
     region |-> Frames(<<Genesis>>)]

\* No file: the first life anchors at the genesis identity.
BootFirst ==
    /\ phase = "down" /\ file = {}
    /\ copies' = Copies(1, "Joining")
    /\ file' = {Created(Copies(1, "Joining"))}
    /\ mirror' = [side |-> "A", seq |-> 1, entries |-> <<Genesis>>]
    /\ log' = <<Genesis>> /\ committed' = 1
    /\ own' = 1 /\ announce' = FALSE /\ deferred' = FALSE
    /\ voting' = FALSE /\ normal' = FALSE
    /\ phase' = "opened"
    /\ UNCHANGED <<io, spent, inplace>>

\* reopen_fenced refuses a journal that does not end where progress says.
ReopenFenced(x) == Len(x.entries) = x.hdr.accepted

\* rebuild: the journal and the frontier are the persisted ones.
RebuildPast(x) ==
    /\ ReopenFenced(x)
    /\ log' = x.entries
    /\ committed' = x.hdr.committed + 1
    /\ voting' = FALSE /\ normal' = FALSE
Rebuild(x) ==
    /\ ReopenFenced(x)
    /\ log' = x.entries
    /\ committed' = x.hdr.committed
    /\ voting' = FALSE /\ normal' = FALSE

MirrorOf(x) == [side |-> x.side, seq |-> x.hdr.seq, entries |-> x.entries]

\* reopen_clean: the stopped marker vouches for the file. The latch writes
\* Restarting over the state as loaded before the resume.
BootClean ==
    /\ phase = "down"
    /\ \E x \in Starts :
          /\ x.hdr.copies.marker = "Stopped"
          /\ Rebuild(x)
          /\ own' = x.hdr.copies.id
          /\ copies' = Copies(x.hdr.copies.id, "Restarting")
          /\ GateCommit("latching", MirrorOf(x), x.entries, x.hdr.committed,
                        "Restarting", x.hdr.copies.id)
    /\ announce' = FALSE /\ deferred' = FALSE
    /\ UNCHANGED <<file, spent>>

CleanLatched ==
    /\ phase = "latching"
    /\ SlotSynced("opened")
    /\ UNCHANGED lifeVars

\* reopen_crashed: the identity is dead. The replica speaks under the next
\* one at once; the markers stay as loaded until the deferred latch.
BootCrashedSame ==
    /\ phase = "down"
    /\ \E x \in Starts :
          /\ x.hdr.copies.marker # "Stopped"
          /\ Rebuild(x)
          /\ own' = x.hdr.copies.id
          /\ copies' = x.hdr.copies
          /\ mirror' = MirrorOf(x)
    /\ announce' = TRUE /\ deferred' = TRUE
    /\ phase' = "opened"
    /\ UNCHANGED <<file, io, spent, inplace>>
BootCrashed ==
    /\ phase = "down"
    /\ \E x \in Starts :
          /\ x.hdr.copies.marker # "Stopped"
          /\ x.hdr.copies.id < MaxIdentity
          /\ Rebuild(x)
          /\ own' = x.hdr.copies.id + 1
          /\ copies' = x.hdr.copies
          /\ mirror' = MirrorOf(x)
    /\ announce' = TRUE /\ deferred' = TRUE
    /\ phase' = "opened"
    /\ UNCHANGED <<file, io, spent, inplace>>

\* write_state at the end of on_init, before init_ok is answered.
WriteState ==
    /\ phase = "opened"
    /\ Commit("writing", mirror, log, committed, copies)
    /\ UNCHANGED <<file, replicaVars, lifeVars, spent>>

InitOk ==
    /\ phase = "writing"
    /\ SlotSynced("up")
    /\ UNCHANGED lifeVars

-----------------------------------------------------------------------------
(***************************************************************************)
(* step: a transition is published and its effects are routed. on_init has *)
(* moved the store out of self.store into the gate, so persist, which      *)
(* looks for it there, returns at once and nothing is written.             *)
(***************************************************************************)

Persist == UNCHANGED <<file, io, mirror, inplace>>

\* The replica moves its frontier over entries the cluster committed.
Publish(l, c) ==
    /\ phase = "up"
    /\ \A s \in committed + 1 .. c : l[s] = Chosen[s]
    /\ log' = l
    /\ committed' = c
    /\ Persist
    /\ UNCHANGED <<phase, lifeVars, spent>>

Accept(v) == Len(log) < MaxSlot /\ Publish(Append(log, v), committed)

Advance == committed < Len(log) /\ Publish(log, committed + 1)

\* plan_start_view: the uncommitted tail is replaced, and the frontier may
\* move in the same transition.
Install ==
    \E n \in committed .. MaxSlot : \E h \in History(n) :
        /\ h # log
        /\ SubSeq(h, 1, committed) = SubSeq(log, 1, committed)
        /\ \E c \in committed .. n : Publish(h, c)

-----------------------------------------------------------------------------
(***************************************************************************)
(* The bumped identity: announced on every tick until it votes, latched    *)
(* when the replica is seated.                                             *)
(***************************************************************************)

StatusMoves ==
    /\ phase = "up" /\ deferred
    /\ normal' = ~normal
    /\ UNCHANGED <<file, phase, io, mirror, replicaVars, own, copies, announce,
                   deferred, voting, spent, inplace>>

\* The forced sequence of the leader reaches this replica's table.
GainWeight ==
    /\ phase = "up" /\ deferred /\ normal /\ ~voting
    /\ voting' = TRUE
    /\ UNCHANGED <<file, phase, io, mirror, replicaVars, own, copies, announce,
                   deferred, normal, spent, inplace>>

\* settle_deferred: the latch is written once Replica::rejoined mints its
\* witness, and is owed on otherwise.
SettleDeferred ==
    \/ /\ normal /\ voting
       /\ GateCommit("seating", mirror, log, committed, "Joining", own)
    \/ /\ ~(normal /\ voting)
       /\ UNCHANGED <<phase, io, mirror, inplace>>

\* on_tick of a voting identity: the announcing ends for good, and the latch
\* is tried.
TickVoting ==
    /\ phase = "up" /\ announce /\ voting
    /\ announce' = FALSE
    /\ SettleDeferred
    /\ UNCHANGED <<file, replicaVars, own, copies, deferred, voting, normal, spent>>

Latched ==
    /\ phase = "seating"
    /\ SlotSynced("up")
    /\ copies' = Copies(own, "Joining")
    /\ deferred' = FALSE /\ voting' = FALSE /\ normal' = FALSE
    /\ UNCHANGED <<own, announce>>

\* The store refuses: the crashed session is kept and the host goes on.
LatchRefused ==
    /\ phase = "seating"
    /\ \E w \in io, f \in file : \E g \in Interrupted(f, w) : file' = {g}
    /\ io' = {}
    /\ phase' = "up"
    /\ UNCHANGED <<mirror, replicaVars, lifeVars, spent, inplace>>

-----------------------------------------------------------------------------
(***************************************************************************)
(* clean_shutdown: Stopping, the drain, Stopped. Any failure ends the      *)
(* process with the file as it is, which is Crash.                         *)
(***************************************************************************)

BeginStop ==
    /\ phase = "up" /\ ~deferred
    /\ GateCommit("stopping", mirror, log, committed, "Stopping", own)
    /\ UNCHANGED <<file, replicaVars, lifeVars, spent>>

Stopping ==
    /\ phase = "stopping"
    /\ SlotSynced("draining")
    /\ UNCHANGED lifeVars

\* drain is an fsync of a file whose every commit was synced.
FinishStop ==
    /\ phase = "draining"
    /\ GateCommit("halting", mirror, log, committed, "Stopped", own)
    /\ UNCHANGED <<file, replicaVars, lifeVars, spent>>

Exit ==
    /\ phase = "halting"
    /\ SlotSynced("down")
    /\ UNCHANGED lifeVars

-----------------------------------------------------------------------------

\* The process dies. An identity that had latched is dead unless the file
\* says that it stopped.
Crash ==
    /\ phase # "down"
    /\ IF io = {} THEN UNCHANGED file
       ELSE \E w \in io, f \in file : \E g \in Interrupted(f, w) : file' = {g}
    /\ phase' = "down"
    /\ io' = {}
    /\ spent' = IF ~deferred /\ \A f \in file' : \A s \in Active(f) :
                                    f.slots[s].copies.marker # "Stopped"
                THEN spent \cup {own} ELSE spent
    /\ UNCHANGED <<mirror, replicaVars, lifeVars, inplace>>

-----------------------------------------------------------------------------

Init ==
    /\ file = {} /\ phase = "down" /\ io = {}
    /\ mirror = [side |-> "A", seq |-> 0, entries |-> <<Genesis>>]
    /\ log = <<Genesis>> /\ committed = 1
    /\ own = 1 /\ copies = Copies(1, "Joining")
    /\ announce = FALSE /\ deferred = FALSE /\ voting = FALSE /\ normal = FALSE
    /\ spent = {} /\ inplace = FALSE

Next ==
    \/ BootFirst \/ BootClean \/ CleanLatched \/ BootCrashed
    \/ WriteState \/ InitOk
    \/ \E v \in Entry : Accept(v)
    \/ Advance \/ Install
    \/ StatusMoves \/ GainWeight \/ TickVoting
    \/ Latched \/ LatchRefused
    \/ BeginStop \/ Stopping \/ FinishStop \/ Exit
    \/ RegionSync
    \/ Crash

Spec == Init /\ [][Next]_vars

-----------------------------------------------------------------------------
(***************************************************************************)
(* Properties.                                                             *)
(***************************************************************************)

\* Every variable keeps its type.
TypeOK ==
    /\ \A f \in file : \A s \in Side : f.slots[s] \in Header \cup {Undecodable}
    /\ phase \in {"down", "opened", "latching", "writing", "up", "seating",
                  "stopping", "draining", "halting"}
    /\ \A w \in io : w.stage \in {"region", "slot"} /\ w.header \in Header
    /\ mirror.side \in Side /\ mirror.entries \in History(Len(mirror.entries))
    /\ log \in History(Len(log)) /\ committed \in 1 .. Len(log)
    /\ own \in Identity /\ copies \in CopyState

\* The two slots are written in turn: whatever instant the process dies at,
\* one of them still decodes, and the one a load picks is not older than the
\* last commit that completed.
NeverOlder ==
    \A f \in file : \E s \in Active(f) : f.slots[s].seq >= mirror.seq

\* Bytes that no header counts are no evidence: unless a write was begun
\* inside the counted bytes, the file loads at every instant, torn appends
\* and dead tails included.
AppendHarmless == \A f \in file : ~inplace => Loaded(f) # {}

\* A Stopped marker vouches for the file under it: what a clean start loads
\* is the progress the node last published, with every entry above the
\* commit frontier, and nothing was published since.
StoppedIsFinal ==
    \A f \in file : \A s \in Active(f) :
        f.slots[s].copies.marker = "Stopped" =>
            \E x \in Loaded(f) :
                /\ x.hdr.committed = committed
                /\ x.hdr.accepted = Len(log)
                /\ Len(x.entries) = Len(log)
                /\ \A n \in committed + 1 .. Len(log) : x.entries[n] = log[n]

\* No life speaks under an identity that latched in an earlier one and did
\* not stop cleanly, whichever slot the crash left behind.
SpentStaysDead == phase # "down" => own \notin spent

\* The committed prefix of a node that serves is the one the cluster
\* committed, whatever the node was started from.
CommittedIsChosen ==
    phase = "up" => \A s \in 1 .. committed : log[s] = Chosen[s]

=============================================================================
