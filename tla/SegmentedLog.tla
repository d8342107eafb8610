---------------------------- MODULE SegmentedLog -----------------------------
(***************************************************************************)
(* The journal of src/journal.rs: sealed slabs with an index of their      *)
(* boundaries, and a tail that is sealed when it is full.  A call is the   *)
(* step Ask, then the steps that carry it out; accept pushes one entry per *)
(* step.  The calls take &mut self: none starts before the last one is     *)
(* answered.                                                               *)
(*                                                                         *)
(* Abstractions: an entry is its slot and one value for its era and        *)
(* payload; a view is the journal's fields at the time it is taken.        *)
(***************************************************************************)
EXTENDS Integers, Sequences

CONSTANTS
    Op,             \* what an entry holds besides its slot
    MaxSlot,        \* the last slot number (u64::MAX)
    Capacity,       \* tail_capacity
    Offer           \* the batches and suffixes callers bring

VARIABLES
    slabs,          \* the sealed slabs, sequences of entries
    boundaries,     \* for each slab its first slot and its length
    tail,           \* the entries not sealed yet
    first_slot,     \* the first slot held
    accepted,       \* the last slot held, NoSlot before the first entry
    call,           \* the call in progress, none or one
    pushed          \* how many entries of an accept are in

NoSlot == 0
VOID_SLOT == 1
Slot == 0 .. MaxSlot
Entry == [slot : Slot, op : Op]
Boundary == [first : Slot, len : Nat]
\* slot is the slot to install from, or the checkpoint to reclaim through.
Call == [kind : {"accept"}, slot : {NoSlot}, es : Offer]
        \cup [kind : {"install"}, slot : Slot, es : Offer]
        \cup [kind : {"reclaim"}, slot : Slot, es : {<<>>}]

ASSUME JournalAssumption ==
    /\ MaxSlot \in Nat \ {0}
    /\ Capacity \in Nat \ {0}
    /\ Offer \subseteq Seq(Entry)

logVars == <<slabs, boundaries, tail, first_slot, accepted>>
vars == <<logVars, call, pushed>>

Init ==
    /\ slabs = <<>> /\ boundaries = <<>> /\ tail = <<>>
    /\ first_slot = VOID_SLOT
    /\ accepted = NoSlot
    /\ call = {} /\ pushed = 0

-----------------------------------------------------------------------------
(***************************************************************************)
(* Reading: LogView.                                                       *)
(***************************************************************************)

\* A view is the slabs ss, their boundaries bs, the tail t and the first slot
\* f of the journal when it was taken.
LastOf(b) == b.first + b.len - 1

TailStart(bs, f) == IF bs = <<>> THEN f ELSE LastOf(bs[Len(bs)]) + 1

\* The number of boundaries that start at or before slot s; they are sorted.
IndexOf(bs, s) ==
    CHOOSE i \in 0 .. Len(bs) :
        /\ \A j \in 1 .. i : bs[j].first <= s
        /\ \A j \in i + 1 .. Len(bs) : bs[j].first > s

\* entry_at, for a slot that is held.
EntryAt(ss, bs, t, f, s) ==
    LET i == IndexOf(bs, s)
    IN  IF i > 0 /\ s - bs[i].first < bs[i].len
        THEN ss[i][s - bs[i].first + 1]
        ELSE t[s - TailStart(bs, f) + 1]

\* get, on a view taken now.
Get(s) == EntryAt(slabs, boundaries, tail, first_slot, s)

\* copy_out: the slots from .. to, as far as the journal holds them.
CopyOut(from, to) ==
    LET end == IF to > accepted THEN accepted ELSE to
        copied == [k \in 1 .. end - from + 1 |-> Get(from + k - 1)]
    IN  CASE from < first_slot -> [outcome |-> "BelowRetention", es |-> <<>>]
          [] from >= first_slot /\ accepted = NoSlot ->
                [outcome |-> "Empty", es |-> <<>>]
          [] from >= first_slot /\ accepted # NoSlot /\ to < from ->
                [outcome |-> "Complete", es |-> <<>>]
          [] OTHER ->
                [outcome |-> IF to > accepted THEN "Short" ELSE "Complete",
                 es |-> copied]

-----------------------------------------------------------------------------
(***************************************************************************)
(* Calls.                                                                  *)
(***************************************************************************)

Ask(c) ==
    /\ call = {}
    /\ call' = {c}
    /\ UNCHANGED <<logVars, pushed>>

Answered == call' = {} /\ pushed' = 0

\* The checks of accept and install_suffix, entry by entry.
RunToTheEnd(es, s) ==
    es # <<>> /\ \A k \in 1 .. Len(es) : es[k].slot = s + k - 1
RunFrom(es, s) ==
    /\ es # <<>>
    /\ \A k \in 1 .. Len(es) : es[k].slot = s + k - 1
    /\ s + Len(es) - 1 < MaxSlot

AcceptAt == IF accepted = NoSlot THEN first_slot ELSE accepted + 1
InstallAt(from) ==
    IF accepted # NoSlot /\ from > accepted THEN accepted + 1 ELSE from

Accepts(c) == c.kind = "accept" /\ RunFrom(c.es, AcceptAt)
Installs(c) ==
    /\ c.kind = "install"
    /\ c.slot >= first_slot
    /\ RunFrom(c.es, InstallAt(c.slot))

\* Every error return: nothing has been changed yet.
Refuse(c) ==
    /\ c.kind \in {"accept", "install"}
    /\ ~Accepts(c) /\ ~Installs(c)
    /\ Answered
    /\ UNCHANGED logVars

BoundaryOf(es) == [first |-> es[1].slot, len |-> Len(es)]

\* A batch of a slab's size, with nothing in the tail, is a slab at once.
AsSlab(c) == Len(c.es) >= Capacity /\ tail = <<>>
AcceptSlab(c) ==
    /\ Accepts(c)
    /\ AsSlab(c)
    /\ slabs' = Append(slabs, c.es)
    /\ boundaries' = Append(boundaries, BoundaryOf(c.es))
    /\ accepted' = c.es[Len(c.es)].slot
    /\ Answered
    /\ UNCHANGED <<tail, first_slot>>

Full == Len(tail) >= Capacity

Push(c) ==
    LET e == c.es[pushed + 1]
    IN  /\ Accepts(c)
        /\ ~AsSlab(c)
        /\ tail' = IF Full THEN <<e>> ELSE Append(tail, e)
        /\ slabs' = IF Full THEN Append(slabs, tail) ELSE slabs
        /\ boundaries' = IF Full THEN Append(boundaries, BoundaryOf(tail))
                         ELSE boundaries
        /\ IF pushed + 1 = Len(c.es)
           THEN accepted' = e.slot /\ Answered
           ELSE pushed' = pushed + 1 /\ UNCHANGED <<accepted, call>>
        /\ UNCHANGED first_slot

\* install_suffix: whole slabs from the slot on go, the one that straddles it
\* is cut, and the suffix follows what is left of the tail.
KeptOneMore(from, b) == from - b.first + 1
Kept(from, b) == from - b.first
Install(c) ==
    LET from == c.slot
    IN  /\ Installs(c)
        /\ \E kept \in 0 .. Len(boundaries), keptTail \in 0 .. Len(tail) :
            /\ \A i \in 1 .. kept : boundaries[i].first < from
            /\ \A i \in kept + 1 .. Len(boundaries) : boundaries[i].first >= from
            /\ \A k \in 1 .. keptTail : tail[k].slot < from
            /\ \A k \in keptTail + 1 .. Len(tail) : tail[k].slot >= from
            /\ LET straddles == kept > 0 /\ LastOf(boundaries[kept]) >= from
                   keep == Kept(from, boundaries[kept])
                   bs == SubSeq(boundaries, 1, kept)
                   ss == SubSeq(slabs, 1, kept)
               IN  /\ boundaries' = IF straddles
                                    THEN [bs EXCEPT ![kept].len = keep]
                                    ELSE bs
                   /\ slabs' = IF straddles
                               THEN [ss EXCEPT ![kept] = SubSeq(@, 1, keep)]
                               ELSE ss
            /\ tail' = SubSeq(tail, 1, keptTail) \o c.es
        /\ first_slot' = IF accepted = NoSlot THEN from ELSE first_slot
        /\ accepted' = c.es[Len(c.es)].slot
        /\ Answered

\* reclaim_through: the slabs that end at or before the checkpoint go; the
\* tail is sealed first when the whole journal is covered.
ReclaimableEarly(b, checkpoint) == b.first <= checkpoint
Reclaimable(b, checkpoint) == LastOf(b) <= checkpoint
Reclaim(c) ==
    LET seal == accepted # NoSlot /\ accepted <= c.slot /\ tail # <<>>
        bs == IF seal THEN Append(boundaries, BoundaryOf(tail)) ELSE boundaries
        ss == IF seal THEN Append(slabs, tail) ELSE slabs
        t == IF seal THEN <<>> ELSE tail
    IN  /\ c.kind = "reclaim"
        /\ \E covered \in 0 .. Len(bs) :
            /\ \A i \in 1 .. covered : Reclaimable(bs[i], c.slot)
            /\ \A i \in covered + 1 .. Len(bs) : ~Reclaimable(bs[i], c.slot)
            /\ boundaries' = SubSeq(bs, covered + 1, Len(bs))
            /\ slabs' = SubSeq(ss, covered + 1, Len(ss))
            /\ first_slot' =
                  IF covered < Len(bs) THEN bs[covered + 1].first
                  ELSE IF t # <<>> THEN t[1].slot
                  ELSE IF accepted # NoSlot THEN accepted + 1
                  ELSE first_slot
        /\ tail' = t
        /\ Answered
        /\ UNCHANGED accepted

Next ==
    \/ \E c \in Call : Ask(c)
    \/ \E c \in call : \/ Refuse(c) \/ AcceptSlab(c) \/ Push(c)
                       \/ Install(c) \/ Reclaim(c)

Spec == Init /\ [][Next]_vars

-----------------------------------------------------------------------------
(***************************************************************************)
(* Properties.                                                             *)
(***************************************************************************)

\* The slabs, their index and the tail hold entries.
TypeOK ==
    /\ slabs \in Seq(Seq(Entry))
    /\ boundaries \in Seq(Boundary)
    /\ tail \in Seq(Entry)
    /\ first_slot \in Slot
    /\ accepted \in Slot
    /\ call \in SUBSET Call
    /\ pushed \in Nat

\* Slabs, boundaries and tail represent one contiguous run: every call does
\* to the run what the trait Journal says, and reclamation drops nothing
\* above the checkpoint.
Abstract == INSTANCE Journal WITH
    first <- first_slot,
    content <- [s \in first_slot .. accepted |-> Get(s)]
ImplementsJournal == Abstract!Spec

\* copy_out says what it copied: a complete answer holds exactly the slots
\* asked for, a short one those up to the frontier.
CopiesTold ==
    call = {} =>
        \A from, to \in Slot :
            LET a == CopyOut(from, to)
                end == IF a.outcome = "Short" THEN accepted ELSE to
            IN  /\ a.outcome \in {"Complete", "Short"} /\ from <= end =>
                      Len(a.es) = end - from + 1
                /\ \A k \in 1 .. Len(a.es) : a.es[k].slot = from + k - 1
=============================================================================
