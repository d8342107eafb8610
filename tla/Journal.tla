------------------------------- MODULE Journal -------------------------------
(***************************************************************************)
(* What a journal promises the replica (src/journal.rs, the trait Journal  *)
(* and its views): one contiguous run of entries.  Appending extends it,   *)
(* installing a suffix replaces everything from a slot on, and reclaiming  *)
(* drops entries from the front, never above the checkpoint it is given.   *)
(* A call that does not fit the run is refused and changes nothing.        *)
(***************************************************************************)
EXTENDS Integers, Sequences

CONSTANTS
    Op,             \* what an entry holds besides its slot
    MaxSlot         \* the last slot number (u64::MAX)

VARIABLES
    first,          \* the first slot held
    accepted,       \* the last slot held, NoSlot before the first entry
    content,        \* the entries, by slot
    call            \* the call in progress, none or one

NoSlot == 0
VOID_SLOT == 1
Slot == 0 .. MaxSlot
Entry == [slot : Slot, op : Op]

\* slot is the slot to install from, or the checkpoint to reclaim through.
Call == [kind : {"accept", "install", "reclaim"}, slot : Slot, es : Seq(Entry)]

\* The entries es sit at the slots s, s + 1, ..., and a slot follows the last.
RunFrom(es, s) ==
    /\ es # <<>>
    /\ \A k \in 1 .. Len(es) : es[k].slot = s + k - 1
    /\ s + Len(es) - 1 < MaxSlot

\* Where the entries of a call have to start.
AcceptAt == IF accepted = NoSlot THEN first ELSE accepted + 1
InstallAt(from) ==
    IF accepted # NoSlot /\ from > accepted THEN accepted + 1 ELSE from

Init ==
    /\ first = VOID_SLOT
    /\ accepted = NoSlot
    /\ content = [s \in VOID_SLOT .. NoSlot |-> s]
    /\ call = {}

Ask ==
    /\ call = {}
    /\ \E c \in call' : call' = {c} /\ c \in Call
    /\ UNCHANGED <<first, accepted, content>>

\* The run from slot low on, with es from slot at on.
Write(low, at, es) ==
    /\ first' = low
    /\ accepted' = at + Len(es) - 1
    /\ content' = [s \in low .. at + Len(es) - 1 |->
                      IF s < at THEN content[s] ELSE es[s - at + 1]]

Accept(c) ==
    /\ c.kind = "accept" /\ RunFrom(c.es, AcceptAt)
    /\ Write(first, AcceptAt, c.es)

Installs(c) == c.slot >= first /\ RunFrom(c.es, InstallAt(c.slot))

Install(c) ==
    /\ c.kind = "install" /\ Installs(c)
    /\ Write(IF accepted = NoSlot THEN c.slot ELSE first, InstallAt(c.slot), c.es)

Reclaim(c) ==
    /\ c.kind = "reclaim"
    /\ first' = first \/ first' \in first .. c.slot + 1
    /\ first' <= accepted + 1
    /\ content' = [s \in first' .. accepted |-> content[s]]
    /\ UNCHANGED accepted

Refuse(c) ==
    /\ \/ c.kind = "accept" /\ ~RunFrom(c.es, AcceptAt)
       \/ c.kind = "install" /\ ~Installs(c)
    /\ UNCHANGED <<first, accepted, content>>

Answer ==
    /\ \E c \in call : Accept(c) \/ Install(c) \/ Reclaim(c) \/ Refuse(c)
    /\ call' = {}

Next == Ask \/ Answer

Spec == Init /\ [][Next]_<<first, accepted, content, call>>
=============================================================================
