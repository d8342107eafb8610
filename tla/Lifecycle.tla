------------------------------ MODULE Lifecycle ------------------------------
(***************************************************************************)
(* The boot gate of src/lifecycle.rs: four superblock copies of an         *)
(* identity and a marker, the quorum read that classifies a start, and the *)
(* typestate driver whose sessions fix the order of the marker writes.     *)
(*                                                                         *)
(* A step of the model is one store operation or one copy of a commit: the *)
(* process may crash between any two of them, and a commit may fail part   *)
(* of the way and hand its session back.                                   *)
(*                                                                         *)
(* Abstractions.                                                           *)
(*  - One system: a NodeId is its crash counter, and 0 the blank pattern.  *)
(*  - What a process does between the markers is counted: promised is what *)
(*    peers have seen an identity do, durable what its WALs and grids hold *)
(*    of that on stable storage.                                           *)
(*  - A life is one process, or a chain of processes that each continued a *)
(*    clean stop of the one before.                                        *)
(***************************************************************************)
EXTENDS Integers, FiniteSets, FiniteSetsExt

CONSTANTS
    MaxCounter,     \* the last crash counter the packing holds (u16)
    Genesis,        \* the identity the host names in its first life
    MaxLife,        \* bound: lives started
    MaxWork         \* bound: what one identity does

ASSUME CounterAssumption ==
    /\ MaxCounter \in Nat
    /\ Genesis \in 1 .. MaxCounter
ASSUME LifecycleBounds == MaxLife \in Nat /\ MaxWork \in Nat

VARIABLES
    copies,         \* the four superblock copies on disk
    phase,          \* which session the process holds
    session,        \* the identity inside the session, 0 when it has none
    target,         \* the copy a commit in progress is writing, none or one
    seated,         \* Replica::rejoined would mint its witness
    promised,       \* by identity: work its peers have seen
    durable,        \* by identity: work on stable storage
    life,           \* the number of the current life
    spoke,          \* pairs <<identity, life>> that emitted a message
    latched         \* pairs <<identity, life>> whose latch completed

processVars == <<phase, session, target, seated>>
workVars    == <<promised, durable>>
historyVars == <<life, spoke, latched>>
vars == <<copies, processVars, workVars, historyVars>>

Copy == 1 .. 4
Identity == 1 .. MaxCounter
Marker == {"Joining", "Restarting", "Stopping", "Stopped"}
\* A copy never written is the blank pattern.
Blank == [id |-> 0, marker |-> "Blank"]
CopyState == [id : Identity, marker : Marker]

Phase == {"Down", "First", "Clean", "Crashed", "Running", "Halting",
          "Draining", "Halted"}

AtLeastTwo(S) == \E a, b \in S : a # b

\* NodeId::next_life: none for a blank identity and for the last counter.
NextLifeSame(i) == IF i \in 1 .. MaxCounter - 1 THEN {i} ELSE {}
NextLife(i) == IF i \in 1 .. MaxCounter - 1 THEN {i + 1} ELSE {}

-----------------------------------------------------------------------------
(***************************************************************************)
(* The quorum read.                                                        *)
(***************************************************************************)

Cohort(i) == {c \in Copy : copies[c].id = i}
StoppedIn(i) == {c \in Cohort(i) : copies[c].marker = "Stopped"}

\* classify: a cohort of two or more copies works, the blank one never does,
\* and the highest working identity wins.
WorkingOrBlank == {i \in 0 .. MaxCounter : AtLeastTwo(Cohort(i))}
Working == {i \in Identity : AtLeastTwo(Cohort(i))}
Classified(i) == i \in Working /\ \A j \in Working : j <= i
\* Without a working identity boot refuses (QuorumLost): no action below is
\* enabled and the process stays down.

-----------------------------------------------------------------------------
(***************************************************************************)
(* boot.                                                                   *)
(***************************************************************************)

NewSession(p, i) ==
    /\ phase' = p
    /\ session' = i
    /\ target' = {}
    /\ seated' = FALSE

\* No marker was ever written.
BootFirst ==
    /\ phase = "Down"
    /\ \A c \in Copy : copies[c] = Blank
    /\ life < MaxLife
    /\ NewSession("First", 0)
    /\ life' = life + 1
    /\ UNCHANGED <<copies, workVars, spoke, latched>>

\* A stopped quorum: the life goes on.
BootClean ==
    /\ phase = "Down"
    /\ \E i \in Working :
          /\ Classified(i)
          /\ AtLeastTwo(StoppedIn(i))
          /\ NewSession("Clean", i)
    /\ UNCHANGED <<copies, workVars, life, spoke, latched>>

\* No stopped quorum: the identity is dead.
BootCrashed ==
    /\ phase = "Down"
    /\ life < MaxLife
    /\ \E i \in Working :
          /\ Classified(i)
          /\ ~AtLeastTwo(StoppedIn(i))
          /\ NewSession("Crashed", i)
    /\ life' = life + 1
    /\ UNCHANGED <<copies, workVars, spoke, latched>>

-----------------------------------------------------------------------------
(***************************************************************************)
(* The store: commit writes the four copies one by one.                    *)
(***************************************************************************)

\* The call of commit: the copy state the session's method decided.
Commit(t) ==
    /\ target = {}
    /\ target' = {t}
    /\ UNCHANGED <<copies, phase, session, seated, workVars, historyVars>>

WriteCopy(c) ==
    /\ \E t \in target :
          /\ copies[c] # t
          /\ copies' = [copies EXCEPT ![c] = t]
    /\ UNCHANGED <<processVars, workVars, historyVars>>

Committed(t) == target = {t} /\ \A c \in Copy : copies[c] = t

\* The store refused: the session is handed back as it was.
CommitFails ==
    /\ target # {}
    /\ target' = {}
    /\ UNCHANGED <<copies, phase, session, seated, workVars, historyVars>>

\* What each session's commit writes.
FirstLatchCopy == [id |-> Genesis, marker |-> "Joining"]
CleanLatchCopy == [id |-> session, marker |-> "Restarting"]
DeferredLatchCopy(new) == [id |-> new, marker |-> "Joining"]
StoppingCopy == [id |-> session, marker |-> "Stopping"]
StoppedCopy == [id |-> session, marker |-> "Stopped"]

-----------------------------------------------------------------------------
(***************************************************************************)
(* The sessions.                                                           *)
(***************************************************************************)

\* A latch completed: the process runs under identity i.
RunAs(i) ==
    /\ phase' = "Running"
    /\ session' = i
    /\ target' = {}
    /\ latched' = latched \cup {<<i, life>>}
    /\ UNCHANGED <<copies, seated, workVars, life, spoke>>

FirstLatch == phase = "First" /\ Commit(FirstLatchCopy)
FirstLatched ==
    /\ phase = "First"
    /\ Committed(FirstLatchCopy)
    /\ RunAs(Genesis)

\* Clean::latch, which mints Vouched for the same-identity resume.
CleanLatch == phase = "Clean" /\ Commit(CleanLatchCopy)
CleanLatchedEarly == phase = "Clean" /\ target # {} /\ RunAs(session)
CleanLatched ==
    /\ phase = "Clean"
    /\ Committed(CleanLatchCopy)
    /\ RunAs(session)

\* Replica::rejoined: the engine is seated under the bumped identity.
Seat ==
    /\ phase = "Crashed"
    /\ target = {}
    /\ ~seated
    /\ \E new \in NextLife(session) : <<new, life>> \in spoke
    /\ seated' = TRUE
    /\ UNCHANGED <<copies, phase, session, target, workVars, historyVars>>

\* Crashed::latch, reachable with the witness alone.
DeferredLatch ==
    /\ phase = "Crashed"
    /\ seated
    /\ \E new \in NextLife(session) : Commit(DeferredLatchCopy(new))
DeferredLatched ==
    /\ phase = "Crashed"
    /\ \E new \in NextLife(session) :
          Committed(DeferredLatchCopy(new)) /\ RunAs(new)

\* The identity a process speaks under: its session's, or, while the latch
\* is deferred, the bumped one of the pair.
Speaking ==
    CASE phase = "Running" -> {session}
      [] phase = "Crashed" -> NextLife(session)
      [] OTHER -> {}

\* The engine handles an input and emits what follows from it.  The driver
\* is synchronous: no input is handled while a commit is in progress.
Work ==
    /\ target = {}
    /\ \E i \in Speaking :
          /\ promised[i] < MaxWork
          /\ promised' = [promised EXCEPT ![i] = @ + 1]
          /\ spoke' = spoke \cup {<<i, life>>}
    /\ UNCHANGED <<copies, processVars, durable, life, latched>>

BeginStop == phase = "Running" /\ Commit(StoppingCopy)
Stopping ==
    /\ phase = "Running"
    /\ Committed(StoppingCopy)
    /\ phase' = "Halting"
    /\ target' = {}
    /\ UNCHANGED <<copies, session, seated, workVars, historyVars>>

\* Halting::drain; a drain that fails hands the session back unchanged.
Drain ==
    /\ phase = "Halting"
    /\ durable' = [durable EXCEPT ![session] = promised[session]]
    /\ phase' = "Draining"
    /\ UNCHANGED <<copies, session, target, seated, promised, historyVars>>

FinishStop == phase = "Draining" /\ Commit(StoppedCopy)
Stopped ==
    /\ phase = "Draining"
    /\ Committed(StoppedCopy)
    /\ phase' = "Halted"
    /\ target' = {}
    /\ UNCHANGED <<copies, session, seated, workVars, historyVars>>

\* The process ends: a crash at any point, or the exit after the halt.
Crash ==
    /\ phase # "Down"
    /\ NewSession("Down", 0)
    /\ UNCHANGED <<copies, workVars, historyVars>>

-----------------------------------------------------------------------------

Init ==
    /\ copies = [c \in Copy |-> Blank]
    /\ phase = "Down" /\ session = 0 /\ target = {} /\ seated = FALSE
    /\ promised = [i \in Identity |-> 0]
    /\ durable = [i \in Identity |-> 0]
    /\ life = 0 /\ spoke = {} /\ latched = {}

Next ==
    \/ BootFirst \/ BootClean \/ BootCrashed
    \/ FirstLatch \/ FirstLatched
    \/ CleanLatch \/ CleanLatched
    \/ Seat \/ DeferredLatch \/ DeferredLatched
    \/ \E c \in Copy : WriteCopy(c)
    \/ CommitFails
    \/ Work
    \/ BeginStop \/ Stopping \/ Drain \/ FinishStop \/ Stopped
    \/ Crash

Spec == Init /\ [][Next]_vars

-----------------------------------------------------------------------------
(***************************************************************************)
(* Properties.                                                             *)
(***************************************************************************)

\* Every field keeps the type of lifecycle.rs: in particular the bump of a
\* crashed start (NodeId::next_life) never leaves the counter's range.
TypeOK ==
    /\ copies \in [Copy -> CopyState \cup {Blank}]
    /\ phase \in Phase
    /\ session \in 0 .. MaxCounter
    /\ phase \notin {"Down", "First"} => session \in Identity
    /\ target \in SUBSET CopyState
    /\ seated \in BOOLEAN
    /\ promised \in [Identity -> Nat]
    /\ durable \in [Identity -> Nat]
    /\ life \in Nat
    /\ spoke \subseteq Identity \X Nat
    /\ latched \subseteq Identity \X Nat

\* A start classified clean (Clean::latch, which mints Vouched) finds on
\* stable storage everything its peers saw the identity do, whatever crashes
\* and failed commits tore the marker sets of earlier processes.
VouchedIsDrained == phase = "Clean" => durable[session] = promised[session]

\* An identity whose latch completed dies with its life: no later life that
\* was classified crashed speaks under it.
LatchedIdentityDies ==
    \A p \in latched, q \in spoke : p[1] = q[1] => q[2] <= p[2]
=============================================================================
