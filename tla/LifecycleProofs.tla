--------------------------- MODULE LifecycleProofs ---------------------------
(***************************************************************************)
(* For every counter width, number of lives and amount of work:            *)
(* Spec => []VouchedIsDrained, a clean classification is sound, and, in    *)
(* the second half, Spec => []LatchedIdentityDies.                         *)
(*                                                                         *)
(* VouchedIsDrained speaks of the session; what has to be carried through  *)
(* crashes is what the copies on disk say.  The argument:                  *)
(*  - a Stopped copy is true: what it vouches for is drained, and stays so *)
(*    because nobody speaks under its identity (Vouching);                 *)
(*  - every marker but Joining is written over copies that all carry the   *)
(*    identity already, so such a copy is a floor under the other copies   *)
(*    (Floor), and no identity above a session's own can have one (Below); *)
(*  - a session fixes what the copies can hold while it lasts (Sessions).  *)
(***************************************************************************)
EXTENDS Lifecycle, TLAPS

\* A Stopped copy vouches for drained work only.
Vouching ==
    \A c \in Copy :
        copies[c].marker = "Stopped"
        => durable[copies[c].id] = promised[copies[c].id]

\* A copy that has been past Joining is a floor under all the others.
Past(c) == copies[c].marker \in {"Restarting", "Stopping", "Stopped"}
Floor == \A c, d \in Copy : Past(c) => copies[c].id <= copies[d].id

\* No copy past Joining carries an identity above the session's.
Below ==
    phase \notin {"Down", "First"}
    => \A c \in Copy : Past(c) => copies[c].id <= session

\* What the copies hold, and a commit writes, under each session.
Sessions ==
    /\ phase = "First" => \A c \in Copy : ~Past(c)
    /\ phase = "Clean" =>
          /\ durable[session] = promised[session]
          /\ \A c \in Copy : copies[c].id >= session
    /\ phase = "Running" =>
          \A c \in Copy : copies[c].id = session
                          /\ copies[c].marker # "Stopped"
    /\ phase \in {"Halting", "Draining"} =>
          \A c \in Copy : copies[c].id = session
    /\ phase \in {"Draining", "Halted"} =>
          durable[session] = promised[session]
    /\ phase = "Halting" => \A c \in Copy : copies[c].marker # "Stopped"

Targets ==
    /\ phase \in {"Down", "Halting", "Halted"} => target = {}
    /\ phase = "First" => target \subseteq {FirstLatchCopy}
    /\ phase = "Clean" => target \subseteq {CleanLatchCopy}
    /\ phase = "Crashed" =>
          \A t \in target :
              \E new \in NextLife(session) : t = DeferredLatchCopy(new)
    /\ phase = "Running" => target \subseteq {StoppingCopy}
    /\ phase = "Draining" => target \subseteq {StoppedCopy}

IInv == TypeOK /\ Vouching /\ Floor /\ Below /\ Sessions /\ Targets

USE CounterAssumption, LifecycleBounds

-----------------------------------------------------------------------------

\* The initial state, with blank copies and no process.
LEMMA InitIInv == Init => IInv
  <1> SUFFICES ASSUME Init PROVE IInv
    OBVIOUS
  <1>1. TypeOK
    <2>1. copies \in [Copy -> CopyState \cup {Blank}]
      BY DEF Init
    <2>2. seated \in BOOLEAN
      BY Zenon DEF Init
    <2>3. promised \in [Identity -> Nat] /\ durable \in [Identity -> Nat]
      BY DEF Init
    <2> QED
      BY <2>1, <2>2, <2>3 DEF Init, TypeOK, Phase
  <1>2. \A c \in Copy : copies[c].marker = "Blank"
    BY DEF Init, Blank
  <1>3. Vouching /\ Floor
    BY <1>2 DEF Vouching, Floor, Past
  <1>4. Below /\ Sessions /\ Targets
    BY DEF Init, Below, Sessions, Targets
  <1> QED
    BY <1>1, <1>3, <1>4 DEF IInv

\* A copy on disk has an identity and a marker, or is blank.
LEMMA CopyFields ==
  ASSUME TypeOK, NEW c \in Copy
  PROVE  /\ copies[c].id \in 0 .. MaxCounter
         /\ copies[c].marker \in Marker \cup {"Blank"}
         /\ Past(c) => copies[c].id \in Identity
  BY DEF TypeOK, CopyState, Blank, Identity, Marker, Past

\* The next life is one above, and still an identity.
LEMMA NextLifeAbove ==
  ASSUME NEW i, NEW new \in NextLife(i)
  PROVE  i \in Identity /\ new \in Identity /\ new = i + 1
  BY DEF NextLife, Identity

\* Boot: the classification turns what the copies say into a session.
LEMMA BootStep ==
  ASSUME IInv, BootFirst \/ BootClean \/ BootCrashed
  PROVE  IInv'
  <1>1. CASE BootFirst
    <2>1. TypeOK'
      <3>1. seated' \in BOOLEAN
        BY <1>1, Zenon DEF BootFirst, NewSession
      <3> QED
        BY <1>1, <3>1 DEF IInv, TypeOK, BootFirst, NewSession, Phase, workVars
    <2>2. Vouching' /\ Floor'
      BY <1>1 DEF IInv, Vouching, Floor, Past, BootFirst, workVars
    <2>3. Below' /\ Targets'
      BY <1>1 DEF Below, Targets, BootFirst, NewSession
    <2>4. Sessions'
      BY <1>1 DEF Sessions, Past, BootFirst, NewSession, Blank
    <2> QED
      BY <2>1, <2>2, <2>3, <2>4 DEF IInv
  <1>2. ASSUME NEW i \in Working, Classified(i),
               \/ NewSession("Clean", i) /\ AtLeastTwo(StoppedIn(i))
               \/ NewSession("Crashed", i),
               life' \in Nat,
               UNCHANGED <<copies, workVars, spoke, latched>>
        PROVE  IInv'
    <2>1. i \in Identity
      BY DEF Working
    <2>2. TypeOK'
      <3>1. seated' \in BOOLEAN
        BY <1>2, Zenon DEF NewSession
      <3>2. /\ phase' \in {"Clean", "Crashed"}
            /\ session' = i
            /\ target' = {}
        BY <1>2 DEF NewSession
      <3> QED
        BY <1>2, <2>1, <3>1, <3>2
           DEF IInv, TypeOK, Phase, Identity, workVars
    <2>3. Vouching' /\ Floor'
      BY <1>2 DEF IInv, Vouching, Floor, Past, workVars
    <2>4. PICK d \in Copy : copies[d].id = i
      BY <1>2 DEF Working, AtLeastTwo, Cohort
    <2>5. Below'
      BY <1>2, <2>4 DEF IInv, Floor, Below, Past, NewSession
    <2>6. Targets'
      BY <1>2 DEF Targets, NewSession
    <2>7. CASE NewSession("Crashed", i)
      BY <2>2, <2>3, <2>5, <2>6, <2>7 DEF IInv, Sessions, NewSession
    <2>8. CASE NewSession("Clean", i) /\ AtLeastTwo(StoppedIn(i))
      <3>1. PICK s \in Copy : copies[s].id = i /\ copies[s].marker = "Stopped"
        BY <2>8 DEF AtLeastTwo, StoppedIn, Cohort
      <3>2. durable[i] = promised[i]
        BY <3>1 DEF IInv, Vouching
      <3>3. \A c \in Copy : copies[c].id >= i
        BY <3>1, <2>1, CopyFields DEF IInv, Floor, Past, Identity
      <3>4. Sessions'
        BY <1>2, <2>8, <3>2, <3>3 DEF Sessions, NewSession, workVars
      <3> QED
        BY <2>2, <2>3, <2>5, <2>6, <3>4 DEF IInv
    <2> QED
      BY <1>2, <2>7, <2>8
  <1>3. CASE BootClean
    <2>1. life' \in Nat
      BY <1>3 DEF BootClean, IInv, TypeOK
    <2> QED
      BY <1>2, <1>3, <2>1 DEF BootClean
  <1>4. CASE BootCrashed
    <2>1. life' \in Nat
      BY <1>4 DEF BootCrashed, IInv, TypeOK
    <2> QED
      BY <1>2, <1>4, <2>1 DEF BootCrashed
  <1> QED
    BY <1>1, <1>3, <1>4

\* The call of a commit fixes the copy it is going to write.
LEMMA CommitStep ==
  ASSUME IInv,
         \/ FirstLatch \/ CleanLatch \/ DeferredLatch \/ BeginStop
         \/ FinishStop
  PROVE  IInv'
  <1>0. UNCHANGED <<copies, phase, session, seated, workVars, historyVars>>
    BY DEF FirstLatch, CleanLatch, DeferredLatch, BeginStop, FinishStop,
           Commit
  <1>1. target' \subseteq CopyState /\ Targets'
    <2>1. CASE FirstLatch
      BY <2>1 DEF FirstLatch, Commit, FirstLatchCopy, CopyState, Identity,
                  Marker, Targets
    <2>2. CASE CleanLatch
      BY <2>2 DEF CleanLatch, Commit, CleanLatchCopy, CopyState, Marker,
                  Targets, IInv, TypeOK
    <2>3. CASE DeferredLatch
      BY <2>3, NextLifeAbove
         DEF DeferredLatch, Commit, DeferredLatchCopy, CopyState, Marker,
             Targets
    <2>4. CASE BeginStop
      BY <2>4 DEF BeginStop, Commit, StoppingCopy, CopyState, Marker,
                  Targets, IInv, TypeOK
    <2>5. CASE FinishStop
      BY <2>5 DEF FinishStop, Commit, StoppedCopy, CopyState, Marker,
                  Targets, IInv, TypeOK
    <2> QED
      BY <2>1, <2>2, <2>3, <2>4, <2>5
  <1>2. TypeOK'
    BY <1>0, <1>1 DEF IInv, TypeOK, workVars, historyVars
  <1>3. Vouching' /\ Floor' /\ Below' /\ Sessions'
    BY <1>0 DEF IInv, Vouching, Floor, Below, Sessions, Past, workVars
  <1> QED
    BY <1>1, <1>2, <1>3 DEF IInv

\* One copy of a commit reaches the disk, whatever the others hold.
LEMMA WriteCopyStep ==
  ASSUME IInv, NEW c \in Copy, WriteCopy(c)
  PROVE  IInv'
  <1>1. PICK t \in target : copies' = [copies EXCEPT ![c] = t]
    BY DEF WriteCopy
  <1>2. UNCHANGED <<phase, session, target, seated, promised, durable, life,
                    spoke, latched>>
    BY DEF WriteCopy, processVars, workVars, historyVars
  <1>3. t \in CopyState
    BY DEF IInv, TypeOK
  <1>4. TypeOK'
    BY <1>1, <1>2, <1>3 DEF IInv, TypeOK
  <1>5. copies'[c] = t /\ \A d \in Copy : d # c => copies'[d] = copies[d]
    BY <1>1 DEF IInv, TypeOK
  <1>6. phase \in {"First", "Clean", "Crashed", "Running", "Draining"}
    BY <1>1 DEF IInv, Targets, TypeOK, Phase
  <1>7. Targets'
    BY <1>2 DEF IInv, Targets, FirstLatchCopy, CleanLatchCopy, StoppingCopy,
                StoppedCopy
  <1>8. \A d \in Copy : copies[d].id \in 0 .. MaxCounter
    BY CopyFields DEF IInv
  <1>9. CASE phase = "First"
    <2>1. t.marker = "Joining"
      BY <1>1, <1>9 DEF IInv, Targets, FirstLatchCopy
    <2>2. \A d \in Copy : ~Past(d)'
      BY <1>5, <1>9, <2>1 DEF IInv, Sessions, Past
    <2>3. Vouching' /\ Floor'
      BY <2>2 DEF Vouching, Floor, Past
    <2>4. Below' /\ Sessions'
      BY <1>2, <1>9, <2>2 DEF Below, Sessions
    <2> QED
      BY <1>4, <1>7, <2>3, <2>4 DEF IInv
  <1>10. CASE phase = "Crashed"
    <2>1. PICK new \in NextLife(session) : t = DeferredLatchCopy(new)
      BY <1>1, <1>10 DEF IInv, Targets
    <2>2. t.marker = "Joining" /\ t.id = session + 1 /\ session \in Identity
      BY <2>1, NextLifeAbove DEF DeferredLatchCopy
    <2>3. \A d \in Copy : Past(d)' => d # c /\ Past(d)
      BY <1>5, <2>2 DEF Past
    <2>4. Vouching'
      BY <1>2, <1>5, <2>3, <2>2 DEF IInv, Vouching, Past
    <2>5. \A d \in Copy : Past(d) => copies[d].id <= session
      BY <1>10 DEF IInv, Below
    <2>6. Floor'
      BY <1>5, <2>2, <2>3, <2>5, <1>8 DEF IInv, Floor, Identity
    <2>7. Below'
      BY <1>2, <1>5, <2>3, <2>5 DEF Below
    <2>8. Sessions'
      BY <1>2, <1>10 DEF Sessions
    <2> QED
      BY <1>4, <1>7, <2>4, <2>6, <2>7, <2>8 DEF IInv
  <1>11. ASSUME phase \in {"Clean", "Running", "Draining"} PROVE IInv'
    <2>1. t.id = session /\ session \in Identity
      BY <1>1, <1>11 DEF IInv, Targets, CleanLatchCopy, StoppingCopy,
                         StoppedCopy, TypeOK
    <2>2. t.marker = "Stopped" => phase = "Draining"
      BY <1>1, <1>11 DEF IInv, Targets, CleanLatchCopy, StoppingCopy
    <2>3. \A d \in Copy : copies[d].id >= session
      BY <1>11, <1>8, <2>1 DEF IInv, Sessions, Identity
    <2>4. \A d \in Copy : copies'[d].id >= session
      BY <1>5, <2>1, <2>3, <1>8 DEF Identity
    <2>5. \A d \in Copy : Past(d) => copies[d].id <= session
      BY <1>11 DEF IInv, Below
    <2>6. \A d \in Copy : Past(d)' => copies'[d].id <= session
      BY <1>5, <2>1, <2>5 DEF Past, Identity
    <2>7. \A d \in Copy : copies'[d].id \in Nat
      BY <1>5, <1>8, <2>1 DEF Identity
    <2>8. Floor'
      BY <2>4, <2>6, <2>7, <2>1 DEF Floor, Identity
    <2>9. Below'
      BY <1>2, <2>6 DEF Below
    <2>10. phase = "Draining" => durable[session] = promised[session]
      BY DEF IInv, Sessions
    <2>11. Vouching'
      BY <1>2, <1>5, <2>1, <2>2, <2>10 DEF IInv, Vouching
    <2>12. Sessions'
      BY <1>2, <1>5, <1>11, <2>1, <2>2, <2>4 DEF IInv, Sessions
    <2> QED
      BY <1>4, <1>7, <2>8, <2>9, <2>11, <2>12 DEF IInv
  <1> QED
    BY <1>6, <1>9, <1>10, <1>11

\* A completed commit: all four copies are the one it wrote.
LEMMA CommittedStep ==
  ASSUME IInv,
         \/ FirstLatched \/ CleanLatched \/ DeferredLatched
         \/ Stopping \/ Stopped
  PROVE  IInv'
  <1>1. ASSUME NEW t, Committed(t), NEW p \in {"Running", "Halting", "Halted"},
               t.id \in Identity,
               t.marker = "Stopped" => /\ p = "Halted"
                                       /\ durable[t.id] = promised[t.id],
               p = "Halted" => durable[t.id] = promised[t.id],
               phase' = p, session' = t.id, target' = {},
               UNCHANGED <<copies, seated, workVars, life, spoke>>,
               latched' \subseteq Identity \X Nat
        PROVE  IInv'
    <2>1. \A c \in Copy : copies'[c] = t
      BY <1>1 DEF Committed
    <2>2. TypeOK'
      BY <1>1 DEF IInv, TypeOK, Phase, Identity, workVars
    <2>3. Vouching' /\ Below' /\ Targets'
      BY <1>1, <2>1 DEF Vouching, Below, Targets, Identity, workVars
    <2>4. Floor'
      BY <1>1, <2>1 DEF Floor, Identity
    <2>5. Sessions'
      BY <1>1, <2>1 DEF Sessions, workVars
    <2> QED
      BY <2>2, <2>3, <2>4, <2>5 DEF IInv
  <1>2. CASE FirstLatched
    <2>1. latched' \subseteq Identity \X Nat
      BY <1>2 DEF FirstLatched, RunAs, IInv, TypeOK, Identity
    <2> QED
      BY <1>1, <1>2, <2>1 DEF FirstLatched, RunAs, FirstLatchCopy, Identity
  <1>3. CASE CleanLatched
    <2>1. session \in Identity
      BY <1>3 DEF CleanLatched, IInv, TypeOK
    <2>2. latched' \subseteq Identity \X Nat
      BY <1>3, <2>1 DEF CleanLatched, RunAs, IInv, TypeOK
    <2> QED
      BY <1>1, <1>3, <2>1, <2>2 DEF CleanLatched, RunAs, CleanLatchCopy
  <1>4. CASE DeferredLatched
    <2>1. PICK new \in NextLife(session) :
             Committed(DeferredLatchCopy(new)) /\ RunAs(new)
      BY <1>4 DEF DeferredLatched
    <2>2. new \in Identity
      BY NextLifeAbove
    <2>3. latched' \subseteq Identity \X Nat
      BY <2>1, <2>2 DEF RunAs, IInv, TypeOK
    <2> QED
      BY <1>1, <2>1, <2>2, <2>3 DEF RunAs, DeferredLatchCopy
  <1>5. CASE Stopping
    <2>1. session \in Identity /\ latched' \subseteq Identity \X Nat
      BY <1>5 DEF Stopping, IInv, TypeOK, historyVars
    <2> QED
      BY <1>1, <1>5, <2>1 DEF Stopping, StoppingCopy, historyVars
  <1>6. CASE Stopped
    <2>1. session \in Identity /\ latched' \subseteq Identity \X Nat
      BY <1>6 DEF Stopped, IInv, TypeOK, historyVars
    <2>2. durable[session] = promised[session]
      BY <1>6 DEF Stopped, IInv, Sessions
    <2> QED
      BY <1>1, <1>6, <2>1, <2>2 DEF Stopped, StoppedCopy, historyVars
  <1> QED
    BY <1>2, <1>3, <1>4, <1>5, <1>6

\* Speaking only raises what an identity without a Stopped copy promised.
LEMMA WorkStep ==
  ASSUME IInv, Work
  PROVE  IInv'
  <1>1. PICK i \in Speaking :
           /\ promised' = [promised EXCEPT ![i] = @ + 1]
           /\ spoke' = spoke \cup {<<i, life>>}
    BY DEF Work
  <1>2. UNCHANGED <<copies, phase, session, target, seated, durable, life,
                    latched>>
    BY DEF Work, processVars
  <1>3. /\ phase \in {"Running", "Crashed"}
        /\ phase = "Running" => i = session
        /\ phase = "Crashed" => i \in NextLife(session)
    BY <1>1 DEF Speaking
  <1>4. i \in Identity
    BY <1>3, NextLifeAbove DEF IInv, TypeOK
  <1>5. TypeOK'
    BY <1>1, <1>2, <1>4 DEF IInv, TypeOK
  <1>6. \A c \in Copy : copies[c].marker = "Stopped" => copies[c].id # i
    <2>1. CASE phase = "Running"
      BY <2>1 DEF IInv, Sessions
    <2>2. CASE phase = "Crashed"
      <3>1. i = session + 1 /\ session \in Identity
        BY <1>3, <2>2, NextLifeAbove
      <3>2. \A c \in Copy : Past(c) => copies[c].id <= session
        BY <2>2 DEF IInv, Below
      <3> QED
        BY <3>1, <3>2, CopyFields DEF Past, IInv, Identity
    <2> QED
      BY <1>3, <2>1, <2>2
  <1>7. Vouching'
    <2> SUFFICES ASSUME NEW c \in Copy, copies[c].marker = "Stopped"
                 PROVE  durable[copies[c].id] = promised'[copies[c].id]
      BY <1>2 DEF Vouching
    <2>1. copies[c].id \in Identity /\ copies[c].id # i
      BY <1>6, CopyFields DEF Past, IInv
    <2>2. promised'[copies[c].id] = promised[copies[c].id]
      BY <1>1, <2>1 DEF IInv, TypeOK
    <2> QED
      BY <2>2 DEF IInv, Vouching
  <1>8. Floor' /\ Below' /\ Targets'
    BY <1>2 DEF IInv, Floor, Below, Past, Targets, FirstLatchCopy,
                CleanLatchCopy, StoppingCopy, StoppedCopy
  <1>9. Sessions'
    BY <1>2, <1>3 DEF IInv, Sessions
  <1> QED
    BY <1>5, <1>7, <1>8, <1>9 DEF IInv

\* The drain makes durable what was promised, for the session's identity.
LEMMA DrainStep ==
  ASSUME IInv, Drain
  PROVE  IInv'
  <1>1. session \in Identity
    BY DEF Drain, IInv, TypeOK
  <1>2. UNCHANGED <<copies, session, target, seated, promised, life, spoke,
                    latched>>
    BY DEF Drain, historyVars
  <1>3. TypeOK'
    BY <1>1, <1>2 DEF Drain, IInv, TypeOK, Phase
  <1>4. durable'[session] = promised[session]
    BY <1>1 DEF Drain, IInv, TypeOK
  <1>5. \A c \in Copy : copies[c].id = session /\ copies[c].marker # "Stopped"
    BY DEF Drain, IInv, Sessions
  <1>6. Vouching' /\ Below'
    BY <1>1, <1>2, <1>5 DEF Vouching, Below, Identity
  <1>7. Floor'
    BY <1>2 DEF IInv, Floor, Past
  <1>8. Sessions' /\ Targets'
    BY <1>2, <1>4, <1>5 DEF Sessions, Targets, Drain, IInv
  <1> QED
    BY <1>3, <1>6, <1>7, <1>8 DEF IInv

\* Every step of the boot gate preserves the invariant.
LEMMA NextIInv == IInv /\ [Next]_vars => IInv'
  <1> SUFFICES ASSUME IInv, [Next]_vars PROVE IInv'
    OBVIOUS
  <1>1. CASE BootFirst \/ BootClean \/ BootCrashed
    BY <1>1, BootStep
  <1>2. CASE \/ FirstLatch \/ CleanLatch \/ DeferredLatch \/ BeginStop
             \/ FinishStop
    BY <1>2, CommitStep
  <1>3. CASE \/ FirstLatched \/ CleanLatched \/ DeferredLatched
             \/ Stopping \/ Stopped
    BY <1>3, CommittedStep
  <1>4. CASE \E c \in Copy : WriteCopy(c)
    BY <1>4, WriteCopyStep
  <1>5. CASE Work
    BY <1>5, WorkStep
  <1>6. CASE Drain
    BY <1>6, DrainStep
  <1>7. CASE CommitFails
    <2>1. UNCHANGED <<copies, phase, session, seated, workVars, historyVars>>
          /\ target' = {}
      BY <1>7 DEF CommitFails
    <2>2. TypeOK' /\ Targets'
      BY <2>1 DEF IInv, TypeOK, Targets, workVars, historyVars
    <2>3. Vouching' /\ Floor' /\ Below' /\ Sessions'
      BY <2>1 DEF IInv, Vouching, Floor, Below, Sessions, Past, workVars
    <2> QED
      BY <2>2, <2>3 DEF IInv
  <1>8. CASE Seat
    <2>1. UNCHANGED <<copies, phase, session, target, workVars, historyVars>>
          /\ seated' \in BOOLEAN
      BY <1>8 DEF Seat
    <2>2. TypeOK'
      BY <2>1 DEF IInv, TypeOK, workVars, historyVars
    <2>3. Targets'
      BY <2>1 DEF IInv, Targets, FirstLatchCopy, CleanLatchCopy,
                  StoppingCopy, StoppedCopy
    <2>4. Vouching' /\ Floor' /\ Below' /\ Sessions'
      BY <2>1 DEF IInv, Vouching, Floor, Below, Sessions, Past, workVars
    <2> QED
      BY <2>2, <2>3, <2>4 DEF IInv
  <1>9. CASE Crash
    <2>1. UNCHANGED <<copies, workVars, historyVars>>
          /\ NewSession("Down", 0)
      BY <1>9 DEF Crash
    <2>2. Targets' /\ Below' /\ Sessions'
      BY <2>1 DEF Targets, Below, Sessions, NewSession
    <2>3. Vouching' /\ Floor'
      BY <2>1 DEF IInv, Vouching, Floor, Past, workVars
    <2>4. seated' \in BOOLEAN
      BY <2>1, Zenon DEF NewSession
    <2>5. TypeOK'
      BY <2>1, <2>4 DEF IInv, TypeOK, NewSession, Phase, workVars, historyVars
    <2> QED
      BY <2>2, <2>3, <2>5 DEF IInv
  <1>10. CASE UNCHANGED vars
    <2>1. UNCHANGED <<copies, processVars, workVars, historyVars>>
      BY <1>10 DEF vars
    <2>2. TypeOK'
      BY <2>1 DEF IInv, TypeOK, processVars, workVars, historyVars
    <2>3. Targets'
      BY <2>1 DEF IInv, Targets, FirstLatchCopy, CleanLatchCopy,
                  StoppingCopy, StoppedCopy, processVars
    <2>4. Vouching' /\ Floor' /\ Below' /\ Sessions'
      BY <2>1 DEF IInv, Vouching, Floor, Below, Sessions, Past, processVars,
                  workVars
    <2> QED
      BY <2>2, <2>3, <2>4 DEF IInv
  <1> QED
    BY <1>1, <1>2, <1>3, <1>4, <1>5, <1>6, <1>7, <1>8, <1>9, <1>10 DEF Next

-----------------------------------------------------------------------------

\* Every state of the boot gate is typed: the driver's sessions, the copies
\* on disk and the identities stay within the packing.
THEOREM LifecycleTypes == Spec => []TypeOK
  <1>1. IInv => TypeOK
    BY DEF IInv
  <1> QED
    BY InitIInv, NextIInv, <1>1, PTL DEF Spec

\* Whatever crashes and failed commits tore the marker sets, a start that
\* classify calls clean finds everything its identity promised on stable
\* storage: the Vouched token is never minted over lost work.
THEOREM VouchedResumeIsSound == Spec => []VouchedIsDrained
  <1>1. IInv => VouchedIsDrained
    BY DEF IInv, Sessions, VouchedIsDrained
  <1> QED
    BY InitIInv, NextIInv, <1>1, PTL DEF Spec

-----------------------------------------------------------------------------
(***************************************************************************)
(* An identity that latched dies with its life.  The argument:             *)
(*  - a latch leaves its identity on all four copies, and every later      *)
(*    commit writes the same or a higher one, so a latched identity is a   *)
(*    floor under the copies and under every later session (Grounded);     *)
(*  - a crashed start speaks under the session's successor, which is above *)
(*    that floor, hence never latched;                                     *)
(*  - a clean start speaks under the session's own, and continues the life *)
(*    that latched it: two Stopped copies are only found while nothing was *)
(*    written over the halt of that life (Whole), and lives are counted    *)
(*    on by crashed starts alone (Current).                                *)
(***************************************************************************)

\* Two copies that a classification reads as a clean stop.
StoppedPair(c, d) ==
    c # d /\ copies[c].marker = "Stopped" /\ copies[d].marker = "Stopped"

\* What was said and latched was so in a life already begun.
Dated == \A p \in latched \cup spoke : p[2] <= life

\* Nothing on disk, and no session, falls below a latched identity.
Grounded ==
    /\ \A p \in latched : \A c \in Copy : p[1] <= copies[c].id
    /\ phase = "First" => latched = {}
    /\ phase \notin {"Down", "First"} => \A p \in latched : p[1] <= session

\* A stopped pair is found with its identity on every copy, and not after a
\* start that was classified crashed.
Whole ==
    /\ \A c, d \in Copy :
          StoppedPair(c, d) => \A e \in Copy : copies[e].id = copies[c].id
    /\ phase = "Clean" => \A c \in Copy : copies[c].id = session
    /\ phase = "Crashed" => \A c, d \in Copy : ~StoppedPair(c, d)

\* The identity of a stopped pair, and of a session that was not classified
\* crashed, latched in the current life if it latched at all.
Current ==
    /\ \A c, d \in Copy : \A p \in latched :
          StoppedPair(c, d) /\ p[1] = copies[c].id => p[2] = life
    /\ phase \in {"Clean", "Running", "Halting", "Draining", "Halted"} =>
          \A p \in latched : p[1] = session => p[2] = life

LInv == IInv /\ Dated /\ Grounded /\ Whole /\ Current /\ LatchedIdentityDies

\* Pairs are of an identity and a life.
LEMMA PairFields ==
  ASSUME TypeOK
  PROVE  /\ \A p \in latched : p[1] \in Identity /\ p[2] \in Nat
         /\ \A q \in spoke : q[1] \in Identity /\ q[2] \in Nat
         /\ life \in Nat
  BY DEF TypeOK

\* The initial state: nobody spoke.
LEMMA InitLInv == Init => LInv
  <1> SUFFICES ASSUME Init PROVE LInv
    OBVIOUS
  <1>1. IInv
    BY InitIInv
  <1>2. \A c \in Copy : copies[c].marker # "Stopped"
    BY DEF Init, Blank
  <1>3. Dated /\ Grounded /\ LatchedIdentityDies
    BY DEF Init, Dated, Grounded, LatchedIdentityDies
  <1>4. Whole /\ Current
    BY <1>2 DEF Init, Whole, Current, StoppedPair
  <1> QED
    BY <1>1, <1>3, <1>4 DEF LInv

\* A first start finds blank copies, so nothing latched; a clean start goes
\* on with the life of the stopped pair it found, and a crashed one found none.
LEMMA BootLatched ==
  ASSUME LInv, BootFirst \/ BootClean \/ BootCrashed
  PROVE  LInv'
  <1>1. IInv'
    BY BootStep DEF LInv
  <1>2. TypeOK /\ Floor
    BY DEF LInv, IInv
  <1>3. life \in Nat /\ UNCHANGED <<copies, workVars, spoke, latched>>
    BY <1>2, PairFields DEF BootFirst, BootClean, BootCrashed
  <1>4. LatchedIdentityDies'
    BY <1>3 DEF LInv, LatchedIdentityDies
  <1>5. \A c, d \in Copy : StoppedPair(c, d)' <=> StoppedPair(c, d)
    BY <1>3 DEF StoppedPair
  <1>6. Dated'
    BY <1>2, <1>3, PairFields
       DEF LInv, Dated, BootFirst, BootClean, BootCrashed
  <1>7. CASE BootFirst
    <2>1. \A c \in Copy : copies[c] = Blank
      BY <1>7 DEF BootFirst
    <2>2. latched = {}
      <3> SUFFICES ASSUME NEW p \in latched PROVE FALSE
        OBVIOUS
      <3>1. p[1] <= copies[1].id
        BY DEF LInv, Grounded, Copy
      <3> QED
        BY <2>1, <3>1, <1>2, PairFields DEF Blank, Identity, Copy
    <2>3. phase' = "First"
      BY <1>7 DEF BootFirst, NewSession
    <2>4. \A c, d \in Copy : ~StoppedPair(c, d)
      BY <2>1 DEF StoppedPair, Blank
    <2>5. Grounded' /\ Whole' /\ Current'
      BY <1>3, <1>5, <2>2, <2>3, <2>4 DEF Grounded, Whole, Current
    <2> QED
      BY <1>1, <1>4, <1>6, <2>5 DEF LInv
  <1>8. ASSUME NEW i \in Working, session' = i,
               phase' \in {"Clean", "Crashed"}
        PROVE  Grounded'
    <2>1. PICK c \in Copy : copies[c].id = i
      BY DEF Working, AtLeastTwo, Cohort
    <2> QED
      BY <1>3, <1>8, <2>1 DEF LInv, Grounded
  <1>9. CASE BootClean
    <2>1. PICK i \in Working : AtLeastTwo(StoppedIn(i)) /\ NewSession("Clean", i)
      BY <1>9 DEF BootClean
    <2>2. PICK c, d \in Copy : StoppedPair(c, d) /\ copies[c].id = i
      BY <2>1 DEF AtLeastTwo, StoppedIn, Cohort, StoppedPair
    <2>3. session' = i /\ phase' = "Clean" /\ life' = life
      BY <1>9, <2>1 DEF BootClean, NewSession
    <2>4. Grounded'
      BY <1>8, <2>3
    <2>5. Whole'
      BY <1>3, <1>5, <2>2, <2>3 DEF LInv, Whole
    <2>6. Current'
      BY <1>3, <1>5, <2>2, <2>3 DEF LInv, Current
    <2> QED
      BY <1>1, <1>4, <1>6, <2>4, <2>5, <2>6 DEF LInv
  <1>10. CASE BootCrashed
    <2>1. PICK i \in Working : ~AtLeastTwo(StoppedIn(i)) /\ NewSession("Crashed", i)
      BY <1>10 DEF BootCrashed
    <2>2. session' = i /\ phase' = "Crashed"
      BY <2>1 DEF NewSession
    <2>3. Grounded'
      BY <1>8, <2>2
    <2>4. \A c, d \in Copy : ~StoppedPair(c, d)
      <3> SUFFICES ASSUME NEW c \in Copy, NEW d \in Copy, StoppedPair(c, d)
                   PROVE  FALSE
        OBVIOUS
      <3>1. \A e \in Copy : copies[e].id = copies[c].id
        BY DEF LInv, Whole
      <3>2. PICK e \in Copy : copies[e].id = i
        BY DEF Working, AtLeastTwo, Cohort
      <3>3. c \in StoppedIn(i) /\ d \in StoppedIn(i) /\ c # d
        BY <3>1, <3>2 DEF StoppedIn, Cohort, StoppedPair
      <3> QED
        BY <2>1, <3>3 DEF AtLeastTwo
    <2>5. Whole' /\ Current'
      BY <1>5, <2>2, <2>4 DEF Whole, Current
    <2> QED
      BY <1>1, <1>4, <1>6, <2>3, <2>5 DEF LInv
  <1> QED
    BY <1>7, <1>9, <1>10

\* One copy of a commit: a session writes its own identity or, after a crash,
\* the next, and a stopped pair only when its halt is the current life's.
LEMMA WriteCopyLatched ==
  ASSUME LInv, NEW c \in Copy, WriteCopy(c)
  PROVE  LInv'
  <1>1. IInv'
    BY WriteCopyStep DEF LInv
  <1>2. IInv /\ TypeOK
    BY DEF LInv, IInv
  <1>3. PICK t \in target : copies' = [copies EXCEPT ![c] = t]
    BY DEF WriteCopy
  <1>4. UNCHANGED <<phase, session, target, life, spoke, latched>>
    BY DEF WriteCopy, processVars, historyVars
  <1>5. copies'[c] = t /\ \A d \in Copy : d # c => copies'[d] = copies[d]
    BY <1>2, <1>3 DEF TypeOK
  <1>6. phase \in {"First", "Clean", "Crashed", "Running", "Draining"}
    BY <1>2, <1>3 DEF IInv, Targets, TypeOK, Phase
  <1>7. Dated' /\ LatchedIdentityDies'
    BY <1>4 DEF LInv, Dated, LatchedIdentityDies
  <1>8. ASSUME NEW a \in Copy, NEW b \in Copy, t.marker # "Stopped",
               StoppedPair(a, b)'
        PROVE  a # c /\ b # c /\ StoppedPair(a, b)
    BY <1>5, <1>8 DEF StoppedPair
  <1>9. CASE phase = "First"
    <2>1. latched = {}
      BY <1>9 DEF LInv, Grounded
    <2>2. \A d \in Copy : copies'[d].marker # "Stopped"
      <3>1. t.marker = "Joining"
        BY <1>2, <1>3, <1>9 DEF IInv, Targets, FirstLatchCopy
      <3> QED
        BY <1>2, <1>5, <1>9, <3>1 DEF IInv, Sessions, Past
    <2>3. Grounded' /\ Whole' /\ Current'
      BY <1>4, <1>9, <2>1, <2>2 DEF Grounded, Whole, Current, StoppedPair
    <2> QED
      BY <1>1, <1>7, <2>3 DEF LInv
  <1>10. CASE phase = "Crashed"
    <2>1. PICK new \in NextLife(session) : t = DeferredLatchCopy(new)
      BY <1>2, <1>3, <1>10 DEF IInv, Targets
    <2>2. t.marker = "Joining" /\ t.id = session + 1 /\ session \in Identity
      BY <2>1, NextLifeAbove DEF DeferredLatchCopy
    <2>3. \A a, b \in Copy : ~StoppedPair(a, b)'
      BY <1>8, <1>10, <2>2 DEF LInv, Whole
    <2>4. Grounded'
      BY <1>2, <1>4, <1>5, <1>10, <2>2, PairFields
         DEF LInv, Grounded, Identity
    <2>5. Whole' /\ Current'
      BY <1>4, <1>10, <2>3 DEF Whole, Current
    <2> QED
      BY <1>1, <1>7, <2>4, <2>5 DEF LInv
  <1>11. ASSUME phase \in {"Clean", "Running", "Draining"} PROVE LInv'
    <2>1. t.id = session /\ (t.marker = "Stopped" => phase = "Draining")
      BY <1>2, <1>3, <1>11 DEF IInv, Targets, CleanLatchCopy, StoppingCopy,
                               StoppedCopy
    <2>2. \A d \in Copy : copies[d].id = session
      BY <1>2, <1>11 DEF LInv, Whole, IInv, Sessions
    <2>3. \A d \in Copy : copies'[d].id = session
      BY <1>5, <2>1, <2>2
    <2>4. Grounded'
      BY <1>4, <1>11, <2>3 DEF LInv, Grounded
    <2>5. Whole'
      BY <1>4, <1>11, <2>3 DEF Whole
    <2>6. \A p \in latched : p[1] = session => p[2] = life
      BY <1>11 DEF LInv, Current
    <2>7. Current'
      BY <1>4, <2>3, <2>6 DEF Current
    <2> QED
      BY <1>1, <1>7, <2>4, <2>5, <2>7 DEF LInv
  <1> QED
    BY <1>6, <1>9, <1>10, <1>11

\* A completed latch puts its identity under all copies, in the current life.
LEMMA LatchedStep ==
  ASSUME LInv, FirstLatched \/ CleanLatched \/ DeferredLatched
  PROVE  LInv'
  <1>1. IInv'
    BY CommittedStep DEF LInv
  <1>2. IInv /\ TypeOK
    BY DEF LInv, IInv
  <1>3. ASSUME NEW i \in Identity, NEW m \in {"Joining", "Restarting"},
               Committed([id |-> i, marker |-> m]), RunAs(i),
               \A p \in latched : p[1] <= i,
               \A p \in latched : p[1] = i => p[2] = life
        PROVE  LInv'
    <2>1. \A c \in Copy : copies[c] = [id |-> i, marker |-> m]
      BY <1>3 DEF Committed
    <2>2. /\ phase' = "Running" /\ session' = i
          /\ latched' = latched \cup {<<i, life>>}
          /\ UNCHANGED <<copies, life, spoke>>
      BY <1>3 DEF RunAs
    <2>3. \A c \in Copy : copies'[c].id = i /\ copies'[c].marker # "Stopped"
      BY <2>1, <2>2
    <2>4. life \in Nat
      BY <1>2, PairFields
    <2>5. Dated'
      BY <2>2, <2>4 DEF LInv, Dated
    <2>6. Grounded'
      BY <1>3, <2>2, <2>3 DEF Grounded, Identity
    <2>7. Whole' /\ Current'
      BY <1>3, <2>2, <2>3 DEF Whole, Current, StoppedPair
    <2>8. LatchedIdentityDies'
      BY <2>2 DEF LInv, LatchedIdentityDies, Dated
    <2> QED
      BY <1>1, <2>5, <2>6, <2>7, <2>8 DEF LInv
  <1>4. CASE FirstLatched
    <2>1. latched = {}
      BY <1>4 DEF FirstLatched, LInv, Grounded
    <2>2. Genesis \in Identity
      BY DEF Identity
    <2> QED
      BY <1>3, <1>4, <2>1, <2>2 DEF FirstLatched, FirstLatchCopy
  <1>5. CASE CleanLatched
    <2>1. session \in Identity
      BY <1>2, <1>5 DEF CleanLatched, TypeOK
    <2>2. \A p \in latched : p[1] <= session /\ (p[1] = session => p[2] = life)
      BY <1>5 DEF CleanLatched, LInv, Grounded, Current
    <2> QED
      BY <1>3, <1>5, <2>1, <2>2 DEF CleanLatched, CleanLatchCopy
  <1>6. CASE DeferredLatched
    <2>1. PICK new \in NextLife(session) :
             Committed(DeferredLatchCopy(new)) /\ RunAs(new)
      BY <1>6 DEF DeferredLatched
    <2>2. session \in Identity /\ new \in Identity /\ new = session + 1
      BY NextLifeAbove
    <2>3. \A p \in latched : p[1] <= session /\ p[1] \in Identity
      BY <1>2, <1>6, PairFields DEF DeferredLatched, LInv, Grounded
    <2>4. \A p \in latched : p[1] <= new /\ p[1] # new
      BY <2>2, <2>3 DEF Identity
    <2> QED
      BY <1>3, <2>1, <2>2, <2>4 DEF DeferredLatchCopy
  <1> QED
    BY <1>4, <1>5, <1>6

\* Speaking: under a session's own identity the latch is of this life, and
\* the successor of a crashed one never latched.
LEMMA WorkLatched ==
  ASSUME LInv, Work
  PROVE  LInv'
  <1>1. IInv'
    BY WorkStep DEF LInv
  <1>2. IInv /\ TypeOK
    BY DEF LInv, IInv
  <1>3. PICK i \in Speaking : spoke' = spoke \cup {<<i, life>>}
    BY DEF Work
  <1>4. UNCHANGED <<copies, phase, session, life, latched>>
    BY DEF Work, processVars
  <1>5. \A p \in latched : p[1] = i => p[2] = life
    <2>1. CASE phase = "Running"
      BY <1>3, <2>1 DEF Speaking, LInv, Current
    <2>2. CASE phase = "Crashed"
      <3>1. i \in NextLife(session)
        BY <1>3, <2>2 DEF Speaking
      <3>2. \A p \in latched : p[1] <= session /\ p[1] \in Identity
        BY <1>2, <2>2, PairFields DEF LInv, Grounded
      <3> QED
        BY <3>1, <3>2, NextLifeAbove DEF Identity
    <2> QED
      BY <1>3, <2>1, <2>2 DEF Speaking
  <1>6. life \in Nat
    BY <1>2, PairFields
  <1>7. Dated' /\ LatchedIdentityDies'
    BY <1>3, <1>4, <1>5, <1>6 DEF LInv, Dated, LatchedIdentityDies
  <1>8. Grounded' /\ Whole' /\ Current'
    BY <1>4 DEF LInv, Grounded, Whole, Current, StoppedPair
  <1> QED
    BY <1>1, <1>7, <1>8 DEF LInv

\* The halt: the session keeps its identity, on every copy.
LEMMA HaltLatched ==
  ASSUME LInv, Stopping \/ Drain \/ Stopped
  PROVE  LInv'
  <1>1. IInv'
    BY CommittedStep, DrainStep DEF LInv
  <1>2. UNCHANGED <<copies, session, life, spoke, latched>>
    BY DEF Stopping, Drain, Stopped, historyVars
  <1>3. /\ phase \in {"Running", "Halting", "Draining"}
        /\ phase' \in {"Halting", "Draining", "Halted"}
    BY DEF Stopping, Drain, Stopped
  <1>4. Dated' /\ LatchedIdentityDies'
    BY <1>2 DEF LInv, Dated, LatchedIdentityDies
  <1>5. Grounded' /\ Whole' /\ Current'
    BY <1>2, <1>3 DEF LInv, Grounded, Whole, Current, StoppedPair
  <1> QED
    BY <1>1, <1>4, <1>5 DEF LInv

\* Every step preserves what is known of latched identities.
LEMMA NextLInv == LInv /\ [Next]_vars => LInv'
  <1> SUFFICES ASSUME LInv, [Next]_vars PROVE LInv'
    OBVIOUS
  <1>1. IInv'
    BY NextIInv DEF LInv
  <1>2. ASSUME UNCHANGED <<copies, life, spoke, latched>>,
               \/ UNCHANGED <<phase, session>>
               \/ phase' = "Down"
        PROVE  LInv'
    <2>1. Dated' /\ LatchedIdentityDies'
      BY <1>2 DEF LInv, Dated, LatchedIdentityDies
    <2>2. Grounded' /\ Whole' /\ Current'
      BY <1>2 DEF LInv, Grounded, Whole, Current, StoppedPair
    <2> QED
      BY <1>1, <2>1, <2>2 DEF LInv
  <1>3. CASE BootFirst \/ BootClean \/ BootCrashed
    BY <1>3, BootLatched
  <1>4. CASE FirstLatched \/ CleanLatched \/ DeferredLatched
    BY <1>4, LatchedStep
  <1>5. CASE \E c \in Copy : WriteCopy(c)
    BY <1>5, WriteCopyLatched
  <1>6. CASE Work
    BY <1>6, WorkLatched
  <1>7. CASE Stopping \/ Drain \/ Stopped
    BY <1>7, HaltLatched
  <1>8. CASE \/ FirstLatch \/ CleanLatch \/ DeferredLatch \/ BeginStop
             \/ FinishStop
    <2>1. UNCHANGED <<copies, phase, session, life, spoke, latched>>
      BY <1>8 DEF FirstLatch, CleanLatch, DeferredLatch, BeginStop,
                  FinishStop, Commit, historyVars
    <2> QED
      BY <1>2, <2>1
  <1>9. CASE CommitFails \/ Seat \/ Crash
    <2>1. UNCHANGED <<copies, life, spoke, latched>>
          /\ (UNCHANGED <<phase, session>> \/ phase' = "Down")
      BY <1>9 DEF CommitFails, Seat, Crash, NewSession, historyVars
    <2> QED
      BY <1>2, <2>1
  <1>10. CASE UNCHANGED vars
    BY <1>2, <1>10 DEF vars, processVars, historyVars
  <1> QED
    BY <1>3, <1>4, <1>5, <1>6, <1>7, <1>8, <1>9, <1>10 DEF Next

\* No life that was classified crashed speaks under an identity whose latch
\* completed in an earlier one: peers that met it alive never hear it again
\* from a process that lost its volatile state.
THEOREM LatchedIdentityNeverReturns == Spec => []LatchedIdentityDies
  <1>1. LInv => LatchedIdentityDies
    BY DEF LInv
  <1> QED
    BY InitLInv, NextLInv, <1>1, PTL DEF Spec
=============================================================================
