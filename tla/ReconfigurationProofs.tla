------------------------ MODULE ReconfigurationProofs ------------------------
(***************************************************************************)
(* Replicas that learn the commits in different pieces come to the same    *)
(* eras, for every configuration, history and change; and, when no change is *)
(* fused, whoever a quorum elects has what is committed.                   *)
(*                                                                         *)
(* Type correctness (TInv) has what the messages say of the log and that   *)
(* the commits of a replica are the leader's. A step is one of three: the  *)
(* leader orders (Orders, Lawful), it commits and tells (Leads1), or a     *)
(* replica follows (Goes).                                                 *)
(*                                                                         *)
(* A fold goes from point to point of the log (Onward), a point being a    *)
(* slot and the table there, and an operation has one outcome at most, so  *)
(* the points V of all folds are one chain (Chain): of an earlier and a    *)
(* later point, the records of an era are the same (Alike). That holds as  *)
(* long as every fold ends a run where the log does: what a replica has    *)
(* must not end inside a fused batch (Cut, Whole). A chunk that is cut off *)
(* there breaks it, so the theorems assume that none is (WholeRuns). The   *)
(* stamps of the system entries before a point are of earlier eras, and    *)
(* those after it lead on from its era (Past): what the leader orders next *)
(* is never taken for the rest of a batch. Known relates the stamps of a   *)
(* fused batch to the point at which the leader gave them.                 *)
(*                                                                         *)
(* The ballots of a run without fused changes are the reigns R of the      *)
(* leader (Reigns): each era up to that of its ballot has one view, which  *)
(* began at a slot of the log (its floor), by a rider in that slot, by an  *)
(* installed overlap, or at genesis. Who is in a reign has the log up to its *)
(* floor (Placed), the entry node excepted, which makes its ballots up and *)
(* stays below. What is said and voted is of the reigns (Said, Votes), so a *)
(* member of a later reign has all that was committed in an earlier one.   *)
(* What is committed in the reign of an era has a quorum of the leader's   *)
(* configuration; an era that may still elect is the leader's or next to it, *)
(* where the quorums cross, or each quorum of it has a member that is past *)
(* the era, which no longer answers for it (Fenced). Thus each era that may *)
(* elect has in its quorums a holder of what is committed (Covers), and who *)
(* it elects has as much as that holder (RuledElects).                     *)
(***************************************************************************)
EXTENDS Reconfiguration, ConfigurationProofs

-----------------------------------------------------------------------------
(* The turns of a fold.                                                    *)

\* One turn of the fold of r's commits, and the state it starts from.
Turn(f, r, end, through, paced) ==
    IF f.halt # "no" \/ f.slot >= through THEN f
    ELSE FoldRun(f, f.slot + 1, r, end, through, paced)

Start(r) == [slot |-> committed[r], table |-> table[r], halt |-> "no",
             running |-> IF status[r] = "Normal" THEN {ballot[r]} ELSE {}]

\* g is the fold of r's commits, turn by turn, up to f.
Turns(g, n, f, r, end, through, paced) ==
    /\ g[0] = Start(r) /\ g[n] = f
    /\ \A k \in 1 .. n : g[k] = Turn(g[k - 1], r, end, through, paced)

\* fold_committed takes its turns one after the other.
LEMMA CommittedTurns ==
  ASSUME NEW r, NEW end, NEW through, NEW paced, through - committed[r] \in Nat,
         NEW f \in FoldCommitted(r, end, through, paced)
  PROVE  \E g : Turns(g, through - committed[r], f, r, end, through, paced)
  <1> DEFINE n == through - committed[r]
             S == 1 .. n
             b == Start(r)
             Step(v) == Turn(v, r, end, through, paced)
             Runs(g, k) == g[0] = b /\ \A i \in 1 .. k : g[i] = Step(g[i - 1])
             Solves(g) == g = [s \in SUBSET S |->
                                 IF s = {} THEN b ELSE Step(g[s \ {Max(s)}])]
             e == CHOOSE g : Solves(g)
             T == {k \in Nat : \E g : Runs(g, k)}
  <1>1. n \in Nat
    OBVIOUS
  <1>2. f = e[S]
    BY DEF FoldCommitted, FoldLeft, MapThenFoldSet, Turn, Start
  <1> HIDE DEF Step, b, n
  <1>3. T = Nat
    <2>1. 0 \in T
      <3>1. Runs([i \in 0 .. 0 |-> b], 0)
        OBVIOUS
      <3> HIDE DEF Runs
      <3> QED
        BY <3>1
    <2>2. ASSUME NEW k \in T PROVE k + 1 \in T
      <3>1. PICK g : Runs(g, k)
        BY <2>2
      <3> DEFINE h == [i \in 0 .. k + 1 |-> IF i = k + 1 THEN Step(g[k]) ELSE g[i]]
      <3>2. k \in Nat /\ h[0] = g[0] /\ h[k + 1] = Step(g[k]) /\ \A i \in 0 .. k : h[i] = g[i]
        OBVIOUS
      <3> HIDE DEF h
      <3>3. ASSUME NEW i \in 1 .. k + 1 PROVE h[i] = Step(h[i - 1])
        <4>1. CASE i = k + 1
          <5>1. i - 1 = k /\ k \in 0 .. k
            BY <3>2, <4>1
          <5> QED
            BY <3>2, <4>1, <5>1
        <4>2. CASE i # k + 1
          <5>1. i \in 1 .. k /\ i \in 0 .. k /\ i - 1 \in 0 .. k
            BY <3>2, <4>2
          <5> QED
            BY <3>1, <3>2, <5>1
        <4> QED
          BY <4>1, <4>2
      <3>4. Runs(h, k + 1)
        BY <3>1, <3>2, <3>3
      <3>5. k + 1 \in Nat
        BY <3>2
      <3> HIDE DEF Runs
      <3> QED
        BY <3>4, <3>5
    <2>3. T \in SUBSET Nat
      OBVIOUS
    <2> HIDE DEF T
    <2> QED
      BY <2>1, <2>2, <2>3, SetInduction
  <1>4. PICK w : Runs(w, n)
    BY <1>1, <1>3
  <1>5. /\ \A s \in SUBSET S : IsFiniteSet(s) /\ Cardinality(s) \in 0 .. n
        /\ \A s \in SUBSET S : s # {} => Cardinality(s) # 0 /\ Max(s) \in s
        /\ Cardinality({}) = 0
        /\ \A s \in SUBSET S : s # {} => Cardinality(s \ {Max(s)}) = Cardinality(s) - 1
    <2>1. IsFiniteSet(S) /\ Cardinality(S) = n
      BY <1>1, FS_Interval
    <2>2. ASSUME NEW s \in SUBSET S PROVE IsFiniteSet(s) /\ Cardinality(s) \in 0 .. n
      <3>1. IsFiniteSet(s) /\ Cardinality(s) <= Cardinality(S)
        BY <2>1, FS_Subset
      <3>2. Cardinality(s) \in Nat
        BY <3>1, FS_CardinalityType
      <3> QED
        BY <1>1, <2>1, <3>1, <3>2
    <2>3. ASSUME NEW s \in SUBSET S, s # {} PROVE Cardinality(s) # 0 /\ Max(s) \in s
      BY <1>1, <2>2, <2>3, MaxIn, FS_EmptySet
    <2>4. Cardinality({}) = 0
      BY FS_EmptySet
    <2>5. ASSUME NEW s \in SUBSET S, s # {}
          PROVE  Cardinality(s \ {Max(s)}) = Cardinality(s) - 1
      BY <2>2, <2>3, <2>5, FS_RemoveElement
    <2> QED
      BY <2>2, <2>3, <2>4, <2>5
  <1>6. Solves([s \in SUBSET S |-> w[Cardinality(s)]])
    <2> DEFINE h == [s \in SUBSET S |-> w[Cardinality(s)]]
    <2>1. ASSUME NEW s \in SUBSET S
          PROVE  h[s] = IF s = {} THEN b ELSE Step(h[s \ {Max(s)}])
      <3>1. CASE s = {}
        BY <1>4, <1>5, <3>1
      <3>2. CASE s # {}
        <4>1. Cardinality(s) \in 1 .. n /\ s \ {Max(s)} \in SUBSET S
          <5>1. Cardinality(s) \in 0 .. n /\ Cardinality(s) # 0
            BY <1>5, <3>2
          <5>2. s \ {Max(s)} \in SUBSET S
            OBVIOUS
          <5> QED
            BY <1>1, <5>1, <5>2
        <4>2. h[s \ {Max(s)}] = w[Cardinality(s) - 1]
          BY <1>5, <3>2, <4>1
        <4> QED
          BY <1>4, <3>2, <4>1, <4>2
      <3> QED
        BY <3>1, <3>2
    <2>2. h = [s \in SUBSET S |-> h[s]]
      OBVIOUS
    <2> HIDE DEF h
    <2>3. Solves(h)
      BY <2>1, <2>2, Zenon
    <2> QED
      BY <2>3 DEF h
  <1>7. Solves(e)
    <2> HIDE DEF Solves
    <2> QED
      BY <1>6
  <1> HIDE DEF e
  <1>8. \A s \in SUBSET S : e[s] = IF s = {} THEN b ELSE Step(e[s \ {Max(s)}])
    BY <1>7, Zenon
  <1> HIDE DEF Solves
  <1> DEFINE g == [k \in 0 .. n |-> e[1 .. k]]
  <1>9. ASSUME NEW k \in 1 .. n PROVE g[k] = Step(g[k - 1])
    <2>1. k \in Nat /\ k # 0 /\ k \in 0 .. n /\ k - 1 \in 0 .. n
      BY <1>1
    <2>2. (1 .. k) \ {Max(1 .. k)} = 1 .. (k - 1) /\ 1 .. k \in SUBSET S /\ 1 .. k # {}
      BY <1>1, <2>1, LastPosition
    <2> QED
      BY <1>8, <2>1, <2>2
  <1>10. g[0] = b /\ g[n] = f
    <2>1. 1 .. 0 = {} /\ 0 \in 0 .. n /\ n \in 0 .. n
      BY <1>1
    <2>2. e[{}] = b
      BY <1>8
    <2> QED
      BY <1>2, <2>1, <2>2
  <1> HIDE DEF g
  <1>11. Turns(g, n, f, r, end, through, paced)
    BY <1>9, <1>10 DEF Turns, Step, b
  <1> QED
    BY <1>11 DEF n

-----------------------------------------------------------------------------
(* Onward: where a fold goes from a point of the log.                      *)

\* The operations of the first n slots of the log.
OpsTyped(n) == \A s \in 1 .. n : OpOver(Node, hist[s].op)

\* The last slot of a run is one of its slots.
LEMMA RunEndIn ==
  ASSUME NEW next \in Nat, NEW end \in Nat, 1 <= next, next <= end, System(next)
  PROVE  /\ RunEnd(next, end) \in next .. end
         /\ \A k \in next .. RunEnd(next, end) : System(k) /\ hist[k].era = hist[next].era
  <1> DEFINE E == {e \in next .. end : \A k \in next .. e : System(k) /\ hist[k].era = hist[next].era}
  <1>1. next \in E
    OBVIOUS
  <1>2. E \in SUBSET (1 .. end) /\ E # {}
    BY <1>1
  <1>3. Max(E) \in E
    <2> HIDE DEF E
    <2> QED
      BY <1>2, MaxIn
  <1> QED
    BY <1>3 DEF RunEnd

\* A run moves the table by one era, in one way at most.
LEMMA RunIsOne ==
  ASSUME NEW t, SoundTable(Node, t), NEW n \in Nat, OpsTyped(n),
         NEW next \in 1 .. n, NEW last \in next .. n
  PROVE  /\ Single(RunAt(t, next, last))
         /\ \A x \in RunAt(t, next, last) :
               /\ SoundTable(Node, x.table) /\ EraOf(x.table) = EraOf(t) + 1
               /\ Range(x.table) \subseteq Range(t) \cup {Current(x.table)}
               /\ x.end \in {next, last}
  <1> DEFINE ops == OpsOf(next, last)
             Taken(op, os, end) ==
                {[table |-> x, ops |-> os, end |-> end] : x \in Extend(t, op, next)}
             whole == Taken(Batch(ops), ops, last)
             alone == Taken(hist[next].op, <<hist[next].op>>, next)
  <1>1. OpOver(Node, hist[next].op)
    BY DEF OpsTyped
  <1>2. OpOver(Node, Batch(ops))
    <2>1. /\ last - next + 1 \in Nat
          /\ ops = [i \in 1 .. last - next + 1 |-> hist[next + i - 1].op]
      BY DEF OpsOf
    <2> DEFINE O == {hist[s].op : s \in 1 .. n}
    <2>2. \A i \in 1 .. last - next + 1 : next + i - 1 \in 1 .. n
      OBVIOUS
    <2>3. ops \in Seq(O)
      BY <2>1, <2>2
    <2>4. OpsOver(Node, ops)
      <3>1. ASSUME NEW i \in DOMAIN ops PROVE Over(Node, ops[i])
        <4>1. i \in 1 .. last - next + 1 /\ ops[i] = hist[next + i - 1].op
          BY <2>1
        <4> QED
          BY <2>2, <4>1 DEF OpsTyped, OpOver
      <3> QED
        BY <3>1 DEF OpsOver, Over
    <2> HIDE DEF ops, O
    <2> QED
      BY <2>3, <2>4 DEF OpOver, Over, Batch
  <1>3. RunAt(t, next, last) \subseteq whole \/ RunAt(t, next, last) \subseteq alone
    BY DEF RunAt
  <1> HIDE DEF ops
  <1> DEFINE Good(x, end) ==
                /\ SoundTable(Node, x.table) /\ EraOf(x.table) = EraOf(t) + 1
                /\ Range(x.table) \subseteq Range(t) \cup {Current(x.table)}
                /\ x.end = end
  <1>4. Single(whole) /\ \A x \in whole : Good(x, last)
    BY <1>2, ExtendIsOne DEF Single
  <1>5. Single(alone) /\ \A x \in alone : Good(x, next)
    BY <1>1, ExtendIsOne DEF Single
  <1> HIDE DEF whole, alone
  <1> QED
    BY <1>3, <1>4, <1>5 DEF Single

\* Where a fold goes on from slot s with table t, in a log that ends at `end`.
Onward(s, t, end) ==
    IF ~System(s + 1) THEN {[slot |-> s + 1, table |-> t]}
    ELSE {[slot |-> x.end, table |-> x.table] : x \in RunAt(t, s + 1, RunEnd(s + 1, end))}

PointOf(f) == [slot |-> f.slot, table |-> f.table]

\* The state of a fold.
Folding(f) ==
    f = [slot |-> f.slot, table |-> f.table, halt |-> f.halt, running |-> f.running]

\* A turn stays, or goes on to the next point, within `through`.
LEMMA TurnMoves ==
  ASSUME NEW r, NEW end \in Nat, NEW through \in Nat, through <= end, OpsTyped(end), NEW paced,
         NEW f, Folding(f), f.slot \in Nat, f.slot <= through, SoundTable(Node, f.table),
         NEW e, e = Turn(f, r, end, through, paced)
  PROVE  /\ Folding(e)
         /\ \/ PointOf(e) = PointOf(f)
            \/ /\ f.slot < through /\ PointOf(e) \in Onward(f.slot, f.table, end)
               /\ e.slot \in f.slot + 1 .. through
  <1> DEFINE next == f.slot + 1
             last == RunEnd(next, end)
             folds == {OntoRun(f, x, r, paced) : x \in RunAt(f.table, next, last)}
  <1>1. CASE f.halt # "no" \/ f.slot >= through
    BY <1>1 DEF Turn
  <1>2. CASE f.halt = "no" /\ f.slot < through
    <2>1. /\ e = FoldRun(f, next, r, end, through, paced)
          /\ next \in Nat /\ 1 <= next /\ next <= end /\ next <= through
      BY <1>2 DEF Turn
    <2>2. CASE ~System(next)
      <3>1. e = [f EXCEPT !.slot = next]
        BY <2>1, <2>2 DEF FoldRun
      <3>2. e = [slot |-> next, table |-> f.table, halt |-> f.halt, running |-> f.running]
        BY <3>1 DEF Folding
      <3> QED
        BY <1>2, <2>1, <2>2, <3>2 DEF Folding, PointOf, Onward
    <2>3. CASE System(next) /\ last > through
      <3>1. e = [f EXCEPT !.halt = "SplitBatch"]
        BY <2>1, <2>3 DEF FoldRun
      <3> QED
        BY <3>1 DEF Folding, PointOf
    <2>4. CASE System(next) /\ ~(last > through) /\ folds = {}
      <3>1. e = [f EXCEPT !.halt = "Breach"]
        BY <2>1, <2>4 DEF FoldRun
      <3> QED
        BY <3>1 DEF Folding, PointOf
    <2>5. CASE System(next) /\ ~(last > through) /\ folds # {}
      <3>1. e \in folds
        BY <2>1, <2>5 DEF FoldRun
      <3>2. PICK x \in RunAt(f.table, next, last) : e = OntoRun(f, x, r, paced)
        BY <3>1
      <3>3. last \in next .. end
        BY <2>1, <2>5, RunEndIn
      <3>4. x.end \in {next, last}
        <4>1. next \in 1 .. end
          BY <2>1
        <4> QED
          BY <3>2, <3>3, <4>1, RunIsOne
      <3>5. \/ e = [f EXCEPT !.halt = "Window"]
            \/ \E m : e = [f EXCEPT !.slot = x.end, !.table = x.table, !.running = m]
        BY <3>2 DEF OntoRun
      <3>6. CASE e = [f EXCEPT !.halt = "Window"]
        BY <3>6 DEF Folding, PointOf
      <3>7. CASE \E m : e = [f EXCEPT !.slot = x.end, !.table = x.table, !.running = m]
        <4>1. PICK m : e = [f EXCEPT !.slot = x.end, !.table = x.table, !.running = m]
          BY <3>7
        <4>2. e = [slot |-> x.end, table |-> x.table, halt |-> f.halt, running |-> m]
          BY <4>1 DEF Folding
        <4>3. PointOf(e) = [slot |-> x.end, table |-> x.table] /\ Folding(e) /\ e.slot = x.end
          BY <4>2 DEF Folding, PointOf
        <4>4. PointOf(e) \in Onward(f.slot, f.table, end)
          BY <2>5, <3>2, <4>3 DEF Onward
        <4>5. e.slot \in f.slot + 1 .. through
          BY <2>1, <2>5, <3>3, <3>4, <4>3
        <4> QED
          BY <1>2, <4>3, <4>4, <4>5
      <3> QED
        BY <3>5, <3>6, <3>7
    <2> QED
      BY <2>2, <2>3, <2>4, <2>5
  <1> QED
    BY <1>1, <1>2

\* Going on raises the slot, and the era by one at most.
LEMMA OnwardIsOne ==
  ASSUME NEW s \in Nat, NEW t, SoundTable(Node, t), NEW end \in Nat, s < end, OpsTyped(end)
  PROVE  /\ Single(Onward(s, t, end))
         /\ \A q \in Onward(s, t, end) :
               /\ q = [slot |-> q.slot, table |-> q.table]
               /\ q.slot \in s + 1 .. end /\ SoundTable(Node, q.table)
               /\ ~System(s + 1) => q.slot = s + 1 /\ q.table = t
               /\ System(s + 1) =>
                     /\ q.slot \in {s + 1, RunEnd(s + 1, end)}
                     /\ EraOf(q.table) = EraOf(t) + 1
                     /\ Range(q.table) \subseteq Range(t) \cup {Current(q.table)}
  <1>1. CASE ~System(s + 1)
    BY <1>1 DEF Onward, Single
  <1>2. CASE System(s + 1)
    <2> DEFINE next == s + 1
               last == RunEnd(next, end)
    <2>1. next \in 1 .. end /\ last \in next .. end
      BY <1>2, RunEndIn
    <2>2. /\ Single(RunAt(t, next, last))
          /\ \A x \in RunAt(t, next, last) :
                /\ SoundTable(Node, x.table) /\ EraOf(x.table) = EraOf(t) + 1
                /\ Range(x.table) \subseteq Range(t) \cup {Current(x.table)}
                /\ x.end \in {next, last}
      BY <2>1, RunIsOne
    <2>3. Onward(s, t, end) =
             {[slot |-> x.end, table |-> x.table] : x \in RunAt(t, next, last)}
      BY <1>2 DEF Onward
    <2> HIDE DEF last
    <2> QED
      BY <1>2, <2>1, <2>2, <2>3 DEF Single, last
  <1> QED
    BY <1>1, <1>2

-----------------------------------------------------------------------------
(* The way of a fold, from point to point.                                 *)

\* h is the way of the fold f of r's commits, from point to point.
Path(h, n, r, f, end, through) ==
    /\ h[0] = [slot |-> committed[r], table |-> table[r]] /\ h[n] = PointOf(f)
    /\ \A k \in 0 .. n : /\ h[k] = [slot |-> h[k].slot, table |-> h[k].table]
                         /\ h[k].slot \in committed[r] .. through
                         /\ SoundTable(Node, h[k].table)
    /\ \A k \in 1 .. n : \/ h[k] = h[k - 1]
                         \/ /\ h[k - 1].slot < through
                            /\ h[k] \in Onward(h[k - 1].slot, h[k - 1].table, end)

\* Every fold goes such a way.
LEMMA FoldPath ==
  ASSUME NEW r, NEW end \in Nat, NEW through \in Nat, through <= end, OpsTyped(end), NEW paced,
         committed[r] \in Nat, committed[r] <= through, SoundTable(Node, table[r]),
         NEW f \in FoldCommitted(r, end, through, paced)
  PROVE  \E n \in Nat : \E h : Path(h, n, r, f, end, through)
  <1> DEFINE n == through - committed[r]
  <1>1. n \in Nat
    OBVIOUS
  <1>2. PICK g : Turns(g, n, f, r, end, through, paced)
    BY <1>1, CommittedTurns
  <1> HIDE DEF n
  <1> DEFINE Inside(v) == /\ Folding(v) /\ v.slot \in committed[r] .. through
                          /\ SoundTable(Node, v.table)
             T == {k \in Nat : k <= n => Inside(g[k])}
  <1>3. 0 \in T
    <2>1. g[0] = Start(r)
      BY <1>2 DEF Turns
    <2>2. Inside(Start(r))
      <3> DEFINE w == IF status[r] = "Normal" THEN {ballot[r]} ELSE {}
      <3>1. Start(r) = [slot |-> committed[r], table |-> table[r], halt |-> "no", running |-> w]
        BY DEF Start
      <3> HIDE DEF w
      <3> QED
        BY <3>1 DEF Folding
    <2> HIDE DEF Inside
    <2> QED
      BY <2>1, <2>2
  <1>4. ASSUME NEW k \in 1 .. n, Inside(g[k - 1])
        PROVE  /\ Inside(g[k])
               /\ \/ PointOf(g[k]) = PointOf(g[k - 1])
                  \/ /\ g[k - 1].slot < through
                     /\ PointOf(g[k]) \in Onward(g[k - 1].slot, g[k - 1].table, end)
    <2>1. g[k] = Turn(g[k - 1], r, end, through, paced)
      BY <1>2 DEF Turns
    <2> DEFINE v == g[k - 1]
               e == g[k]
    <2>2. Folding(v) /\ v.slot \in Nat /\ v.slot <= through /\ SoundTable(Node, v.table)
          /\ v.slot \in committed[r] .. through
      BY <1>4
    <2>3. e = Turn(v, r, end, through, paced)
      BY <2>1
    <2> HIDE DEF v, e
    <2>4. /\ Folding(e)
          /\ \/ PointOf(e) = PointOf(v)
             \/ /\ v.slot < through /\ PointOf(e) \in Onward(v.slot, v.table, end)
                /\ e.slot \in v.slot + 1 .. through
      BY <2>2, <2>3, TurnMoves
    <2>5. CASE PointOf(e) = PointOf(v)
      <3>1. e.slot = v.slot /\ e.table = v.table
        BY <2>5 DEF PointOf
      <3> QED
        BY <2>2, <2>4, <2>5, <3>1 DEF v, e
    <2>6. CASE /\ v.slot < through /\ PointOf(e) \in Onward(v.slot, v.table, end)
               /\ e.slot \in v.slot + 1 .. through
      <3>1. v.slot < end
        BY <2>2, <2>6
      <3>2. SoundTable(Node, PointOf(e).table)
        BY <2>2, <2>6, <3>1, OnwardIsOne
      <3>3. SoundTable(Node, e.table)
        BY <3>2 DEF PointOf
      <3>4. e.slot \in committed[r] .. through
        BY <2>2, <2>6
      <3> QED
        BY <2>4, <2>6, <3>3, <3>4 DEF v, e
    <2> QED
      BY <2>4, <2>5, <2>6
  <1>5. ASSUME NEW k \in T PROVE k + 1 \in T
    <2>1. k \in Nat /\ (k <= n => Inside(g[k]))
      BY <1>5
    <2>2. ASSUME k + 1 <= n PROVE Inside(g[k + 1])
      <3> HIDE DEF Inside
      <3>1. k + 1 \in 1 .. n /\ Inside(g[(k + 1) - 1])
        <4>1. (k + 1) - 1 = k /\ k <= n /\ k + 1 \in 1 .. n
          BY <1>1, <2>1, <2>2
        <4> QED
          BY <2>1, <4>1
      <3> QED
        BY <1>4, <3>1
    <2> HIDE DEF Inside
    <2> QED
      BY <2>1, <2>2
  <1>6. \A k \in 0 .. n : Inside(g[k])
    <2>1. T = Nat
      <3>1. T \in SUBSET Nat
        OBVIOUS
      <3> HIDE DEF T
      <3> QED
        BY <1>3, <1>5, <3>1, SetInduction
    <2>2. ASSUME NEW k \in 0 .. n PROVE Inside(g[k])
      <3>1. k \in Nat /\ k <= n
        BY <1>1
      <3>2. k \in T
        BY <2>1, <3>1
      <3> HIDE DEF Inside
      <3> QED
        BY <3>1, <3>2
    <2> QED
      BY <2>2
  <1> DEFINE h == [k \in 0 .. n |-> PointOf(g[k])]
  <1>7. h[0] = [slot |-> committed[r], table |-> table[r]] /\ h[n] = PointOf(f)
    <2>1. g[0] = Start(r) /\ g[n] = f /\ 0 \in 0 .. n /\ n \in 0 .. n
      BY <1>1, <1>2 DEF Turns
    <2> QED
      BY <2>1 DEF PointOf, Start
  <1>8. ASSUME NEW k \in 0 .. n
        PROVE  /\ h[k] = [slot |-> h[k].slot, table |-> h[k].table]
               /\ h[k].slot \in committed[r] .. through /\ SoundTable(Node, h[k].table)
               /\ h[k].slot = g[k].slot /\ h[k].table = g[k].table
    BY <1>6 DEF PointOf
  <1>9. ASSUME NEW k \in 1 .. n
        PROVE  \/ h[k] = h[k - 1]
               \/ /\ h[k - 1].slot < through
                  /\ h[k] \in Onward(h[k - 1].slot, h[k - 1].table, end)
    <2>1. k \in 0 .. n /\ k - 1 \in 0 .. n
      BY <1>1
    <2>2. /\ h[k] = PointOf(g[k]) /\ h[k - 1] = PointOf(g[k - 1]) /\ h[k - 1].slot = g[k - 1].slot
          /\ h[k - 1].table = g[k - 1].table
      BY <2>1, <1>8
    <2>3. Inside(g[k - 1])
      BY <1>6, <2>1
    <2> HIDE DEF h, Inside
    <2> QED
      BY <1>4, <2>2, <2>3
  <1> HIDE DEF h
  <1>10. Path(h, n, r, f, end, through)
    BY <1>7, <1>8, <1>9 DEF Path
  <1> QED
    BY <1>1, <1>10

\* What a fold comes to.
LEMMA FoldSound ==
  ASSUME NEW r, NEW end \in Nat, NEW through \in Nat, through <= end, OpsTyped(end), NEW paced,
         committed[r] \in Nat, committed[r] <= through, SoundTable(Node, table[r]),
         NEW f \in FoldCommitted(r, end, through, paced)
  PROVE  f.slot \in committed[r] .. through /\ SoundTable(Node, f.table)
  <1>1. PICK n \in Nat : \E h : Path(h, n, r, f, end, through)
    BY FoldPath
  <1>2. PICK h : Path(h, n, r, f, end, through)
    BY <1>1
  <1>3. n \in 0 .. n
    OBVIOUS
  <1> QED
    BY <1>2, <1>3 DEF Path, PointOf

\* A fold stays among the points V that going on does not leave.
LEMMA FoldInside ==
  ASSUME NEW r, NEW end \in Nat, NEW through \in Nat, through <= end, OpsTyped(end), NEW paced,
         committed[r] \in Nat, committed[r] <= through, SoundTable(Node, table[r]),
         NEW f \in FoldCommitted(r, end, through, paced),
         NEW V, [slot |-> committed[r], table |-> table[r]] \in V,
         \A p \in V : p.slot < through => Onward(p.slot, p.table, end) \subseteq V
  PROVE  PointOf(f) \in V
  <1>1. PICK n \in Nat : \E h : Path(h, n, r, f, end, through)
    BY FoldPath
  <1>2. PICK h : Path(h, n, r, f, end, through)
    BY <1>1
  <1> DEFINE T == {k \in Nat : k <= n => h[k] \in V}
  <1>3. 0 \in T
    BY <1>2 DEF Path
  <1>4. ASSUME NEW k \in T PROVE k + 1 \in T
    <2>1. CASE k + 1 <= n
      <3>1. k \in Nat /\ k + 1 \in 1 .. n /\ (k + 1) - 1 = k /\ h[k] \in V
        BY <1>4, <2>1
      <3>2. \/ h[k + 1] = h[k]
            \/ h[k].slot < through /\ h[k + 1] \in Onward(h[k].slot, h[k].table, end)
        BY <1>2, <3>1 DEF Path
      <3>3. h[k + 1] \in V
        BY <3>1, <3>2
      <3> QED
        BY <3>1, <3>3
    <2> QED
      BY <2>1, <1>4
  <1>5. T \in SUBSET Nat
    OBVIOUS
  <1> HIDE DEF T
  <1>6. n \in T
    BY <1>3, <1>4, <1>5, SetInduction
  <1> QED
    BY <1>2, <1>6 DEF T, Path

\* The leader commits up to an entry it has, and never back.
LEMMA FrontierIn ==
  ASSUME committed[Leader] \in Nat, accepted[Leader] \in Nat,
         committed[Leader] <= accepted[Leader], NEW votes
  PROVE  CascadeFrontier(votes) \in committed[Leader] .. accepted[Leader]
  <1> DEFINE end == accepted[Leader]
             b == committed[Leader]
             n == end - b
             V == b .. end
             Voted(s) == IsQuorum(Config(Leader),
                                  {Leader} \cup {v[2] : v \in {w \in votes : w[1] = s}})
             Past(c, e) == IF \A s \in c + 1 .. e : Voted(s) THEN e ELSE c
             Step(c) == IF c < end THEN Past(c, SegmentEnd(c + 1, end)) ELSE c
             Solves(g) == g = [s \in SUBSET (1 .. n) |->
                                 IF s = {} THEN b ELSE Step(g[s \ {Max(s)}])]
             f == CHOOSE g : Solves(g)
             st == [p \in (1 .. n) \X V |-> Step(p[2])]
  <1>1. n \in Nat /\ b \in V /\ end \in Nat /\ V \in SUBSET Nat
    OBVIOUS
  <1>2. ASSUME NEW c \in V PROVE Step(c) \in V
    <2>1. CASE c < end
      <3> DEFINE E == {e \in c + 1 .. end :
                         \A k \in (c + 1) + 1 .. e : System(k) /\ hist[k].era = hist[c + 1].era}
      <3>1. c + 1 \in E /\ E \in SUBSET ((c + 1) .. end)
        BY <2>1
      <3>2. Max(E) \in E
        <4> HIDE DEF E
        <4>1. E \in SUBSET (1 .. end) /\ E # {}
          BY <1>1, <3>1
        <4> QED
          BY <1>1, <4>1, MaxIn
      <3>3. SegmentEnd(c + 1, end) = Max(E)
        BY DEF SegmentEnd
      <3>4. SegmentEnd(c + 1, end) \in V
        <4>1. SegmentEnd(c + 1, end) \in (c + 1) .. end
          <5> HIDE DEF E
          <5> QED
            BY <3>1, <3>2, <3>3
        <4> QED
          BY <1>1, <4>1
      <3> HIDE DEF E, Voted
      <3> QED
        BY <3>4
    <2>2. CASE ~(c < end)
      BY <2>2
    <2> QED
      BY <2>1, <2>2
  <1>3. st \in [(1 .. n) \X V -> V] /\ \A x \in 1 .. n, v \in V : st[<<x, v>>] = Step(v)
    <2> HIDE DEF Step, V, n
    <2> QED
      BY <1>2
  <1>4. ASSUME NEW s \in SUBSET (1 .. n), s # {} PROVE Max(s) \in 1 .. n
    BY <1>1, <1>4, MaxIn
  <1>5. CascadeFrontier(votes) = f[1 .. n]
    BY <1>1 DEF CascadeFrontier, FoldLeft, MapThenFoldSet
  <1> HIDE DEF st, Step, n, b, V
  <1>6. \E g : Solves(g)
    <2>1. PICK h : FoldOf(h, n, b, st) /\ \A s \in SUBSET (1 .. n) : h[s] \in V
      BY <1>1, <1>3, FoldSolved
    <2>2. ASSUME NEW s \in SUBSET (1 .. n)
          PROVE  h[s] = IF s = {} THEN b ELSE Step(h[s \ {Max(s)}])
      <3>1. h[s] = IF s = {} THEN b ELSE st[<<Max(s), h[s \ {Max(s)}]>>]
        BY <2>1, Zenon DEF FoldOf
      <3>2. s # {} => st[<<Max(s), h[s \ {Max(s)}]>>] = Step(h[s \ {Max(s)}])
        BY <1>3, <1>4, <2>1
      <3> QED
        BY <3>1, <3>2
    <2>3. h = [s \in SUBSET (1 .. n) |-> h[s]]
      BY <2>1, Zenon DEF FoldOf
    <2>4. Solves(h)
      BY <2>2, <2>3, Zenon
    <2> QED
      BY <2>4
  <1>7. Solves(f)
    BY <1>6
  <1> HIDE DEF f
  <1>8. \A s \in SUBSET (1 .. n) : f[s] = IF s = {} THEN b ELSE Step(f[s \ {Max(s)}])
    BY <1>7, Zenon
  <1> HIDE DEF Solves
  <1>9. ASSUME NEW s \in SUBSET (1 .. n), s # {}, f[s \ {Max(s)}] \in V
        PROVE  f[s] = st[<<Max(s), f[s \ {Max(s)}]>>]
    BY <1>3, <1>4, <1>8, <1>9
  <1>10. FoldsBy(f, n, V, b, st)
    BY <1>8, <1>9 DEF FoldsBy
  <1>11. PICK g : Walk(g, n, V, b, f[1 .. n], st)
    BY <1>1, <1>3, <1>10, FoldWalks
  <1>12. n \in 0 .. n
    BY <1>1
  <1>13. f[1 .. n] \in V
    BY <1>11, <1>12 DEF Walk
  <1> QED
    BY <1>5, <1>13 DEF V, b

-----------------------------------------------------------------------------
(* The invariant of the types.                                             *)

\* The log: genesis, then operations on nodes with their stamps.
HistSound ==
    /\ \E O : hist \in Seq(O)
    /\ Len(hist) >= INIT_SLOT
    /\ \A s \in 1 .. Len(hist) : hist[s].era \in Nat
    /\ OpsTyped(Len(hist))

\* The leader told m that e ends what it has.
Ends(m, e) ==
    \/ m.tag = "Prepare" /\ e = m.slot
    \/ m.tag = "Fuse" /\ e = m.slot + Len(m.ops) - 1
    \/ m.tag = "NewState" /\ e = m.through
    \/ m.tag = "StartView" /\ e = m.accepted

\* A commit frontier the leader told of.
Told(m) == m.committed \in Nat /\ m.committed <= committed[Leader]

MsgSound(m) ==
    /\ m.tag = "Prepare" => m.slot \in 1 .. Len(hist) /\ Told(m)
    /\ m.tag = "Fuse" => /\ \E O : m.ops \in Seq(O)
                         /\ OpsOver(Node, m.ops) /\ Len(m.ops) >= 2
                         /\ m.slot \in Nat /\ m.slot >= 1
                         /\ m.slot + Len(m.ops) - 1 <= Len(hist)
    /\ m.tag = "Commit" => Told(m)
    /\ m.tag = "GetState" => m.next \in Nat /\ m.next >= 1
    /\ m.tag = "NewState" => m.through \in 1 .. Len(hist) /\ Told(m)
    /\ m.tag = "StartView" => /\ m.accepted \in INIT_SLOT .. Len(hist) /\ Told(m)
                              /\ m.committed <= m.accepted

StartViews == {m \in msgs : m.tag = "StartView"}

PlaceSound(r) ==
    /\ accepted[r] \in INIT_SLOT .. Len(hist)
    /\ committed[r] \in INIT_SLOT .. accepted[r]
    /\ committed[r] <= committed[Leader]
    /\ status[r] \in {"Normal", "ViewChange", "Joining"}
    /\ SoundTable(Node, table[r])
    /\ InWindow(table[r], ballot[r])
    /\ stalled[r] \subseteq StartViews /\ Single(stalled[r])

\* Each of these is kept for every node.
Kept ==
    /\ DOMAIN accepted = Node /\ DOMAIN committed = Node /\ DOMAIN ballot = Node
    /\ DOMAIN status = Node /\ DOMAIN table = Node /\ DOMAIN stalled = Node

\* Type correctness, with what the messages say and the leader has ordered.
TInv ==
    /\ HistSound
    /\ Kept
    /\ \A r \in Node : PlaceSound(r)
    /\ \A m \in msgs : MsgSound(m)
    /\ accepted[Leader] = Len(hist)
    /\ Single(planned)

\* The first founder is a node.
LEMMA LeaderIn == Leader \in Node
  BY ReconfigurationAssumption DEF Leader

\* What the other lemmas need of the types.
LEMMA TInvTypes ==
  ASSUME TInv
  PROVE  /\ Len(hist) \in Nat /\ DOMAIN hist = 1 .. Len(hist) /\ OpsTyped(Len(hist))
         /\ \A r \in Node : /\ accepted[r] \in Nat /\ committed[r] \in Nat
                            /\ SoundTable(Node, table[r]) /\ EraOf(table[r]) \in Nat
  <1>1. PICK O : hist \in Seq(O)
    BY DEF TInv, HistSound
  <1>2. Len(hist) \in Nat /\ DOMAIN hist = 1 .. Len(hist) /\ OpsTyped(Len(hist))
    BY <1>1 DEF TInv, HistSound
  <1>3. ASSUME NEW r \in Node
        PROVE  /\ accepted[r] \in Nat /\ committed[r] \in Nat
               /\ SoundTable(Node, table[r]) /\ EraOf(table[r]) \in Nat
    <2>1. PlaceSound(r)
      BY DEF TInv
    <2> QED
      BY <1>2, <2>1, TableType DEF PlaceSound, INIT_SLOT
  <1> QED
    BY <1>2, <1>3

\* The invariant has the types of TypeOK.
LEMMA TInvTypeOK == ASSUME TInv PROVE TypeOK
  <1>1. ASSUME NEW r \in Node PROVE Len(table[r]) \in 1 .. 2
    BY TInvTypes DEF SoundTable
  <1>2. Cardinality(planned) <= 1
    <2>1. CASE planned = {}
      BY <2>1, FS_EmptySet
    <2>2. CASE planned # {}
      <3>1. PICK p \in planned : TRUE
        BY <2>2
      <3>2. planned = {p}
        BY <3>1 DEF TInv, Single
      <3>3. Cardinality({p}) = 1
        BY FS_Singleton
      <3> QED
        BY <3>2, <3>3
    <2> QED
      BY <2>1, <2>2
  <1> QED
    BY <1>1, <1>2 DEF TInv, PlaceSound, TypeOK

\* What a step of r leaves alone.
Still(r) ==
    /\ hist' = hist /\ msgs \subseteq msgs'
    /\ Kept'
    /\ \A n \in Node \ {r} :
          /\ accepted'[n] = accepted[n] /\ committed'[n] = committed[n]
          /\ ballot'[n] = ballot[n] /\ status'[n] = status[n]
          /\ table'[n] = table[n] /\ stalled'[n] = stalled[n]

\* A step of r keeps the types, when what it leaves at r and sends is typed.
LEMMA Carried ==
  ASSUME TInv, NEW r \in Node, Still(r), committed'[Leader] \in Nat,
         committed[Leader] <= committed'[Leader], accepted'[Leader] = Len(hist),
         PlaceSound(r)', \A m \in msgs' \ msgs : MsgSound(m)', Single(planned')
  PROVE  TInv'
  <1>1. hist' = hist /\ msgs \subseteq msgs' /\ Kept'
    BY DEF Still
  <1>2. HistSound'
    BY <1>1 DEF TInv, HistSound, OpsTyped
  <1>3. /\ Len(hist) \in Nat /\ committed[Leader] \in Nat
        /\ \A n \in Node : committed[n] \in Nat
    BY TInvTypes, LeaderIn
  <1>4. ASSUME NEW n \in Node PROVE PlaceSound(n)'
    <2>1. CASE n = r
      BY <2>1
    <2>2. CASE n # r
      <3>1. PlaceSound(n)
        BY DEF TInv
      <3>2. /\ accepted'[n] = accepted[n] /\ committed'[n] = committed[n]
            /\ ballot'[n] = ballot[n] /\ status'[n] = status[n]
            /\ table'[n] = table[n] /\ stalled'[n] = stalled[n]
        BY <2>2 DEF Still
      <3>3. committed'[n] <= committed'[Leader]
        BY <1>3, <3>1, <3>2 DEF PlaceSound
      <3>4. StartViews \subseteq StartViews'
        BY <1>1 DEF StartViews
      <3>5. InWindow(table[n], ballot[n])'
        BY <3>1, <3>2 DEF InWindow, PlaceSound
      <3> QED
        BY <1>1, <3>1, <3>2, <3>3, <3>4, <3>5 DEF PlaceSound
    <2> QED
      BY <2>1, <2>2
  <1>5. ASSUME NEW m \in msgs' PROVE MsgSound(m)'
    <2>1. CASE m \in msgs
      <3>1. MsgSound(m)
        BY <2>1 DEF TInv
      <3>2. Told(m) => Told(m)'
        BY <1>3 DEF Told
      <3> QED
        BY <1>1, <3>1, <3>2 DEF MsgSound
    <2> QED
      BY <2>1
  <1> QED
    BY <1>1, <1>2, <1>4, <1>5 DEF TInv

\* A fold of the commits that r reaches in what it has or was sent.
Reached(r, e) == e = accepted[r] \/ \E m \in msgs : Ends(m, e)

FoldedTo(r, f, end, through, paced) ==
    /\ f \in FoldCommitted(r, end, through, paced)
    /\ Reached(r, end) /\ through \in committed[r] .. end /\ through <= committed[Leader]
    /\ committed'[r] = f.slot /\ table'[r] = f.table /\ f.slot <= accepted'[r]
    /\ accepted'[r] = f.slot \/ Reached(r, accepted'[r])

\* What a follower sends says nothing of the log.
Answers ==
    \A m \in msgs' \ msgs :
        /\ m.tag \in {"Ok", "GetState", "DoViewChange"}
        /\ m.tag = "GetState" => m.next \in Nat /\ m.next >= 1

\* What a follower's step does: it commits nothing, keeps a fused batch, or folds.
Stays(r) ==
    accepted'[r] = accepted[r] /\ committed'[r] = committed[r] /\ table'[r] = table[r]

Fuses(r) ==
    /\ committed'[r] = committed[r] /\ table'[r] = table[r] /\ accepted[r] <= accepted'[r]
    /\ \E m \in msgs : Ends(m, accepted'[r])

Goes(r) ==
    /\ Still(r) /\ planned' = planned /\ Answers
    /\ status'[r] \in {"Normal", "ViewChange", "Joining"}
    /\ InWindow(table'[r], ballot'[r])
    /\ stalled'[r] \subseteq StartViews /\ Single(stalled'[r])
    /\ \/ Stays(r) \/ Fuses(r)
       \/ \E f, end, through, paced : FoldedTo(r, f, end, through, paced)

\* A slot that is known of is in the log.
LEMMA ReachedIn ==
  ASSUME TInv, NEW r \in Node, NEW e, Reached(r, e)
  PROVE  e \in 1 .. Len(hist)
  <1>1. CASE e = accepted[r]
    <2>1. PlaceSound(r)
      BY DEF TInv
    <2> QED
      BY <1>1, <2>1, TInvTypes DEF PlaceSound, INIT_SLOT
  <1>2. CASE \E m \in msgs : Ends(m, e)
    <2>1. PICK m \in msgs : Ends(m, e)
      BY <1>2
    <2>2. MsgSound(m) /\ Len(hist) \in Nat
      BY TInvTypes DEF TInv
    <2>3. m.tag = "Fuse" => Len(m.ops) \in Nat
      <3>1. m.tag = "Fuse" => \E O : m.ops \in Seq(O)
        BY <2>2 DEF MsgSound
      <3> QED
        BY <3>1
    <2> QED
      BY <2>1, <2>2, <2>3 DEF Ends, MsgSound, INIT_SLOT
  <1> QED
    BY <1>1, <1>2 DEF Reached

\* A follower's step keeps the types.
LEMMA GoesCarried ==
  ASSUME TInv, NEW r \in Node \ {Leader}, Goes(r)
  PROVE  TInv'
  <1>1. /\ Len(hist) \in Nat /\ OpsTyped(Len(hist)) /\ Leader \in Node
        /\ \A n \in Node : /\ accepted[n] \in Nat /\ committed[n] \in Nat
                           /\ SoundTable(Node, table[n])
    BY TInvTypes, LeaderIn
  <1>2. PlaceSound(r) /\ committed'[Leader] = committed[Leader] /\ accepted'[Leader] = accepted[Leader]
    BY <1>1 DEF TInv, Goes, Still
  <1>3. hist' = hist /\ msgs \subseteq msgs' /\ StartViews \subseteq StartViews'
    BY DEF Goes, Still, StartViews
  <1>4. /\ accepted'[r] \in INIT_SLOT .. Len(hist) /\ committed'[r] \in INIT_SLOT .. accepted'[r]
        /\ committed'[r] <= committed[Leader] /\ SoundTable(Node, table'[r])
    <2>1. CASE Stays(r)
      BY <1>2, <2>1 DEF Stays, PlaceSound
    <2>2. CASE Fuses(r)
      <3>1. accepted'[r] \in 1 .. Len(hist)
        BY <2>2, ReachedIn DEF Fuses, Reached
      <3> QED
        BY <1>1, <1>2, <2>2, <3>1 DEF Fuses, PlaceSound, INIT_SLOT
    <2>3. CASE \E f, end, through, paced : FoldedTo(r, f, end, through, paced)
      <3>1. PICK f, end, through, paced : FoldedTo(r, f, end, through, paced)
        BY <2>3
      <3>2. end \in 1 .. Len(hist)
        BY <3>1, ReachedIn DEF FoldedTo
      <3>3. /\ end \in Nat /\ through \in Nat /\ through <= end /\ committed[r] <= through
            /\ OpsTyped(end)
        <4>1. end \in Nat /\ through \in Nat /\ through <= end /\ committed[r] <= through
          BY <1>1, <3>1, <3>2 DEF FoldedTo
        <4> QED
          BY <1>1, <3>2, <4>1 DEF OpsTyped
      <3>4. f.slot \in committed[r] .. through /\ SoundTable(Node, f.table)
        BY <1>1, <3>1, <3>3, FoldSound DEF FoldedTo
      <3>5. committed'[r] = f.slot /\ table'[r] = f.table /\ f.slot <= accepted'[r]
            /\ through <= committed[Leader]
        BY <3>1 DEF FoldedTo
      <3>6. accepted'[r] \in 1 .. Len(hist)
        <4>1. CASE accepted'[r] = f.slot
          BY <1>1, <1>2, <3>2, <3>3, <3>4, <4>1 DEF PlaceSound, INIT_SLOT
        <4>2. CASE Reached(r, accepted'[r])
          BY <4>2, ReachedIn
        <4> QED
          BY <3>1, <4>1, <4>2 DEF FoldedTo
      <3> QED
        BY <1>1, <1>2, <3>3, <3>4, <3>5, <3>6 DEF PlaceSound, INIT_SLOT
    <2> QED
      BY <2>1, <2>2, <2>3 DEF Goes
  <1>5. PlaceSound(r)'
    <2>1. InWindow(table[r], ballot[r])'
      BY DEF Goes, InWindow
    <2> QED
      BY <1>2, <1>3, <1>4, <2>1 DEF PlaceSound, Goes
  <1>6. \A m \in msgs' \ msgs : MsgSound(m)'
    BY DEF Goes, Answers, MsgSound
  <1>7. Single(planned')
    BY DEF Goes, TInv
  <1> QED
    BY <1>1, <1>2, <1>5, <1>6, <1>7, Carried DEF Goes, TInv

-----------------------------------------------------------------------------
(* The steps of a follower.                                                *)

\* Publish moves what it names and the ballot of one replica.
LEMMA Published ==
  ASSUME Kept, NEW r \in Node, NEW st, NEW acc, NEW b, NEW f, Publish(r, st, acc, b, f),
         hist' = hist, msgs \subseteq msgs', DOMAIN stalled' = Node,
         \A n \in Node \ {r} : stalled'[n] = stalled[n]
  PROVE  /\ Still(r)
         /\ status'[r] = st /\ accepted'[r] = acc /\ committed'[r] = f.slot
         /\ table'[r] = f.table /\ InWindow(table'[r], ballot'[r]) /\ ballot'[r] = b
  <1>1. /\ status' = [status EXCEPT ![r] = st] /\ accepted' = [accepted EXCEPT ![r] = acc]
        /\ committed' = [committed EXCEPT ![r] = f.slot] /\ ballot' = [ballot EXCEPT ![r] = b]
        /\ table' = [table EXCEPT ![r] = f.table] /\ InWindow(f.table, b)
    BY DEF Publish
  <1>2. /\ status'[r] = st /\ accepted'[r] = acc /\ committed'[r] = f.slot
        /\ table'[r] = f.table /\ ballot'[r] = b
    BY <1>1 DEF Kept
  <1>3. Still(r)
    BY <1>1 DEF Still, Kept
  <1>4. InWindow(table'[r], ballot'[r])
    BY <1>1, <1>2
  <1> QED
    BY <1>2, <1>3, <1>4

\* A fault stops a replica where it is.
LEMMA FaultStays ==
  ASSUME TInv, NEW r \in Node, Fault(r)
  PROVE  Still(r) /\ Goes(r)
  <1>1. /\ UNCHANGED <<hist, accepted, committed, ballot, retained, status, table>>
        /\ UNCHANGED <<planned, stalled, msgs>>
    BY DEF Fault, leaderVars, fetchVars
  <1>2. Kept /\ PlaceSound(r)
    BY DEF TInv
  <1>3. Kept'
    BY <1>1, <1>2 DEF Kept
  <1>4. Still(r) /\ Stays(r) /\ Answers
    BY <1>1, <1>3 DEF Still, Stays, Answers
  <1>5. stalled'[r] = stalled[r] /\ status'[r] = status[r] /\ table'[r] = table[r]
        /\ ballot'[r] = ballot[r]
    BY <1>1
  <1> QED
    BY <1>1, <1>2, <1>4, <1>5 DEF Goes, PlaceSound, InWindow

\* A message of a later view fences the follower.
LEMMA HigherViewGoes ==
  ASSUME TInv, NEW r \in Node, NEW m, HigherView(r, m)
  PROVE  Goes(r)
  <1> DEFINE ask == [tag |-> "GetState", from |-> r, view |-> m.view, next |-> accepted[r] + 1]
  <1>1. /\ InWindow(table[r], m.view)
        /\ status' = [status EXCEPT ![r] = "ViewChange"]
        /\ ballot' = [ballot EXCEPT ![r] = m.view]
        /\ msgs' = msgs \cup {ask}
        /\ UNCHANGED <<hist, accepted, committed, table, planned, stalled>>
    BY DEF HigherView, Fetch, Send, leaderVars
  <1>2. Kept /\ PlaceSound(r) /\ accepted[r] \in Nat
    BY TInvTypes DEF TInv
  <1>3. Still(r) /\ Stays(r)
    BY <1>1, <1>2 DEF Still, Kept, Stays
  <1>4. ask.tag = "GetState" /\ ask.next = accepted[r] + 1
    OBVIOUS
  <1> HIDE DEF ask
  <1>5. Answers
    BY <1>1, <1>2, <1>4 DEF Answers
  <1>6. status'[r] = "ViewChange" /\ ballot'[r] = m.view /\ stalled'[r] = stalled[r]
        /\ table'[r] = table[r]
    BY <1>1, <1>2 DEF Kept
  <1> QED
    BY <1>1, <1>2, <1>3, <1>5, <1>6 DEF Goes, PlaceSound

\* Committing what a frontier covers, in the log up to acc.
LEMMA AdvanceGoes ==
  ASSUME TInv, NEW r \in Node, NEW acc, Reached(r, acc), accepted[r] <= acc,
         NEW frontier \in Nat, frontier <= committed[Leader],
         NEW sends, \A m \in sends : m.tag = "Ok", Advance(r, acc, frontier, sends)
  PROVE  Goes(r)
  <1> DEFINE through == AtLeast(committed[r], AtMost(frontier, acc))
  <1>1. /\ Kept /\ PlaceSound(r) /\ accepted[r] \in Nat /\ committed[r] \in Nat
        /\ committed[Leader] \in Nat /\ SoundTable(Node, table[r])
    BY TInvTypes, LeaderIn DEF TInv
  <1>2. acc \in Nat /\ OpsTyped(acc)
    <2>1. acc \in 1 .. Len(hist) /\ OpsTyped(Len(hist)) /\ Len(hist) \in Nat
      BY ReachedIn, TInvTypes
    <2> QED
      BY <2>1 DEF OpsTyped
  <1>3. /\ through \in Nat /\ through \in committed[r] .. acc /\ through <= acc
        /\ committed[r] <= through /\ through <= committed[Leader]
    BY <1>1, <1>2 DEF AtLeast, AtMost, PlaceSound
  <1>4. PICK f \in FoldCommitted(r, acc, through, TRUE) :
             \E b \in Walked(r, f) :
                \/ Doomed(r, b, f) /\ Fault(r)
                \/ /\ Publish(r, Adopted(r), acc, b, f)
                   /\ Send(sends)
                   /\ UNCHANGED <<hist, leaderVars, fetchVars>>
    BY DEF Advance
  <1>5. PICK b \in Walked(r, f) :
                \/ Doomed(r, b, f) /\ Fault(r)
                \/ /\ Publish(r, Adopted(r), acc, b, f)
                   /\ Send(sends)
                   /\ UNCHANGED <<hist, leaderVars, fetchVars>>
    BY <1>4
  <1>6. CASE Fault(r)
    BY <1>6, FaultStays
  <1>7. CASE /\ Publish(r, Adopted(r), acc, b, f)
             /\ Send(sends)
             /\ UNCHANGED <<hist, leaderVars, fetchVars>>
    <2>1. hist' = hist /\ msgs' = msgs \cup sends /\ stalled' = stalled /\ planned' = planned
      BY <1>7 DEF Send, leaderVars, fetchVars
    <2>2. /\ Still(r) /\ status'[r] = Adopted(r) /\ accepted'[r] = acc /\ committed'[r] = f.slot
          /\ table'[r] = f.table /\ InWindow(table'[r], ballot'[r])
      <3>1. msgs \subseteq msgs' /\ DOMAIN stalled' = Node
        BY <1>1, <2>1 DEF Kept
      <3> QED
        BY <1>1, <1>7, <2>1, <3>1, Published
    <2> HIDE DEF through
    <2>3. f.slot \in committed[r] .. through
      BY <1>1, <1>2, <1>3, FoldSound
    <2>4. FoldedTo(r, f, acc, through, TRUE)
      <3>1. f.slot <= acc /\ Reached(r, accepted'[r])
        BY <1>1, <1>2, <1>3, <2>2, <2>3
      <3>2. f \in FoldCommitted(r, acc, through, TRUE)
        OBVIOUS
      <3> QED
        BY <1>3, <2>2, <3>1, <3>2 DEF FoldedTo
    <2>5. Answers
      BY <2>1 DEF Answers
    <2>6. status'[r] \in {"Normal", "ViewChange", "Joining"}
      BY <1>1, <2>2 DEF Adopted, PlaceSound
    <2> QED
      BY <1>1, <2>1, <2>2, <2>4, <2>5, <2>6 DEF Goes, PlaceSound
  <1> QED
    BY <1>5, <1>6, <1>7

\* A follower takes a Prepare, with the commits it tells of.
LEMMA PrepareGoes ==
  ASSUME TInv, NEW r \in Node, ReceivePrepare(r)
  PROVE  Goes(r)
  <1>1. PICK m \in msgs :
          /\ Takes(r, m, "Prepare")
          /\ \/ HigherView(r, m)
             \/ /\ m.slot <= accepted[r]
                /\ Advance(r, accepted[r], m.committed, {Ok(r, m.slot)})
             \/ /\ AcceptsNext(r, m)
                /\ Advance(r, m.slot, m.committed, {Ok(r, m.slot)})
             \/ /\ Fetch(r, ballot[r], accepted[r] + 1)
                /\ UNCHANGED <<hist, progressVars, leaderVars, stalled>>
    BY DEF ReceivePrepare
  <1>2. /\ m.tag = "Prepare" /\ MsgSound(m) /\ Kept /\ PlaceSound(r)
        /\ accepted[r] \in Nat /\ committed[Leader] \in Nat
    BY <1>1, TInvTypes, LeaderIn DEF Takes, TInv
  <1>3. m.committed \in Nat /\ m.committed <= committed[Leader] /\ Ends(m, m.slot)
    BY <1>2 DEF MsgSound, Told, Ends
  <1>4. \A n \in {Ok(r, m.slot)} : n.tag = "Ok"
    BY DEF Ok
  <1>5. CASE HigherView(r, m)
    BY <1>5, HigherViewGoes
  <1>6. CASE Advance(r, accepted[r], m.committed, {Ok(r, m.slot)})
    <2>1. Reached(r, accepted[r]) /\ accepted[r] <= accepted[r]
      BY <1>2 DEF Reached
    <2> QED
      BY <1>3, <1>4, <1>6, <2>1, AdvanceGoes
  <1>7. CASE AcceptsNext(r, m) /\ Advance(r, m.slot, m.committed, {Ok(r, m.slot)})
    <2>1. m.slot = accepted[r] + 1
      BY <1>7 DEF AcceptsNext
    <2>2. Reached(r, m.slot) /\ accepted[r] <= m.slot
      BY <1>1, <1>2, <1>3, <2>1 DEF Reached
    <2> QED
      BY <1>3, <1>4, <1>7, <2>2, AdvanceGoes
  <1>8. CASE /\ Fetch(r, ballot[r], accepted[r] + 1)
             /\ UNCHANGED <<hist, progressVars, leaderVars, stalled>>
    <2> DEFINE ask == [tag |-> "GetState", from |-> r, view |-> ballot[r], next |-> accepted[r] + 1]
    <2>1. /\ UNCHANGED <<hist, accepted, committed, ballot, status, table, planned, stalled>>
          /\ msgs' = msgs \cup {ask}
      BY <1>8 DEF Fetch, Send, progressVars, leaderVars
    <2>2. ask.tag = "GetState" /\ ask.next = accepted[r] + 1
      OBVIOUS
    <2> HIDE DEF ask
    <2>3. Answers
      BY <1>2, <2>1, <2>2 DEF Answers
    <2>4. Still(r) /\ Stays(r)
      BY <1>2, <2>1 DEF Still, Kept, Stays
    <2>5. /\ status'[r] = status[r] /\ ballot'[r] = ballot[r] /\ stalled'[r] = stalled[r]
          /\ table'[r] = table[r]
      BY <2>1
    <2> QED
      BY <1>2, <2>1, <2>3, <2>4, <2>5 DEF Goes, PlaceSound
  <1> QED
    BY <1>1, <1>5, <1>6, <1>7, <1>8

\* A follower takes a fused batch.
LEMMA FuseGoes ==
  ASSUME TInv, NEW r \in Node, ReceiveFuse(r)
  PROVE  Goes(r)
  <1>1. PICK m \in msgs :
          /\ Takes(r, m, "Fuse")
          /\ \/ HigherView(r, m)
             \/ LET last == m.slot + Len(m.ops) - 1
                IN  /\ AcceptsFuse(r, m)
                    /\ accepted' = [accepted EXCEPT ![r] = last]
                    /\ status' = [status EXCEPT ![r] = Adopted(r)]
                    /\ Send({Ok(r, last)})
                    /\ UNCHANGED <<hist, committed, ballot, retained, table, fault,
                                   leaderVars, fetchVars>>
    BY DEF ReceiveFuse
  <1> DEFINE last == m.slot + Len(m.ops) - 1
  <1>2. /\ m.tag = "Fuse" /\ MsgSound(m) /\ Kept /\ PlaceSound(r) /\ accepted[r] \in Nat
    BY <1>1, TInvTypes DEF Takes, TInv
  <1>3. CASE HigherView(r, m)
    BY <1>3, HigherViewGoes
  <1>4. CASE /\ AcceptsFuse(r, m)
             /\ accepted' = [accepted EXCEPT ![r] = last]
             /\ status' = [status EXCEPT ![r] = Adopted(r)]
             /\ Send({Ok(r, last)})
             /\ UNCHANGED <<hist, committed, ballot, retained, table, fault,
                            leaderVars, fetchVars>>
    <2>1. /\ UNCHANGED <<hist, committed, ballot, table, planned, stalled>>
          /\ msgs' = msgs \cup {Ok(r, last)} /\ Ok(r, last).tag = "Ok"
      BY <1>4 DEF Send, leaderVars, fetchVars, Ok
    <2>2. Answers
      BY <2>1 DEF Answers
    <2>3. Still(r)
      BY <1>2, <1>4, <2>1 DEF Still, Kept
    <2>4. accepted'[r] = last /\ status'[r] = Adopted(r)
      BY <1>2, <1>4 DEF Kept
    <2>5. Fuses(r)
      <3>1. Len(m.ops) \in Nat /\ Len(m.ops) >= 2 /\ m.slot = accepted[r] + 1
        <4>1. PICK O : m.ops \in Seq(O)
          BY <1>2 DEF MsgSound
        <4> QED
          BY <1>2, <1>4, <4>1 DEF MsgSound, AcceptsFuse
      <3>2. Ends(m, accepted'[r]) /\ accepted[r] <= accepted'[r]
        BY <1>2, <2>4, <3>1 DEF Ends
      <3> QED
        BY <2>1, <3>2 DEF Fuses
    <2>6. /\ table'[r] = table[r] /\ ballot'[r] = ballot[r] /\ stalled'[r] = stalled[r]
          /\ status'[r] \in {"Normal", "ViewChange", "Joining"}
      BY <1>2, <2>1, <2>4 DEF Adopted, PlaceSound
    <2> QED
      BY <1>2, <2>1, <2>2, <2>3, <2>5, <2>6 DEF Goes, PlaceSound
  <1> QED
    BY <1>1, <1>3, <1>4

\* A follower commits what a Commit tells of.
LEMMA CommitGoes ==
  ASSUME TInv, NEW r \in Node, ReceiveCommit(r)
  PROVE  Goes(r)
  <1>1. PICK m \in msgs :
          /\ Takes(r, m, "Commit")
          /\ HigherView(r, m) \/ Advance(r, accepted[r], m.committed, {})
    BY DEF ReceiveCommit
  <1>2. m.tag = "Commit" /\ MsgSound(m) /\ accepted[r] \in Nat
    BY <1>1, TInvTypes DEF Takes, TInv
  <1>3. m.committed \in Nat /\ m.committed <= committed[Leader]
    BY <1>2 DEF MsgSound, Told
  <1>4. CASE HigherView(r, m)
    BY <1>4, HigherViewGoes
  <1>5. CASE Advance(r, accepted[r], m.committed, {})
    <2>1. Reached(r, accepted[r]) /\ accepted[r] <= accepted[r]
      BY <1>2 DEF Reached
    <2> QED
      BY <1>3, <1>5, <2>1, AdvanceGoes
  <1> QED
    BY <1>1, <1>4, <1>5

\* A step that only sends, fetches, or retains an announcement.
LEMMA QuietGoes ==
  ASSUME TInv, NEW r \in Node, UNCHANGED <<hist, progressVars, planned>>, msgs \subseteq msgs',
         Answers, DOMAIN stalled' = Node, \A n \in Node \ {r} : stalled'[n] = stalled[n],
         stalled'[r] \subseteq StartViews, Single(stalled'[r])
  PROVE  Still(r) /\ Goes(r)
  <1>1. UNCHANGED <<hist, accepted, committed, ballot, status, table, planned>>
    BY DEF progressVars
  <1>2. Kept /\ PlaceSound(r)
    BY DEF TInv
  <1>3. Still(r) /\ Stays(r)
    BY <1>1, <1>2 DEF Still, Kept, Stays
  <1>4. status'[r] = status[r] /\ ballot'[r] = ballot[r] /\ table'[r] = table[r]
    BY <1>1
  <1> QED
    BY <1>1, <1>2, <1>3, <1>4 DEF Goes, PlaceSound

\* What a replica asks for starts at an entry.
LEMMA FetchAnswers ==
  ASSUME NEW r, NEW view, NEW next \in Nat, next >= 1, Fetch(r, view, next)
  PROVE  msgs \subseteq msgs' /\ Answers
  <1> DEFINE ask == [tag |-> "GetState", from |-> r, view |-> view, next |-> next]
  <1>1. msgs' = msgs \cup {ask}
    BY DEF Fetch, Send
  <1>2. ask.tag = "GetState" /\ ask.next = next
    OBVIOUS
  <1> QED
    BY <1>1, <1>2 DEF Answers

\* Going on with a fetch sends a GetState or nothing.
LEMMA ContinueAnswers ==
  ASSUME NEW r, NEW goes, NEW view, NEW next \in Nat, next >= 1, Continue(r, goes, view, next)
  PROVE  msgs \subseteq msgs' /\ Answers
  <1>1. CASE Fetch(r, view, next)
    BY <1>1, FetchAnswers
  <1>2. CASE msgs' = msgs
    BY <1>2 DEF Answers
  <1> QED
    BY <1>1, <1>2 DEF Continue

\* Publishing a fold.
LEMMA FoldGoes ==
  ASSUME TInv, NEW r \in Node, NEW end, NEW through, NEW paced,
         NEW f \in FoldCommitted(r, end, through, paced),
         Reached(r, end), through \in committed[r] .. end, through <= committed[Leader],
         NEW st \in {"Normal", "ViewChange", "Joining"}, NEW acc, NEW b,
         Publish(r, st, acc, b, f), f.slot <= acc, acc = f.slot \/ Reached(r, acc),
         hist' = hist, planned' = planned, msgs \subseteq msgs', Answers,
         DOMAIN stalled' = Node, \A n \in Node \ {r} : stalled'[n] = stalled[n],
         stalled'[r] \subseteq StartViews, Single(stalled'[r])
  PROVE  Goes(r)
  <1>1. Kept
    BY DEF TInv
  <1>2. /\ Still(r) /\ status'[r] = st /\ accepted'[r] = acc /\ committed'[r] = f.slot
        /\ table'[r] = f.table /\ InWindow(table'[r], ballot'[r])
    BY <1>1, Published
  <1>3. FoldedTo(r, f, end, through, paced)
    BY <1>2 DEF FoldedTo
  <1> QED
    BY <1>2, <1>3 DEF Goes

\* The slots a fold can be at.
LEMMA FoldWithin ==
  ASSUME TInv, NEW r \in Node, NEW end, Reached(r, end), NEW through \in committed[r] .. end,
         NEW paced, NEW f \in FoldCommitted(r, end, through, paced)
  PROVE  f.slot \in committed[r] .. through /\ through \in Nat /\ end \in Nat
  <1>1. end \in 1 .. Len(hist) /\ OpsTyped(Len(hist)) /\ Len(hist) \in Nat
        /\ committed[r] \in Nat /\ SoundTable(Node, table[r])
    BY ReachedIn, TInvTypes
  <1>2. end \in Nat /\ through \in Nat /\ through <= end /\ committed[r] <= through
    BY <1>1
  <1>3. OpsTyped(end)
    BY <1>1 DEF OpsTyped
  <1> QED
    BY <1>1, <1>2, <1>3, FoldSound

\* A member takes a chunk of history.
LEMMA FollowerStateGoes ==
  ASSUME TInv, NEW r \in Node, NEW m \in msgs, m.tag = "NewState", m.through > accepted[r],
         FollowerState(r, m)
  PROVE  Goes(r)
  <1> DEFINE reach == IF status[r] = "Normal" /\ m.view = ballot[r]
                      THEN AtLeast(committed[r], AtMost(m.committed, m.through))
                      ELSE committed[r]
  <1>1. /\ MsgSound(m) /\ Kept /\ PlaceSound(r) /\ accepted[r] \in Nat /\ committed[r] \in Nat
        /\ committed[Leader] \in Nat
    BY TInvTypes, LeaderIn DEF TInv
  <1>2. m.committed \in Nat /\ m.committed <= committed[Leader] /\ m.through \in 1 .. Len(hist)
    BY <1>1 DEF MsgSound, Told
  <1>3. Reached(r, m.through) /\ m.through \in Nat
    BY TInvTypes, <1>2 DEF Reached, Ends
  <1>4. reach \in committed[r] .. m.through /\ reach <= committed[Leader]
    BY <1>1, <1>2, <1>3 DEF AtLeast, AtMost, PlaceSound
  <1>5. PICK f \in FoldCommitted(r, m.through, reach, TRUE) :
           \E b \in Walked(r, f) :
              \/ Doomed(r, b, f) /\ Fault(r)
              \/ /\ Publish(r, status[r], m.through, b, f)
                 /\ Continue(r, m.more, m.view, m.through + 1)
                 /\ UNCHANGED <<hist, leaderVars, stalled>>
    BY DEF FollowerState
  <1>6. PICK b \in Walked(r, f) :
              \/ Doomed(r, b, f) /\ Fault(r)
              \/ /\ Publish(r, status[r], m.through, b, f)
                 /\ Continue(r, m.more, m.view, m.through + 1)
                 /\ UNCHANGED <<hist, leaderVars, stalled>>
    BY <1>5
  <1>7. f \in FoldCommitted(r, m.through, reach, TRUE)
    OBVIOUS
  <1> HIDE DEF reach
  <1>8. CASE Fault(r)
    BY <1>8, FaultStays
  <1>9. CASE /\ Publish(r, status[r], m.through, b, f)
             /\ Continue(r, m.more, m.view, m.through + 1)
             /\ UNCHANGED <<hist, leaderVars, stalled>>
    <2>1. hist' = hist /\ planned' = planned /\ stalled' = stalled
      BY <1>9 DEF leaderVars
    <2>2. msgs \subseteq msgs' /\ Answers
      <3>1. m.through + 1 \in Nat /\ m.through + 1 >= 1
        BY <1>3
      <3> QED
        BY <1>9, <3>1, ContinueAnswers
    <2>3. f.slot <= m.through
      <3>1. f.slot \in committed[r] .. reach /\ reach \in Nat
        BY <1>3, <1>4, <1>7, FoldWithin
      <3> QED
        BY <1>1, <1>3, <1>4, <3>1
    <2>4. /\ DOMAIN stalled' = Node /\ \A n \in Node \ {r} : stalled'[n] = stalled[n]
          /\ stalled'[r] \subseteq StartViews /\ Single(stalled'[r])
      BY <1>1, <2>1 DEF Kept, PlaceSound
    <2>5. status[r] \in {"Normal", "ViewChange", "Joining"}
      BY <1>1 DEF PlaceSound
    <2> QED
      BY <1>3, <1>4, <1>7, <1>9, <2>1, <2>2, <2>3, <2>4, <2>5, FoldGoes
  <1> QED
    BY <1>6, <1>8, <1>9

\* An entry node takes a chunk of history.
LEMMA BootStateGoes ==
  ASSUME TInv, NEW r \in Node, NEW m \in msgs, m.tag = "NewState", m.through > accepted[r],
         BootState(r, m)
  PROVE  Goes(r)
  <1> DEFINE cap == {AtMost(o.committed, m.committed) : o \in stalled[r]}
             take == IF cap = {} THEN m.committed ELSE Min(cap)
             reach == AtLeast(committed[r], AtMost(take, m.through))
             Walks(f) == f.halt = "Window" /\ Current(f.table).config.era > ballot[r].era
             Goal(f, b, acc) ==
                \/ Doomed(r, b, f) /\ Fault(r)
                \/ /\ Publish(r, status[r], acc, b, f)
                   /\ Continue(r, m.more \/ Walks(f) \/ (f.slot < m.through /\ acc > accepted[r]),
                               b, acc + 1)
                   /\ UNCHANGED <<hist, leaderVars, stalled>>
  <1>1. /\ MsgSound(m) /\ Kept /\ PlaceSound(r) /\ accepted[r] \in Nat /\ committed[r] \in Nat
        /\ committed[Leader] \in Nat
    BY TInvTypes, LeaderIn DEF TInv
  <1>2. m.committed \in Nat /\ m.committed <= committed[Leader] /\ m.through \in 1 .. Len(hist)
    BY <1>1 DEF MsgSound, Told
  <1>3. Reached(r, m.through) /\ m.through \in Nat
    BY TInvTypes, <1>2 DEF Reached, Ends
  <1>4. take \in Nat /\ take <= committed[Leader]
    <2>1. CASE cap = {}
      BY <1>2, <2>1
    <2>2. CASE cap # {}
      <3>1. PICK o \in stalled[r] : TRUE
        BY <2>2
      <3>2. stalled[r] = {o} /\ o \in msgs /\ o.tag = "StartView"
        BY <1>1, <3>1 DEF PlaceSound, Single, StartViews
      <3>3. o.committed \in Nat
        BY <3>2 DEF TInv, MsgSound, Told
      <3> DEFINE x == AtMost(o.committed, m.committed)
      <3>4. x \in Nat /\ x <= committed[Leader] /\ cap = {x}
        BY <1>1, <1>2, <3>2, <3>3 DEF AtMost
      <3> HIDE DEF x
      <3>5. Min({x}) = x
        BY <3>4 DEF Min
      <3> QED
        BY <3>4, <3>5
    <2> QED
      BY <2>1, <2>2
  <1> HIDE DEF take
  <1>5. reach \in committed[r] .. m.through /\ reach <= committed[Leader]
    BY <1>1, <1>2, <1>3, <1>4 DEF AtLeast, AtMost, PlaceSound
  <1>6. PICK f \in FoldCommitted(r, m.through, reach, TRUE) :
           \E b \in IF Walks(f) THEN {[era |-> ballot[r].era + 1, view |-> ballot[r].view + 1]}
                    ELSE {ballot[r]} :
              \E acc \in {AtLeast(accepted[r], f.slot)} : Goal(f, b, acc)
    BY DEF BootState, take
  <1>7. PICK b, acc : acc = AtLeast(accepted[r], f.slot) /\ Goal(f, b, acc)
    BY <1>6
  <1>8. f \in FoldCommitted(r, m.through, reach, TRUE)
    OBVIOUS
  <1> HIDE DEF reach
  <1>9. CASE Fault(r)
    BY <1>9, FaultStays
  <1>10. CASE /\ Publish(r, status[r], acc, b, f)
              /\ Continue(r, m.more \/ Walks(f) \/ (f.slot < m.through /\ acc > accepted[r]),
                          b, acc + 1)
              /\ UNCHANGED <<hist, leaderVars, stalled>>
    <2>1. hist' = hist /\ planned' = planned /\ stalled' = stalled
      BY <1>10 DEF leaderVars
    <2>2. f.slot \in Nat
      <3>1. f.slot \in committed[r] .. reach /\ reach \in Nat
        BY <1>3, <1>5, <1>8, FoldWithin
      <3> QED
        BY <1>1, <3>1
    <2>3. acc \in Nat /\ f.slot <= acc /\ (acc = f.slot \/ acc = accepted[r])
      BY <1>1, <1>7, <2>2 DEF AtLeast
    <2>4. msgs \subseteq msgs' /\ Answers
      <3>1. acc + 1 \in Nat /\ acc + 1 >= 1
        BY <2>3
      <3> QED
        BY <1>10, <3>1, ContinueAnswers
    <2>5. acc = f.slot \/ Reached(r, acc)
      BY <2>3 DEF Reached
    <2>6. /\ DOMAIN stalled' = Node /\ \A n \in Node \ {r} : stalled'[n] = stalled[n]
          /\ stalled'[r] \subseteq StartViews /\ Single(stalled'[r])
      BY <1>1, <2>1 DEF Kept, PlaceSound
    <2>7. status[r] \in {"Normal", "ViewChange", "Joining"}
      BY <1>1 DEF PlaceSound
    <2> QED
      BY <1>3, <1>5, <1>8, <1>10, <2>1, <2>3, <2>4, <2>5, <2>6, <2>7, FoldGoes
  <1> QED
    BY <1>7, <1>9, <1>10

\* A NewState is dropped, closes the fetch, or brings a chunk.
LEMMA NewStateGoes ==
  ASSUME TInv, NEW r \in Node, ReceiveNewState(r)
  PROVE  Goes(r)
  <1>1. PICK m \in msgs :
          /\ Takes(r, m, "NewState")
          /\ \/ UNCHANGED <<hist, progressVars, leaderVars, stalled, msgs>>
             \/ /\ m.through > accepted[r]
                /\ \/ BootState(r, m)
                   \/ FollowerState(r, m)
    BY DEF ReceiveNewState
  <1>2. m.tag = "NewState" /\ Kept /\ PlaceSound(r)
    BY <1>1 DEF Takes, TInv
  <1>3. CASE UNCHANGED <<hist, progressVars, leaderVars, stalled, msgs>>
    <2>1. /\ UNCHANGED <<hist, progressVars, planned>> /\ msgs' = msgs /\ stalled' = stalled
      BY <1>3 DEF leaderVars
    <2>2. Answers
      BY <2>1 DEF Answers
    <2>3. /\ DOMAIN stalled' = Node /\ \A n \in Node \ {r} : stalled'[n] = stalled[n]
          /\ stalled'[r] \subseteq StartViews /\ Single(stalled'[r])
      BY <1>2, <2>1 DEF Kept, PlaceSound
    <2> QED
      BY <2>1, <2>2, <2>3, QuietGoes
  <1> QED
    BY <1>1, <1>2, <1>3, BootStateGoes, FollowerStateGoes

\* A follower answers the solicitation of a planned overlap.
LEMMA PlannedViewChangeGoes ==
  ASSUME TInv, NEW r \in Node, ReceivePlannedViewChange(r)
  PROVE  Goes(r)
  <1> DEFINE answer(m) == [tag |-> "DoViewChange", from |-> r, view |-> m.view,
                           proof |-> Proof(r, ballot[r].era)]
             ask == [tag |-> "GetState", from |-> r, view |-> ballot[r],
                     next |-> accepted[r] + 1]
  <1>1. PICK m \in msgs :
          /\ \/ Send({answer(m)} \cup {}) \/ Send({answer(m)} \cup {ask})
          /\ UNCHANGED <<hist, progressVars, leaderVars, stalled>>
    BY DEF ReceivePlannedViewChange
  <1>2. Kept /\ PlaceSound(r) /\ accepted[r] \in Nat
    BY TInvTypes DEF TInv
  <1>3. ask.tag = "GetState" /\ ask.next = accepted[r] + 1 /\ answer(m).tag = "DoViewChange"
    OBVIOUS
  <1>4. /\ UNCHANGED <<hist, progressVars, planned>> /\ stalled' = stalled
        /\ msgs' = msgs \cup {answer(m)} \/ msgs' = msgs \cup {answer(m), ask}
    BY <1>1 DEF leaderVars, Send
  <1> HIDE DEF ask, answer
  <1>5. msgs \subseteq msgs' /\ Answers
    BY <1>2, <1>3, <1>4 DEF Answers
  <1>6. /\ DOMAIN stalled' = Node /\ \A n \in Node \ {r} : stalled'[n] = stalled[n]
        /\ stalled'[r] \subseteq StartViews /\ Single(stalled'[r])
    BY <1>2, <1>4 DEF Kept, PlaceSound
  <1> QED
    BY <1>4, <1>5, <1>6, QuietGoes

\* A follower retains a StartView, fetches its history, or adopts it.
LEMMA StartViewGoes ==
  ASSUME TInv, NEW r \in Node, NEW m \in msgs, m.tag = "StartView", StartView(r, m)
  PROVE  Goes(r)
  <1> DEFINE end == AtLeast(accepted[r], m.accepted)
             Retained == /\ stalled' = [stalled EXCEPT ![r] = {m}]
                         /\ \/ Fetch(r, ballot[r], committed[r] + 1)
                            \/ Fetch(r, m.view, accepted[r] + 1)
                            \/ UNCHANGED <<transfer, msgs>>
                         /\ UNCHANGED <<hist, progressVars, leaderVars>>
             Adopts(f) == /\ m.committed >= committed[r]
                          /\ Publish(r, "Normal", m.accepted, m.view, f)
                          /\ stalled' = [stalled EXCEPT ![r] = {}]
                          /\ UNCHANGED <<hist, leaderVars, transfer, msgs>>
  <1>1. /\ MsgSound(m) /\ Kept /\ PlaceSound(r) /\ accepted[r] \in Nat /\ committed[r] \in Nat
        /\ committed[Leader] \in Nat
    BY TInvTypes, LeaderIn DEF TInv
  <1>2. /\ m.committed \in Nat /\ m.committed <= committed[Leader] /\ m.accepted \in Nat
        /\ m.committed <= m.accepted
    BY <1>1, TInvTypes DEF MsgSound, Told, INIT_SLOT
  <1>3. Reached(r, m.accepted) /\ Reached(r, end) /\ end \in Nat /\ m.accepted <= end
    <2>1. Reached(r, m.accepted)
      BY DEF Reached, Ends
    <2>2. end = accepted[r] \/ end = m.accepted
      BY DEF AtLeast
    <2>3. Reached(r, end)
      BY <2>1, <2>2 DEF Reached
    <2> QED
      BY <1>1, <1>2, <2>1, <2>3 DEF AtLeast
  <1>4. PICK f \in FoldCommitted(r, end, m.committed, FALSE) :
             Retained \/ Fault(r) \/ Adopts(f)
    BY DEF StartView
  <1>5. f \in FoldCommitted(r, end, m.committed, FALSE)
    OBVIOUS
  <1>6. StartViews \subseteq msgs /\ m \in StartViews
    BY DEF StartViews
  <1> HIDE DEF end
  <1>7. CASE Retained
    <2>1. /\ stalled' = [stalled EXCEPT ![r] = {m}]
          /\ UNCHANGED <<hist, progressVars, planned>>
      BY <1>7 DEF leaderVars
    <2>2. msgs \subseteq msgs' /\ Answers
      <3>1. CASE Fetch(r, ballot[r], committed[r] + 1)
        <4>1. committed[r] + 1 \in Nat /\ committed[r] + 1 >= 1
          BY <1>1
        <4> QED
          BY <3>1, <4>1, FetchAnswers
      <3>2. CASE Fetch(r, m.view, accepted[r] + 1)
        <4>1. accepted[r] + 1 \in Nat /\ accepted[r] + 1 >= 1
          BY <1>1
        <4> QED
          BY <3>2, <4>1, FetchAnswers
      <3>3. CASE msgs' = msgs
        BY <3>3 DEF Answers
      <3> QED
        BY <1>7, <3>1, <3>2, <3>3
    <2>3. DOMAIN stalled' = Node /\ stalled'[r] = {m} /\ \A n \in Node \ {r} : stalled'[n] = stalled[n]
      BY <1>1, <2>1 DEF Kept
    <2>4. stalled'[r] \subseteq StartViews /\ Single(stalled'[r])
      BY <1>6, <2>3 DEF Single
    <2> QED
      BY <2>1, <2>2, <2>3, <2>4, QuietGoes
  <1>8. CASE Fault(r)
    BY <1>8, FaultStays
  <1>9. CASE Adopts(f)
    <2>1. /\ stalled' = [stalled EXCEPT ![r] = {}] /\ hist' = hist /\ planned' = planned
          /\ msgs' = msgs /\ m.committed >= committed[r]
          /\ Publish(r, "Normal", m.accepted, m.view, f)
      BY <1>9 DEF leaderVars
    <2>2. /\ DOMAIN stalled' = Node /\ stalled'[r] = {}
          /\ \A n \in Node \ {r} : stalled'[n] = stalled[n]
      BY <1>1, <2>1 DEF Kept
    <2>3. stalled'[r] \subseteq StartViews /\ Single(stalled'[r]) /\ Answers
      BY <2>1, <2>2 DEF Single, Answers
    <2>4. m.committed \in committed[r] .. end
      BY <1>1, <1>2, <1>3, <2>1
    <2>5. f.slot <= m.accepted
      <3>1. f.slot \in committed[r] .. m.committed
        BY <1>3, <1>5, <2>4, FoldWithin
      <3> QED
        BY <1>1, <1>2, <3>1
    <2>6. "Normal" \in {"Normal", "ViewChange", "Joining"} /\ msgs \subseteq msgs'
      BY <2>1
    <2> QED
      BY <1>2, <1>3, <1>5, <2>1, <2>2, <2>3, <2>4, <2>5, <2>6, FoldGoes
  <1> QED
    BY <1>4, <1>7, <1>8, <1>9

\* Every step of a replica that follows.
LEMMA FollowingGoes ==
  ASSUME TInv, NEW r \in Node, Following(r)
  PROVE  Goes(r)
  <1>1. CASE ReceiveStartView(r)
    <2>1. PICK m \in msgs : Takes(r, m, "StartView") /\ StartView(r, m)
      BY <1>1 DEF ReceiveStartView
    <2>2. m.tag = "StartView"
      BY <2>1 DEF Takes
    <2> QED
      BY <2>1, <2>2, StartViewGoes
  <1>2. CASE Resume(r)
    <2>1. PICK m \in stalled[r] : StartView(r, m)
      BY <1>2 DEF Resume
    <2>2. m \in msgs /\ m.tag = "StartView"
      BY <2>1 DEF TInv, PlaceSound, StartViews
    <2> QED
      BY <2>1, <2>2, StartViewGoes
  <1> QED
    BY <1>1, <1>2, PrepareGoes, FuseGoes, CommitGoes, NewStateGoes, PlannedViewChangeGoes
       DEF Following

-----------------------------------------------------------------------------
(* The steps in which the leader commits and tells.                        *)

\* What the leader's step does when it orders nothing. Its fold is of its own
\* log, as far as a frontier.
LeaderFolds(f, through) ==
    /\ f \in FoldCommitted(Leader, accepted[Leader], through, TRUE)
    /\ through \in committed[Leader] .. accepted[Leader]
    /\ committed'[Leader] = f.slot /\ table'[Leader] = f.table

\* What the leader tells of what it has.
Tells ==
    \A m \in msgs' \ msgs :
        /\ m.tag \in {"Commit", "PlannedViewChange", "NewState", "StartView"}
        /\ m.tag = "Commit" => m.committed = committed'[Leader]
        /\ m.tag = "NewState" =>
              /\ m.committed = committed'[Leader] /\ m.through \in 1 .. accepted[Leader]
              /\ \E n \in msgs : /\ n.tag = "GetState"
                                 /\ m.through = AtMost(accepted[Leader], n.next + Budget - 1)
        /\ m.tag = "StartView" =>
              m.committed = committed'[Leader] /\ m.accepted = accepted[Leader]

Leads1 ==
    /\ Still(Leader) /\ Single(planned') /\ Tells
    /\ accepted'[Leader] = accepted[Leader] /\ stalled'[Leader] = stalled[Leader]
    /\ status'[Leader] \in {"Normal", "ViewChange", "Joining"}
    /\ InWindow(table'[Leader], ballot'[Leader])
    /\ \/ committed'[Leader] = committed[Leader] /\ table'[Leader] = table[Leader]
       \/ \E f, through : LeaderFolds(f, through)

\* The invariant survives what the leader commits and tells.
LEMMA Leads1Carried == ASSUME TInv, Leads1 PROVE TInv'
  <1>1. /\ Len(hist) \in Nat /\ OpsTyped(Len(hist)) /\ Leader \in Node /\ PlaceSound(Leader)
        /\ accepted[Leader] = Len(hist) /\ committed[Leader] \in Nat
        /\ SoundTable(Node, table[Leader])
    BY TInvTypes, LeaderIn DEF TInv
  <1>2. /\ committed'[Leader] \in committed[Leader] .. accepted[Leader]
        /\ SoundTable(Node, table'[Leader])
    <2>1. CASE committed'[Leader] = committed[Leader] /\ table'[Leader] = table[Leader]
      BY <1>1, <2>1 DEF PlaceSound
    <2>2. CASE \E f, through : LeaderFolds(f, through)
      <3>1. PICK f, through : LeaderFolds(f, through)
        BY <2>2
      <3>2. /\ f \in FoldCommitted(Leader, Len(hist), through, TRUE)
            /\ through \in committed[Leader] .. Len(hist)
            /\ committed'[Leader] = f.slot /\ table'[Leader] = f.table
        BY <1>1, <3>1 DEF LeaderFolds
      <3>3. through \in Nat /\ through <= Len(hist) /\ committed[Leader] <= through
        BY <1>1, <3>2
      <3>4. f.slot \in committed[Leader] .. through /\ SoundTable(Node, f.table)
        BY <1>1, <3>2, <3>3, FoldSound
      <3> QED
        BY <1>1, <3>2, <3>3, <3>4
    <2> QED
      BY <2>1, <2>2 DEF Leads1
  <1>3. /\ hist' = hist /\ msgs \subseteq msgs' /\ StartViews \subseteq StartViews'
        /\ accepted'[Leader] = accepted[Leader] /\ stalled'[Leader] = stalled[Leader]
    BY DEF Leads1, Still, StartViews
  <1>4. committed'[Leader] \in Nat /\ committed[Leader] <= committed'[Leader]
    BY <1>1, <1>2
  <1>5. PlaceSound(Leader)'
    <2>1. committed'[Leader] \in INIT_SLOT .. accepted'[Leader]
      BY <1>1, <1>2, <1>3 DEF PlaceSound, INIT_SLOT
    <2>2. InWindow(table[Leader], ballot[Leader])'
      BY DEF Leads1, InWindow
    <2> QED
      BY <1>1, <1>2, <1>3, <1>4, <2>1, <2>2 DEF PlaceSound, Leads1
  <1>6. ASSUME NEW m \in msgs' \ msgs PROVE MsgSound(m)'
    <2>1. accepted[Leader] \in INIT_SLOT .. Len(hist)
      BY <1>1 DEF PlaceSound
    <2> QED
      BY <1>1, <1>2, <1>3, <1>4, <1>6, <2>1 DEF Leads1, Tells, MsgSound, Told
  <1> QED
    BY <1>1, <1>3, <1>4, <1>5, <1>6, Carried DEF Leads1

\* Serving history tells of what the leader has.
LEMMA ServeStateLeads == ASSUME TInv, ServeState PROVE Leads1
  <1>1. PICK m \in msgs :
          LET through == AtMost(accepted[Leader], m.next + Budget - 1)
          IN  /\ m.tag = "GetState"
              /\ through >= m.next
              /\ Send({[tag |-> "NewState", to |-> {m.from}, view |-> m.view,
                        first |-> m.next, through |-> through,
                        committed |-> committed[Leader],
                        more |-> through < accepted[Leader]]})
              /\ UNCHANGED <<hist, progressVars, leaderVars, fetchVars>>
    BY DEF ServeState
  <1> DEFINE through == AtMost(accepted[Leader], m.next + Budget - 1)
             chunk == [tag |-> "NewState", to |-> {m.from}, view |-> m.view,
                       first |-> m.next, through |-> through,
                       committed |-> committed[Leader],
                       more |-> through < accepted[Leader]]
  <1>2. /\ UNCHANGED <<hist, accepted, committed, ballot, status, table, planned, stalled>>
        /\ msgs' = msgs \cup {chunk} /\ m.tag = "GetState" /\ through >= m.next
    BY <1>1 DEF Send, progressVars, leaderVars, fetchVars
  <1>3. /\ Kept /\ PlaceSound(Leader) /\ Leader \in Node /\ MsgSound(m) /\ Single(planned)
        /\ accepted[Leader] \in Nat
    BY TInvTypes, LeaderIn DEF TInv
  <1>4. through \in 1 .. accepted[Leader]
    <2>1. m.next \in Nat /\ m.next >= 1 /\ Budget \in Nat
      BY <1>2, <1>3, ReconfigurationAssumption DEF MsgSound
    <2> QED
      BY <1>2, <1>3, <2>1 DEF AtMost
  <1>5. /\ chunk.tag = "NewState" /\ chunk.committed = committed[Leader]
        /\ chunk.through = through
    OBVIOUS
  <1>6. through = AtMost(accepted[Leader], m.next + Budget - 1)
    OBVIOUS
  <1> HIDE DEF chunk, through
  <1>7. Tells
    BY <1>2, <1>4, <1>5, <1>6 DEF Tells
  <1>8. Still(Leader)
    BY <1>2, <1>3 DEF Still, Kept
  <1>9. /\ accepted'[Leader] = accepted[Leader] /\ stalled'[Leader] = stalled[Leader]
        /\ status'[Leader] = status[Leader] /\ table'[Leader] = table[Leader]
        /\ ballot'[Leader] = ballot[Leader] /\ committed'[Leader] = committed[Leader]
    BY <1>2
  <1> QED
    BY <1>2, <1>3, <1>7, <1>8, <1>9 DEF Leads1, PlaceSound

\* The leader commits what a tally covers.
LEMMA FinishLeads ==
  ASSUME TInv, NEW through \in committed[Leader] .. accepted[Leader], NEW tally,
         FinishCommitQuorum(through, tally)
  PROVE  Leads1
  <1>1. /\ Kept /\ PlaceSound(Leader) /\ Leader \in Node /\ Single(planned)
        /\ accepted[Leader] \in Nat /\ committed[Leader] \in Nat
    BY TInvTypes, LeaderIn DEF TInv
  <1> DEFINE Commits(f) == [tag |-> "Commit", to |-> Backups, view |-> ballot[Leader],
                            committed |-> f.slot]
             Asks(f) == {[tag |-> "PlannedViewChange", to |-> p.pivot.q_i \ {Leader},
                          view |-> p.target] : p \in Solicits(f)}
             Marked(f, p) == IF p \in Solicits(f) THEN [p EXCEPT !.solicited = TRUE] ELSE p
             Turned(f) == {Marked(f, p) : p \in planned}
  <1>2. PICK f \in FoldCommitted(Leader, accepted[Leader], through, TRUE) :
           \E b \in Walked(Leader, f) :
              \/ UNCHANGED <<hist, progressVars, planned, fetchVars, msgs>>
              \/ Fault(Leader)
              \/ /\ Publish(Leader, "Normal", accepted[Leader], b, f)
                 /\ planned' = Turned(f)
                 /\ Send({Commits(f)} \cup Asks(f))
                 /\ UNCHANGED <<hist, fetchVars>>
    BY DEF FinishCommitQuorum
  <1>3. PICK b \in Walked(Leader, f) :
              \/ UNCHANGED <<hist, progressVars, planned, fetchVars, msgs>>
              \/ Fault(Leader)
              \/ /\ Publish(Leader, "Normal", accepted[Leader], b, f)
                 /\ planned' = Turned(f)
                 /\ Send({Commits(f)} \cup Asks(f))
                 /\ UNCHANGED <<hist, fetchVars>>
    BY <1>2
  <1>4. CASE \/ UNCHANGED <<hist, progressVars, planned, fetchVars, msgs>>
             \/ Fault(Leader)
    <2>1. UNCHANGED <<hist, accepted, committed, ballot, status, table, planned, stalled, msgs>>
      BY <1>4 DEF progressVars, fetchVars, Fault, leaderVars
    <2>2. Still(Leader)
      BY <1>1, <2>1 DEF Still, Kept
    <2>3. Tells
      BY <2>1 DEF Tells
    <2>4. /\ accepted'[Leader] = accepted[Leader] /\ stalled'[Leader] = stalled[Leader]
          /\ status'[Leader] = status[Leader] /\ table'[Leader] = table[Leader]
          /\ ballot'[Leader] = ballot[Leader] /\ committed'[Leader] = committed[Leader]
      BY <2>1
    <2> QED
      BY <1>1, <2>1, <2>2, <2>3, <2>4 DEF Leads1, PlaceSound
  <1>5. CASE /\ Publish(Leader, "Normal", accepted[Leader], b, f)
             /\ planned' = Turned(f)
             /\ Send({Commits(f)} \cup Asks(f))
             /\ UNCHANGED <<hist, fetchVars>>
    <2>1. /\ hist' = hist /\ stalled' = stalled /\ msgs' = msgs \cup {Commits(f)} \cup Asks(f)
          /\ msgs \subseteq msgs'
      BY <1>5 DEF fetchVars, Send
    <2>2. /\ Still(Leader) /\ status'[Leader] = "Normal" /\ accepted'[Leader] = accepted[Leader]
          /\ committed'[Leader] = f.slot /\ table'[Leader] = f.table
          /\ InWindow(table'[Leader], ballot'[Leader])
      <3>1. DOMAIN stalled' = Node /\ \A n \in Node \ {Leader} : stalled'[n] = stalled[n]
        BY <1>1, <2>1 DEF Kept
      <3> QED
        BY <1>1, <1>5, <2>1, <3>1, Published
    <2>3. /\ Commits(f).tag = "Commit" /\ Commits(f).committed = f.slot
          /\ \A m \in Asks(f) : m.tag = "PlannedViewChange"
      OBVIOUS
    <2>4. Single(planned')
      <3> HIDE DEF Marked
      <3> QED
        BY <1>1, <1>5 DEF Single
    <2> HIDE DEF Commits, Asks
    <2>5. Tells
      BY <2>1, <2>2, <2>3 DEF Tells
    <2>6. LeaderFolds(f, through)
      BY <1>2, <2>2 DEF LeaderFolds
    <2> QED
      BY <2>1, <2>2, <2>4, <2>5, <2>6 DEF Leads1
  <1> QED
    BY <1>3, <1>4, <1>5

\* A vote is counted, and may commit.
LEMMA ReceiveOkLeads == ASSUME TInv, ReceiveOk PROVE Leads1
  <1>1. \E votes, tally : FinishCommitQuorum(CascadeFrontier(votes), tally)
    BY DEF ReceiveOk
  <1>2. PICK votes, tally : FinishCommitQuorum(CascadeFrontier(votes), tally)
    BY <1>1
  <1>3. PlaceSound(Leader) /\ committed[Leader] \in Nat /\ accepted[Leader] \in Nat
    BY TInvTypes, LeaderIn DEF TInv
  <1>4. CascadeFrontier(votes) \in committed[Leader] .. accepted[Leader]
    BY <1>3, FrontierIn DEF PlaceSound
  <1> QED
    BY <1>2, <1>4, FinishLeads

\* Evidence is counted, and may install the planned view.
LEMMA EvidenceLeads == ASSUME TInv, ReceivePlannedEvidence PROVE Leads1
  <1> DEFINE same == [slot |-> committed[Leader], table |-> table[Leader],
                      halt |-> "no", running |-> {}]
             view(p) == [tag |-> "StartView",
                         to |-> Members(Config(Leader)) \ {Leader},
                         view |-> p.target,
                         first |-> AtLeast(1, accepted[Leader] - Budget + 1),
                         accepted |-> accepted[Leader],
                         committed |-> committed[Leader],
                         proof |-> Proof(Leader, p.target.era)]
  <1>1. PICK m \in msgs, p \in planned :
           \/ /\ planned' = {[p EXCEPT !.evidence = p.evidence \cup {m.from}]}
              /\ UNCHANGED <<hist, progressVars, oks, fetchVars, msgs>>
           \/ /\ Publish(Leader, "Normal", accepted[Leader], p.target, same)
              /\ planned' = {}
              /\ Send({view(p)})
              /\ UNCHANGED <<hist, oks, fetchVars>>
    BY DEF ReceivePlannedEvidence
  <1>2. Kept /\ PlaceSound(Leader) /\ Leader \in Node
    BY LeaderIn DEF TInv
  <1>3. CASE /\ planned' = {[p EXCEPT !.evidence = p.evidence \cup {m.from}]}
             /\ UNCHANGED <<hist, progressVars, oks, fetchVars, msgs>>
    <2>1. UNCHANGED <<hist, accepted, committed, ballot, status, table, stalled, msgs>>
      BY <1>3 DEF progressVars, fetchVars
    <2>2. Still(Leader)
      BY <1>2, <2>1 DEF Still, Kept
    <2>3. Tells
      BY <2>1 DEF Tells
    <2>4. Single(planned')
      BY <1>3 DEF Single
    <2>5. /\ accepted'[Leader] = accepted[Leader] /\ stalled'[Leader] = stalled[Leader]
          /\ status'[Leader] = status[Leader] /\ table'[Leader] = table[Leader]
          /\ ballot'[Leader] = ballot[Leader] /\ committed'[Leader] = committed[Leader]
      BY <2>1
    <2> QED
      BY <1>2, <2>2, <2>3, <2>4, <2>5 DEF Leads1, PlaceSound
  <1>4. CASE /\ Publish(Leader, "Normal", accepted[Leader], p.target, same)
             /\ planned' = {}
             /\ Send({view(p)})
             /\ UNCHANGED <<hist, oks, fetchVars>>
    <2>1. hist' = hist /\ stalled' = stalled /\ msgs' = msgs \cup {view(p)} /\ msgs \subseteq msgs'
      BY <1>4 DEF fetchVars, Send
    <2>2. same.slot = committed[Leader] /\ same.table = table[Leader]
      OBVIOUS
    <2>3. /\ view(p).tag = "StartView" /\ view(p).committed = committed[Leader]
          /\ view(p).accepted = accepted[Leader]
      OBVIOUS
    <2> HIDE DEF same, view
    <2>4. /\ Still(Leader) /\ status'[Leader] = "Normal" /\ accepted'[Leader] = accepted[Leader]
          /\ committed'[Leader] = same.slot /\ table'[Leader] = same.table
          /\ InWindow(table'[Leader], ballot'[Leader])
      <3>1. DOMAIN stalled' = Node /\ \A n \in Node \ {Leader} : stalled'[n] = stalled[n]
        BY <1>2, <2>1 DEF Kept
      <3> QED
        BY <1>2, <1>4, <2>1, <3>1, Published
    <2>5. Tells
      BY <2>1, <2>2, <2>3, <2>4 DEF Tells
    <2>6. Single(planned')
      BY <1>4 DEF Single
    <2> QED
      BY <2>1, <2>2, <2>4, <2>5, <2>6 DEF Leads1
  <1> QED
    BY <1>1, <1>3, <1>4

-----------------------------------------------------------------------------
(* The steps in which the leader orders.                                   *)

\* What the leader says of the entries es it orders.
Announces(m, es) ==
    \/ /\ m.tag = "Prepare" /\ Len(es) = 1
       /\ m.slot = Len(hist) + 1 /\ m.committed = committed[Leader]
    \/ /\ m.tag = "Fuse" /\ m.view = ballot[Leader]
       /\ \E O : m.ops \in Seq(O)
       /\ OpsOver(Node, m.ops)
       /\ m.slot = Len(hist) + 1 /\ Len(m.ops) = Len(es) /\ Len(es) >= 2
       /\ \E f \in FoldSlots(Config(Leader), m.ops) :
             \A i \in 1 .. Len(es) : es[i].era = f.eras[i]

Orders(es) ==
    /\ \E O : es \in Seq(O)
    /\ Len(es) >= 1 /\ Len(hist) + Len(es) <= MaxSlot
    /\ hist' = hist \o es
    /\ accepted' = [accepted EXCEPT ![Leader] = @ + Len(es)]
    /\ UNCHANGED <<committed, ballot, status, table, stalled>>
    /\ Single(planned') /\ msgs \subseteq msgs'
    /\ \A i \in 1 .. Len(es) : es[i].era \in Nat /\ OpOver(Node, es[i].op)
    /\ \A m \in msgs' \ msgs : Announces(m, es)

\* The entries are one of a client, or those of one change: nothing of the
\* system is uncommitted before it, and each of its eras follows from the last.
Lawful(es) ==
    \/ Len(es) = 1 /\ es[1].op = Operation
    \/ /\ Config(Leader).era = ballot[Leader].era
       /\ \A s \in committed[Leader] + 1 .. accepted[Leader] : ~System(s)
       /\ es[1].era = Config(Leader).era
       /\ \A i \in 1 .. Len(es) : es[i].op # Operation
       /\ \A i \in 1 .. Len(es) - 1 : es[i + 1].era <= es[i].era + 1
       /\ Len(es) > 1 => \E c \in Changes : c.mode = "fused"

\* One more entry than the log has.
LEMMA OneIsOrdered ==
  ASSUME TInv, NEW e, e.era \in Nat, OpOver(Node, e.op),
         Order(<<e>>), NEW ms, Send(ms), Single(planned'), stalled' = stalled,
         \A m \in ms : /\ m.tag = "Prepare" /\ m.slot = accepted[Leader] + 1
                       /\ m.committed = committed[Leader]
  PROVE  Orders(<<e>>)
  <1> DEFINE es == <<e>>
  <1>1. es \in Seq({e}) /\ Len(es) = 1 /\ es[1] = e
    OBVIOUS
  <1> HIDE DEF es
  <1>2. /\ Len(hist) + Len(es) <= MaxSlot /\ hist' = hist \o es
        /\ accepted' = [accepted EXCEPT ![Leader] = @ + Len(es)]
        /\ UNCHANGED <<committed, ballot, status, table, stalled>>
    BY DEF Order, es
  <1>3. \A i \in 1 .. Len(es) : es[i].era \in Nat /\ OpOver(Node, es[i].op)
    BY <1>1
  <1>4. accepted[Leader] = Len(hist)
    BY DEF TInv
  <1>5. \A m \in ms : Announces(m, es)
    BY <1>1, <1>4 DEF Announces
  <1>6. \E O : es \in Seq(O)
    BY <1>1
  <1>7. Orders(es)
    <2>1. msgs \subseteq msgs' /\ \A m \in msgs' \ msgs : Announces(m, es)
      BY <1>5 DEF Send
    <2> QED
      BY <1>1, <1>2, <1>3, <1>6, <2>1 DEF Orders
  <1> QED
    BY <1>7 DEF es

\* What an operation of a change is.
LEMMA SystemOperations ==
  \A o \in SystemOperation :
     /\ o.op = "Join" => o.node \in Node /\ o.position \in Nat
     /\ o.op \notin {"Operation", "Batch"}
  BY DEF SystemOperation

\* The configuration of the leader is that of the era of its table.
LEMMA LeaderConfig ==
  ASSUME TInv
  PROVE  Config(Leader) \in Sound(Node) /\ Config(Leader).era \in Nat
         /\ Config(Leader).era = EraOf(table[Leader])
  <1>1. SoundTable(Node, table[Leader])
    BY TInvTypes, LeaderIn
  <1>2. Config(Leader) \in Sound(Node) /\ EraOf(table[Leader]) \in Nat
    BY <1>1, TableType DEF Config
  <1> QED
    BY <1>2 DEF Config, EraOf

\* A client operation is ordered with the era of the table.
LEMMA ProposeOrders == ASSUME TInv, Propose PROVE \E es : Orders(es) /\ Lawful(es)
  <1> DEFINE e == Entry(Operation, Config(Leader).era)
  <1>1. Order(<<e>>) /\ Send({Prepare(Backups)}) /\ planned' = planned
        /\ stalled' = stalled
    BY DEF Propose, leaderVars, fetchVars
  <1>2. e.op = Operation /\ e.era \in Nat /\ OpOver(Node, e.op)
    BY LeaderConfig DEF Entry, Operation, OpOver, Over
  <1>3. \A m \in {Prepare(Backups)} :
           /\ m.tag = "Prepare" /\ m.slot = accepted[Leader] + 1
           /\ m.committed = committed[Leader]
    BY DEF Prepare
  <1>4. Single(planned')
    BY <1>1 DEF TInv
  <1> HIDE DEF e
  <1>5. Orders(<<e>>)
    BY <1>1, <1>2, <1>3, <1>4, OneIsOrdered
  <1>6. Lawful(<<e>>)
    BY <1>2 DEF Lawful
  <1> QED
    BY <1>5, <1>6

\* The operations of a change, with its rider.
LEMMA ChangeOps ==
  ASSUME NEW change \in Changes, NEW ops, ops \in {change.ops, change.ops \o RiderOf(change.ops)}
  PROVE  /\ \E O : ops \in Seq(O)
         /\ OpsOver(Node, ops)
         /\ \A i \in 1 .. Len(ops) : OpOver(Node, ops[i]) /\ ops[i] # Operation
  <1> DEFINE rider == [op |-> "Nominate", from |-> ballot[Leader].view,
                       offset |-> Min({k \in 1 .. 2 * Len(Config(Leader).order) + 2 :
                          \E d \in Apply(Config(Leader), Batch(change.ops)) :
                             Selects(d, ballot[Leader].view + k, Leader)})]
             O == SystemOperation \cup {rider}
  <1>1. change.ops \in Seq(SystemOperation)
    BY ReconfigurationAssumption
  <1>2. RiderOf(change.ops) = <<>> \/ RiderOf(change.ops) = <<rider>>
    BY DEF RiderOf
  <1>3. rider.op = "Nominate"
    OBVIOUS
  <1> HIDE DEF rider
  <1>4. \A o \in O : /\ o.op = "Join" => o.node \in Node /\ o.position \in Nat
                     /\ o # Operation /\ o.op # "Batch"
    BY <1>3, SystemOperations DEF Operation
  <1>5. change.ops \in Seq(O) /\ RiderOf(change.ops) \in Seq(O)
    <2>1. change.ops \in Seq(SystemOperation \cup {rider})
      BY <1>1
    <2>2. <<>> \in Seq(O) /\ <<rider>> \in Seq(O)
      OBVIOUS
    <2> QED
      BY <1>2, <2>1, <2>2
  <1> HIDE DEF O
  <1>6. ops \in Seq(O)
    <2> DEFINE r == RiderOf(change.ops)
    <2>1. r \in Seq(O) /\ (ops = change.ops \/ ops = change.ops \o r)
      BY <1>5
    <2> DEFINE q == change.ops
    <2>2. q \in Seq(O) /\ (ops = q \/ ops = q \o r)
      BY <1>5, <2>1
    <2> HIDE DEF r, q
    <2>3. q \o r \in Seq(O)
      BY <2>1, <2>2
    <2> QED
      BY <2>2, <2>3
  <1> QED
    BY <1>4, <1>6 DEF OpsOver, OpOver, Over

\* A change as one entry: a batch, at the era of the ballot.
LEMMA BatchOrders ==
  ASSUME TInv, NEW ops, \E O : ops \in Seq(O), OpsOver(Node, ops),
         NEW e, e = Entry(Batch(ops), ballot[Leader].era),
         ReconfigureGates(Batch(ops)) # {},
         Order(<<e>>), NEW to, Send({Prepare(to)}),
         Single(planned'), stalled' = stalled
  PROVE  Orders(<<e>>) /\ Lawful(<<e>>)
  <1>1. /\ Config(Leader).era = ballot[Leader].era
        /\ \A s \in committed[Leader] + 1 .. accepted[Leader] : ~System(s)
    BY DEF ReconfigureGates
  <1>2. e.op = Batch(ops) /\ e.era = Config(Leader).era /\ e.era \in Nat
    BY <1>1, LeaderConfig DEF Entry
  <1>3. OpOver(Node, e.op) /\ e.op # Operation
    BY <1>2 DEF OpOver, Over, Batch, Operation
  <1>4. \A m \in {Prepare(to)} :
           /\ m.tag = "Prepare" /\ m.slot = accepted[Leader] + 1
           /\ m.committed = committed[Leader]
    BY DEF Prepare
  <1>5. Orders(<<e>>)
    BY <1>2, <1>3, <1>4, OneIsOrdered
  <1>6. Lawful(<<e>>)
    <2> DEFINE es == <<e>>
    <2>1. Len(es) = 1 /\ es[1] = e
      OBVIOUS
    <2> HIDE DEF es
    <2>2. Lawful(es)
      BY <1>1, <1>2, <1>3, <2>1 DEF Lawful
    <2> QED
      BY <2>2 DEF es
  <1> QED
    BY <1>5, <1>6

\* A single change is ordered with the era of the ballot.
LEMMA ReconfigureOrders ==
  ASSUME TInv, NEW ops, \E O : ops \in Seq(O), OpsOver(Node, ops), Reconfigure(Batch(ops))
  PROVE  \E es : Orders(es) /\ Lawful(es)
  <1> DEFINE e == Entry(Batch(ops), ballot[Leader].era)
  <1>1. /\ ReconfigureGates(Batch(ops)) # {} /\ Order(<<e>>)
        /\ Send({Prepare(Backups)}) /\ planned' = planned /\ stalled' = stalled
    BY DEF Reconfigure, leaderVars, fetchVars
  <1>2. Single(planned')
    BY <1>1 DEF TInv
  <1>3. e = Entry(Batch(ops), ballot[Leader].era)
    OBVIOUS
  <1> HIDE DEF e
  <1>4. Orders(<<e>>) /\ Lawful(<<e>>)
    BY <1>1, <1>2, <1>3, BatchOrders
  <1> QED
    BY <1>4

\* So is a change with a pivot.
LEMMA PivotOrders ==
  ASSUME TInv, NEW ops, \E O : ops \in Seq(O), OpsOver(Node, ops),
         ReconfigureWithPivot(Batch(ops))
  PROVE  \E es : Orders(es) /\ Lawful(es)
  <1> DEFINE e == Entry(Batch(ops), ballot[Leader].era)
  <1>1. Order(<<e>>) /\ stalled' = stalled
    BY DEF ReconfigureWithPivot, fetchVars
  <1>2. ReconfigureGates(Batch(ops)) # {}
    BY DEF ReconfigureWithPivot
  <1>3. \E p, to : planned' = {p} /\ Send({Prepare(to)})
    BY DEF ReconfigureWithPivot
  <1>4. PICK p, to : planned' = {p} /\ Send({Prepare(to)})
    BY <1>3
  <1>5. Single(planned')
    BY <1>4 DEF Single
  <1>6. e = Entry(Batch(ops), ballot[Leader].era)
    OBVIOUS
  <1> HIDE DEF e
  <1>7. Orders(<<e>>) /\ Lawful(<<e>>)
    BY <1>1, <1>2, <1>4, <1>5, <1>6, BatchOrders
  <1> QED
    BY <1>7

\* A fused batch is ordered with the stamps of fold_slots.
LEMMA FuseOrders ==
  ASSUME TInv, NEW ops, \E O : ops \in Seq(O), OpsOver(Node, ops),
         \A i \in 1 .. Len(ops) : OpOver(Node, ops[i]) /\ ops[i] # Operation,
         \E c \in Changes : c.mode = "fused", Fuse(ops)
  PROVE  \E es : Orders(es) /\ Lawful(es)
  <1>1. PICK O : ops \in Seq(O)
    OBVIOUS
  <1> DEFINE n == Len(ops)
             m == [tag |-> "Fuse", to |-> Backups, view |-> ballot[Leader],
                   slot |-> accepted[Leader] + 1, ops |-> ops]
  <1>2. PICK f \in FoldSlots(Config(Leader), ops) :
             Order([i \in DOMAIN ops |-> Entry(ops[i], f.eras[i])])
    BY DEF Fuse
  <1> DEFINE es == [i \in DOMAIN ops |-> Entry(ops[i], f.eras[i])]
  <1>3. /\ n \in 2 .. FUSE_MAX_OPS /\ Order(es) /\ planned' = planned /\ stalled' = stalled
        /\ msgs' = msgs \cup {m} /\ n \in Nat /\ n >= 2
    <2>1. Order(es)
      BY <1>2
    <2>2. /\ n \in 2 .. FUSE_MAX_OPS /\ planned' = planned /\ stalled' = stalled
          /\ msgs' = msgs \cup {m}
      BY DEF Fuse, Send, leaderVars, fetchVars
    <2>3. n \in Nat /\ n >= 2
      <3>1. n \in Nat
        BY <1>1
      <3> HIDE DEF n
      <3> QED
        BY <2>2, <3>1 DEF FUSE_MAX_OPS
    <2> QED
      BY <2>1, <2>2, <2>3
  <1>4. /\ Config(Leader).era = ballot[Leader].era
        /\ \A s \in committed[Leader] + 1 .. accepted[Leader] : ~System(s)
    BY DEF Fuse, ReconfigureGates
  <1>5. f \in SlotFolds(Node, Config(Leader)) /\ Len(f.eras) = n
    BY <1>1, LeaderConfig, SlotsAreOne
  <1>6. /\ \A i \in 1 .. n : f.eras[i] \in Nat
        /\ f.eras[1] = Config(Leader).era
        /\ \A i \in 1 .. n - 1 : f.eras[i + 1] <= f.eras[i] + 1
    <2>1. f.eras \in Seq(Nat) /\ f.eras # <<>>
      BY <1>3, <1>5 DEF SlotFolds
    <2> QED
      BY <1>5, <2>1 DEF SlotFolds
  <1>7. DOMAIN ops = 1 .. n
    BY <1>1
  <1>8. /\ es \in Seq({Entry(ops[i], f.eras[i]) : i \in 1 .. n}) /\ Len(es) = n
        /\ \A i \in 1 .. n : es[i].op = ops[i] /\ es[i].era = f.eras[i]
    BY <1>1, <1>7 DEF Entry
  <1>9. /\ m.tag = "Fuse" /\ m.view = ballot[Leader] /\ m.slot = accepted[Leader] + 1
        /\ m.ops = ops
    OBVIOUS
  <1>10. \A i \in 1 .. n : OpOver(Node, ops[i]) /\ ops[i] # Operation
    OBVIOUS
  <1> HIDE DEF es, m, n
  <1>11. accepted[Leader] = Len(hist)
    BY DEF TInv
  <1>12. Announces(m, es)
    <2>1. \A i \in 1 .. Len(es) : es[i].era = f.eras[i]
      BY <1>8
    <2>2. \E g \in FoldSlots(Config(Leader), m.ops) :
             \A i \in 1 .. Len(es) : es[i].era = g.eras[i]
      BY <1>9, <2>1
    <2> QED
      BY <1>3, <1>8, <1>9, <1>11, <2>2 DEF Announces, n
  <1>13. ASSUME NEW i \in 1 .. Len(es) PROVE es[i].era \in Nat /\ OpOver(Node, es[i].op)
    <2>1. i \in 1 .. n /\ es[i].op = ops[i] /\ es[i].era = f.eras[i]
      BY <1>8
    <2> QED
      BY <1>6, <1>10, <2>1
  <1>14. Orders(es)
    <2>1. /\ Len(hist) + Len(es) <= MaxSlot /\ hist' = hist \o es
          /\ accepted' = [accepted EXCEPT ![Leader] = @ + Len(es)]
          /\ UNCHANGED <<committed, ballot, status, table>>
      BY <1>3 DEF Order
    <2>2. Single(planned') /\ msgs \subseteq msgs' /\ \A k \in msgs' \ msgs : Announces(k, es)
      BY <1>3, <1>12 DEF TInv
    <2>3. Len(es) >= 1 /\ \E P : es \in Seq(P)
      BY <1>3, <1>8
    <2> QED
      BY <1>3, <1>13, <2>1, <2>2, <2>3 DEF Orders
  <1>15. Lawful(es)
    <2>1. es[1].era = Config(Leader).era
      BY <1>3, <1>6, <1>8
    <2>2. \A i \in 1 .. Len(es) : es[i].op # Operation
      BY <1>8, <1>10
    <2>3. \A i \in 1 .. Len(es) - 1 : es[i + 1].era <= es[i].era + 1
      <3>1. ASSUME NEW i \in 1 .. n - 1 PROVE es[i + 1].era <= es[i].era + 1
        <4>1. i \in 1 .. n /\ i + 1 \in 1 .. n
          BY <1>3
        <4> QED
          BY <1>6, <1>8, <4>1
      <3> QED
        BY <1>8, <3>1
    <2> QED
      BY <1>4, <2>1, <2>2, <2>3 DEF Lawful
  <1> QED
    BY <1>14, <1>15

\* Whatever an operator asks for orders such entries.
LEMMA AskOrders ==
  ASSUME TInv, NEW change \in Changes, Ask(change)
  PROVE  \E es : Orders(es) /\ Lawful(es)
  <1> DEFINE ops == change.ops \o RiderOf(change.ops)
             bare == change.ops
  <1>1. /\ \E O : ops \in Seq(O)
        /\ OpsOver(Node, ops)
        /\ \A i \in 1 .. Len(ops) : OpOver(Node, ops[i]) /\ ops[i] # Operation
    BY ChangeOps
  <1>2. (\E O : bare \in Seq(O)) /\ OpsOver(Node, bare)
    BY ChangeOps
  <1>3. \/ Reconfigure(Batch(ops))
        \/ change.mode = "fused" /\ Fuse(ops)
        \/ ReconfigureWithPivot(Batch(bare))
    BY DEF Ask
  <1> HIDE DEF ops, bare
  <1>4. CASE Reconfigure(Batch(ops))
    BY <1>1, <1>4, ReconfigureOrders
  <1>5. CASE change.mode = "fused" /\ Fuse(ops)
    BY <1>1, <1>5, FuseOrders
  <1>6. CASE ReconfigureWithPivot(Batch(bare))
    BY <1>2, <1>6, PivotOrders
  <1> QED
    BY <1>3, <1>4, <1>5, <1>6

\* What ordering leaves of the log, and adds.
LEMMA Lengthened ==
  ASSUME TInv, NEW es, Orders(es)
  PROVE  /\ Len(es) \in Nat /\ Len(es) >= 1 /\ Len(hist) \in Nat /\ Len(hist) >= 2
         /\ Len(hist') = Len(hist) + Len(es)
         /\ \E O : hist' \in Seq(O)
         /\ \A s \in 1 .. Len(hist) : hist'[s] = hist[s]
         /\ \A i \in 1 .. Len(es) : hist'[Len(hist) + i] = es[i]
         /\ accepted'[Leader] = Len(hist')
         /\ \A n \in Node \ {Leader} : accepted'[n] = accepted[n]
         /\ DOMAIN accepted' = Node
  <1>1. PICK O : hist \in Seq(O)
    BY DEF TInv, HistSound
  <1>2. PICK P : es \in Seq(P)
    BY DEF Orders
  <1>3. hist \in Seq(O \cup P) /\ es \in Seq(O \cup P)
    BY <1>1, <1>2
  <1>4. hist' = hist \o es /\ Len(es) >= 1 /\ Len(hist) >= 2
    BY DEF Orders, TInv, HistSound, INIT_SLOT
  <1>5. /\ accepted' = [accepted EXCEPT ![Leader] = @ + Len(es)] /\ DOMAIN accepted = Node
        /\ Leader \in Node /\ accepted[Leader] = Len(hist)
    BY LeaderIn DEF Orders, TInv, Kept
  <1>6. /\ Len(es) \in Nat /\ Len(hist) \in Nat /\ Len(hist') = Len(hist) + Len(es)
        /\ hist' \in Seq(O \cup P)
    BY <1>3, <1>4
  <1>7. /\ \A s \in 1 .. Len(hist) : hist'[s] = hist[s]
        /\ \A i \in 1 .. Len(es) : hist'[Len(hist) + i] = es[i]
    BY <1>3, <1>4
  <1> QED
    BY <1>4, <1>5, <1>6, <1>7

\* Ordering keeps the types.
LEMMA OrdersCarried == ASSUME TInv, NEW es, Orders(es) PROVE TInv'
  <1>1. /\ Len(es) \in Nat /\ Len(es) >= 1 /\ Len(hist) \in Nat /\ Len(hist) >= 2
        /\ Len(hist') = Len(hist) + Len(es)
        /\ \E O : hist' \in Seq(O)
        /\ \A s \in 1 .. Len(hist) : hist'[s] = hist[s]
        /\ \A i \in 1 .. Len(es) : hist'[Len(hist) + i] = es[i]
        /\ accepted'[Leader] = Len(hist')
        /\ \A n \in Node \ {Leader} : accepted'[n] = accepted[n]
        /\ DOMAIN accepted' = Node
    BY Lengthened
  <1>2. /\ UNCHANGED <<committed, ballot, status, table, stalled>>
        /\ Single(planned') /\ msgs \subseteq msgs'
        /\ \A i \in 1 .. Len(es) : es[i].era \in Nat /\ OpOver(Node, es[i].op)
        /\ \A m \in msgs' \ msgs : Announces(m, es)
    BY DEF Orders
  <1>3. HistSound /\ Kept /\ Leader \in Node /\ accepted[Leader] = Len(hist)
        /\ committed[Leader] \in Nat
    BY LeaderIn, TInvTypes DEF TInv
  <1>4. HistSound'
    <2>1. ASSUME NEW s \in 1 .. Len(hist') PROVE hist'[s].era \in Nat /\ OpOver(Node, hist'[s].op)
      <3>1. CASE s <= Len(hist)
        <4>1. s \in 1 .. Len(hist)
          BY <1>1, <3>1
        <4> QED
          BY <1>1, <1>3, <4>1 DEF HistSound, OpsTyped
      <3>2. CASE s > Len(hist)
        <4> DEFINE i == s - Len(hist)
        <4>1. i \in 1 .. Len(es) /\ s = Len(hist) + i
          BY <1>1, <3>2
        <4> HIDE DEF i
        <4>2. hist'[s] = es[i]
          BY <1>1, <4>1
        <4> QED
          BY <1>2, <4>1, <4>2
      <3> QED
        BY <1>1, <3>1, <3>2
    <2> QED
      BY <1>1, <2>1 DEF HistSound, OpsTyped, INIT_SLOT
  <1>5. Kept'
    BY <1>1, <1>2, <1>3 DEF Kept
  <1>6. ASSUME NEW n \in Node PROVE PlaceSound(n)'
    <2>1. PlaceSound(n)
      BY DEF TInv
    <2>2. accepted'[n] \in INIT_SLOT .. Len(hist') /\ accepted[n] <= accepted'[n]
          /\ accepted[n] \in Nat /\ accepted'[n] \in Nat /\ committed[n] \in Nat
      <3>1. accepted[n] \in Nat /\ committed[n] \in Nat
        BY TInvTypes
      <3> QED
        BY <1>1, <1>3, <2>1, <3>1 DEF PlaceSound, INIT_SLOT
    <2>3. StartViews \subseteq StartViews'
      BY <1>2 DEF StartViews
    <2>4. committed'[n] \in INIT_SLOT .. accepted'[n]
      BY <1>2, <2>1, <2>2 DEF PlaceSound, INIT_SLOT
    <2>5. InWindow(table[n], ballot[n])'
      BY <1>2, <2>1 DEF PlaceSound, InWindow
    <2> QED
      BY <1>2, <2>1, <2>2, <2>3, <2>4, <2>5 DEF PlaceSound
  <1>7. ASSUME NEW m \in msgs' PROVE MsgSound(m)'
    <2>1. CASE m \in msgs
      <3>1. MsgSound(m)
        BY <2>1 DEF TInv
      <3>2. committed' = committed
        BY <1>2
      <3>3. m.tag = "Fuse" => Len(m.ops) \in Nat
        <4>1. m.tag = "Fuse" => \E O : m.ops \in Seq(O)
          BY <3>1 DEF MsgSound
        <4> QED
          BY <4>1
      <3> QED
        BY <1>1, <3>1, <3>2, <3>3 DEF MsgSound, Told, INIT_SLOT
    <2>2. CASE m \in msgs' \ msgs
      <3>1. CASE /\ m.tag = "Prepare" /\ Len(es) = 1
                 /\ m.slot = Len(hist) + 1 /\ m.committed = committed[Leader]
        BY <1>1, <1>2, <1>3, <3>1 DEF MsgSound, Told
      <3>2. CASE /\ m.tag = "Fuse" /\ \E O : m.ops \in Seq(O)
                 /\ OpsOver(Node, m.ops)
                 /\ m.slot = Len(hist) + 1 /\ Len(m.ops) = Len(es) /\ Len(es) >= 2
        BY <1>1, <3>2 DEF MsgSound
      <3> QED
        BY <1>2, <2>2, <3>1, <3>2 DEF Announces
    <2> QED
      BY <2>1, <2>2
  <1> QED
    BY <1>1, <1>2, <1>4, <1>5, <1>6, <1>7 DEF TInv

-----------------------------------------------------------------------------
(* Type correctness.                                                       *)

\* The invariant holds at first.
LEMMA InitTInv == ASSUME Init PROVE TInv
  <1> DEFINE void == Entry([op |-> "Void"], 0)
             founding == Entry([op |-> "Init"], 1)
  <1>1. /\ hist = <<void, founding>>
        /\ accepted = [n \in Node |-> INIT_SLOT]
        /\ committed = [n \in Node |-> INIT_SLOT]
        /\ ballot = [n \in Node |-> [era |-> 1, view |-> 0]]
        /\ status = [n \in Node |-> IF n \in Founders THEN "Normal" ELSE "Joining"]
        /\ table = [n \in Node |-> Genesis(InitOrder)]
        /\ planned = {} /\ stalled = [n \in Node |-> {}] /\ msgs = {}
    BY DEF Init
  <1>2. SoundTable(Node, Genesis(InitOrder)) /\ EraOf(Genesis(InitOrder)) = 1
    BY ReconfigurationAssumption, GenesisSound
  <1>3. /\ void.era = 0 /\ founding.era = 1
        /\ OpOver(Node, void.op) /\ OpOver(Node, founding.op)
    BY DEF Entry, OpOver, Over
  <1> HIDE DEF void, founding
  <1>4. /\ hist \in Seq({void, founding}) /\ Len(hist) = 2
        /\ hist[1] = void /\ hist[2] = founding
    BY <1>1
  <1>5. HistSound
    BY <1>3, <1>4 DEF HistSound, OpsTyped, INIT_SLOT
  <1>6. ASSUME NEW r \in Node PROVE PlaceSound(r)
    <2>1. /\ accepted[r] = INIT_SLOT /\ committed[r] = INIT_SLOT /\ ballot[r] = [era |-> 1, view |-> 0]
          /\ status[r] \in {"Normal", "Joining"} /\ table[r] = Genesis(InitOrder) /\ stalled[r] = {}
          /\ committed[Leader] = INIT_SLOT
      BY <1>1, LeaderIn
    <2>2. InWindow(table[r], ballot[r])
      BY <1>2, <2>1 DEF InWindow, EraOf
    <2> QED
      BY <1>2, <1>4, <2>1, <2>2 DEF PlaceSound, Single, INIT_SLOT
  <1>7. Kept
    BY <1>1 DEF Kept
  <1>8. accepted[Leader] = Len(hist)
    BY <1>1, <1>4, LeaderIn DEF INIT_SLOT
  <1> QED
    BY <1>1, <1>5, <1>6, <1>7, <1>8 DEF TInv, Single

\* Every step orders, commits and tells, or follows.
LEMMA Steps ==
  ASSUME TInv, Next
  PROVE  \/ \E es : Orders(es) /\ Lawful(es)
         \/ Leads1
         \/ \E r \in Node \ {Leader} : Following(r) /\ Goes(r)
  <1>1. CASE Leading
    <2>1. CASE \E change \in Changes : Ask(change)
      BY <2>1, AskOrders
    <2> QED
      BY <1>1, <2>1, ProposeOrders, ReceiveOkLeads, ServeStateLeads, EvidenceLeads DEF Leading
  <1>2. CASE \E r \in Node \ {Leader} : Following(r)
    BY <1>2, FollowingGoes
  <1> QED
    BY <1>1, <1>2 DEF Next

\* Every step keeps it.
LEMMA NextTInv == ASSUME TInv, [Next]_vars PROVE TInv'
  <1>1. CASE Next
    BY <1>1, Steps, OrdersCarried, Leads1Carried, GoesCarried
  <1>2. CASE UNCHANGED vars
    <2>1. UNCHANGED <<hist, accepted, committed, ballot, status, table, planned, stalled, msgs>>
      BY <1>2 DEF vars, progressVars, leaderVars, fetchVars
    <2>2. Leads1
      <3>1. Kept /\ PlaceSound(Leader) /\ Single(planned)
        BY LeaderIn DEF TInv
      <3>2. Still(Leader)
        BY <2>1, <3>1 DEF Still, Kept
      <3>3. Tells
        BY <2>1 DEF Tells
      <3>4. /\ accepted'[Leader] = accepted[Leader] /\ stalled'[Leader] = stalled[Leader]
            /\ status'[Leader] = status[Leader] /\ table'[Leader] = table[Leader]
            /\ ballot'[Leader] = ballot[Leader] /\ committed'[Leader] = committed[Leader]
        BY <2>1
      <3> QED
        BY <2>1, <3>1, <3>2, <3>3, <3>4 DEF Leads1, PlaceSound
    <2> QED
      BY <2>2, Leads1Carried
  <1> QED
    BY <1>1, <1>2

\* Frontiers are ordered and covered by the log, tables hold one record or two,
\* and end in the era of the ballot or the next: for every configuration and
\* every change an operator may ask for.
THEOREM TypeCorrect == Spec => []TypeOK
  <1>1. Spec => []TInv
    BY InitTInv, NextTInv, PTL DEF Spec
  <1>2. TInv => TypeOK
    BY TInvTypeOK
  <1> QED
    BY <1>1, <1>2, PTL

-----------------------------------------------------------------------------
(* The points of the one fold of the log.                                  *)

\* Where a replica's commits have brought its table.
PointAt(r) == [slot |-> committed[r], table |-> table[r]]

\* An earlier point p and a later one q: the era has not gone back, what both
\* know of an era is the same, and client entries change nothing.
Alike(p, q) ==
    /\ EraOf(p.table) <= EraOf(q.table)
    /\ \A x \in Range(p.table), y \in Range(q.table) : x.config.era = y.config.era => x = y
    /\ (\A k \in p.slot + 1 .. q.slot : ~System(k)) => p.table = q.table

\* The points V that the fold of the whole log goes through, up to `top`.
Chain(V, top) ==
    /\ [slot |-> INIT_SLOT, table |-> Genesis(InitOrder)] \in V /\ top \in V
    /\ \A p \in V : /\ p = [slot |-> p.slot, table |-> p.table]
                    /\ p.slot \in INIT_SLOT .. top.slot /\ SoundTable(Node, p.table)
    /\ \A p \in V : p.slot < top.slot => Onward(p.slot, p.table, Len(hist)) \subseteq V
    /\ \A p, q \in V : /\ p.slot = q.slot => p = q
                       /\ p.slot <= q.slot => Alike(p, q)

\* The stamps before p are of earlier eras than its table's; those after it
\* follow from its table or from the entry before.
Past(p) ==
    /\ \A s \in INIT_SLOT + 1 .. p.slot : System(s) => hist[s].era < EraOf(p.table)
    /\ \A k \in p.slot + 1 .. Len(hist) :
          System(k) => \/ hist[k].era <= EraOf(p.table)
                       \/ /\ k - 1 > p.slot /\ System(k - 1)
                          /\ hist[k].era <= hist[k - 1].era + 1

\* The fold of the log goes on from the last point to one point more.
LEMMA ChainGrows ==
  ASSUME TInv, NEW V, NEW p, Chain(V, p), p.slot < Len(hist),
         NEW q \in Onward(p.slot, p.table, Len(hist))
  PROVE  Chain(V \cup {q}, q)
  <1> DEFINE n == Len(hist)
             W == V \cup {q}
  <1>1. n \in Nat /\ OpsTyped(n)
    BY TInvTypes
  <1>2. /\ p \in V /\ p.slot \in Nat /\ p.slot >= INIT_SLOT /\ SoundTable(Node, p.table)
        /\ p = [slot |-> p.slot, table |-> p.table]
        /\ \A v \in V : /\ v = [slot |-> v.slot, table |-> v.table]
                        /\ v.slot \in Nat /\ v.slot >= INIT_SLOT /\ v.slot <= p.slot
                        /\ SoundTable(Node, v.table)
    BY DEF Chain, INIT_SLOT
  <1>3. /\ Single(Onward(p.slot, p.table, n))
        /\ q = [slot |-> q.slot, table |-> q.table]
        /\ q.slot \in p.slot + 1 .. n /\ SoundTable(Node, q.table)
        /\ ~System(p.slot + 1) => q.slot = p.slot + 1 /\ q.table = p.table
        /\ System(p.slot + 1) =>
              /\ EraOf(q.table) = EraOf(p.table) + 1
              /\ Range(q.table) \subseteq Range(p.table) \cup {Current(q.table)}
    BY <1>1, <1>2, OnwardIsOne
  <1>4. q.slot \in Nat /\ q.slot > p.slot
    BY <1>1, <1>2, <1>3
  <1>5. ASSUME NEW v \in V PROVE Alike(v, q)
    <2>1. Alike(v, p) /\ v.slot <= p.slot /\ v.slot \in Nat
      BY <1>2 DEF Chain
    <2>2. CASE ~System(p.slot + 1)
      <3>1. q.slot = p.slot + 1 /\ q.table = p.table
        BY <1>3, <2>2
      <3>2. (\A k \in v.slot + 1 .. q.slot : ~System(k)) => \A k \in v.slot + 1 .. p.slot : ~System(k)
        BY <1>2, <2>1, <3>1
      <3> QED
        BY <2>1, <3>1, <3>2 DEF Alike
    <2>3. CASE System(p.slot + 1)
      <3>1. /\ EraOf(q.table) = EraOf(p.table) + 1
            /\ Range(q.table) \subseteq Range(p.table) \cup {Current(q.table)}
        BY <1>3, <2>3
      <3>2. EraOf(v.table) \in Nat /\ EraOf(p.table) \in Nat
            /\ \A x \in Range(v.table) : x.config.era \in Nat /\ x.config.era <= EraOf(v.table)
        BY <1>2, TableType
      <3>3. EraOf(v.table) <= EraOf(p.table)
        BY <2>1 DEF Alike
      <3>4. ASSUME NEW x \in Range(v.table), NEW y \in Range(q.table), x.config.era = y.config.era
            PROVE  x = y
        <4>1. CASE y \in Range(p.table)
          BY <2>1, <3>4, <4>1 DEF Alike
        <4>2. CASE y = Current(q.table)
          <5>1. y.config.era = EraOf(p.table) + 1
            BY <3>1, <4>2 DEF EraOf
          <5> QED
            BY <3>2, <3>3, <3>4, <5>1
        <4> QED
          BY <3>1, <4>1, <4>2
      <3>5. p.slot + 1 \in v.slot + 1 .. q.slot
        BY <1>2, <1>4, <2>1
      <3> QED
        BY <2>3, <3>1, <3>2, <3>3, <3>4, <3>5 DEF Alike
    <2> QED
      BY <2>2, <2>3
  <1>6. Alike(q, q)
    <2>1. EraOf(q.table) \in Nat
      BY <1>3, TableType
    <2>2. ASSUME NEW x \in Range(q.table), NEW y \in Range(q.table), x.config.era = y.config.era
          PROVE  x = y
      <3>1. \/ ~System(p.slot + 1) /\ q.table = p.table
            \/ /\ EraOf(q.table) = EraOf(p.table) + 1
               /\ Range(q.table) \subseteq Range(p.table) \cup {Current(q.table)}
        BY <1>3
      <3>2. Alike(p, p)
        BY <1>2 DEF Chain
      <3>3. /\ EraOf(p.table) \in Nat
            /\ \A z \in Range(p.table) : z.config.era \in Nat /\ z.config.era <= EraOf(p.table)
        BY <1>2, TableType
      <3>4. CASE q.table = p.table
        BY <2>2, <3>2, <3>4 DEF Alike
      <3>5. CASE /\ EraOf(q.table) = EraOf(p.table) + 1
                 /\ Range(q.table) \subseteq Range(p.table) \cup {Current(q.table)}
        <4>1. Current(q.table).config.era = EraOf(p.table) + 1
          BY <3>5 DEF EraOf
        <4>2. \/ x \in Range(p.table) /\ y \in Range(p.table)
              \/ x = Current(q.table) /\ y \in Range(p.table)
              \/ x \in Range(p.table) /\ y = Current(q.table)
              \/ x = Current(q.table) /\ y = Current(q.table)
          BY <3>5
        <4>3. \A z \in Range(p.table) : z.config.era # Current(q.table).config.era
          BY <3>3, <4>1
        <4> QED
          BY <2>2, <3>2, <4>2, <4>3 DEF Alike
      <3> QED
        BY <3>1, <3>4, <3>5
    <2> QED
      BY <2>1, <2>2 DEF Alike
  <1>7. Onward(p.slot, p.table, n) = {q}
    BY <1>3 DEF Single
  <1>8. ASSUME NEW v \in W, v.slot < q.slot PROVE Onward(v.slot, v.table, n) \subseteq W
    <2>1. v \in V
      BY <1>4, <1>8
    <2>2. CASE v.slot < p.slot
      BY <2>1, <2>2 DEF Chain
    <2>3. CASE v.slot = p.slot
      <3>1. v = p
        BY <1>2, <2>1, <2>3 DEF Chain
      <3> QED
        BY <1>7, <3>1
    <2> QED
      BY <1>2, <2>1, <2>2, <2>3
  <1>9. ASSUME NEW v \in W, NEW w \in W
        PROVE  /\ v.slot = w.slot => v = w
               /\ v.slot <= w.slot => Alike(v, w)
    <2>1. CASE v \in V /\ w \in V
      BY <2>1 DEF Chain
    <2>2. CASE v \in V /\ w = q
      BY <1>2, <1>4, <1>5, <2>2
    <2>3. CASE v = q /\ w \in V
      BY <1>2, <1>4, <2>3
    <2>4. CASE v = q /\ w = q
      BY <1>6, <2>4
    <2> QED
      BY <2>1, <2>2, <2>3, <2>4
  <1>10. ASSUME NEW v \in W
         PROVE  /\ v = [slot |-> v.slot, table |-> v.table]
                /\ v.slot \in INIT_SLOT .. q.slot /\ SoundTable(Node, v.table)
    <2>1. CASE v \in V
      BY <1>2, <1>4, <2>1 DEF INIT_SLOT
    <2>2. CASE v = q
      BY <1>2, <1>3, <1>4, <2>2 DEF INIT_SLOT
    <2> QED
      BY <2>1, <2>2
  <1>11. [slot |-> INIT_SLOT, table |-> Genesis(InitOrder)] \in W /\ q \in W
    BY DEF Chain
  <1> HIDE DEF W
  <1>12. Chain(W, q)
    BY <1>8, <1>9, <1>10, <1>11 DEF Chain
  <1> QED
    BY <1>12 DEF W

\* The stamps are past and to come at that point too.
LEMMA PastGrows ==
  ASSUME TInv, NEW p, p.slot \in Nat, p.slot >= INIT_SLOT, SoundTable(Node, p.table), Past(p),
         p.slot < Len(hist), NEW q \in Onward(p.slot, p.table, Len(hist))
  PROVE  Past(q)
  <1> DEFINE n == Len(hist)
             next == p.slot + 1
             last == RunEnd(next, n)
             E == EraOf(p.table)
  <1>1. n \in Nat /\ OpsTyped(n) /\ \A s \in 1 .. n : hist[s].era \in Nat
    BY TInvTypes DEF TInv, HistSound
  <1>2. /\ q.slot \in p.slot + 1 .. n
        /\ ~System(next) => q.slot = next /\ q.table = p.table
        /\ System(next) => q.slot \in {next, last} /\ EraOf(q.table) = E + 1
    BY <1>1, OnwardIsOne
  <1>3. E \in Nat /\ next \in 1 .. n /\ next \in Nat /\ INIT_SLOT = 2
    BY <1>1, TableType DEF INIT_SLOT
  <1>4. CASE ~System(next)
    <2>1. ASSUME NEW s \in INIT_SLOT + 1 .. q.slot, System(s) PROVE hist[s].era < EraOf(q.table)
      <3>1. s \in INIT_SLOT + 1 .. p.slot
        BY <1>2, <1>3, <1>4, <2>1
      <3> QED
        BY <1>2, <1>4, <2>1, <3>1 DEF Past
    <2>2. ASSUME NEW k \in q.slot + 1 .. n, System(k)
          PROVE  \/ hist[k].era <= EraOf(q.table)
                 \/ /\ k - 1 > q.slot /\ System(k - 1)
                    /\ hist[k].era <= hist[k - 1].era + 1
      <3>1. k \in p.slot + 1 .. n
        BY <1>2, <1>3, <1>4
      <3>2. \/ hist[k].era <= E
            \/ /\ k - 1 > p.slot /\ System(k - 1)
               /\ hist[k].era <= hist[k - 1].era + 1
        BY <2>2, <3>1 DEF Past
      <3>3. k - 1 # next => k - 1 > q.slot
        BY <1>2, <1>3, <1>4
      <3> QED
        BY <1>2, <1>4, <3>2, <3>3
    <2> QED
      BY <2>1, <2>2 DEF Past
  <1>5. CASE System(next)
    <2>1. last \in next .. n /\ \A k \in next .. last : System(k) /\ hist[k].era = hist[next].era
      <3>1. next \in Nat /\ 1 <= next /\ next <= n /\ n \in Nat
        BY <1>1, <1>3
      <3> HIDE DEF next, n
      <3> QED
        BY <1>5, <3>1, RunEndIn
    <2> HIDE DEF last
    <2>2. hist[next].era <= E
      <3>1. ~(next - 1 > p.slot)
        BY <1>3
      <3> QED
        BY <1>3, <1>5, <3>1 DEF Past
    <2>3. /\ q.slot \in next .. last /\ q.slot \in Nat /\ EraOf(q.table) = E + 1
          /\ \A k \in next .. q.slot : hist[k].era = hist[next].era
      BY <1>1, <1>2, <1>3, <1>5, <2>1
    <2>4. hist[next].era \in Nat
      BY <1>1, <1>3
    <2>5. ASSUME NEW s \in INIT_SLOT + 1 .. q.slot, System(s) PROVE hist[s].era < EraOf(q.table)
      <3>1. CASE s <= p.slot
        <4>1. s \in INIT_SLOT + 1 .. p.slot /\ s \in 1 .. n
          BY <1>2, <1>3, <3>1
        <4>2. hist[s].era < E /\ hist[s].era \in Nat
          BY <1>1, <2>5, <4>1 DEF Past
        <4> QED
          BY <1>3, <2>3, <4>2
      <3>2. CASE s > p.slot
        <4>1. s \in next .. q.slot
          BY <1>3, <2>3, <3>2
        <4> QED
          BY <1>3, <2>2, <2>3, <2>4, <4>1
      <3> QED
        BY <1>3, <3>1, <3>2
    <2>6. ASSUME NEW k \in q.slot + 1 .. n, System(k)
          PROVE  \/ hist[k].era <= EraOf(q.table)
                 \/ /\ k - 1 > q.slot /\ System(k - 1)
                    /\ hist[k].era <= hist[k - 1].era + 1
      <3>1. k \in p.slot + 1 .. n /\ k \in 1 .. n /\ hist[k].era \in Nat
        BY <1>1, <1>2, <1>3, <2>3
      <3>2. \/ hist[k].era <= E
            \/ /\ k - 1 > p.slot /\ System(k - 1)
               /\ hist[k].era <= hist[k - 1].era + 1
        BY <2>6, <3>1 DEF Past
      <3>3. CASE hist[k].era <= E
        BY <1>3, <2>3, <3>1, <3>3
      <3>4. CASE /\ k - 1 > p.slot /\ System(k - 1)
                 /\ hist[k].era <= hist[k - 1].era + 1
        <4>1. CASE k - 1 > q.slot
          BY <3>4, <4>1
        <4>2. CASE ~(k - 1 > q.slot)
          <5>1. k - 1 = q.slot
            BY <2>3, <3>1, <4>2
          <5>2. hist[k - 1].era = hist[next].era
            BY <2>3, <5>1
          <5>3. hist[k].era <= hist[next].era + 1
            BY <3>4, <5>2
          <5>4. EraOf(q.table) = E + 1
            BY <2>3
          <5> HIDE DEF E, next
          <5>5. hist[k].era <= E + 1
            BY <1>3, <2>2, <2>4, <3>1, <5>3
          <5> QED
            BY <5>4, <5>5
        <4> QED
          BY <4>1, <4>2
      <3> QED
        BY <3>2, <3>3, <3>4
    <2> QED
      BY <2>5, <2>6 DEF Past
  <1> QED
    BY <1>4, <1>5

\* Every record of a point's table is the current one of some point.
Rooted(V) == \A p \in V : \A x \in Range(p.table) : \E q \in V : x = Current(q.table)

\* W has the points V, and others past what the leader has committed.
Outgrows(W, V) ==
    /\ V \subseteq W
    /\ \A q \in W \ V : q.slot > committed[Leader]
    /\ Rooted(V) => Rooted(W)

\* Points that go on from those of V to p.
GrownTo(V, p) == \E W : Outgrows(W, V) /\ Chain(W, p) /\ Past(p)

\* The leader's fold makes the points more.
LEMMA LeaderGrows ==
  ASSUME TInv, NEW V, Chain(V, PointAt(Leader)), Past(PointAt(Leader)),
         NEW through \in committed[Leader] .. Len(hist), NEW paced,
         NEW f \in FoldCommitted(Leader, Len(hist), through, paced)
  PROVE  GrownTo(V, PointOf(f))
  <1>1. /\ Len(hist) \in Nat /\ OpsTyped(Len(hist)) /\ committed[Leader] \in Nat
        /\ SoundTable(Node, table[Leader]) /\ committed[Leader] >= INIT_SLOT
    BY TInvTypes, LeaderIn DEF TInv, PlaceSound, INIT_SLOT
  <1>2. through \in Nat /\ through <= Len(hist) /\ committed[Leader] <= through
    BY <1>1
  <1>3. PICK n \in Nat : \E h : Path(h, n, Leader, f, Len(hist), through)
    BY <1>1, <1>2, FoldPath
  <1>4. PICK h : Path(h, n, Leader, f, Len(hist), through)
    BY <1>3
  <1> DEFINE T == {k \in Nat : k <= n => GrownTo(V, h[k])}
  <1>5. 0 \in T
    <2>1. h[0] = PointAt(Leader)
      BY <1>4 DEF Path, PointAt
    <2>2. Outgrows(V, V)
      BY DEF Outgrows
    <2> QED
      BY <2>1, <2>2 DEF GrownTo
  <1>6. ASSUME NEW k \in T PROVE k + 1 \in T
    <2>1. CASE k + 1 <= n
      <3>1. k \in Nat /\ k \in 0 .. n /\ k + 1 \in 1 .. n /\ (k + 1) - 1 = k /\ GrownTo(V, h[k])
        BY <1>6, <2>1
      <3> DEFINE p == h[k]
                 q == h[k + 1]
      <3>2. /\ p.slot \in committed[Leader] .. through /\ SoundTable(Node, p.table)
            /\ \/ q = p
               \/ /\ p.slot < through
                  /\ q \in Onward(p.slot, p.table, Len(hist))
        BY <1>4, <3>1 DEF Path
      <3>3. GrownTo(V, p)
        BY <3>1
      <3> HIDE DEF p, q
      <3>4. CASE q = p
        BY <3>1, <3>3, <3>4 DEF q, p
      <3>5. CASE p.slot < through /\ q \in Onward(p.slot, p.table, Len(hist))
        <4>1. PICK W : Outgrows(W, V) /\ Chain(W, p) /\ Past(p)
          BY <3>3 DEF GrownTo
        <4>2. p.slot \in Nat /\ p.slot < Len(hist) /\ p.slot >= INIT_SLOT
          BY <1>1, <1>2, <3>2, <3>5 DEF INIT_SLOT
        <4>3. Chain(W \cup {q}, q) /\ Past(q)
          BY <3>2, <3>5, <4>1, <4>2, ChainGrows, PastGrows
        <4>4. Outgrows(W \cup {q}, V)
          <5>1. /\ q.slot \in p.slot + 1 .. Len(hist)
                /\ ~System(p.slot + 1) => q.table = p.table
                /\ System(p.slot + 1) =>
                      Range(q.table) \subseteq Range(p.table) \cup {Current(q.table)}
            BY <1>1, <3>2, <3>5, <4>2, OnwardIsOne
          <5>2. q.slot > committed[Leader]
            BY <1>1, <3>2, <4>2, <5>1
          <5>3. p \in W
            BY <4>1 DEF Chain
          <5>4. Range(q.table) \subseteq Range(p.table) \cup {Current(q.table)}
            BY <5>1
          <5>5. Rooted(W) => Rooted(W \cup {q})
            BY <5>3, <5>4 DEF Rooted
          <5> QED
            BY <4>1, <5>2, <5>5 DEF Outgrows
        <4>5. GrownTo(V, q)
          BY <4>3, <4>4 DEF GrownTo
        <4> QED
          BY <3>1, <4>5 DEF q
      <3> QED
        BY <3>2, <3>4, <3>5
    <2> QED
      BY <2>1, <1>6
  <1>7. T \in SUBSET Nat
    OBVIOUS
  <1> HIDE DEF T
  <1>8. n \in T
    BY <1>5, <1>6, <1>7, SetInduction
  <1> QED
    BY <1>4, <1>8 DEF T, Path

-----------------------------------------------------------------------------
(* Where no batch goes on.                                                 *)

\* No batch goes on past slot e.
Cut(e) ==
    \/ e <= INIT_SLOT \/ e >= Len(hist)
    \/ ~(System(e) /\ System(e + 1) /\ hist[e].era = hist[e + 1].era)

\* In a log that ends where no batch goes on, a fold goes on as in the whole log.
LEMMA OnwardCut ==
  ASSUME Len(hist) \in Nat, NEW s \in Nat, s >= INIT_SLOT, NEW t,
         NEW e \in Nat, s < e, e <= Len(hist), Cut(e)
  PROVE  Onward(s, t, e) = Onward(s, t, Len(hist))
  <1> DEFINE next == s + 1
             Runs(k) == System(k) /\ hist[k].era = hist[next].era
             E == {x \in next .. e : \A k \in next .. x : Runs(k)}
             F == {x \in next .. Len(hist) : \A k \in next .. x : Runs(k)}
  <1>1. next \in Nat /\ next > INIT_SLOT /\ next <= e /\ INIT_SLOT = 2
    BY DEF INIT_SLOT
  <1>2. ASSUME NEW x \in F, x > e PROVE FALSE
    <2>1. e \in next .. x /\ e + 1 \in next .. x /\ e < Len(hist) /\ e > INIT_SLOT
      BY <1>1, <1>2
    <2>2. Runs(e) /\ Runs(e + 1)
      BY <2>1
    <2> QED
      BY <1>1, <2>1, <2>2 DEF Cut
  <1>3. E = F
    <2> HIDE DEF Runs, next
    <2> QED
      BY <1>1, <1>2
  <1>4. RunEnd(next, e) = RunEnd(next, Len(hist))
    <2>1. RunEnd(next, e) = Max(E) /\ RunEnd(next, Len(hist)) = Max(F)
      BY DEF RunEnd
    <2> HIDE DEF E, F
    <2> QED
      BY <1>3, <2>1
  <1> QED
    BY <1>4 DEF Onward

\* A fold goes on as it did when the log grows past a slot where no batch goes on.
LEMMA OnwardSame ==
  ASSUME NEW s \in Nat, s >= INIT_SLOT, NEW t, NEW n \in Nat, s < n, NEW n2 \in Nat, n <= n2,
         \A k \in 1 .. n : hist'[k] = hist[k],
         \/ n = n2
         \/ n <= INIT_SLOT
         \/ ~(System(n) /\ System(n + 1) /\ hist[n].era = hist[n + 1].era)'
  PROVE  Onward(s, t, n2)' = Onward(s, t, n)
  <1> DEFINE next == s + 1
             Runs(k) == System(k) /\ hist[k].era = hist[next].era
             Runs2(k) == hist'[k].op # Operation /\ hist'[k].era = hist'[next].era
             E == {x \in next .. n : \A k \in next .. x : Runs(k)}
             F == {x \in next .. n2 : \A k \in next .. x : Runs2(k)}
             last == RunEnd(next, n)
  <1>1. next \in Nat /\ next > INIT_SLOT /\ next <= n /\ INIT_SLOT = 2 /\ next \in 1 .. n
    BY DEF INIT_SLOT
  <1>2. \A k \in 1 .. n : System(k)' = System(k) /\ hist'[k] = hist[k] /\ (Runs2(k) <=> Runs(k))
    BY <1>1 DEF System
  <1>3. ASSUME NEW x \in F, x > n PROVE FALSE
    <2>1. n \in next .. x /\ n + 1 \in next .. x /\ n < n2 /\ n > INIT_SLOT
      BY <1>1, <1>3
    <2>2. Runs2(n) /\ Runs2(n + 1)
      BY <2>1
    <2> QED
      BY <1>1, <2>1, <2>2 DEF System
  <1>4. E = F
    <2>1. ASSUME NEW x \in next .. n
          PROVE  (\A k \in next .. x : Runs(k)) <=> (\A k \in next .. x : Runs2(k))
      <3>1. \A k \in next .. x : k \in 1 .. n
        BY <1>1
      <3> HIDE DEF Runs, Runs2
      <3> QED
        BY <1>2, <3>1
    <2> HIDE DEF Runs, Runs2, next
    <2>2. ASSUME NEW x \in F PROVE x \in E
      <3>1. x \in next .. n
        BY <1>1, <1>3
      <3> QED
        BY <2>1, <3>1
    <2>3. ASSUME NEW x \in E PROVE x \in F
      <3>1. x \in next .. n /\ x \in next .. n2
        BY <1>1
      <3> QED
        BY <2>1, <3>1
    <2> QED
      BY <2>2, <2>3
  <1>5. RunEnd(next, n2)' = last
    <2>1. last = Max(E)
      BY DEF RunEnd
    <2>2. RunEnd(next, n2)' = Max(F)
      BY DEF RunEnd, System
    <2> HIDE DEF E, F
    <2> QED
      BY <1>4, <2>1, <2>2
  <1>6. CASE ~System(next)
    <2>1. ~System(next)'
      BY <1>1, <1>2, <1>6
    <2> QED
      BY <1>6, <2>1 DEF Onward
  <1>7. CASE System(next)
    <2>1. System(next)'
      BY <1>1, <1>2, <1>7
    <2>2. last \in next .. n
      BY <1>1, <1>7, RunEndIn
    <2>3. PICK l \in next .. n : l = last
      BY <2>2
    <2> HIDE DEF last
    <2>4. OpsOf(next, l)' = OpsOf(next, l)
      <3>1. \A i \in 1 .. l - next + 1 : next + i - 1 \in 1 .. n
        BY <1>1, <2>3
      <3> HIDE DEF next
      <3> QED
        BY <1>2, <3>1 DEF OpsOf
    <2>5. hist'[next].op = hist[next].op
      BY <1>1, <1>2
    <2>6. RunAt(t, next, l)' = RunAt(t, next, l)
      BY <2>4, <2>5 DEF RunAt
    <2>7. RunEnd(next, n2)' = l
      BY <1>5, <2>3
    <2>8. Onward(s, t, n2)' =
             {[slot |-> x.end, table |-> x.table] : x \in RunAt(t, next, RunEnd(next, n2))'}
      BY <2>1 DEF Onward
    <2>9. Onward(s, t, n) =
             {[slot |-> x.end, table |-> x.table] : x \in RunAt(t, next, l)}
      BY <1>7, <2>3 DEF Onward, last
    <2> QED
      BY <2>6, <2>7, <2>8, <2>9
  <1> QED
    BY <1>6, <1>7

-----------------------------------------------------------------------------
(* The invariant of the points.                                            *)

\* A chunk is never cut off inside a fused batch: the budget covers the log, or
\* no change is fused.
WholeRuns == Budget >= MaxSlot \/ \A c \in Changes : c.mode # "fused"

\* The leader fused m at a point q of V, with client entries only in between,
\* and stamped it from the configuration of that point.
Known(V, m) ==
    \E q \in V :
        /\ q.slot < m.slot /\ EraOf(q.table) = m.view.era
        /\ \A k \in q.slot + 1 .. m.slot - 1 : ~System(k)
        /\ \E f \in FoldSlots(Current(q.table).config, m.ops) :
              \A i \in 1 .. Len(m.ops) : hist[m.slot + i - 1].era = f.eras[i]

\* The points V of one fold of the log are those of every replica.
Agreed(V) ==
    /\ Chain(V, PointAt(Leader)) /\ Past(PointAt(Leader))
    /\ \A r \in Node : PointAt(r) \in V
    /\ \A m \in msgs : m.tag = "Fuse" => Known(V, m)

\* What a replica has ends where no batch goes on, or it has committed it all.
Whole ==
    /\ Len(hist) <= MaxSlot
    /\ \A r \in Node : Cut(accepted[r]) \/ accepted[r] = committed[r]
    /\ \A m \in msgs, e \in 1 .. Len(hist) : Ends(m, e) => Cut(e)
    /\ (\A c \in Changes : c.mode # "fused") => \A e \in 1 .. Len(hist) : Cut(e)

IInv == TInv /\ Whole /\ \E V : Agreed(V)

\* While the log stays, points and batches stay what they are.
LEMMA SameLog ==
  ASSUME TInv, hist' = hist, NEW V, NEW top
  PROVE  /\ Chain(V, top) => Chain(V, top)'
         /\ Past(top) => Past(top)'
         /\ \A m : Known(V, m) => Known(V, m)'
         /\ \A e : Cut(e)' = Cut(e)
  <1>1. \A k : System(k)' = System(k)
    BY DEF System
  <1>2. \A e : Cut(e)' = Cut(e)
    BY <1>1 DEF Cut
  <1>3. \A m : Known(V, m) => Known(V, m)'
    BY <1>1 DEF Known
  <1>4. Past(top) => Past(top)'
    BY <1>1 DEF Past
  <1>5. ASSUME Chain(V, top) PROVE Chain(V, top)'
    <2>1. ASSUME NEW p \in V, NEW q \in V, Alike(p, q) PROVE Alike(p, q)'
      BY <1>1, <2>1 DEF Alike
    <2>2. ASSUME NEW p \in V, p.slot < top.slot PROVE (Onward(p.slot, p.table, Len(hist)) \subseteq V)'
      <3>1. Onward(p.slot, p.table, Len(hist)) \subseteq V
        BY <1>5, <2>2 DEF Chain
      <3>2. Onward(p.slot, p.table, Len(hist))' = Onward(p.slot, p.table, Len(hist))
        <4>1. \A a, b : OpsOf(a, b)' = OpsOf(a, b)
          BY DEF OpsOf
        <4>2. \A a, b : RunEnd(a, b)' = RunEnd(a, b)
          BY <1>1 DEF RunEnd
        <4>3. \A t, a, b : RunAt(t, a, b)' = RunAt(t, a, b)
          BY <4>1 DEF RunAt
        <4> QED
          BY <1>1, <4>2, <4>3 DEF Onward
      <3> QED
        BY <3>1, <3>2
    <2>3. \A p, q \in V : /\ p.slot = q.slot => p = q
                          /\ p.slot <= q.slot => Alike(p, q)'
      BY <1>5, <2>1 DEF Chain
    <2> QED
      BY <1>5, <2>2, <2>3 DEF Chain
  <1> QED
    BY <1>2, <1>3, <1>4, <1>5

\* A follower's commits bring it to a point of V.
LEMMA FoldedInside ==
  ASSUME TInv, Whole, NEW V, Agreed(V), NEW r \in Node,
         NEW f, NEW end, NEW through, NEW paced, FoldedTo(r, f, end, through, paced)
  PROVE  PointOf(f) \in V
  <1>1. /\ Len(hist) \in Nat /\ OpsTyped(Len(hist)) /\ committed[r] \in Nat
        /\ SoundTable(Node, table[r]) /\ committed[Leader] \in Nat /\ PlaceSound(r)
    BY TInvTypes, LeaderIn DEF TInv
  <1>2. end \in 1 .. Len(hist)
    BY ReachedIn DEF FoldedTo
  <1>3. /\ end \in Nat /\ end <= Len(hist) /\ through \in Nat /\ through <= end
        /\ committed[r] <= through /\ through <= committed[Leader]
    BY <1>1, <1>2 DEF FoldedTo
  <1>4. OpsTyped(end)
    BY <1>1, <1>3 DEF OpsTyped
  <1>5. f \in FoldCommitted(r, end, through, paced) /\ Reached(r, end)
    BY DEF FoldedTo
  <1>6. PointAt(r) \in V
    BY DEF Agreed
  <1>7. CASE through = committed[r]
    <2> DEFINE U == {PointAt(r)}
    <2>1. [slot |-> committed[r], table |-> table[r]] \in U
      BY DEF PointAt
    <2>2. \A p \in U : ~(p.slot < through)
      BY <1>3, <1>7 DEF PointAt
    <2> HIDE DEF U
    <2>3. PointOf(f) \in U
      BY <1>1, <1>3, <1>4, <1>5, <2>1, <2>2, FoldInside
    <2> QED
      BY <1>6, <2>3 DEF U
  <1>8. CASE through # committed[r]
    <2>1. Cut(end)
      <3>1. CASE end = accepted[r]
        <4>1. accepted[r] # committed[r]
          BY <1>1, <1>3, <1>8, <3>1
        <4> QED
          BY <3>1, <4>1 DEF Whole
      <3>2. CASE \E m \in msgs : Ends(m, end)
        BY <1>2, <3>2 DEF Whole
      <3> QED
        BY <1>5, <3>1, <3>2 DEF Reached
    <2>2. ASSUME NEW p \in V, p.slot < through PROVE Onward(p.slot, p.table, end) \subseteq V
      <3>1. /\ p.slot \in Nat /\ p.slot >= INIT_SLOT /\ p.slot < end /\ p.slot < committed[Leader]
            /\ Onward(p.slot, p.table, Len(hist)) \subseteq V
        <4>1. PointAt(Leader).slot = committed[Leader]
          BY DEF PointAt
        <4>2. p.slot \in INIT_SLOT .. committed[Leader]
          BY <4>1 DEF Agreed, Chain
        <4>3. p.slot < committed[Leader] => Onward(p.slot, p.table, Len(hist)) \subseteq V
          BY <4>1 DEF Agreed, Chain
        <4> QED
          BY <1>1, <1>3, <2>2, <4>2, <4>3 DEF INIT_SLOT
      <3>2. Onward(p.slot, p.table, end) = Onward(p.slot, p.table, Len(hist))
        BY <1>1, <1>3, <2>1, <3>1, OnwardCut
      <3> QED
        BY <3>1, <3>2
    <2>3. [slot |-> committed[r], table |-> table[r]] \in V
      BY <1>6 DEF PointAt
    <2> QED
      BY <1>1, <1>3, <1>4, <1>5, <2>2, <2>3, FoldInside
  <1> QED
    BY <1>7, <1>8

\* The points and the ends stay when a follower moves.
LEMMA GoesAgreed ==
  ASSUME TInv, Whole, NEW r \in Node \ {Leader}, Goes(r), NEW V, Agreed(V)
  PROVE  Whole' /\ Agreed(V)'
  <1>1. /\ hist' = hist /\ Len(hist) \in Nat /\ Leader \in Node
        /\ \A n \in Node \ {r} : /\ accepted'[n] = accepted[n] /\ committed'[n] = committed[n]
                                 /\ table'[n] = table[n]
    BY TInvTypes, LeaderIn DEF Goes, Still
  <1>2. \A e : Cut(e)' = Cut(e)
    BY <1>1, SameLog
  <1>3. \A m \in msgs' \ msgs : m.tag \in {"Ok", "GetState", "DoViewChange"}
    BY DEF Goes, Answers
  <1>4. PointAt(r)' \in V /\ (Cut(accepted'[r]) \/ accepted'[r] = committed'[r])
    <2>1. PointAt(r) \in V /\ (Cut(accepted[r]) \/ accepted[r] = committed[r])
      BY DEF Agreed, Whole
    <2>2. CASE Stays(r)
      BY <2>1, <2>2 DEF Stays, PointAt
    <2>3. CASE Fuses(r)
      <3>1. accepted'[r] \in 1 .. Len(hist) /\ \E m \in msgs : Ends(m, accepted'[r])
        BY <2>3, ReachedIn DEF Fuses, Reached
      <3> QED
        BY <2>1, <2>3, <3>1 DEF Fuses, Whole, PointAt
    <2>4. CASE \E f, end, through, paced : FoldedTo(r, f, end, through, paced)
      <3>1. PICK f, end, through, paced : FoldedTo(r, f, end, through, paced)
        BY <2>4
      <3>2. PointOf(f) \in V
        BY <3>1, FoldedInside
      <3>3. PointAt(r)' = PointOf(f)
        BY <3>1 DEF FoldedTo, PointAt, PointOf
      <3>4. Cut(accepted'[r]) \/ accepted'[r] = committed'[r]
        <4>1. CASE accepted'[r] = f.slot
          BY <3>1, <4>1 DEF FoldedTo
        <4>2. CASE accepted'[r] = accepted[r]
          <5>1. CASE accepted[r] = committed[r]
            <6>1. end \in 1 .. Len(hist) /\ through \in committed[r] .. end
              BY <3>1, ReachedIn DEF FoldedTo
            <6>2. f.slot \in committed[r] .. through
              BY <3>1, <6>1, FoldWithin DEF FoldedTo
            <6>3. committed[r] \in Nat /\ accepted[r] \in Nat
              BY TInvTypes
            <6>4. committed'[r] = f.slot /\ f.slot <= accepted'[r]
              BY <3>1 DEF FoldedTo
            <6> QED
              BY <4>2, <5>1, <6>1, <6>2, <6>3, <6>4
          <5> QED
            BY <2>1, <4>2, <5>1
        <4>3. CASE \E m \in msgs : Ends(m, accepted'[r])
          <5>1. accepted'[r] \in 1 .. Len(hist)
            BY <4>3, ReachedIn DEF Reached
          <5> QED
            BY <4>3, <5>1 DEF Whole
        <4> QED
          BY <3>1, <4>1, <4>2, <4>3 DEF FoldedTo, Reached
      <3> QED
        BY <3>2, <3>3, <3>4
    <2> QED
      BY <2>2, <2>3, <2>4 DEF Goes
  <1>5. Whole'
    <2>1. \A n \in Node : (Cut(accepted[n]) \/ accepted[n] = committed[n])'
      BY <1>1, <1>2, <1>4 DEF Whole
    <2>2. \A m \in msgs', e \in 1 .. Len(hist) : Ends(m, e) => Cut(e)
      BY <1>3 DEF Whole, Ends
    <2> QED
      BY <1>1, <1>2, <2>1, <2>2 DEF Whole, Ends
  <1>6. Agreed(V)'
    <2>1. PointAt(Leader)' = PointAt(Leader)
      BY <1>1 DEF PointAt
    <2>2. Chain(V, PointAt(Leader))' /\ Past(PointAt(Leader))'
      <3>1. PICK top : top = PointAt(Leader)
        OBVIOUS
      <3>2. Chain(V, top)' /\ Past(top)'
        BY <1>1, <3>1, SameLog DEF Agreed
      <3> QED
        BY <2>1, <3>1, <3>2
    <2>3. \A n \in Node : PointAt(n)' \in V
      BY <1>1, <1>4 DEF Agreed, PointAt
    <2>4. \A m \in msgs' : m.tag = "Fuse" => Known(V, m)'
      BY <1>1, <1>3, SameLog DEF Agreed
    <2> QED
      BY <2>2, <2>3, <2>4 DEF Agreed
  <1> QED
    BY <1>5, <1>6

\* They stay, with the points of what it commits, when the leader moves.
LEMMA LeadsAgreed ==
  ASSUME WholeRuns, TInv, Whole, Leads1, NEW V, Agreed(V)
  PROVE  Whole' /\ \E W : Agreed(W)' /\ Outgrows(W, V)
  <1>1. /\ hist' = hist /\ Len(hist) \in Nat /\ Leader \in Node /\ accepted[Leader] = Len(hist)
        /\ accepted'[Leader] = accepted[Leader]
        /\ \A n \in Node \ {Leader} :
              /\ accepted'[n] = accepted[n] /\ committed'[n] = committed[n]
              /\ table'[n] = table[n]
    BY TInvTypes, LeaderIn DEF Leads1, Still, TInv
  <1>2. \A e : Cut(e)' = Cut(e)
    BY <1>1, SameLog
  <1>3. Cut(Len(hist))
    BY <1>1 DEF Cut
  <1>4. ASSUME NEW m \in msgs' \ msgs, NEW e \in 1 .. Len(hist), Ends(m, e) PROVE Cut(e)
    <2>1. CASE m.tag = "NewState"
      <3>1. e = m.through
        BY <1>4, <2>1 DEF Ends
      <3>2. PICK n \in msgs : /\ n.tag = "GetState"
                              /\ m.through = AtMost(accepted[Leader], n.next + Budget - 1)
        BY <2>1 DEF Leads1, Tells
      <3>3. n.next \in Nat /\ n.next >= 1
        BY <3>2 DEF TInv, MsgSound
      <3>4. CASE Budget >= MaxSlot
        <4>1. Budget \in Nat /\ MaxSlot \in Nat /\ Len(hist) <= MaxSlot
          BY ReconfigurationAssumption DEF Whole
        <4>2. m.through = Len(hist)
          BY <1>1, <3>2, <3>3, <3>4, <4>1 DEF AtMost
        <4> QED
          BY <1>3, <3>1, <4>2
      <3>5. CASE \A c \in Changes : c.mode # "fused"
        BY <3>5 DEF Whole
      <3> QED
        BY <3>4, <3>5 DEF WholeRuns
    <2>2. CASE m.tag = "StartView"
      BY <1>1, <1>3, <1>4, <2>2 DEF Ends, Leads1, Tells
    <2>3. CASE m.tag \notin {"NewState", "StartView"}
      BY <1>4, <2>3 DEF Ends, Leads1, Tells
    <2> QED
      BY <2>1, <2>2, <2>3
  <1>5. Whole'
    <2>1. ASSUME NEW n \in Node PROVE (Cut(accepted[n]) \/ accepted[n] = committed[n])'
      <3>1. CASE n = Leader
        BY <1>1, <1>2, <1>3, <3>1
      <3>2. CASE n # Leader
        BY <1>1, <1>2, <3>2 DEF Whole
      <3> QED
        BY <3>1, <3>2
    <2>2. \A m \in msgs', e \in 1 .. Len(hist) : Ends(m, e) => Cut(e)
      BY <1>4 DEF Whole
    <2> QED
      BY <1>1, <1>2, <2>1, <2>2 DEF Whole, Ends
  <1>6. GrownTo(V, PointAt(Leader)')
    <2>1. CASE committed'[Leader] = committed[Leader] /\ table'[Leader] = table[Leader]
      <3>1. PointAt(Leader)' = PointAt(Leader)
        BY <2>1 DEF PointAt
      <3>2. GrownTo(V, PointAt(Leader))
        BY DEF GrownTo, Agreed, Outgrows
      <3> QED
        BY <3>1, <3>2
    <2>2. CASE \E f, through : LeaderFolds(f, through)
      <3>1. PICK f, through : LeaderFolds(f, through)
        BY <2>2
      <3>2. /\ f \in FoldCommitted(Leader, Len(hist), through, TRUE)
            /\ through \in committed[Leader] .. Len(hist)
            /\ PointAt(Leader)' = PointOf(f)
        BY <1>1, <3>1 DEF LeaderFolds, PointAt, PointOf
      <3>3. Chain(V, PointAt(Leader)) /\ Past(PointAt(Leader))
        BY DEF Agreed
      <3>4. GrownTo(V, PointOf(f))
        BY <3>2, <3>3, LeaderGrows
      <3> QED
        BY <3>2, <3>4
    <2> QED
      BY <2>1, <2>2 DEF Leads1
  <1>7. PICK W : Outgrows(W, V) /\ V \subseteq W /\ Chain(W, PointAt(Leader)')
                 /\ Past(PointAt(Leader)')
    BY <1>6 DEF GrownTo, Outgrows
  <1>8. Agreed(W)'
    <2>1. Chain(W, PointAt(Leader))' /\ Past(PointAt(Leader))'
      <3>1. PICK top : top = PointAt(Leader)'
        OBVIOUS
      <3>2. Chain(W, top)' /\ Past(top)'
        BY <1>1, <1>7, <3>1, SameLog
      <3> QED
        BY <3>1, <3>2
    <2>2. ASSUME NEW n \in Node PROVE PointAt(n)' \in W
      <3>1. CASE n = Leader
        BY <1>7, <3>1 DEF Chain
      <3>2. CASE n # Leader
        <4>1. PointAt(n)' = PointAt(n)
          BY <1>1, <3>2 DEF PointAt
        <4> QED
          BY <1>7, <4>1 DEF Agreed
      <3> QED
        BY <3>1, <3>2
    <2>3. ASSUME NEW m \in msgs', m.tag = "Fuse" PROVE Known(W, m)'
      <3>1. m \in msgs
        BY <2>3 DEF Leads1, Tells
      <3>2. Known(V, m)
        BY <2>3, <3>1 DEF Agreed
      <3>3. Known(W, m)
        BY <1>7, <3>2 DEF Known
      <3> QED
        BY <1>1, <3>3, SameLog
    <2> QED
      BY <2>1, <2>2, <2>3 DEF Agreed
  <1> QED
    BY <1>5, <1>7, <1>8

-----------------------------------------------------------------------------
(* Ordering keeps it.                                                      *)

\* Nothing the leader orders goes on with a batch that had ended.
LEMMA EndStaysCut ==
  ASSUME TInv, NEW V, Agreed(V), NEW es, Orders(es), Lawful(es), NEW n, n = Len(hist)
  PROVE  Cut(n)'
  <1>1. /\ Len(es) \in Nat /\ Len(es) >= 1 /\ n \in Nat /\ n >= 2
        /\ Len(hist') = n + Len(es)
        /\ \A s \in 1 .. n : hist'[s] = hist[s]
        /\ \A i \in 1 .. Len(es) : hist'[n + i] = es[i]
    BY Lengthened
  <1>2. hist'[n] = hist[n] /\ hist'[n + 1] = es[1]
    BY <1>1
  <1>3. CASE es[1].op = Operation
    <2>1. hist'[n + 1].op = Operation
      BY <1>2, <1>3
    <2> QED
      BY <2>1 DEF Cut, System
  <1>4. CASE /\ \A s \in committed[Leader] + 1 .. accepted[Leader] : ~System(s)
             /\ es[1].era = Config(Leader).era
    <2>1. CASE n <= INIT_SLOT \/ ~System(n)
      BY <1>2, <2>1 DEF Cut, System
    <2>2. CASE n > INIT_SLOT /\ System(n)
      <3>1. /\ committed[Leader] \in Nat /\ accepted[Leader] = n /\ committed[Leader] <= n
            /\ Config(Leader).era = EraOf(table[Leader]) /\ EraOf(table[Leader]) \in Nat
            /\ hist[n].era \in Nat
        <4>1. PlaceSound(Leader) /\ Leader \in Node
          BY LeaderIn DEF TInv
        <4>2. committed[Leader] \in Nat /\ accepted[Leader] = n
          BY <4>1, TInvTypes DEF TInv
        <4>3. hist[n].era \in Nat
          BY <1>1 DEF TInv, HistSound
        <4> QED
          BY <1>1, <4>1, <4>2, <4>3, LeaderConfig DEF PlaceSound
      <3>2. n = committed[Leader]
        BY <1>1, <1>4, <2>2, <3>1
      <3>3. hist[n].era < EraOf(table[Leader])
        <4>1. /\ PointAt(Leader).slot = committed[Leader] /\ PointAt(Leader).table = table[Leader]
              /\ Past(PointAt(Leader))
          BY DEF PointAt, Agreed
        <4>2. n \in INIT_SLOT + 1 .. committed[Leader]
          BY <1>1, <2>2, <3>2 DEF INIT_SLOT
        <4> QED
          BY <2>2, <4>1, <4>2 DEF Past
      <3>4. hist'[n].era # hist'[n + 1].era
        BY <1>2, <1>4, <3>1, <3>3
      <3> QED
        BY <3>4 DEF Cut
    <2> QED
      BY <1>1, <2>1, <2>2 DEF INIT_SLOT
  <1> QED
    BY <1>3, <1>4 DEF Lawful

\* Where no batch goes on, none goes on when the log grows.
LEMMA CutsStay ==
  ASSUME TInv, NEW es, Orders(es), NEW n, n = Len(hist), Cut(n)',
         NEW e \in 1 .. n, Cut(e)
  PROVE  Cut(e)'
  <1>1. /\ n \in Nat /\ Len(hist') >= n
        /\ \A s \in 1 .. n : hist'[s] = hist[s]
    BY Lengthened
  <1>2. CASE e = n
    BY <1>2
  <1>3. CASE e # n
    <2>1. e + 1 \in 1 .. n /\ ~(e >= n) /\ hist'[e] = hist[e] /\ hist'[e + 1] = hist[e + 1]
      BY <1>1, <1>3
    <2> QED
      BY <2>1 DEF Cut, System
  <1> QED
    BY <1>2, <1>3

\* What is ordered ends where no batch goes on.
LEMMA OrdersWhole ==
  ASSUME TInv, Whole, NEW V, Agreed(V), NEW es, Orders(es), Lawful(es)
  PROVE  Whole'
  <1>1. PICK n : n = Len(hist)
    OBVIOUS
  <1>2. /\ Len(es) \in Nat /\ Len(es) >= 1 /\ n \in Nat /\ n >= 2
        /\ Len(hist') = n + Len(es)
        /\ accepted'[Leader] = Len(hist')
        /\ \A r \in Node \ {Leader} : accepted'[r] = accepted[r]
    BY <1>1, Lengthened
  <1>3. /\ n + Len(es) <= MaxSlot /\ committed' = committed
        /\ \A m \in msgs' \ msgs : Announces(m, es)
    BY <1>1 DEF Orders
  <1>4. Cut(n)'
    BY <1>1, EndStaysCut
  <1>5. \A e \in 1 .. n : Cut(e) => Cut(e)'
    BY <1>1, <1>4, CutsStay
  <1>6. \A e : e = n + Len(es) => Cut(e)'
    BY <1>2 DEF Cut
  <1>7. ASSUME NEW r \in Node PROVE (Cut(accepted[r]) \/ accepted[r] = committed[r])'
    <2>1. CASE r = Leader
      BY <1>2, <1>6, <2>1
    <2>2. CASE r # Leader
      <3>1. Reached(r, accepted[r])
        BY DEF Reached
      <3>2. accepted[r] \in 1 .. n
        BY <1>1, <3>1, ReachedIn
      <3>3. PICK a : a = accepted[r]
        OBVIOUS
      <3>4. Cut(a) \/ a = committed[r]
        BY <3>3 DEF Whole
      <3>5. Cut(a) => Cut(a)'
        BY <1>5, <3>2, <3>3
      <3> QED
        BY <1>2, <1>3, <2>2, <3>3, <3>4, <3>5
    <2> QED
      BY <2>1, <2>2
  <1>8. ASSUME NEW m \in msgs', NEW e \in 1 .. n + Len(es), Ends(m, e) PROVE Cut(e)'
    <2>1. CASE m \in msgs
      <3>1. Reached(Leader, e)
        BY <1>8, <2>1 DEF Reached
      <3>2. e \in 1 .. n
        BY <1>1, <3>1, LeaderIn, ReachedIn
      <3> QED
        BY <1>1, <1>5, <1>8, <2>1, <3>2 DEF Whole
    <2>2. CASE m \in msgs' \ msgs
      <3>1. e = n + Len(es)
        <4>1. Announces(m, es)
          BY <1>3, <2>2
        <4>2. CASE m.tag = "Prepare"
          <5>1. Len(es) = 1 /\ m.slot = n + 1
            BY <1>1, <4>1, <4>2 DEF Announces
          <5> QED
            BY <1>8, <4>2, <5>1 DEF Ends
        <4>3. CASE m.tag = "Fuse"
          <5>1. Len(m.ops) = Len(es) /\ m.slot = n + 1
            BY <1>1, <4>1, <4>3 DEF Announces
          <5>2. e = m.slot + Len(m.ops) - 1
            BY <1>8, <4>3 DEF Ends
          <5> QED
            BY <1>2, <5>1, <5>2
        <4> QED
          BY <4>1, <4>2, <4>3 DEF Announces
      <3> QED
        BY <1>6, <3>1
    <2> QED
      BY <2>1, <2>2
  <1>9. ASSUME \A c \in Changes : c.mode # "fused", NEW e \in 1 .. n + Len(es) PROVE Cut(e)'
    <2>1. ~(Len(es) > 1)
      BY <1>9 DEF Lawful
    <2>2. e \in 1 .. n \/ e = n + Len(es)
      BY <1>2, <2>1
    <2>3. e \in 1 .. n => Cut(e)
      BY <1>1, <1>9 DEF Whole
    <2> QED
      BY <1>5, <1>6, <2>2, <2>3
  <1> QED
    BY <1>2, <1>3, <1>7, <1>8, <1>9 DEF Whole, Ends

\* The points of the fold up to a committed slot stay points when the log grows.
LEMMA ChainStays ==
  ASSUME TInv, NEW es, Orders(es), NEW n, n = Len(hist), Cut(n)',
         NEW V, NEW top, Chain(V, top), top.slot \in Nat, top.slot <= n
  PROVE  Chain(V, top)'
  <1>1. /\ n \in Nat /\ n >= 2 /\ INIT_SLOT = 2
        /\ Len(hist') \in Nat /\ n <= Len(hist')
        /\ \A s \in 1 .. n : hist'[s] = hist[s]
    BY Lengthened DEF INIT_SLOT
  <1>2. \A k \in 1 .. n : System(k)' = System(k)
    BY <1>1 DEF System
  <1>3. \A p \in V : p.slot \in Nat /\ p.slot >= INIT_SLOT /\ p.slot <= top.slot
    BY <1>1 DEF Chain
  <1>4. ASSUME NEW p \in V, NEW q \in V, p.slot <= q.slot PROVE Alike(p, q)'
    <2>1. Alike(p, q)
      BY <1>4 DEF Chain
    <2>2. \A k \in p.slot + 1 .. q.slot : k \in 1 .. n
      BY <1>1, <1>3
    <2>3. \A k \in p.slot + 1 .. q.slot : System(k)' = System(k)
      BY <1>2, <2>2
    <2> QED
      BY <2>1, <2>3 DEF Alike
  <1>5. ASSUME NEW p \in V, p.slot < top.slot
        PROVE  (Onward(p.slot, p.table, Len(hist)) \subseteq V)'
    <2>1. PICK n2 : n2 = Len(hist')
      OBVIOUS
    <2>2. p.slot \in Nat /\ p.slot >= INIT_SLOT /\ p.slot < n
      BY <1>1, <1>3, <1>5
    <2>3. \/ n = n2
          \/ n <= INIT_SLOT
          \/ ~(System(n) /\ System(n + 1) /\ hist[n].era = hist[n + 1].era)'
      BY <1>1, <2>1 DEF Cut
    <2>4. Onward(p.slot, p.table, n2)' = Onward(p.slot, p.table, n)
      BY <1>1, <2>1, <2>2, <2>3, OnwardSame
    <2>5. Onward(p.slot, p.table, n) \subseteq V
      BY <1>5 DEF Chain
    <2> QED
      BY <2>1, <2>4, <2>5
  <1>6. \A p, q \in V : p.slot = q.slot => p = q
    BY DEF Chain
  <1> QED
    BY <1>4, <1>5, <1>6 DEF Chain

\* The stamps ordered are those the fold is to come to.
LEMMA PastStays ==
  ASSUME TInv, NEW es, Orders(es), Lawful(es), NEW top, top = PointAt(Leader), Past(top)
  PROVE  Past(top)'
  <1>1. PICK n : n = Len(hist)
    OBVIOUS
  <1>2. /\ n \in Nat /\ n >= 2 /\ INIT_SLOT = 2
        /\ Len(es) \in Nat /\ Len(hist') = n + Len(es)
        /\ \A s \in 1 .. n : hist'[s] = hist[s]
        /\ \A i \in 1 .. Len(es) : hist'[n + i] = es[i]
    BY <1>1, Lengthened DEF INIT_SLOT
  <1>3. \A k \in 1 .. n : System(k)' = System(k) /\ hist'[k] = hist[k]
    BY <1>2 DEF System
  <1>4. /\ top.slot \in Nat /\ top.slot >= 2 /\ top.slot <= n
        /\ EraOf(top.table) = Config(Leader).era
    <2>1. top.slot = committed[Leader] /\ top.table = table[Leader]
      BY DEF PointAt
    <2>2. PlaceSound(Leader) /\ accepted[Leader] = n
      BY <1>1, LeaderIn DEF TInv
    <2> QED
      BY <1>2, <2>1, <2>2, LeaderConfig DEF PlaceSound
  <1>5. ASSUME NEW s \in INIT_SLOT + 1 .. top.slot, System(s)'
        PROVE  hist'[s].era < EraOf(top.table)
    <2>1. s \in 1 .. n
      BY <1>2, <1>4
    <2> QED
      BY <1>3, <1>5, <2>1 DEF Past
  <1>6. ASSUME NEW k \in top.slot + 1 .. n + Len(es), System(k)'
        PROVE  \/ hist'[k].era <= EraOf(top.table)
               \/ /\ k - 1 > top.slot /\ System(k - 1)'
                  /\ hist'[k].era <= hist'[k - 1].era + 1
    <2>1. CASE k <= n
      <3>1. k \in top.slot + 1 .. Len(hist) /\ k \in 1 .. n
        BY <1>1, <1>4, <2>1
      <3>2. System(k)
        BY <1>3, <1>6, <3>1
      <3>3. \/ hist[k].era <= EraOf(top.table)
            \/ /\ k - 1 > top.slot /\ System(k - 1)
               /\ hist[k].era <= hist[k - 1].era + 1
        BY <3>1, <3>2 DEF Past
      <3>4. k - 1 > top.slot => k - 1 \in 1 .. n
        BY <1>2, <1>4, <3>1
      <3> QED
        BY <1>3, <3>1, <3>3, <3>4
    <2>2. CASE k > n
      <3>1. PICK i \in 1 .. Len(es) : k = n + i
        <4>1. k - n \in 1 .. Len(es) /\ k = n + (k - n)
          BY <1>2, <1>4, <2>2
        <4> QED
          BY <4>1
      <3>2. hist'[k] = es[i]
        BY <1>2, <3>1
      <3>3. es[i].op # Operation
        BY <1>6, <3>2 DEF System
      <3>4. /\ es[1].era = Config(Leader).era
            /\ \A j \in 1 .. Len(es) : es[j].op # Operation
            /\ \A j \in 1 .. Len(es) - 1 : es[j + 1].era <= es[j].era + 1
        <4>1. CASE Len(es) = 1 /\ es[1].op = Operation
          BY <3>1, <3>3, <4>1
        <4> QED
          BY <4>1 DEF Lawful
      <3>5. CASE i = 1
        <4>1. hist'[k].era = EraOf(top.table)
          BY <1>4, <3>2, <3>4, <3>5
        <4>2. EraOf(top.table) \in Nat
          BY <1>4, LeaderConfig
        <4> QED
          BY <4>1, <4>2
      <3>6. CASE i # 1
        <4>1. /\ i - 1 \in 1 .. Len(es) - 1 /\ i - 1 \in 1 .. Len(es)
              /\ k - 1 = n + (i - 1) /\ (i - 1) + 1 = i /\ k - 1 > top.slot
          BY <1>2, <1>4, <3>1, <3>6
        <4>2. PICK j \in 1 .. Len(es) : j = i - 1
          BY <4>1
        <4>3. hist'[k - 1] = es[j]
          BY <1>2, <4>1, <4>2
        <4>4. es[i].era <= es[j].era + 1
          BY <3>4, <4>1, <4>2
        <4>5. System(k - 1)'
          BY <3>4, <4>3 DEF System
        <4> QED
          BY <3>2, <4>1, <4>3, <4>4, <4>5
      <3> QED
        BY <3>5, <3>6
    <2> QED
      BY <1>2, <1>4, <2>1, <2>2
  <1> QED
    BY <1>2, <1>5, <1>6 DEF Past

\* A fused batch stays known.
LEMMA KnownStays ==
  ASSUME TInv, NEW es, Orders(es), NEW V,
         \A q \in V : q.slot \in Nat, NEW m \in msgs, m.tag = "Fuse", Known(V, m)
  PROVE  Known(V, m)'
  <1>1. /\ Len(hist) \in Nat
        /\ \A s \in 1 .. Len(hist) : hist'[s] = hist[s]
    BY Lengthened
  <1>2. PICK n : n = Len(hist)
    OBVIOUS
  <1>3. n \in Nat /\ \A s \in 1 .. n : System(s)' = System(s) /\ hist'[s] = hist[s]
    BY <1>1, <1>2 DEF System
  <1>4. /\ \E O : m.ops \in Seq(O)
        /\ m.slot \in Nat /\ m.slot >= 1 /\ m.slot + Len(m.ops) - 1 <= n
    BY <1>2 DEF TInv, MsgSound
  <1>5. PICK q \in V :
           /\ q.slot < m.slot /\ EraOf(q.table) = m.view.era
           /\ \A k \in q.slot + 1 .. m.slot - 1 : ~System(k)
           /\ \E f \in FoldSlots(Current(q.table).config, m.ops) :
                 \A i \in 1 .. Len(m.ops) : hist[m.slot + i - 1].era = f.eras[i]
    BY DEF Known
  <1>6. Len(m.ops) \in Nat
    BY <1>4
  <1>7. \A i \in 1 .. Len(m.ops) : m.slot + i - 1 \in 1 .. n
    BY <1>3, <1>4, <1>6
  <1>8. \A k \in q.slot + 1 .. m.slot - 1 : k \in 1 .. n
    <2>1. q.slot \in Nat /\ Len(m.ops) >= 1 /\ m.slot - 1 <= n
      BY <1>3, <1>4, <1>6 DEF TInv, MsgSound
    <2> QED
      BY <1>3, <1>4, <2>1
  <1>9. \A k \in q.slot + 1 .. m.slot - 1 : ~System(k)'
    BY <1>3, <1>5, <1>8
  <1>10. \E f \in FoldSlots(Current(q.table).config, m.ops) :
            \A i \in 1 .. Len(m.ops) : hist'[m.slot + i - 1].era = f.eras[i]
    BY <1>3, <1>5, <1>7
  <1> QED
    BY <1>5, <1>9, <1>10 DEF Known

\* A batch that is fused now is known from the point of the leader.
LEMMA KnownFused ==
  ASSUME TInv, NEW es, Orders(es), Lawful(es), NEW V, PointAt(Leader) \in V,
         NEW m, m.tag = "Fuse", Announces(m, es)
  PROVE  Known(V, m)'
  <1>1. PICK n : n = Len(hist)
    OBVIOUS
  <1>2. /\ n \in Nat /\ Len(es) \in Nat /\ Len(hist') = n + Len(es)
        /\ \A s \in 1 .. n : hist'[s] = hist[s]
        /\ \A i \in 1 .. Len(es) : hist'[n + i] = es[i]
    BY <1>1, Lengthened
  <1>3. /\ m.view = ballot[Leader] /\ m.slot = n + 1 /\ Len(m.ops) = Len(es) /\ Len(es) >= 2
        /\ \E f \in FoldSlots(Config(Leader), m.ops) :
              \A i \in 1 .. Len(es) : es[i].era = f.eras[i]
    BY <1>1 DEF Announces
  <1>4. /\ Config(Leader).era = ballot[Leader].era
        /\ \A s \in committed[Leader] + 1 .. accepted[Leader] : ~System(s)
    BY <1>2, <1>3 DEF Lawful
  <1>5. PICK q \in V : q = PointAt(Leader)
    OBVIOUS
  <1>6. /\ q.slot = committed[Leader] /\ q.table = table[Leader]
        /\ accepted[Leader] = n /\ committed[Leader] \in Nat /\ committed[Leader] <= n
    <2>1. q.slot = committed[Leader] /\ q.table = table[Leader]
      BY <1>5 DEF PointAt
    <2>2. PlaceSound(Leader) /\ accepted[Leader] = n
      BY <1>1, LeaderIn DEF TInv
    <2>3. committed[Leader] \in Nat
      BY LeaderIn, TInvTypes
    <2> QED
      BY <1>2, <2>1, <2>2, <2>3 DEF PlaceSound
  <1>7. q.slot < m.slot /\ EraOf(q.table) = m.view.era
    BY <1>2, <1>3, <1>4, <1>6, LeaderConfig
  <1>8. \A k \in q.slot + 1 .. m.slot - 1 : ~System(k)'
    <2>1. \A k \in q.slot + 1 .. m.slot - 1 :
             k \in committed[Leader] + 1 .. accepted[Leader] /\ k \in 1 .. n
      BY <1>2, <1>3, <1>6
    <2>2. \A k \in 1 .. n : System(k)' = System(k)
      BY <1>2 DEF System
    <2> QED
      BY <1>4, <2>1, <2>2
  <1>9. \E f \in FoldSlots(Current(q.table).config, m.ops) :
           \A i \in 1 .. Len(m.ops) : hist'[m.slot + i - 1].era = f.eras[i]
    <2>1. PICK f \in FoldSlots(Config(Leader), m.ops) :
             \A i \in 1 .. Len(es) : es[i].era = f.eras[i]
      BY <1>3
    <2>2. f \in FoldSlots(Current(q.table).config, m.ops)
      BY <1>6, <2>1 DEF Config
    <2>3. ASSUME NEW i \in 1 .. Len(m.ops) PROVE hist'[m.slot + i - 1].era = f.eras[i]
      <3>1. i \in 1 .. Len(es) /\ m.slot + i - 1 = n + i
        BY <1>2, <1>3
      <3> QED
        BY <1>2, <2>1, <3>1
    <2> QED
      BY <2>2, <2>3
  <1> QED
    BY <1>5, <1>7, <1>8, <1>9 DEF Known

\* The points stay when the leader orders.
LEMMA OrdersAgreed ==
  ASSUME TInv, Whole, NEW V, Agreed(V), NEW es, Orders(es), Lawful(es)
  PROVE  Agreed(V)'
  <1>1. PICK top : top = PointAt(Leader)
    OBVIOUS
  <1>2. PICK n : n = Len(hist)
    OBVIOUS
  <1>3. UNCHANGED <<committed, table>> /\ \A m \in msgs' \ msgs : Announces(m, es)
    BY DEF Orders
  <1>4. \A r : PointAt(r)' = PointAt(r)
    BY <1>3 DEF PointAt
  <1>5. top.slot \in Nat /\ top.slot <= n
    <2>1. top.slot = committed[Leader]
      BY <1>1 DEF PointAt
    <2>2. PlaceSound(Leader) /\ accepted[Leader] = n
      BY <1>2, LeaderIn DEF TInv
    <2>3. committed[Leader] \in Nat /\ n \in Nat
      BY <1>2, LeaderIn, TInvTypes
    <2> QED
      BY <2>1, <2>2, <2>3 DEF PlaceSound
  <1>6. Chain(V, top) /\ Past(top) /\ top \in V
    BY <1>1 DEF Agreed, Chain
  <1>7. Cut(n)'
    BY <1>2, EndStaysCut
  <1>8. Chain(V, top)' /\ Past(top)'
    BY <1>1, <1>2, <1>5, <1>6, <1>7, ChainStays, PastStays
  <1>9. Chain(V, PointAt(Leader))' /\ Past(PointAt(Leader))'
    <2>1. PointAt(Leader)' = top
      BY <1>1, <1>4
    <2> QED
      BY <1>8, <2>1
  <1>10. \A r \in Node : PointAt(r)' \in V
    BY <1>4 DEF Agreed
  <1>11. ASSUME NEW m \in msgs', m.tag = "Fuse" PROVE Known(V, m)'
    <2>1. CASE m \in msgs
      <3>1. \A q \in V : q.slot \in Nat
        <4>1. \A q \in V : q.slot \in INIT_SLOT .. top.slot
          BY <1>6 DEF Chain
        <4> QED
          BY <1>5, <4>1 DEF INIT_SLOT
      <3>2. Known(V, m)
        BY <1>11, <2>1 DEF Agreed
      <3> QED
        BY <1>11, <2>1, <3>1, <3>2, KnownStays
    <2>2. CASE m \notin msgs
      <3>1. PointAt(Leader) \in V /\ Announces(m, es)
        BY <1>1, <1>3, <1>6, <1>11, <2>2
      <3> QED
        BY <1>11, <3>1, KnownFused
    <2> QED
      BY <2>1, <2>2
  <1> QED
    BY <1>9, <1>10, <1>11 DEF Agreed

-----------------------------------------------------------------------------
(* Every step keeps the points.                                            *)

\* At first there is one point, that of genesis.
LEMMA InitAgreed ==
  ASSUME Init, NEW p, p = [slot |-> INIT_SLOT, table |-> Genesis(InitOrder)], NEW V, V = {p}
  PROVE  Whole /\ Agreed(V)
  <1>1. /\ hist = <<Entry([op |-> "Void"], 0), Entry([op |-> "Init"], 1)>>
        /\ \A r \in Node : PointAt(r) = p /\ accepted[r] = INIT_SLOT
        /\ msgs = {}
    BY DEF Init, PointAt
  <1>2. Len(hist) = 2 /\ INIT_SLOT = 2 /\ Leader \in Node
    BY <1>1, LeaderIn DEF INIT_SLOT
  <1>3. SoundTable(Node, Genesis(InitOrder)) /\ EraOf(Genesis(InitOrder)) = 1
    BY ReconfigurationAssumption, GenesisSound
  <1>4. p.slot = 2 /\ p.table = Genesis(InitOrder) /\ p = [slot |-> p.slot, table |-> p.table]
    BY <1>2
  <1>5. \A x, y \in Range(Genesis(InitOrder)) : x = y
    BY DEF Genesis, Range
  <1>6. Chain(V, p)
    <2>1. Alike(p, p)
      BY <1>3, <1>4, <1>5 DEF Alike
    <2>2. p = [slot |-> INIT_SLOT, table |-> Genesis(InitOrder)]
      OBVIOUS
    <2>3. p.slot \in INIT_SLOT .. p.slot /\ ~(p.slot < p.slot)
      BY <1>2, <1>4
    <2> QED
      BY <1>3, <1>4, <2>1, <2>2, <2>3 DEF Chain
  <1>7. Past(p)
    BY <1>2, <1>4 DEF Past
  <1>8. Agreed(V)
    BY <1>1, <1>2, <1>6, <1>7 DEF Agreed
  <1>9. \A e \in 1 .. Len(hist) : Cut(e)
    BY <1>2 DEF Cut
  <1>10. Whole
    BY <1>1, <1>2, <1>9, ReconfigurationAssumption DEF Whole
  <1> QED
    BY <1>8, <1>10

\* All that is known of the start.
LEMMA InitIInv == ASSUME Init PROVE IInv
  BY InitAgreed, InitTInv DEF IInv

\* A step that changes nothing keeps the points.
LEMMA StutterAgreed ==
  ASSUME TInv, Whole, NEW V, Agreed(V), UNCHANGED vars
  PROVE  Whole' /\ Agreed(V)'
  <1>1. UNCHANGED <<hist, accepted, committed, table, msgs>>
    BY DEF vars, progressVars
  <1>2. /\ \A e : Cut(e)' = Cut(e)
        /\ \A m : Known(V, m) => Known(V, m)'
    BY <1>1, SameLog
  <1>3. Whole'
    BY <1>1, <1>2 DEF Whole, Ends
  <1>4. PICK top : top = PointAt(Leader)
    OBVIOUS
  <1>5. \A r : PointAt(r)' = PointAt(r)
    BY <1>1 DEF PointAt
  <1>6. Chain(V, top)' /\ Past(top)'
    BY <1>1, <1>4, SameLog DEF Agreed
  <1>7. Chain(V, PointAt(Leader))' /\ Past(PointAt(Leader))'
    <2>1. PointAt(Leader)' = top
      BY <1>4, <1>5
    <2> QED
      BY <1>6, <2>1
  <1>8. Agreed(V)'
    BY <1>1, <1>2, <1>5, <1>7 DEF Agreed
  <1> QED
    BY <1>3, <1>8

\* Every step keeps the invariant, when no chunk ends inside a fused batch.
LEMMA NextIInv == ASSUME WholeRuns, IInv, [Next]_vars PROVE IInv'
  <1>1. TInv'
    BY NextTInv DEF IInv
  <1>2. TInv /\ Whole
    BY DEF IInv
  <1>3. PICK V : Agreed(V)
    BY DEF IInv
  <1>4. Whole' /\ \E W : Agreed(W)'
    <2>1. CASE UNCHANGED vars
      BY <1>2, <1>3, <2>1, StutterAgreed
    <2>2. CASE \E es : Orders(es) /\ Lawful(es)
      BY <1>2, <1>3, <2>2, OrdersWhole, OrdersAgreed
    <2>3. CASE Leads1
      BY <1>2, <1>3, <2>3, LeadsAgreed
    <2>4. CASE \E r \in Node \ {Leader} : Goes(r)
      BY <1>2, <1>3, <2>4, GoesAgreed
    <2> QED
      BY <1>2, <2>1, <2>2, <2>3, <2>4, Steps
  <1>5. \E W : Agreed(W)'
    BY <1>4
  <1> QED
    BY <1>1, <1>4, <1>5 DEF IInv

\* Replicas at points of one fold have the same record of an era.
LEMMA PointsAgree == ASSUME IInv PROVE RecordsAgree
  <1>1. PICK V : Agreed(V)
    BY DEF IInv
  <1>2. ASSUME NEW r \in Node, NEW s \in Node,
               NEW x \in Range(table[r]), NEW y \in Range(table[s]),
               x.config.era = y.config.era
        PROVE  x = y
    <2>1. PICK p \in V : p.slot = committed[r] /\ p.table = table[r]
      BY <1>1 DEF Agreed, PointAt
    <2>2. PICK q \in V : q.slot = committed[s] /\ q.table = table[s]
      BY <1>1 DEF Agreed, PointAt
    <2>3. committed[r] \in Nat /\ committed[s] \in Nat
      BY TInvTypes DEF IInv
    <2>4. CASE p.slot <= q.slot
      <3>1. Alike(p, q)
        BY <1>1, <2>4 DEF Agreed, Chain
      <3> QED
        BY <1>2, <2>1, <2>2, <3>1 DEF Alike
    <2>5. CASE q.slot <= p.slot
      <3>1. Alike(q, p)
        BY <1>1, <2>5 DEF Agreed, Chain
      <3> QED
        BY <1>2, <2>1, <2>2, <3>1 DEF Alike
    <2> QED
      BY <2>1, <2>2, <2>3, <2>4, <2>5
  <1> QED
    BY <1>2 DEF RecordsAgree

\* An acceptor stamps from the configuration the leader stamped from.
LEMMA SameConfig ==
  ASSUME TInv, NEW V, Agreed(V), NEW m \in msgs, NEW r \in Node, AcceptsFuse(r, m),
         NEW q \in V, q.slot < m.slot, EraOf(q.table) = m.view.era,
         \A k \in q.slot + 1 .. m.slot - 1 : ~System(k)
  PROVE  Config(r) = Current(q.table).config
  <1>1. PICK p \in V : p.slot = committed[r] /\ p.table = table[r]
    BY DEF Agreed, PointAt
  <1>2. /\ committed[r] \in Nat /\ committed[r] <= accepted[r] /\ accepted[r] \in Nat
        /\ InWindow(table[r], ballot[r]) /\ SoundTable(Node, table[r])
    BY TInvTypes DEF TInv, PlaceSound
  <1>3. m.view = ballot[r] /\ m.slot = accepted[r] + 1
    BY DEF AcceptsFuse, Follows
  <1>4. q.slot \in Nat /\ SoundTable(Node, q.table)
    <2>1. /\ q.slot \in INIT_SLOT .. PointAt(Leader).slot /\ PointAt(Leader).slot = committed[Leader]
          /\ SoundTable(Node, q.table)
      BY DEF Agreed, Chain, PointAt
    <2>2. committed[Leader] \in Nat
      BY LeaderIn, TInvTypes
    <2> QED
      BY <2>1, <2>2 DEF INIT_SLOT
  <1>5. CASE q.slot <= p.slot
    <2>1. Alike(q, p)
      BY <1>5 DEF Agreed, Chain
    <2>2. \A k \in q.slot + 1 .. p.slot : k \in q.slot + 1 .. m.slot - 1
      BY <1>1, <1>2, <1>3, <1>4
    <2>3. q.table = p.table
      BY <2>1, <2>2 DEF Alike
    <2> QED
      BY <1>1, <2>3 DEF Config
  <1>6. CASE p.slot <= q.slot
    <2>1. Alike(p, q)
      BY <1>6 DEF Agreed, Chain
    <2>2. EraOf(p.table) \in {m.view.era, m.view.era + 1}
      BY <1>1, <1>2, <1>3 DEF InWindow, EraOf
    <2>3. EraOf(p.table) <= EraOf(q.table) /\ EraOf(p.table) \in Nat /\ EraOf(q.table) \in Nat
      BY <1>1, <1>2, <1>4, <2>1, TableType DEF Alike
    <2>4. EraOf(p.table) = EraOf(q.table)
      BY <2>2, <2>3
    <2>5. Current(p.table) \in Range(p.table) /\ Current(q.table) \in Range(q.table)
      BY <1>1, <1>2, <1>4, TableType
    <2>6. Current(p.table) = Current(q.table)
      BY <2>1, <2>4, <2>5 DEF Alike, EraOf
    <2> QED
      BY <1>1, <2>6 DEF Config
  <1> QED
    BY <1>1, <1>2, <1>4, <1>5, <1>6

\* A batch of the acceptor's view is stamped as the leader stamped it.
LEMMA StampsAreSame == ASSUME IInv PROVE StampsAgree
  <1>1. TInv
    BY DEF IInv
  <1>2. PICK V : Agreed(V)
    BY DEF IInv
  <1>3. ASSUME NEW m \in msgs, NEW r \in Node \ {Leader}, Takes(r, m, "Fuse"), AcceptsFuse(r, m)
        PROVE  Stamps(r, m) = {[i \in DOMAIN m.ops |-> hist[m.slot + i - 1].era]}
    <2>1. m.tag = "Fuse"
      BY <1>3 DEF Takes
    <2>2. PICK q \in V :
             /\ q.slot < m.slot /\ EraOf(q.table) = m.view.era
             /\ \A k \in q.slot + 1 .. m.slot - 1 : ~System(k)
             /\ \E f \in FoldSlots(Current(q.table).config, m.ops) :
                   \A i \in 1 .. Len(m.ops) : hist[m.slot + i - 1].era = f.eras[i]
      BY <1>2, <1>3, <2>1 DEF Agreed, Known
    <2>3. PICK f \in FoldSlots(Current(q.table).config, m.ops) :
             \A i \in 1 .. Len(m.ops) : hist[m.slot + i - 1].era = f.eras[i]
      BY <2>2
    <2>4. Config(r) = Current(q.table).config
      BY <1>1, <1>2, <1>3, <2>2, SameConfig
    <2>5. Config(r) \in Sound(Node)
      <3>1. SoundTable(Node, table[r])
        BY <1>1, TInvTypes
      <3> QED
        BY <3>1, TableType DEF Config
    <2>6. (\E O : m.ops \in Seq(O)) /\ OpsOver(Node, m.ops)
      BY <1>1, <1>3, <2>1 DEF TInv, MsgSound
    <2>7. /\ Single(FoldSlots(Config(r), m.ops))
          /\ f \in SlotFolds(Node, Config(r)) /\ Len(f.eras) = Len(m.ops)
      BY <2>3, <2>4, <2>5, <2>6, SlotsAreOne
    <2>8. DOMAIN m.ops = 1 .. Len(m.ops) /\ f.eras = [i \in DOMAIN m.ops |-> f.eras[i]]
      <3>1. DOMAIN m.ops = 1 .. Len(m.ops)
        BY <2>6
      <3>2. f.eras \in Seq(Nat)
        BY <2>7 DEF SlotFolds
      <3>3. f.eras = [i \in 1 .. Len(f.eras) |-> f.eras[i]]
        BY <3>2
      <3> QED
        BY <2>7, <3>1, <3>3
    <2>9. f.eras = [i \in DOMAIN m.ops |-> hist[m.slot + i - 1].era]
      <3>1. \A i \in DOMAIN m.ops : hist[m.slot + i - 1].era = f.eras[i]
        BY <2>3, <2>8
      <3>2. [i \in DOMAIN m.ops |-> hist[m.slot + i - 1].era] = [i \in DOMAIN m.ops |-> f.eras[i]]
        BY <3>1
      <3> QED
        BY <2>8, <3>2
    <2>10. Stamps(r, m) = {f.eras}
      BY <2>3, <2>4, <2>7 DEF Stamps, Single
    <2> QED
      BY <2>9, <2>10
  <1> QED
    BY <1>3 DEF StampsAgree

-----------------------------------------------------------------------------
(* The reigns of the leader.                                               *)

\* The riders of an operation: it moves no ballot, or the ballots of view `from`.
Plain(op) ==
    /\ \A b, e : Nominated({b}, <<op>>, e) = {b}
    /\ \A e : Nominated({}, <<op>>, e) = {}
Walks(op, from, to) ==
    /\ \A b, e : Nominated({b}, <<op>>, e) =
                    {IF b.view = from THEN [era |-> e, view |-> to] ELSE b}
    /\ \A e : Nominated({}, <<op>>, e) = {}

\* b is the ballot of one of the reigns R, of which each era has one.
Reigned(R, b) == b.era \in DOMAIN R /\ b = [era |-> b.era, view |-> R[b.era].view]

\* The rider at the floor of reign e began it.
Nominee(R, e) ==
    /\ e - 1 \in DOMAIN R /\ R[e].floor \in INIT_SLOT + 1 .. committed[Leader]
    /\ System(R[e].floor) /\ hist[R[e].floor].era = e - 1 /\ ~Plain(hist[R[e].floor].op)

\* A reign for each era up to the leader's ballot: the later, the higher its
\* view. Whoever is in a reign has the log up to its floor.
Reigns(R) ==
    /\ ballot[Leader].era \in Nat /\ ballot[Leader].era >= 1
    /\ DOMAIN R = 1 .. ballot[Leader].era
    /\ Reigned(R, ballot[Leader]) /\ status[Leader] = "Normal"
    /\ \A e \in DOMAIN R : /\ R[e].view \in Nat /\ R[e].view >= e - 1
                           /\ R[e].floor \in INIT_SLOT .. Len(hist)
                           /\ R[e].by = "rider" => Nominee(R, e)
    /\ \A d, e \in DOMAIN R : d < e => R[d].view < R[e].view

\* The rider of slot k starts the reign of the era k establishes, when committed.
Starts(R, e, v, k) == e \in DOMAIN R /\ R[e] = [view |-> v, floor |-> k, by |-> "rider"]
\* The rider of slot k moves the ballots of the reign it was ordered in to the
\* later view v, which is the reign that its commit starts.
Rides(R, k, v) ==
    /\ v \in Nat /\ v > R[hist[k].era].view
    /\ Walks(hist[k].op, R[hist[k].era].view, v)
    /\ k <= committed[Leader] => Starts(R, hist[k].era + 1, v, k)

\* A system entry is stamped with the reign it was ordered in.
Stamped(R, k) ==
    /\ hist[k].era \in DOMAIN R
    /\ \A e \in DOMAIN R : e <= hist[k].era => R[e].floor < k
    /\ Plain(hist[k].op) \/ \E v : Rides(R, k, v)

\* All system entries are.
Entries(R) == \A k \in INIT_SLOT + 1 .. Len(hist) : System(k) => Stamped(R, k)

\* Two of them are stamped with different eras.
Apart ==
    \A j, k \in INIT_SLOT + 1 .. Len(hist) :
        j < k /\ System(j) /\ System(k) => hist[j].era < hist[k].era

\* The entry after a point is stamped with the era of the point.
Due(V) ==
    \A p \in V : p.slot + 1 <= Len(hist) /\ System(p.slot + 1) =>
                    hist[p.slot + 1].era = EraOf(p.table)

\* One system entry at most is uncommitted, and its era is the leader's.
Open(k) == k \in committed[Leader] + 1 .. Len(hist) /\ System(k)

Pending ==
    \A k : Open(k) => /\ hist[k].era = EraOf(table[Leader])
                      /\ ballot[Leader].era = EraOf(table[Leader])
                      /\ \A j : Open(j) => j = k

\* The overlap p is to follow the reign of the leader, whose nomination no
\* entry brings.
Overlapping(p) ==
    /\ "target" \in DOMAIN p
    /\ p.target = [era |-> ballot[Leader].era + 1, view |-> p.target.view]
    /\ p.target.view \in Nat
    /\ \/ EraOf(table[Leader]) = ballot[Leader].era + 1
       \/ /\ EraOf(table[Leader]) = ballot[Leader].era
          /\ \E k : Open(k) /\ Plain(hist[k].op)

\* Where a replica stands among the reigns. A fenced entry node makes its
\* ballots up, and none is above the reign of its era.
Placed(R, n) ==
    /\ ballot[n].era \in DOMAIN R /\ retained[n].era \in 1 .. ballot[n].era
    /\ accepted[n] >= R[retained[n].era].floor
    /\ status[n] # "ViewChange" => retained[n] = ballot[n]
    /\ status[n] = "ViewChange" => retained[n].era < ballot[n].era
    /\ IF status[n] = "Joining"
       THEN ballot[n] = [era |-> ballot[n].era, view |-> ballot[n].era - 1]
       ELSE Reigned(R, ballot[n]) /\ Reigned(R, retained[n])

\* r is a member in the era e, at a point of V.
MemberIn(V, e, r) == \E p \in V : EraOf(p.table) = e /\ r \in Members(Current(p.table).config)

\* At slot s the points V are in era e.
EraAt(V, s, e) == \E p \in V : p.slot = s /\ EraOf(p.table) = e

\* What the messages say of the reigns.
Voted(m) ==
    /\ m.from \in Node \ {Leader} /\ m.slot \in Nat
    /\ m.view.era \in 1 .. retained[m.from].era
    /\ status[m.from] # "Joining"
    /\ m.view.era = ballot[Leader].era => m.slot <= accepted[m.from]

Said(V, R, m) ==
    /\ m.tag # "Fuse"
    /\ m.tag \in {"Prepare", "Commit", "StartView"} => Reigned(R, m.view)
    /\ m.tag = "Prepare" => \A r \in m.to : MemberIn(V, m.view.era, r)
    /\ m.tag = "StartView" => /\ R[m.view.era].by # "rider"
                              /\ R[m.view.era].floor <= m.accepted
                              /\ EraAt(V, m.committed, m.view.era)
    /\ m.tag = "Ok" => Voted(m)

\* A voter n for slot s is past the reigns that begin before s, and past those
\* that a rider began in the eras it knows.
Vote(R, s, n) ==
    /\ n \in Node \ {Leader} /\ status[n] # "Joining"
    /\ s \in INIT_SLOT + 1 .. accepted[n]
    /\ System(s) => retained[n].era >= hist[s].era
    /\ \A e \in DOMAIN R :
          (IF R[e].by = "rider" THEN EraOf(table[n]) >= e ELSE s > R[e].floor)
             => retained[n].era >= e

\* The votes that the leader holds.
Votes(R, S) == \A v \in S : Vote(R, v[1], v[2])

-----------------------------------------------------------------------------
(* The quorums of the eras.                                                *)

\* The configuration at a point.
ConfigOf(p) == Current(p.table).config

\* The quorums of c and those of d have a member in common.
Crossing(c, d) == \A Q, S : IsQuorum(c, Q) /\ IsQuorum(d, S) => Q \cap S # {}

\* No quorum of p's era is left: each has a member that is past it.
Fenced(p) == \A Q : IsQuorum(ConfigOf(p), Q) => \E n \in Q : ballot[n].era > EraOf(p.table)

\* The replicas that hold what is committed.
Held(S) == {Leader} \cup {v[2] : v \in {w \in S : w[1] = committed[Leader]}}

\* S has a member of every quorum of p's era.
CrossedBy(p, S) == \A Q : IsQuorum(ConfigOf(p), Q) => Q \cap S # {}

\* An era that still can elect crosses the leader's quorums and its commits.
Crosses(V) == \A p \in V : Fenced(p) \/ Crossing(ConfigOf(p), Config(Leader))
Covers(V, S) == committed[Leader] > INIT_SLOT => \A p \in V : Fenced(p) \/ CrossedBy(p, Held(S))

\* The reigns R and the points V account for the state.
Ruled(V, R) ==
    /\ DOMAIN retained = Node
    /\ Reigns(R) /\ Entries(R) /\ Apart /\ Due(V) /\ Pending
    /\ \A p \in planned : Overlapping(p)
    /\ \A n \in Node : Placed(R, n)
    /\ \A m \in msgs : Said(V, R, m)
    /\ Votes(R, oks)
    /\ Rooted(V) /\ Crosses(V) /\ Covers(V, oks)

\* The inductive invariant of ElectedKnowsCommitted.
EInv == TInv /\ Whole /\ \E V, R : Agreed(V) /\ Ruled(V, R)

-----------------------------------------------------------------------------
\* The numbers of the reigns and of who stands among them.
LEMMA ReignTypes ==
  ASSUME NEW R, Reigns(R), Len(hist) \in Nat
  PROVE  /\ ballot[Leader].era \in DOMAIN R /\ DOMAIN R = 1 .. ballot[Leader].era
         /\ ballot[Leader].era \in Nat
         /\ \A e \in DOMAIN R : /\ e \in Nat /\ e >= 1 /\ e <= ballot[Leader].era
                                /\ R[e].view \in Nat /\ R[e].view >= e - 1
                                /\ R[e].floor \in Nat /\ R[e].floor <= Len(hist)
                                /\ R[e].floor >= INIT_SLOT
         /\ \A n \in Node : Placed(R, n) =>
               /\ ballot[n].era \in Nat /\ retained[n].era \in Nat
               /\ retained[n].era \in DOMAIN R /\ retained[n].era <= ballot[n].era
  <1>1. /\ ballot[Leader].era \in DOMAIN R /\ DOMAIN R = 1 .. ballot[Leader].era
        /\ ballot[Leader].era \in Nat
    BY DEF Reigns
  <1>2. ASSUME NEW e \in DOMAIN R
        PROVE  /\ e \in Nat /\ e >= 1 /\ e <= ballot[Leader].era
               /\ R[e].view \in Nat /\ R[e].view >= e - 1
               /\ R[e].floor \in Nat /\ R[e].floor <= Len(hist) /\ R[e].floor >= INIT_SLOT
    <2>1. R[e].view \in Nat /\ R[e].view >= e - 1 /\ R[e].floor \in INIT_SLOT .. Len(hist)
      BY DEF Reigns
    <2> QED
      BY <1>1, <2>1 DEF INIT_SLOT
  <1>3. ASSUME NEW n \in Node, Placed(R, n)
        PROVE  /\ ballot[n].era \in Nat /\ retained[n].era \in Nat
               /\ retained[n].era \in DOMAIN R /\ retained[n].era <= ballot[n].era
    <2>1. ballot[n].era \in 1 .. ballot[Leader].era /\ retained[n].era \in 1 .. ballot[n].era
      BY <1>1, <1>3 DEF Placed
    <2> QED
      BY <1>1, <2>1
  <1> QED
    BY <1>1, <1>2, <1>3

\* A replica at a reign is at no higher view than the reign of its era.
LEMMA NoneAbove ==
  ASSUME NEW R, Reigns(R), NEW m \in Node, NEW n \in Node, Placed(R, m), Placed(R, n),
         status[m] # "Joining", retained[m].era = retained[n].era
  PROVE  ~Above(retained[n], retained[m])
  <1> DEFINE e == retained[n].era
  <1>1. e \in DOMAIN R /\ R[e].view \in Nat /\ R[e].view >= e - 1 /\ e \in Nat
    BY DEF Placed, Reigns
  <1>2. retained[m].view = R[e].view /\ retained[m].era = e
    BY DEF Placed, Reigned
  <1>3. retained[n].view <= R[e].view
    <2>1. CASE status[n] = "Joining"
      <3>1. retained[n] = [era |-> e, view |-> e - 1]
        BY <2>1 DEF Placed
      <3>2. retained[n].view = e - 1
        BY <3>1
      <3> QED
        BY <1>1, <3>2
    <2>2. CASE status[n] # "Joining"
      BY <1>1, <2>2 DEF Placed, Reigned
    <2> QED
      BY <2>1, <2>2
  <1>4. retained[n].view \in Int
    <2>1. CASE status[n] = "Joining"
      <3>1. retained[n] = [era |-> e, view |-> e - 1]
        BY <2>1 DEF Placed
      <3> QED
        BY <1>1, <3>1
    <2>2. CASE status[n] # "Joining"
      BY <1>1, <2>2 DEF Placed, Reigned
    <2> QED
      BY <2>1, <2>2
  <1> QED
    BY <1>1, <1>2, <1>3, <1>4 DEF Above

\* Whoever a quorum that can still elect may elect has what is committed.
LEMMA RuledElects == ASSUME EInv PROVE ElectedKnowsCommitted
  <1>1. PICK V, R : Agreed(V) /\ Ruled(V, R)
    BY DEF EInv
  <1>2. TInv /\ Leader \in Node /\ committed[Leader] \in Nat
    BY LeaderIn, TInvTypes DEF EInv
  <1> SUFFICES ASSUME NEW r \in Node, NEW rec \in Range(table[r]), NEW c, c = rec.config,
                      NEW Q, Q \in SUBSET {n \in Members(c) : /\ ballot[n].era <= c.era
                                                  /\ RecordsOf(table[n], c.era) # {}},
                      IsQuorum(c, Q), NEW n \in Q,
                      \A k \in Q : /\ ~Above(retained[k], retained[n])
                                   /\ retained[k] = retained[n] => accepted[k] <= accepted[n]
               PROVE  accepted[n] >= committed[Leader]
    BY DEF ElectedKnowsCommitted
  <1>3. PICK p \in V : rec = Current(p.table)
    <2>1. PointAt(r) \in V /\ PointAt(r).table = table[r]
      BY <1>1 DEF Agreed, PointAt
    <2> QED
      BY <1>1, <2>1 DEF Ruled, Rooted
  <1>4. /\ SoundTable(Node, p.table) /\ ConfigOf(p) = c /\ EraOf(p.table) = c.era
        /\ c \in Sound(Node) /\ c.era \in Nat
    <2>1. SoundTable(Node, p.table)
      BY <1>1, <1>3 DEF Agreed, Chain
    <2> QED
      BY <1>3, <2>1, TableType DEF ConfigOf, EraOf
  <1>5. Q \subseteq Node
    <2>1. c \in Configs(Node)
      BY <1>4 DEF Sound
    <2>2. \A i \in DOMAIN c.order : c.order[i].node \in Node
      BY <2>1, OrderType
    <2>3. Members(c) \subseteq Node
      BY <2>2 DEF Members
    <2> QED
      BY <2>3
  <1>6. /\ \A k \in Q : Placed(R, k) /\ accepted[k] \in Nat /\ SoundTable(Node, table[k])
        /\ Reigns(R) /\ Votes(R, oks)
    BY <1>1, <1>2, <1>5, TInvTypes DEF Ruled
  <1>7. ASSUME NEW k \in Q PROVE ballot[k].era <= c.era /\ EraOf(table[k]) >= c.era
    <2>1. ballot[k].era <= c.era /\ RecordsOf(table[k], c.era) # {}
      OBVIOUS
    <2>2. PICK x \in Range(table[k]) : x.config.era = c.era
      BY <2>1 DEF RecordsOf
    <2> QED
      BY <1>6, <2>1, <2>2, TableType
  <1>8. CASE committed[Leader] > INIT_SLOT
    <2>1. ~Fenced(p)
      <3>1. \A k \in Q : ~(ballot[k].era > EraOf(p.table))
        <4>1. ASSUME NEW k \in Q PROVE ~(ballot[k].era > EraOf(p.table))
          <5>1. ballot[k].era \in Nat
            BY <1>2, <1>5, <1>6, ReignTypes, TInvTypes
          <5> QED
            BY <1>4, <1>7, <5>1
        <4> QED
          BY <4>1
      <3> QED
        BY <1>4, <3>1 DEF Fenced
    <2>2. PICK k \in Q : k \in Held(oks)
      <3>1. CrossedBy(p, Held(oks))
        BY <1>1, <1>3, <1>8, <2>1 DEF Ruled, Covers
      <3> QED
        BY <1>4, <3>1 DEF CrossedBy
    <2>3. ~Above(retained[k], retained[n]) /\ (retained[k] = retained[n] => accepted[k] <= accepted[n])
      BY <2>2
    <2>4. accepted[k] >= committed[Leader] /\ status[k] # "Joining"
      <3>1. CASE k = Leader
        BY <1>2, <1>6, <3>1 DEF TInv, PlaceSound, Reigns
      <3>2. CASE k # Leader
        <4>1. PICK v \in oks : v[1] = committed[Leader] /\ v[2] = k
          BY <2>2, <3>2 DEF Held
        <4>2. Vote(R, committed[Leader], k)
          BY <1>6, <4>1 DEF Votes
        <4> QED
          BY <1>2, <1>6, <2>2, <4>2 DEF Vote
      <3> QED
        BY <3>1, <3>2
    <2> DEFINE e == retained[n].era
               d == retained[k].era
    <2>5. /\ e \in DOMAIN R /\ d \in DOMAIN R /\ e \in Nat /\ d \in Nat
          /\ accepted[n] >= R[e].floor /\ R[e].floor \in Nat /\ e <= ballot[n].era
          /\ ballot[n].era \in Nat
      <3>1. Placed(R, n) /\ Placed(R, k) /\ n \in Node /\ k \in Node /\ Len(hist) \in Nat
        BY <1>2, <1>5, <1>6, <2>2, TInvTypes
      <3>2. e \in DOMAIN R /\ d \in DOMAIN R /\ e \in Nat /\ d \in Nat /\ e <= ballot[n].era
            /\ ballot[n].era \in Nat
        BY <1>6, <3>1, ReignTypes
      <3> QED
        BY <1>6, <3>1, <3>2, ReignTypes DEF Placed
    <2>6. CASE d = e
      <3>1. ~Above(retained[n], retained[k])
        BY <1>5, <1>6, <2>2, <2>4, <2>6, NoneAbove
      <3>2. retained[k].view \in Int /\ retained[n].view \in Int
            /\ retained[k] = [era |-> d, view |-> retained[k].view]
            /\ retained[n] = [era |-> e, view |-> retained[n].view]
        <4>1. ASSUME NEW x \in Q
              PROVE  /\ retained[x].view \in Int
                     /\ retained[x] = [era |-> retained[x].era, view |-> retained[x].view]
          <5>1. Placed(R, x) /\ Reigns(R) /\ x \in Node
            BY <1>5, <1>6
          <5>2. CASE status[x] = "Joining"
            <6>1. retained[x] = ballot[x] /\ ballot[x].era \in Nat
                  /\ ballot[x] = [era |-> ballot[x].era, view |-> ballot[x].era - 1]
              BY <5>1, <5>2 DEF Placed, Reigns
            <6>2. ballot[x].view = ballot[x].era - 1
              BY <6>1
            <6> QED
              BY <6>1, <6>2
          <5>3. CASE status[x] # "Joining"
            BY <5>1, <5>3 DEF Placed, Reigned, Reigns
          <5> QED
            BY <5>2, <5>3
        <4> QED
          BY <2>2, <4>1
      <3>3. retained[k].view = retained[n].view
        BY <2>3, <2>5, <2>6, <3>1, <3>2 DEF Above
      <3>4. retained[k] = retained[n]
        BY <2>6, <3>2, <3>3
      <3>5. accepted[k] \in Nat /\ accepted[n] \in Nat
        BY <1>6, <2>2
      <3> QED
        BY <1>2, <2>3, <2>4, <3>4, <3>5
    <2>7. CASE d # e
      <3>1. d < e
        BY <2>3, <2>5, <2>7 DEF Above
      <3>2. CASE k = Leader
        <4>1. d = ballot[Leader].era
          BY <1>6, <2>2, <3>2 DEF Placed, Reigns
        <4> QED
          BY <1>6, <2>5, <3>1, <4>1 DEF Reigns
      <3>3. CASE k # Leader
        <4>1. PICK v \in oks : v[1] = committed[Leader] /\ v[2] = k
          BY <2>2, <3>3 DEF Held
        <4>2. Vote(R, committed[Leader], k)
          BY <1>6, <4>1 DEF Votes
        <4>3. EraOf(table[k]) >= e
          BY <1>4, <1>6, <1>7, <2>2, <2>5, TableType
        <4>4. ~(d >= e)
          BY <2>5, <3>1
        <4>5. ~(committed[Leader] > R[e].floor)
          BY <2>5, <4>2, <4>3, <4>4 DEF Vote
        <4>6. accepted[n] \in Nat
          BY <1>6
        <4> QED
          BY <1>2, <2>5, <4>5, <4>6
      <3> QED
        BY <3>2, <3>3
    <2> QED
      BY <2>6, <2>7
  <1>9. CASE ~(committed[Leader] > INIT_SLOT)
    BY <1>2, <1>5, <1>9 DEF TInv, PlaceSound, INIT_SLOT
  <1> QED
    BY <1>8, <1>9

-----------------------------------------------------------------------------
(* A fold of single entries.                                               *)

\* The states G that the turns of the fold f go through: what starts among them and
\* is kept by each turn holds of f.
Turned(G, f, r, end, through, paced) ==
    /\ Start(r) \in G
    /\ \A S \in SUBSET G :
          (/\ Start(r) \in S
           /\ \A v \in S : Turn(v, r, end, through, paced) \in G =>
                               Turn(v, r, end, through, paced) \in S)
          => f \in S

\* What the turns of a fold keep holds of the fold.
LEMMA TurnsInduct ==
  ASSUME NEW r, NEW end, NEW through, NEW paced, through - committed[r] \in Nat,
         NEW f \in FoldCommitted(r, end, through, paced)
  PROVE  \E G : Turned(G, f, r, end, through, paced)
  <1> DEFINE n == through - committed[r]
  <1>1. PICK g : Turns(g, n, f, r, end, through, paced)
    BY CommittedTurns
  <1>2. n \in Nat
    OBVIOUS
  <1> HIDE DEF n
  <1> DEFINE G == {g[k] : k \in 0 .. n}
  <1>3. Start(r) \in G
    <2>1. 0 \in 0 .. n /\ g[0] = Start(r)
      BY <1>1, <1>2 DEF Turns
    <2> QED
      BY <2>1
  <1>4. ASSUME NEW S \in SUBSET G, Start(r) \in S,
               \A v \in S : Turn(v, r, end, through, paced) \in G =>
                                Turn(v, r, end, through, paced) \in S
        PROVE  f \in S
    <2> DEFINE T == {k \in Nat : k <= n => g[k] \in S}
    <2>1. 0 \in T
      BY <1>1, <1>4 DEF Turns
    <2>2. ASSUME NEW k \in T PROVE k + 1 \in T
      <3>1. CASE k + 1 <= n
        <4>1. k \in Nat /\ k + 1 \in 1 .. n /\ k + 1 \in 0 .. n /\ (k + 1) - 1 = k /\ g[k] \in S
          BY <1>2, <2>2, <3>1
        <4>2. g[k + 1] = Turn(g[k], r, end, through, paced)
          BY <1>1, <4>1 DEF Turns
        <4>3. g[k + 1] \in G
          BY <4>1
        <4>4. g[k + 1] \in S
          <5> HIDE DEF G
          <5> QED
            BY <1>4, <4>1, <4>2, <4>3
        <4> QED
          BY <4>1, <4>4
      <3> QED
        BY <2>2, <3>1
    <2>3. T \in SUBSET Nat
      OBVIOUS
    <2> HIDE DEF T
    <2>4. n \in T
      BY <1>2, <2>1, <2>2, <2>3, SetInduction
    <2> QED
      BY <1>1, <1>2, <2>4 DEF T, Turns
  <1> HIDE DEF G
  <1>5. Turned(G, f, r, end, through, paced)
    BY <1>3, <1>4 DEF Turned
  <1> QED
    BY <1>5

\* The era the pace of a fold is measured from.
Carry(v, r) == IF v.running = {} THEN ballot[r].era ELSE Max({b.era : b \in v.running})

\* A turn takes no entry, and may halt; takes the client entry that is next; or
\* takes the system entry that is next.
TakesNone(v, e, through) ==
    /\ PointOf(e) = PointOf(v) /\ e.running = v.running
    /\ e.halt = v.halt \/ (e.halt = "Window" => v.slot < through /\ System(v.slot + 1))
TakesClient(v, e) ==
    /\ ~System(v.slot + 1)
    /\ e.slot = v.slot + 1 /\ e.table = v.table /\ e.running = v.running /\ e.halt = "no"
TakesSystem(v, e, r, paced) ==
    /\ System(v.slot + 1) /\ e.slot = v.slot + 1 /\ e.halt = "no"
    /\ e.table \in Extend(v.table, hist[v.slot + 1].op, v.slot + 1)
    /\ e.running = Nominated(v.running, <<hist[v.slot + 1].op>>, EraOf(e.table))
    /\ paced => ~(EraOf(e.table) > Carry(v, r) + 1) \/ e.running # v.running

\* One turn at the entry that is next, when it is a run of its own.
LEMMA TurnAlone ==
  ASSUME TInv, Apart, NEW r \in Node, NEW end \in 1 .. Len(hist), NEW through \in Nat,
         through <= end, NEW paced \in BOOLEAN, NEW v, Folding(v), v.slot \in Nat,
         v.slot >= INIT_SLOT, v.slot <= through, NEW e, e = Turn(v, r, end, through, paced)
  PROVE  /\ Folding(e)
         /\ \/ TakesNone(v, e, through)
            \/ v.slot < through /\ TakesClient(v, e)
            \/ v.slot < through /\ TakesSystem(v, e, r, paced)
  <1> DEFINE next == v.slot + 1
             last == RunEnd(next, end)
             folds == {OntoRun(v, x, r, paced) : x \in RunAt(v.table, next, last)}
  <1>1. CASE v.halt # "no" \/ v.slot >= through
    <2>1. e = v
      BY <1>1 DEF Turn
    <2> QED
      BY <2>1 DEF TakesNone
  <1>2. CASE v.halt = "no" /\ v.slot < through
    <2>1. /\ e = FoldRun(v, next, r, end, through, paced)
          /\ next \in Nat /\ 1 <= next /\ next <= end /\ next <= through
      BY <1>2 DEF Turn
    <2>2. CASE ~System(next)
      <3>1. e = [v EXCEPT !.slot = next]
        BY <2>1, <2>2 DEF FoldRun
      <3>2. e = [slot |-> next, table |-> v.table, halt |-> v.halt, running |-> v.running]
        BY <3>1 DEF Folding
      <3> QED
        BY <1>2, <2>1, <2>2, <3>2 DEF Folding, TakesClient
    <2>3. CASE System(next) /\ last > through
      <3>1. e = [v EXCEPT !.halt = "SplitBatch"]
        BY <2>1, <2>3 DEF FoldRun
      <3>2. e = [slot |-> v.slot, table |-> v.table, halt |-> "SplitBatch", running |-> v.running]
        BY <3>1 DEF Folding
      <3> QED
        BY <3>2 DEF Folding, PointOf, TakesNone
    <2>4. CASE System(next) /\ ~(last > through) /\ folds = {}
      <3>1. e = [v EXCEPT !.halt = "Breach"]
        BY <2>1, <2>4 DEF FoldRun
      <3>2. e = [slot |-> v.slot, table |-> v.table, halt |-> "Breach", running |-> v.running]
        BY <3>1 DEF Folding
      <3> QED
        BY <3>2 DEF Folding, PointOf, TakesNone
    <2>5. CASE System(next) /\ ~(last > through) /\ folds # {}
      <3>1. e \in folds
        BY <2>1, <2>5 DEF FoldRun
      <3>2. PICK x \in RunAt(v.table, next, last) : e = OntoRun(v, x, r, paced)
        BY <3>1
      <3>3. last = next
        <4>1. last \in next .. end /\ \A k \in next .. last : System(k) /\ hist[k].era = hist[next].era
          <5>1. next \in Nat /\ end \in Nat /\ 1 <= next /\ next <= end /\ System(next)
            BY <2>1, <2>5, TInvTypes
          <5> HIDE DEF next
          <5> QED
            BY <5>1, RunEndIn
        <4>2. next \in INIT_SLOT + 1 .. Len(hist) /\ next \in 1 .. Len(hist) /\ Len(hist) \in Nat
          BY <2>1, TInvTypes DEF INIT_SLOT
        <4>3. hist[next].era \in Nat
          BY <4>2 DEF TInv, HistSound
        <4>4. CASE last > next
          <5>1. next + 1 \in next .. last /\ next + 1 \in INIT_SLOT + 1 .. Len(hist) /\ next < next + 1
            BY <2>1, <4>1, <4>2, <4>4 DEF INIT_SLOT
          <5>2. System(next + 1) /\ hist[next + 1].era = hist[next].era
            BY <4>1, <5>1
          <5> QED
            BY <2>5, <4>2, <4>3, <5>1, <5>2 DEF Apart
        <4> QED
          BY <2>1, <4>1, <4>4
      <3>4. /\ x.table \in Extend(v.table, hist[next].op, next)
            /\ x.ops = <<hist[next].op>> /\ x.end = next
        <4>1. RunAt(v.table, next, last) =
                 {[table |-> y, ops |-> <<hist[next].op>>, end |-> next] :
                     y \in Extend(v.table, hist[next].op, next)}
          BY <3>3 DEF RunAt
        <4> HIDE DEF next, last
        <4> QED
          BY <3>2, <4>1
      <3> DEFINE era == Current(x.table).config.era
                 moved == Nominated(v.running, x.ops, era)
      <3>5. \/ e = [v EXCEPT !.halt = "Window"]
            \/ /\ e = [v EXCEPT !.slot = x.end, !.table = x.table, !.running = moved]
               /\ paced => ~(era > Carry(v, r) + 1) \/ moved # v.running
        <4> HIDE DEF moved, next, last
        <4> QED
          BY <3>2 DEF OntoRun, Carry, moved
      <3>6. CASE e = [v EXCEPT !.halt = "Window"]
        <4>1. e = [slot |-> v.slot, table |-> v.table, halt |-> "Window", running |-> v.running]
          BY <3>6 DEF Folding
        <4> QED
          BY <1>2, <2>5, <4>1 DEF Folding, PointOf, TakesNone
      <3>7. CASE /\ e = [v EXCEPT !.slot = x.end, !.table = x.table, !.running = moved]
                 /\ paced => ~(era > Carry(v, r) + 1) \/ moved # v.running
        <4> HIDE DEF moved
        <4>1. e = [slot |-> x.end, table |-> x.table, halt |-> v.halt, running |-> moved]
          BY <3>7 DEF Folding
        <4>2. e.slot = next /\ e.table = x.table /\ e.halt = "no" /\ e.running = moved /\ Folding(e)
          BY <1>2, <3>4, <4>1 DEF Folding
        <4>3. moved = Nominated(v.running, <<hist[next].op>>, EraOf(e.table))
          BY <3>4, <4>2 DEF moved, EraOf
        <4>4. TakesSystem(v, e, r, paced)
          BY <2>5, <3>4, <3>7, <4>2, <4>3 DEF TakesSystem, EraOf
        <4> QED
          BY <1>2, <4>2, <4>4
      <3> QED
        BY <3>5, <3>6, <3>7
    <2> QED
      BY <2>2, <2>3, <2>4, <2>5
  <1> QED
    BY <1>1, <1>2

\* The leader's fold takes no system entry, or the one that was open.
FoldsNone(f) ==
    /\ \A k \in committed[Leader] + 1 .. f.slot : ~System(k)
    /\ f.table = table[Leader] /\ f.running = {ballot[Leader]}
FoldsOne(f, k) ==
    /\ Open(k) /\ k <= f.slot
    /\ EraOf(f.table) = EraOf(table[Leader]) + 1
    /\ Current(f.table).config \in Apply(Config(Leader), hist[k].op)
    /\ f.running = Nominated({ballot[Leader]}, <<hist[k].op>>, EraOf(f.table))

\* A system entry may be folded next.
LEMMA ExtendsOn ==
  ASSUME TInv, NEW k \in 1 .. Len(hist), NEW t, SoundTable(Node, t), NEW x \in Extend(t, hist[k].op, k)
  PROVE  /\ SoundTable(Node, x) /\ EraOf(x) = EraOf(t) + 1
         /\ Range(x) \subseteq Range(t) \cup {Current(x)}
         /\ Current(x).config \in Apply(Current(t).config, hist[k].op)
  <1>1. OpOver(Node, hist[k].op)
    BY TInvTypes DEF OpsTyped
  <1> QED
    BY <1>1, ExtendIsOne

\* The leader's fold takes one system entry at most.
LEMMA LeaderWalk ==
  ASSUME TInv, Apart, Pending, status[Leader] = "Normal",
         NEW through \in committed[Leader] .. Len(hist),
         NEW f \in FoldCommitted(Leader, Len(hist), through, TRUE)
  PROVE  /\ f.slot \in committed[Leader] .. through
         /\ FoldsNone(f) \/ \E k : FoldsOne(f, k)
  <1> DEFINE b == committed[Leader]
             end == Len(hist)
             Along(v) == /\ Folding(v) /\ v.slot \in b .. through /\ SoundTable(Node, v.table)
                         /\ FoldsNone(v) \/ \E k : FoldsOne(v, k)
  <1>1. /\ b \in Nat /\ b >= INIT_SLOT /\ end \in Nat /\ b <= end /\ Leader \in Node
        /\ SoundTable(Node, table[Leader]) /\ EraOf(table[Leader]) \in Nat
    BY TInvTypes, LeaderIn DEF TInv, PlaceSound, INIT_SLOT
  <1>2. through \in Nat /\ through <= end /\ b <= through /\ end \in 1 .. Len(hist)
    BY <1>1 DEF INIT_SLOT
  <1>3. through - b \in Nat
    BY <1>1, <1>2
  <1>4. PICK G : Turned(G, f, Leader, end, through, TRUE)
    BY <1>3, TurnsInduct
  <1> DEFINE S == {v \in G : Along(v)}
  <1>5. Start(Leader) \in S
    <2>1. Start(Leader) = [slot |-> b, table |-> table[Leader], halt |-> "no",
                           running |-> {ballot[Leader]}]
      BY DEF Start
    <2>2. Folding(Start(Leader)) /\ FoldsNone(Start(Leader))
      BY <1>1, <2>1 DEF Folding, FoldsNone
    <2> QED
      BY <1>1, <1>2, <1>4, <2>1, <2>2 DEF Turned
  <1>6. ASSUME NEW v \in S, NEW e, e = Turn(v, Leader, end, through, TRUE) PROVE Along(e)
    <2>1. Along(v) /\ v.slot \in Nat /\ v.slot >= INIT_SLOT /\ v.slot <= through /\ v.slot >= b
      BY <1>1, <1>2, <1>6 DEF INIT_SLOT
    <2>2. /\ Folding(e)
          /\ \/ TakesNone(v, e, through)
             \/ v.slot < through /\ TakesClient(v, e)
             \/ v.slot < through /\ TakesSystem(v, e, Leader, TRUE)
      BY <1>1, <1>2, <1>6, <2>1, TurnAlone
    <2>3. CASE TakesNone(v, e, through)
      <3>1. e.slot = v.slot /\ e.table = v.table /\ e.running = v.running
        BY <2>3 DEF TakesNone, PointOf
      <3> QED
        BY <2>1, <2>2, <3>1 DEF FoldsNone, FoldsOne
    <2>4. CASE v.slot < through /\ TakesClient(v, e)
      <3>1. e.slot = v.slot + 1 /\ e.table = v.table /\ e.running = v.running /\ ~System(v.slot + 1)
        BY <2>4 DEF TakesClient
      <3>2. e.slot \in b .. through
        BY <1>1, <1>2, <2>1, <2>4, <3>1
      <3>3. FoldsNone(v) => FoldsNone(e)
        <4>1. \A k \in b + 1 .. e.slot : k \in b + 1 .. v.slot \/ k = v.slot + 1
          BY <1>1, <2>1, <3>1
        <4> QED
          BY <3>1, <4>1 DEF FoldsNone
      <3>4. ASSUME NEW k, FoldsOne(v, k) PROVE FoldsOne(e, k)
        <4>1. k <= e.slot
          <5>1. k \in Nat /\ k <= v.slot
            BY <1>1, <3>4 DEF FoldsOne, Open
          <5> QED
            BY <2>1, <3>1, <5>1
        <4> QED
          BY <3>1, <3>4, <4>1 DEF FoldsOne
      <3> QED
        BY <2>1, <2>2, <3>1, <3>2, <3>3, <3>4
    <2>5. CASE v.slot < through /\ TakesSystem(v, e, Leader, TRUE)
      <3> DEFINE n == v.slot + 1
      <3>1. /\ System(n) /\ e.slot = n /\ e.table \in Extend(v.table, hist[n].op, n)
            /\ e.running = Nominated(v.running, <<hist[n].op>>, EraOf(e.table))
        BY <2>5 DEF TakesSystem
      <3>2. n \in 1 .. Len(hist) /\ n \in b + 1 .. Len(hist) /\ n \in b .. through /\ n \in Nat
        BY <1>1, <1>2, <2>1, <2>5
      <3>3. SoundTable(Node, e.table) /\ EraOf(e.table) = EraOf(v.table) + 1
            /\ Current(e.table).config \in Apply(Current(v.table).config, hist[n].op)
        BY <2>1, <3>1, <3>2, ExtendsOn
      <3>4. Open(n)
        BY <3>1, <3>2 DEF Open
      <3>5. FoldsNone(v)
        <4>1. ASSUME NEW k, FoldsOne(v, k) PROVE FALSE
          <5>1. k = n
            BY <3>4, <4>1 DEF FoldsOne, Pending
          <5>2. k <= v.slot
            BY <4>1 DEF FoldsOne
          <5> QED
            BY <2>1, <5>1, <5>2
        <4> QED
          BY <2>1, <4>1
      <3>6. FoldsOne(e, n)
        <4>1. n <= e.slot
          BY <3>1, <3>2
        <4>2. v.table = table[Leader] /\ v.running = {ballot[Leader]}
          BY <3>5 DEF FoldsNone
        <4>3. Current(v.table).config = Config(Leader)
          BY <4>2 DEF Config
        <4> HIDE DEF n
        <4> QED
          BY <3>1, <3>3, <3>4, <4>1, <4>2, <4>3 DEF FoldsOne
      <3>7. e.slot \in b .. through
        BY <3>1, <3>2
      <3> QED
        BY <2>2, <3>3, <3>6, <3>7
    <2> QED
      BY <2>2, <2>3, <2>4, <2>5
  <1> HIDE DEF Along
  <1>7. f \in S
    BY <1>4, <1>5, <1>6 DEF Turned
  <1> QED
    BY <1>7 DEF Along

\* The changes that are asked for are single ones and planned overlaps.
NoFused == \A c \in Changes : c.mode # "fused"

\* A fold of what the leader has committed is at a point of V.
LEMMA FoldsAmong ==
  ASSUME NoFused, TInv, Whole, NEW V, Agreed(V), NEW r \in Node, NEW end \in 1 .. Len(hist),
         NEW through \in committed[r] .. end, through <= committed[Leader], NEW paced,
         NEW f \in FoldCommitted(r, end, through, paced)
  PROVE  PointOf(f) \in V /\ f.slot \in committed[r] .. through
  <1>1. /\ Len(hist) \in Nat /\ OpsTyped(Len(hist)) /\ committed[r] \in Nat
        /\ SoundTable(Node, table[r]) /\ committed[Leader] \in Nat
    BY TInvTypes, LeaderIn
  <1>2. /\ end \in Nat /\ end <= Len(hist) /\ through \in Nat /\ through <= end
        /\ committed[r] <= through
    BY <1>1
  <1>3. OpsTyped(end)
    BY <1>1, <1>2 DEF OpsTyped
  <1>4. [slot |-> committed[r], table |-> table[r]] \in V
    BY DEF Agreed, PointAt
  <1>5. ASSUME NEW p \in V, p.slot < through PROVE Onward(p.slot, p.table, end) \subseteq V
    <2>1. PointAt(Leader).slot = committed[Leader]
      BY DEF PointAt
    <2>2. p.slot \in INIT_SLOT .. committed[Leader]
      BY <2>1 DEF Agreed, Chain
    <2>3. p.slot \in Nat /\ p.slot >= INIT_SLOT /\ p.slot < end /\ p.slot < committed[Leader]
      BY <1>1, <1>2, <1>5, <2>2 DEF INIT_SLOT
    <2>4. Onward(p.slot, p.table, Len(hist)) \subseteq V
      BY <2>1, <2>3 DEF Agreed, Chain
    <2>5. Cut(end)
      BY DEF NoFused, Whole
    <2> QED
      BY <1>1, <1>2, <2>3, <2>4, <2>5, OnwardCut
  <1>6. PointOf(f) \in V
    BY <1>1, <1>2, <1>3, <1>4, <1>5, FoldInside
  <1> QED
    BY <1>1, <1>2, <1>3, <1>6, FoldSound

-----------------------------------------------------------------------------
(* The walk of a follower.                                                 *)

\* The fold v of r's commits runs at the ballot x, which is a reign: r's own or one
\* that began before the fold's point. No rider's reign is passed over.
Runs(R, r, v, x) ==
    /\ v.running = {x} /\ Reigned(R, x) /\ x.era >= ballot[r].era
    /\ EraOf(v.table) \in {x.era, x.era + 1}
    /\ x.era = ballot[r].era \/ R[x.era].floor <= v.slot
    /\ \A e \in DOMAIN R : R[e].by = "rider" /\ e <= EraOf(v.table) =>
                               EraOf(table[r]) >= e \/ x.era >= e
\* All that the fold f may run at.
Running(R, r, v) == \E x : Runs(R, r, v, x)

\* A committed system entry that a paced fold takes brings it to the next reign, or
\* leaves it one era behind.
LEMMA RunsOn ==
  ASSUME TInv, NEW R, Reigns(R), Entries(R), Apart, NEW r \in Node,
         ballot[r].era \in Nat, NEW v, v.slot \in Nat, Running(R, r, v), NEW n, n = v.slot + 1,
         n \in INIT_SLOT + 1 .. Len(hist), n <= committed[Leader], System(n),
         EraOf(v.table) \in Nat, hist[n].era = EraOf(v.table),
         NEW w, w.slot = n, EraOf(w.table) = EraOf(v.table) + 1,
         w.running = Nominated(v.running, <<hist[n].op>>, EraOf(w.table)),
         ~(EraOf(w.table) > Carry(v, r) + 1) \/ w.running # v.running
  PROVE  Running(R, r, w)
  <1> DEFINE E == EraOf(v.table)
  <1>1. PICK x : Runs(R, r, v, x)
    BY DEF Running
  <1>2. /\ E \in Nat /\ Stamped(R, n) /\ Len(hist) \in Nat /\ n \in Nat
        /\ E \in DOMAIN R /\ DOMAIN R = 1 .. ballot[Leader].era /\ ballot[Leader].era \in Nat
    <2>1. Stamped(R, n)
      BY DEF Entries
    <2>2. Len(hist) \in Nat /\ n \in Nat
      BY TInvTypes
    <2> QED
      BY <2>1, <2>2, ReignTypes DEF Stamped
  <1>3. /\ v.running = {x} /\ Reigned(R, x) /\ x.era \in DOMAIN R /\ x.era \in Nat
        /\ x.era >= ballot[r].era /\ E \in {x.era, x.era + 1}
        /\ x.view = R[x.era].view
    BY <1>1, <1>2 DEF Runs, Reigned
  <1>4. Carry(v, r) = x.era
    <2>1. {b.era : b \in v.running} = {x.era} /\ v.running # {}
      BY <1>3
    <2>2. Max({x.era}) = x.era
      BY <1>3 DEF Max
    <2> QED
      BY <2>1, <2>2 DEF Carry
  <1>5. w.slot > v.slot /\ EraOf(w.table) = E + 1
    OBVIOUS
  <1>6. CASE Plain(hist[n].op)
    <2>1. w.running = {x}
      BY <1>3, <1>6 DEF Plain
    <2>2. E = x.era
      <3>1. ~(E + 1 > x.era + 1)
        BY <1>3, <1>4, <2>1
      <3> QED
        BY <1>2, <1>3, <3>1
    <2>3. ASSUME NEW e \in DOMAIN R, R[e].by = "rider", e <= E + 1
          PROVE  EraOf(table[r]) >= e \/ x.era >= e
      <3>1. e \in Nat
        BY <1>2
      <3>2. CASE e <= E
        BY <1>1, <2>3, <3>2 DEF Runs
      <3>3. CASE e = E + 1
        <4>1. Nominee(R, e)
          BY <2>3 DEF Reigns
        <4>2. PICK k : k = R[e].floor
          OBVIOUS
        <4>3. /\ k \in INIT_SLOT + 1 .. committed[Leader] /\ System(k)
              /\ hist[k].era = E /\ ~Plain(hist[k].op)
          BY <1>2, <3>3, <4>1, <4>2 DEF Nominee
        <4>4. PlaceSound(Leader) /\ committed[Leader] \in Nat
          BY TInvTypes, LeaderIn DEF TInv
        <4>5. k \in INIT_SLOT + 1 .. Len(hist) /\ k \in Nat
          BY <1>2, <4>3, <4>4 DEF PlaceSound, INIT_SLOT
        <4>6. ~(k < n) /\ ~(n < k)
          BY <1>2, <4>3, <4>5 DEF Apart
        <4>7. k = n
          BY <1>2, <4>5, <4>6
        <4> QED
          BY <1>6, <4>3, <4>7
      <3> QED
        BY <1>2, <2>3, <3>1, <3>2, <3>3
    <2>4. Runs(R, r, w, x)
      <3>1. x.era = ballot[r].era \/ R[x.era].floor <= w.slot
        <4>1. R[x.era].floor \in Nat
          BY <1>2, <1>3, ReignTypes
        <4>2. x.era = ballot[r].era \/ R[x.era].floor <= v.slot
          BY <1>1 DEF Runs
        <4> QED
          BY <4>1, <4>2, <1>5
      <3> QED
        BY <1>3, <1>5, <2>1, <2>2, <2>3, <3>1 DEF Runs
    <2> QED
      BY <2>4 DEF Running
  <1>7. CASE ~Plain(hist[n].op)
    <2>1. PICK u : Rides(R, n, u)
      BY <1>2, <1>7 DEF Stamped
    <2>2. /\ u \in Nat /\ Walks(hist[n].op, R[E].view, u)
          /\ E + 1 \in DOMAIN R /\ R[E + 1] = [view |-> u, floor |-> n, by |-> "rider"]
      BY <2>1 DEF Rides, Starts
    <2>3. w.running = {IF x.view = R[E].view THEN [era |-> E + 1, view |-> u] ELSE x}
      BY <1>3, <1>5, <2>2 DEF Walks
    <2>4. E = x.era
      <3>1. CASE E = x.era + 1
        <4>1. x.era < E
          BY <1>3, <3>1
        <4>2. R[x.era].view < R[E].view /\ R[x.era].view \in Nat /\ R[E].view \in Nat
          BY <1>2, <1>3, <4>1 DEF Reigns
        <4>3. x.view # R[E].view
          BY <1>3, <4>2
        <4>4. w.running = v.running
          BY <1>3, <2>3, <4>3
        <4>5. ~(E + 1 > x.era + 1)
          BY <1>4, <1>5, <4>4
        <4> QED
          BY <1>2, <1>3, <4>1, <4>5
      <3> QED
        BY <1>3, <3>1
    <2> DEFINE y == [era |-> E + 1, view |-> u]
    <2>5. w.running = {y}
      BY <1>3, <2>3, <2>4
    <2>6. y.era = E + 1 /\ Reigned(R, y)
      BY <2>2 DEF Reigned
    <2>7. R[y.era].floor <= w.slot
      BY <1>2, <2>2, <2>6
    <2>8. Runs(R, r, w, y)
      <3>2. y.era >= ballot[r].era
        BY <1>2, <1>3, <2>4, <2>6
      <3>3. \A e \in DOMAIN R : e <= EraOf(w.table) => y.era >= e
        BY <1>2, <1>5, <2>6
      <3> HIDE DEF y
      <3> QED
        BY <1>5, <2>5, <2>6, <2>7, <3>2, <3>3 DEF Runs
    <2> QED
      BY <2>8 DEF Running
  <1> QED
    BY <1>6, <1>7

\* The ballots a follower's paced fold runs at, and why the window stops it.
LEMMA FollowerWalk ==
  ASSUME NoFused, TInv, Whole, NEW V, Agreed(V), NEW R, Reigns(R), Entries(R), Apart, Due(V),
         NEW r \in Node, Placed(R, r), NEW end \in 1 .. Len(hist),
         NEW through \in committed[r] .. end, through <= committed[Leader],
         NEW f \in FoldCommitted(r, end, through, TRUE)
  PROVE  /\ PointOf(f) \in V /\ f.slot \in committed[r] .. through
         /\ IF status[r] = "Normal" THEN Running(R, r, f) ELSE f.running = {}
         /\ f.halt = "Window" => f.slot < through /\ System(f.slot + 1)
  <1> DEFINE b == committed[r]
             Ran(v) == IF status[r] = "Normal" THEN Running(R, r, v) ELSE v.running = {}
             Known1(v) == /\ Folding(v) /\ v.slot \in b .. through
                          /\ PointOf(v) \in V /\ Ran(v)
                          /\ v.halt = "Window" => v.slot < through /\ System(v.slot + 1)
  <1>1. /\ b \in Nat /\ b >= INIT_SLOT /\ Len(hist) \in Nat /\ OpsTyped(Len(hist))
        /\ committed[Leader] \in Nat /\ committed[Leader] <= Len(hist) /\ PlaceSound(r)
    <2>1. PlaceSound(r) /\ PlaceSound(Leader) /\ accepted[Leader] = Len(hist)
      BY LeaderIn DEF TInv
    <2> QED
      BY <2>1, TInvTypes, LeaderIn DEF PlaceSound, INIT_SLOT
  <1>2. through \in Nat /\ through <= end /\ b <= through /\ end \in Nat /\ end <= Len(hist)
    BY <1>1
  <1>3. through - b \in Nat
    BY <1>1, <1>2
  <1>4. OpsTyped(end)
    BY <1>1, <1>2 DEF OpsTyped
  <1>5. PICK G : Turned(G, f, r, end, through, TRUE)
    BY <1>3, TurnsInduct
  <1>6. \A p \in V : /\ p = [slot |-> p.slot, table |-> p.table] /\ SoundTable(Node, p.table)
                     /\ p.slot < committed[Leader] => Onward(p.slot, p.table, Len(hist)) \subseteq V
    <2>1. PointAt(Leader).slot = committed[Leader] /\ Chain(V, PointAt(Leader))
      BY DEF PointAt, Agreed
    <2> QED
      BY <2>1 DEF Chain
  <1> DEFINE S == {v \in G : Known1(v)}
  <1>7. Start(r) \in S
    <2>1. Start(r) = [slot |-> b, table |-> table[r], halt |-> "no",
                      running |-> IF status[r] = "Normal" THEN {ballot[r]} ELSE {}]
      BY DEF Start
    <2>2. Folding(Start(r)) /\ PointOf(Start(r)) = PointAt(r) /\ Start(r).slot = b
          /\ Start(r).halt = "no" /\ Start(r).table = table[r]
      BY <2>1 DEF Folding, PointOf, PointAt
    <2>3. Ran(Start(r))
      <3>1. CASE status[r] = "Normal"
        <4>1. Start(r).running = {ballot[r]}
          BY <2>1, <3>1
        <4>2. Reigned(R, ballot[r]) /\ ballot[r].era \in Nat
          BY <1>1, <3>1, ReignTypes DEF Placed
        <4>3. EraOf(table[r]) \in {ballot[r].era, ballot[r].era + 1}
          BY <1>1 DEF PlaceSound, InWindow, EraOf
        <4>4. \A e \in DOMAIN R : e <= EraOf(table[r]) => EraOf(table[r]) >= e
          BY <1>1, ReignTypes, TInvTypes
        <4>5. Runs(R, r, Start(r), ballot[r])
          BY <2>2, <4>1, <4>2, <4>3, <4>4 DEF Runs
        <4> QED
          BY <3>1, <4>5 DEF Running
      <3>2. CASE status[r] # "Normal"
        BY <2>1, <3>2
      <3> QED
        BY <3>1, <3>2
    <2>4. PointAt(r) \in V
      BY DEF Agreed
    <2> HIDE DEF Ran
    <2> QED
      BY <1>1, <1>2, <1>5, <2>2, <2>3, <2>4 DEF Turned
  <1>8. ASSUME NEW v \in S, NEW e, e = Turn(v, r, end, through, TRUE) PROVE Known1(e)
    <2>1. Known1(v) /\ v.slot \in Nat /\ v.slot >= INIT_SLOT /\ v.slot <= through /\ v.slot >= b
      BY <1>1, <1>2, <1>8 DEF INIT_SLOT
    <2>2. /\ Folding(e)
          /\ \/ TakesNone(v, e, through)
             \/ v.slot < through /\ TakesClient(v, e)
             \/ v.slot < through /\ TakesSystem(v, e, r, TRUE)
      BY <1>1, <1>2, <1>8, <2>1, TurnAlone
    <2>3. SoundTable(Node, v.table) /\ PointOf(v).slot = v.slot /\ PointOf(v).table = v.table
          /\ EraOf(v.table) \in Nat
      <3>1. PointOf(v).slot = v.slot /\ PointOf(v).table = v.table
        BY DEF PointOf
      <3> QED
        BY <1>6, <2>1, <3>1, TableType
    <2>4. PointOf(e) \in V
      <3>1. CASE PointOf(e) = PointOf(v)
        BY <2>1, <3>1
      <3>2. CASE v.slot < through /\ PointOf(e) \in Onward(v.slot, v.table, end)
        <4>1. Cut(end)
          BY <1>2 DEF NoFused, Whole
        <4>2. Onward(v.slot, v.table, end) = Onward(v.slot, v.table, Len(hist))
          BY <1>1, <1>2, <2>1, <3>2, <4>1, OnwardCut
        <4>3. v.slot < committed[Leader]
          BY <1>1, <1>2, <2>1, <3>2
        <4> QED
          BY <1>6, <2>1, <2>3, <3>2, <4>2, <4>3
      <3>3. \/ PointOf(e) = PointOf(v)
            \/ v.slot < through /\ PointOf(e) \in Onward(v.slot, v.table, end)
        <4>1. Folding(v) /\ v.slot \in Nat /\ v.slot <= through /\ SoundTable(Node, v.table)
          BY <2>1, <2>3
        <4> HIDE DEF Known1
        <4> QED
          BY <1>2, <1>4, <1>8, <4>1, TurnMoves
      <3> QED
        BY <3>1, <3>2, <3>3
    <2>5. CASE TakesNone(v, e, through)
      <3>1. e.slot = v.slot /\ e.table = v.table /\ e.running = v.running
            /\ (e.halt = v.halt \/ (e.halt = "Window" => v.slot < through /\ System(v.slot + 1)))
        BY <2>5 DEF TakesNone, PointOf
      <3>2. Ran(e)
        BY <2>1, <3>1 DEF Running, Runs
      <3> HIDE DEF Ran
      <3> QED
        BY <2>1, <2>2, <2>4, <3>1, <3>2
    <2>6. CASE v.slot < through /\ TakesClient(v, e)
      <3>1. e.slot = v.slot + 1 /\ e.table = v.table /\ e.running = v.running /\ e.halt = "no"
        BY <2>6 DEF TakesClient
      <3>2. e.slot \in b .. through
        BY <1>1, <1>2, <2>1, <2>6, <3>1
      <3>3. Ran(e)
        <4>1. CASE status[r] = "Normal"
          <5>1. PICK x : Runs(R, r, v, x)
            BY <2>1, <4>1 DEF Running
          <5>2. x.era \in DOMAIN R
            BY <5>1 DEF Runs, Reigned
          <5>3. R[x.era].floor \in Nat
            BY <1>1, <5>2, ReignTypes
          <5>4. R[x.era].floor <= v.slot => R[x.era].floor <= e.slot
            BY <2>1, <3>1, <5>3
          <5>5. Runs(R, r, e, x)
            BY <3>1, <5>1, <5>4 DEF Runs
          <5> QED
            BY <4>1, <5>5 DEF Running
        <4>2. CASE status[r] # "Normal"
          BY <2>1, <3>1, <4>2
        <4> QED
          BY <4>1, <4>2
      <3> HIDE DEF Ran
      <3> QED
        BY <2>2, <2>4, <3>1, <3>2, <3>3
    <2>7. CASE v.slot < through /\ TakesSystem(v, e, r, TRUE)
      <3> DEFINE n == v.slot + 1
      <3>1. /\ System(n) /\ e.slot = n /\ e.halt = "no" /\ e.table \in Extend(v.table, hist[n].op, n)
            /\ e.running = Nominated(v.running, <<hist[n].op>>, EraOf(e.table))
            /\ ~(EraOf(e.table) > Carry(v, r) + 1) \/ e.running # v.running
        BY <2>7 DEF TakesSystem
      <3>2. /\ n \in Nat /\ n \in 1 .. Len(hist) /\ n \in INIT_SLOT + 1 .. Len(hist)
            /\ n \in b .. through /\ n <= committed[Leader]
        BY <1>1, <1>2, <2>1, <2>7 DEF INIT_SLOT
      <3>3. EraOf(e.table) = EraOf(v.table) + 1
        BY <2>3, <3>1, <3>2, ExtendsOn
      <3>4. hist[n].era = EraOf(v.table)
        BY <2>1, <2>3, <3>1, <3>2 DEF Due
      <3>5. Ran(e)
        <4> HIDE DEF n
        <4>1. CASE status[r] = "Normal"
          <5>1. ballot[r].era \in Nat
            BY <1>1, ReignTypes
          <5>2. Running(R, r, v)
            BY <2>1, <4>1
          <5>3. Running(R, r, e)
            BY <2>1, <2>3, <3>1, <3>2, <3>3, <3>4, <5>1, <5>2, RunsOn DEF n
          <5> QED
            BY <4>1, <5>3
        <4>2. CASE status[r] # "Normal"
          <5>1. Stamped(R, n)
            BY <3>1, <3>2 DEF Entries
          <5>2. Plain(hist[n].op) \/ \E u : Walks(hist[n].op, R[hist[n].era].view, u)
            BY <5>1 DEF Stamped, Rides
          <5>3. \A e1 : Nominated({}, <<hist[n].op>>, e1) = {}
            BY <5>2 DEF Plain, Walks
          <5> QED
            BY <2>1, <3>1, <4>2, <5>3
        <4> QED
          BY <4>1, <4>2
      <3> HIDE DEF Ran, n
      <3> QED
        BY <2>2, <2>4, <3>1, <3>2, <3>5
    <2> QED
      BY <2>2, <2>5, <2>6, <2>7
  <1> HIDE DEF Known1
  <1>9. f \in S
    BY <1>5, <1>7, <1>8 DEF Turned
  <1> QED
    BY <1>9 DEF Known1

\* The leader stays, and so does the log.
LeaderStays ==
    /\ hist' = hist /\ committed'[Leader] = committed[Leader] /\ table'[Leader] = table[Leader]
    /\ ballot'[Leader] = ballot[Leader] /\ status'[Leader] = status[Leader]

\* What is said of the leader and its log stays.
LEMMA LeaderStaysRuled ==
  ASSUME LeaderStays, NEW V, NEW R
  PROVE  /\ Reigns(R) => Reigns(R)'
         /\ Entries(R) => Entries(R)'
         /\ Apart => Apart'
         /\ Due(V) => Due(V)'
         /\ Pending => Pending'
         /\ \A p : Overlapping(p) => Overlapping(p)'
  <1>1. \A k : System(k)' = System(k)
    BY DEF LeaderStays, System
  <1>2. \A k : Open(k)' = Open(k)
    BY <1>1 DEF LeaderStays, Open
  <1>3. \A e : Nominee(R, e)' = Nominee(R, e)
    BY <1>1 DEF LeaderStays, Nominee
  <1>4. Reigns(R) => Reigns(R)'
    BY <1>3 DEF LeaderStays, Reigns
  <1>5. \A k, v : Rides(R, k, v) => Rides(R, k, v)'
    BY DEF LeaderStays, Rides
  <1>6. \A k : Stamped(R, k) => Stamped(R, k)'
    BY <1>5 DEF LeaderStays, Stamped
  <1>7. Entries(R) => Entries(R)'
    BY <1>1, <1>6 DEF LeaderStays, Entries
  <1>8. Apart => Apart'
    BY <1>1 DEF LeaderStays, Apart
  <1>9. Due(V) => Due(V)'
    BY <1>1 DEF LeaderStays, Due
  <1>10. Pending => Pending'
    BY <1>2 DEF LeaderStays, Pending
  <1>11. \A p : Overlapping(p) => Overlapping(p)'
    BY <1>2 DEF LeaderStays, Overlapping
  <1> QED
    BY <1>4, <1>7, <1>8, <1>9, <1>10, <1>11

\* r goes back to a reign that no rider began, and that it was not in.
Reverts(R, r) ==
    \E e \in DOMAIN R : /\ R[e].by # "rider" /\ R[e].floor <= accepted'[r]
                        /\ status[r] # "Joining" => retained[r].era < e

\* What a step of a follower does of the reigns.
Moved(R, r) ==
    /\ Still(r) /\ UNCHANGED <<oks, planned>>
    /\ DOMAIN retained' = Node /\ \A n \in Node \ {r} : retained'[n] = retained[n]
    /\ Placed(R, r)'
    /\ ballot[r].era <= ballot'[r].era /\ retained[r].era <= retained'[r].era
    /\ status[r] # "Joining" => status'[r] # "Joining"
    /\ accepted[r] <= accepted'[r] \/ Reverts(R, r)
    /\ status[r] # "Joining" =>
          \A e \in DOMAIN R : R[e].by = "rider" /\ e <= EraOf(table'[r]) =>
                                  EraOf(table[r]) >= e \/ retained'[r].era >= e
    /\ \A m \in msgs' \ msgs : \/ m.tag \in {"GetState", "DoViewChange"}
                               \/ m.tag = "Ok" /\ Voted(m)'

\* A quorum is one of nodes.
LEMMA QuorumNodes ==
  ASSUME NEW t, SoundTable(Node, t), NEW Q, IsQuorum(Current(t).config, Q)
  PROVE  Q \subseteq Node
  <1> DEFINE c == Current(t).config
  <1>1. c \in Configs(Node)
    BY TableType DEF Sound
  <1>2. \A i \in DOMAIN c.order : c.order[i].node \in Node
    BY <1>1, OrderType
  <1>3. Q \subseteq Members(c)
    BY DEF IsQuorum
  <1> QED
    BY <1>2, <1>3 DEF Members

\* An era that cannot elect any more never will.
LEMMA FencedStays ==
  ASSUME \A n \in Node : /\ ballot[n].era \in Nat /\ ballot'[n].era \in Nat
                         /\ ballot[n].era <= ballot'[n].era,
         NEW p, SoundTable(Node, p.table), Fenced(p)
  PROVE  Fenced(p)'
  <1>1. ASSUME NEW Q, IsQuorum(ConfigOf(p), Q)
        PROVE  \E n \in Q : ballot'[n].era > EraOf(p.table)
    <2>1. PICK n \in Q : ballot[n].era > EraOf(p.table)
      BY <1>1 DEF Fenced
    <2>2. Q \subseteq Node
      BY <1>1, QuorumNodes DEF ConfigOf
    <2>3. EraOf(p.table) \in Nat
      BY TableType
    <2>4. ballot'[n].era > EraOf(p.table)
      BY <2>1, <2>2, <2>3
    <2> QED
      BY <2>4
  <1> QED
    BY <1>1 DEF Fenced

\* A step of a follower keeps what is said of the reigns.
LEMMA MovedRuled ==
  ASSUME TInv, TInv', NEW V, Agreed(V), NEW R, Ruled(V, R), NEW r \in Node \ {Leader}, Moved(R, r)
  PROVE  Ruled(V, R)'
  <1>1. /\ Leader \in Node /\ Leader # r /\ r \in Node /\ hist' = hist /\ msgs \subseteq msgs'
        /\ \A n \in Node \ {r} :
              /\ accepted'[n] = accepted[n] /\ ballot'[n] = ballot[n] /\ status'[n] = status[n]
              /\ retained'[n] = retained[n] /\ table'[n] = table[n]
    BY LeaderIn DEF Moved, Still
  <1>2. LeaderStays
    BY <1>1 DEF Moved, Still, LeaderStays
  <1>3. /\ Reigns(R) /\ Entries(R) /\ Apart /\ Due(V) /\ Pending
        /\ \A p \in planned : Overlapping(p)
    BY DEF Ruled
  <1>4. /\ Reigns(R)' /\ Entries(R)' /\ Apart' /\ Due(V)' /\ Pending'
        /\ \A p \in planned' : Overlapping(p)'
    <2>1. planned' = planned
      BY DEF Moved
    <2> QED
      BY <1>2, <1>3, <2>1, LeaderStaysRuled
  <1>5. \A n \in Node : Placed(R, n)'
    <2>1. ASSUME NEW n \in Node, n # r PROVE Placed(R, n)'
      <3>1. Placed(R, n)
        BY DEF Ruled
      <3> QED
        BY <1>1, <2>1, <3>1 DEF Placed
    <2> QED
      BY <2>1 DEF Moved
  <1>6. ASSUME NEW n \in Node
        PROVE  /\ ballot[n].era \in Nat /\ ballot'[n].era \in Nat /\ ballot[n].era <= ballot'[n].era
               /\ retained[n].era \in Nat /\ retained'[n].era \in Nat
               /\ retained[n].era <= retained'[n].era
               /\ status[n] # "Joining" => status'[n] # "Joining"
               /\ accepted[n] \in Nat /\ accepted'[n] \in Nat
               /\ EraOf(table[n]) \in Nat /\ EraOf(table'[n]) \in Nat
    <2>1. ballot[n].era \in Nat /\ retained[n].era \in Nat
      BY <1>3, TInvTypes, ReignTypes DEF Ruled
    <2>2. ballot'[n].era \in Nat /\ retained'[n].era \in Nat
      <3>1. Len(hist') \in Nat
        BY <1>1, TInvTypes
      <3>2. Placed(R, n)' /\ DOMAIN R = 1 .. ballot'[Leader].era /\ ballot'[Leader].era \in Nat
        BY <1>4, <1>5 DEF Reigns
      <3>3. ballot'[n].era \in 1 .. ballot'[Leader].era /\ retained'[n].era \in 1 .. ballot'[n].era
        BY <3>2 DEF Placed
      <3> QED
        BY <3>2, <3>3
    <2>3. accepted[n] \in Nat /\ EraOf(table[n]) \in Nat
      BY TInvTypes
    <2>4. accepted'[n] \in Nat /\ EraOf(table'[n]) \in Nat
      <3>1. accepted'[n] \in Nat /\ SoundTable(Node, table'[n])
        <4>1. PlaceSound(n)'
          BY DEF TInv
        <4>2. Len(hist') \in Nat
          BY <1>1, TInvTypes
        <4> QED
          BY <4>1, <4>2 DEF PlaceSound, INIT_SLOT
      <3> QED
        BY <3>1, TableType
    <2>5. CASE n = r
      BY <2>1, <2>2, <2>3, <2>4, <2>5 DEF Moved
    <2>6. CASE n # r
      BY <1>1, <2>1, <2>2, <2>3, <2>4, <2>6
    <2> QED
      BY <2>5, <2>6
  <1>7. DOMAIN R = 1 .. ballot[Leader].era /\ ballot[Leader].era \in Nat /\ ballot'[Leader] = ballot[Leader]
        /\ \A e \in DOMAIN R : e \in Nat /\ e <= ballot[Leader].era /\ R[e].floor \in Nat
    BY <1>2, <1>3, TInvTypes, ReignTypes DEF LeaderStays
  <1>8. ASSUME NEW m \in msgs' PROVE Said(V, R, m)'
    <2>1. CASE m \in msgs
      <3>1. Said(V, R, m)
        BY <2>1 DEF Ruled
      <3>2. ASSUME Voted(m) PROVE Voted(m)'
        <4>1. PICK n \in Node \ {Leader} : n = m.from
          BY <3>2 DEF Voted
        <4>2. /\ m.slot \in Nat /\ m.view.era \in 1 .. retained[n].era /\ status[n] # "Joining"
              /\ m.view.era = ballot[Leader].era => m.slot <= accepted[n]
          BY <3>2, <4>1 DEF Voted
        <4>3. m.view.era \in 1 .. retained'[n].era /\ status'[n] # "Joining"
          BY <1>6, <4>2
        <4>4. m.view.era = ballot[Leader].era => m.slot <= accepted'[n]
          <5>1. CASE accepted[n] <= accepted'[n]
            BY <1>6, <4>2, <5>1
          <5>2. CASE n = r /\ Reverts(R, r)
            <6>1. PICK e \in DOMAIN R : retained[r].era < e
              BY <4>2, <5>2 DEF Reverts
            <6> QED
              BY <1>6, <1>7, <4>2, <5>2, <6>1
          <5>3. n # r => accepted'[n] = accepted[n]
            BY <1>1
          <5> QED
            BY <1>6, <5>1, <5>2, <5>3 DEF Moved
        <4> QED
          BY <1>7, <4>1, <4>2, <4>3, <4>4 DEF Voted
      <3> QED
        BY <3>1, <3>2 DEF Said, EraAt, MemberIn
    <2>2. CASE m \notin msgs
      BY <2>2 DEF Moved, Said
    <2> QED
      BY <2>1, <2>2
  <1>9. Votes(R, oks)'
    <2>1. ASSUME NEW v \in oks PROVE Vote(R, v[1], v[2])'
      <3>1. PICK s : s = v[1]
        OBVIOUS
      <3>2. PICK n : n = v[2]
        OBVIOUS
      <3>3. Vote(R, s, n)
        BY <3>1, <3>2 DEF Ruled, Votes
      <3>4. n \in Node \ {Leader} /\ n \in Node /\ status[n] # "Joining" /\ s \in INIT_SLOT + 1 .. accepted[n]
            /\ s \in Nat
        BY <1>6, <3>3 DEF Vote, INIT_SLOT
      <3>5. s \in INIT_SLOT + 1 .. accepted'[n]
        <4>1. CASE accepted[n] <= accepted'[n]
          BY <1>6, <3>4, <4>1 DEF INIT_SLOT
        <4>2. CASE n = r /\ Reverts(R, r)
          <5>1. PICK e \in DOMAIN R : /\ R[e].by # "rider" /\ R[e].floor <= accepted'[r]
                                      /\ retained[r].era < e
            BY <3>4, <4>2 DEF Reverts
          <5>2. ~(retained[n].era >= e)
            BY <1>6, <1>7, <3>4, <4>2, <5>1
          <5>3. ~(s > R[e].floor)
            BY <3>3, <5>1, <5>2 DEF Vote
          <5> QED
            BY <1>6, <1>7, <3>4, <4>2, <5>1, <5>3 DEF INIT_SLOT
        <4>3. n # r => accepted'[n] = accepted[n]
          BY <1>1, <3>4
        <4> QED
          BY <1>6, <3>4, <4>1, <4>2, <4>3 DEF Moved
      <3>6. System(s)' => retained'[n].era >= hist'[s].era
        <4>1. /\ s \in 1 .. Len(hist) /\ hist' = hist
          <5>1. accepted[n] \in INIT_SLOT .. Len(hist)
            BY <3>4 DEF TInv, PlaceSound
          <5> QED
            BY <1>1, <3>4, <5>1, TInvTypes DEF INIT_SLOT
        <4>2. hist[s].era \in Nat
          BY <4>1 DEF TInv, HistSound
        <4>3. System(s) => retained[n].era >= hist[s].era
          BY <3>3 DEF Vote
        <4> QED
          BY <1>6, <3>4, <4>1, <4>2, <4>3 DEF System
      <3>7. ASSUME NEW e \in DOMAIN R,
                   IF R[e].by = "rider" THEN EraOf(table'[n]) >= e ELSE s > R[e].floor
            PROVE  retained'[n].era >= e
        <4>1. (IF R[e].by = "rider" THEN EraOf(table[n]) >= e ELSE s > R[e].floor) => retained[n].era >= e
          BY <3>3 DEF Vote
        <4>2. retained[n].era >= e => retained'[n].era >= e
          BY <1>6, <1>7, <3>4
        <4>3. CASE R[e].by # "rider"
          BY <3>7, <4>1, <4>2, <4>3
        <4>4. CASE R[e].by = "rider" /\ n # r
          BY <1>1, <3>4, <3>7, <4>1, <4>2, <4>4
        <4>5. CASE R[e].by = "rider" /\ n = r
          <5>1. e <= EraOf(table'[n])
            BY <1>6, <1>7, <3>4, <3>7, <4>5
          <5>2. EraOf(table[r]) >= e \/ retained'[r].era >= e
            BY <3>4, <4>5, <5>1 DEF Moved
          <5> QED
            BY <4>1, <4>2, <4>5, <5>2
        <4> QED
          BY <4>3, <4>4, <4>5
      <3>8. Vote(R, s, n)'
        BY <1>6, <3>4, <3>5, <3>6, <3>7 DEF Vote
      <3> QED
        BY <3>1, <3>2, <3>8
    <2>2. oks' = oks
      BY DEF Moved
    <2> QED
      BY <2>1, <2>2 DEF Votes
  <1>10. ASSUME NEW p \in V, Fenced(p) PROVE Fenced(p)'
    <2>1. SoundTable(Node, p.table)
      BY DEF Agreed, Chain
    <2> QED
      BY <1>6, <1>10, <2>1, FencedStays
  <1>11. Crosses(V)'
    <2>1. Config(Leader)' = Config(Leader)
      BY <1>2 DEF LeaderStays, Config
    <2> QED
      BY <1>10, <2>1 DEF Ruled, Crosses
  <1>12. Covers(V, oks)'
    <2>1. committed'[Leader] = committed[Leader] /\ oks' = oks
      BY <1>2 DEF LeaderStays, Moved
    <2>2. \A p : CrossedBy(p, Held(oks))' = CrossedBy(p, Held(oks))
      BY <2>1 DEF CrossedBy, Held
    <2> QED
      BY <1>10, <2>1, <2>2 DEF Ruled, Covers
  <1>13. Rooted(V) /\ DOMAIN retained' = Node
    BY DEF Ruled, Moved
  <1> QED
    BY <1>4, <1>5, <1>8, <1>9, <1>11, <1>12, <1>13 DEF Ruled

-----------------------------------------------------------------------------
(* The steps of the followers.                                             *)

\* A step that only asks moves no reign.
LEMMA QuietMoved ==
  ASSUME TInv, NEW V, NEW R, Ruled(V, R), NEW r \in Node \ {Leader}, Goes(r),
         UNCHANGED <<accepted, ballot, retained, status, table, oks>>,
         \A m \in msgs' \ msgs : m.tag \in {"GetState", "DoViewChange"}
  PROVE  Moved(R, r)
  <1>1. Still(r) /\ planned' = planned /\ DOMAIN retained' = Node /\ Placed(R, r)
    BY DEF Goes, Ruled
  <1>2. Placed(R, r)'
    BY <1>1 DEF Placed
  <1>3. /\ ballot[r].era \in Nat /\ retained[r].era \in Nat /\ accepted[r] \in Nat
        /\ EraOf(table[r]) \in Nat /\ \A e \in DOMAIN R : e \in Nat
    BY <1>1, TInvTypes, ReignTypes DEF Ruled
  <1> QED
    BY <1>1, <1>2, <1>3 DEF Moved

\* A fold that r publishes moves it as its new ballot and log say.
LEMMA PublishMoved ==
  ASSUME TInv, NEW V, NEW R, Ruled(V, R), NEW r \in Node \ {Leader}, Goes(r), oks' = oks,
         NEW st, NEW acc \in Nat, NEW b, NEW f, Publish(r, st, acc, b, f),
         NEW kept, kept = IF st = "ViewChange" THEN retained[r] ELSE b,
         b.era \in DOMAIN R, b.era >= ballot[r].era, R[kept.era].floor <= acc,
         st = "ViewChange" => status[r] = "ViewChange" /\ b = ballot[r],
         IF st = "Joining" THEN status[r] = "Joining" /\ b = [era |-> b.era, view |-> b.era - 1]
                           ELSE Reigned(R, b),
         accepted[r] <= acc \/ Reverts(R, r),
         status[r] # "Joining" =>
            \A e \in DOMAIN R : R[e].by = "rider" /\ e <= EraOf(f.table) =>
                                    EraOf(table[r]) >= e \/ kept.era >= e,
         \A m \in msgs' \ msgs : \/ m.tag \in {"GetState", "DoViewChange"}
                                 \/ st = "Normal" /\ \E s \in Nat : s <= acc /\ m = Ok(r, s)
  PROVE  Moved(R, r)
  <1>1. /\ Still(r) /\ planned' = planned /\ DOMAIN retained = Node /\ Placed(R, r) /\ Kept
        /\ Reigns(R) /\ Len(hist) \in Nat /\ r \in Node /\ r # Leader /\ Leader \in Node
    BY TInvTypes, LeaderIn DEF Goes, Ruled, TInv
  <1>2. /\ accepted'[r] = acc /\ ballot'[r] = b /\ status'[r] = st /\ table'[r] = f.table
        /\ retained'[r] = kept /\ DOMAIN retained' = Node
        /\ \A n \in Node \ {r} : retained'[n] = retained[n]
    BY <1>1 DEF Publish, Kept
  <1>3. /\ ballot[r].era \in Nat /\ ballot[r].era >= 1 /\ retained[r].era \in Nat /\ retained[r].era >= 1
        /\ retained[r].era <= ballot[r].era
        /\ b.era \in Nat /\ \A e \in DOMAIN R : e \in Nat
        /\ R[kept.era].floor \in Nat
    <2>1. ballot[r].era \in DOMAIN R /\ retained[r].era \in DOMAIN R
      BY <1>1, ReignTypes DEF Placed
    <2>2. kept.era \in DOMAIN R
      BY <2>1
    <2> QED
      BY <1>1, <2>1, <2>2, ReignTypes
  <1>4. kept.era \in 1 .. b.era /\ retained[r].era <= kept.era
    <2>1. CASE st = "ViewChange"
      BY <1>3, <2>1
    <2>2. CASE st # "ViewChange"
      BY <1>3, <2>2
    <2> QED
      BY <2>1, <2>2
  <1>5. Placed(R, r)'
    <2>1. st # "ViewChange" => kept = b
      OBVIOUS
    <2>2. st = "ViewChange" => kept.era < b.era /\ Reigned(R, kept)
      BY <1>1 DEF Placed
    <2>3. st # "Joining" => Reigned(R, b) /\ Reigned(R, kept)
      BY <2>1, <2>2
    <2>4. /\ ballot'[r].era \in DOMAIN R /\ retained'[r].era \in 1 .. ballot'[r].era
          /\ accepted'[r] >= R[retained'[r].era].floor
          /\ status'[r] # "ViewChange" => retained'[r] = ballot'[r]
          /\ status'[r] = "ViewChange" => retained'[r].era < ballot'[r].era
      BY <1>2, <1>3, <1>4, <2>1, <2>2
    <2>5. IF status'[r] = "Joining"
          THEN ballot'[r] = [era |-> ballot'[r].era, view |-> ballot'[r].era - 1]
          ELSE Reigned(R, ballot'[r]) /\ Reigned(R, retained'[r])
      BY <1>2, <2>3
    <2> QED
      BY <2>4, <2>5 DEF Placed
  <1>6. \A m \in msgs' \ msgs : \/ m.tag \in {"GetState", "DoViewChange"}
                                \/ m.tag = "Ok" /\ Voted(m)'
    <2>1. ASSUME NEW s \in Nat, s <= acc, NEW m, m = Ok(r, s), st = "Normal"
          PROVE  m.tag = "Ok" /\ Voted(m)'
      <3>1. m.tag = "Ok" /\ m.from = r /\ m.slot = s /\ m.view = ballot[r]
        BY <2>1 DEF Ok
      <3>2. m.view.era \in 1 .. retained'[r].era
        BY <1>2, <1>3, <2>1, <3>1
      <3> QED
        BY <1>2, <2>1, <3>1, <3>2 DEF Voted
    <2> QED
      BY <2>1
  <1>7. status[r] # "Joining" => status'[r] # "Joining"
    BY <1>2
  <1> QED
    BY <1>1, <1>2, <1>3, <1>4, <1>5, <1>6, <1>7 DEF Moved

\* Of the points V an era has one record.
LEMMA SameRecord ==
  ASSUME TInv, NEW V, Agreed(V), NEW p \in V, NEW q \in V, NEW x \in Range(p.table),
         NEW y \in Range(q.table), x.config.era = y.config.era
  PROVE  x = y
  <1>1. PointAt(Leader).slot \in Nat /\ Chain(V, PointAt(Leader))
    BY TInvTypes, LeaderIn DEF Agreed, PointAt
  <1>2. p.slot \in Nat /\ q.slot \in Nat
    BY <1>1 DEF Chain, INIT_SLOT
  <1>3. Alike(p, q) \/ Alike(q, p)
    BY <1>1, <1>2 DEF Chain
  <1> QED
    BY <1>3 DEF Alike

\* A later point is of no earlier era.
LEMMA LaterEra ==
  ASSUME TInv, NEW V, Agreed(V), NEW p \in V, NEW q \in V, p.slot <= q.slot
  PROVE  EraOf(p.table) <= EraOf(q.table)
  BY DEF Agreed, Chain, Alike

\* Whom the leader sends a Prepare of an era that r knows is a member to r too.
LEMMA KnowsMember ==
  ASSUME TInv, NEW V, Agreed(V), NEW r \in Node, NEW b, NEW n, Leads(r, b, n), NEW k,
         MemberIn(V, b.era, k)
  PROVE  MemberOf(r, b, k)
  <1>1. PICK rec \in RecordsOf(table[r], b.era) : TRUE
    BY DEF Leads
  <1>2. PICK p \in V : EraOf(p.table) = b.era /\ k \in Members(Current(p.table).config)
    BY DEF MemberIn
  <1>3. rec \in Range(table[r]) /\ rec.config.era = b.era
    BY <1>1 DEF RecordsOf
  <1>4. Current(p.table) \in Range(p.table) /\ Current(p.table).config.era = b.era
    <2>1. SoundTable(Node, p.table)
      BY DEF Agreed, Chain
    <2> QED
      BY <1>2, <2>1, TableType DEF EraOf
  <1>5. PointAt(r) \in V /\ PointAt(r).table = table[r]
    BY DEF Agreed, PointAt
  <1>6. rec = Current(p.table)
    BY <1>2, <1>3, <1>4, <1>5, SameRecord
  <1> QED
    BY <1>1, <1>2, <1>6 DEF MemberOf

\* A fault moves no reign.
LEMMA FaultMoved ==
  ASSUME TInv, NEW V, NEW R, Ruled(V, R), NEW r \in Node \ {Leader}, Fault(r)
  PROVE  Moved(R, r)
  <1>1. Goes(r)
    BY FaultStays
  <1>2. /\ UNCHANGED <<accepted, ballot, retained, status, table, oks>> /\ msgs' = msgs
    BY DEF Fault, leaderVars
  <1> QED
    BY <1>1, <1>2, QuietMoved

\* A message of a later view is of the reign of the next era.
LEMMA HigherViewMoved ==
  ASSUME TInv, NEW V, NEW R, Ruled(V, R), NEW r \in Node \ {Leader}, NEW m,
         Reigned(R, m.view), HigherView(r, m)
  PROVE  Moved(R, r)
  <1>1. Goes(r)
    BY HigherViewGoes
  <1>2. /\ Still(r) /\ planned' = planned /\ DOMAIN retained = Node /\ Placed(R, r) /\ Kept
        /\ Reigns(R) /\ Len(hist) \in Nat /\ r \in Node
    BY <1>1, TInvTypes DEF Goes, Ruled, TInv
  <1>3. /\ accepted' = accepted /\ retained' = retained /\ table' = table /\ oks' = oks
        /\ status'[r] = "ViewChange" /\ ballot'[r] = m.view /\ status[r] # "Joining"
        /\ \A x \in msgs' \ msgs : x.tag = "GetState"
    BY <1>2 DEF HigherView, Kept, leaderVars, Fetch, Send
  <1>4. /\ ballot[r].era \in DOMAIN R /\ retained[r].era \in DOMAIN R
        /\ retained[r].era <= ballot[r].era /\ m.view.era \in DOMAIN R
        /\ \A e \in DOMAIN R : e \in Nat /\ e >= 1 /\ R[e].view \in Nat
    BY <1>2, ReignTypes DEF Placed, Reigned
  <1>5. Reigned(R, ballot[r]) /\ Reigned(R, retained[r]) /\ accepted[r] >= R[retained[r].era].floor
    BY <1>2, <1>3 DEF Placed
  <1>6. m.view.era > ballot[r].era
    <2>1. m.view.view > ballot[r].view /\ m.view.era \in {ballot[r].era, ballot[r].era + 1}
      BY DEF HigherView, LegalSuccessor
    <2>2. ballot[r].view = R[ballot[r].era].view /\ m.view.view = R[m.view.era].view
      BY <1>5 DEF Reigned
    <2> QED
      BY <1>4, <2>1, <2>2
  <1>7. Placed(R, r)'
    <2>1. retained[r].era \in 1 .. m.view.era /\ retained[r].era < m.view.era
      BY <1>4, <1>6
    <2> QED
      BY <1>3, <1>4, <1>5, <2>1 DEF Placed
  <1>8. accepted[r] \in Nat /\ EraOf(table[r]) \in Nat
    BY <1>2, TInvTypes
  <1> QED
    BY <1>2, <1>3, <1>4, <1>6, <1>7, <1>8 DEF Moved

\* The ballot a member of a reign publishes after its fold.
LEMMA RunsPublish ==
  ASSUME TInv, NEW V, NEW R, Ruled(V, R), NEW r \in Node \ {Leader}, status[r] = "Normal",
         NEW f, f.slot \in Nat, Running(R, r, f), NEW b \in Walked(r, f),
         NEW acc \in Nat, accepted[r] <= acc, f.slot <= acc
  PROVE  /\ Reigned(R, b) /\ b.era \in DOMAIN R /\ b.era >= ballot[r].era
         /\ R[b.era].floor <= acc
         /\ \A e \in DOMAIN R : R[e].by = "rider" /\ e <= EraOf(f.table) =>
                                    EraOf(table[r]) >= e \/ b.era >= e
  <1>1. PICK x : Runs(R, r, f, x)
    BY DEF Running
  <1>2. b = x
    BY <1>1 DEF Runs, Walked
  <1>3. Placed(R, r) /\ Reigns(R) /\ accepted[r] \in Nat /\ Len(hist) \in Nat
    BY TInvTypes DEF Ruled
  <1>4. Reigned(R, x) /\ x.era \in DOMAIN R /\ x.era >= ballot[r].era
        /\ (x.era = ballot[r].era \/ R[x.era].floor <= f.slot)
    BY <1>1 DEF Runs, Reigned
  <1>5. R[x.era].floor \in Nat
    BY <1>3, <1>4, ReignTypes
  <1>6. R[ballot[r].era].floor <= accepted[r]
    <2>1. retained[r] = ballot[r] /\ accepted[r] >= R[retained[r].era].floor
      BY <1>3 DEF Placed
    <2> QED
      BY <1>3, <2>1, ReignTypes
  <1>7. R[x.era].floor <= acc
    BY <1>3, <1>4, <1>5, <1>6
  <1> QED
    BY <1>1, <1>2, <1>4, <1>7 DEF Runs

\* Committing what a frontier covers moves r through the reigns of the riders.
LEMMA AdvanceMoved ==
  ASSUME NoFused, TInv, Whole, NEW V, Agreed(V), NEW R, Ruled(V, R), NEW r \in Node \ {Leader},
         status[r] \in {"Normal", "Joining"}, Reigned(R, ballot[r]),
         NEW acc, Reached(r, acc), accepted[r] <= acc,
         NEW frontier \in Nat, frontier <= committed[Leader],
         NEW sends, \A m \in sends : /\ Adopted(r) = "Normal"
                                     /\ \E s \in Nat : s <= acc /\ m = Ok(r, s),
         Advance(r, acc, frontier, sends)
  PROVE  Moved(R, r)
  <1> DEFINE through == AtLeast(committed[r], AtMost(frontier, acc))
  <1>1. /\ acc \in 1 .. Len(hist) /\ Kept /\ PlaceSound(r) /\ accepted[r] \in Nat
        /\ committed[r] \in Nat /\ committed[Leader] \in Nat /\ r \in Node /\ Len(hist) \in Nat
    BY ReachedIn, TInvTypes, LeaderIn DEF TInv
  <1>2. through \in committed[r] .. acc /\ through <= committed[Leader] /\ acc \in Nat
    BY <1>1 DEF AtLeast, AtMost, PlaceSound
  <1>3. Goes(r)
    <2>1. \A m \in sends : m.tag = "Ok"
      BY DEF Ok
    <2> QED
      BY <2>1, AdvanceGoes
  <1> HIDE DEF through
  <1>4. PICK f \in FoldCommitted(r, acc, through, TRUE) :
           \E b \in Walked(r, f) :
              \/ Doomed(r, b, f) /\ Fault(r)
              \/ /\ Publish(r, Adopted(r), acc, b, f)
                 /\ Send(sends)
                 /\ UNCHANGED <<hist, leaderVars, fetchVars>>
    BY DEF Advance, through
  <1>5. PICK b \in Walked(r, f) :
              \/ Doomed(r, b, f) /\ Fault(r)
              \/ /\ Publish(r, Adopted(r), acc, b, f)
                 /\ Send(sends)
                 /\ UNCHANGED <<hist, leaderVars, fetchVars>>
    BY <1>4
  <1>6. CASE Fault(r)
    BY <1>6, FaultMoved
  <1>7. CASE /\ Publish(r, Adopted(r), acc, b, f)
             /\ Send(sends)
             /\ UNCHANGED <<hist, leaderVars, fetchVars>>
    <2>1. /\ Reigns(R) /\ Entries(R) /\ Apart /\ Due(V) /\ Placed(R, r)
      BY DEF Ruled
    <2>2. f \in FoldCommitted(r, acc, through, TRUE)
      OBVIOUS
    <2>3. /\ f.slot \in committed[r] .. through
          /\ IF status[r] = "Normal" THEN Running(R, r, f) ELSE f.running = {}
      BY <1>1, <1>2, <2>1, <2>2, FollowerWalk
    <2>4. f.slot \in Nat /\ f.slot <= acc
      BY <1>1, <1>2, <2>3
    <2>5. oks' = oks /\ \A m \in msgs' \ msgs : m \in sends
      BY <1>7 DEF leaderVars, Send
    <2>6. \A m \in msgs' \ msgs : Adopted(r) = "Normal" /\ \E s \in Nat : s <= acc /\ m = Ok(r, s)
      BY <2>5
    <2>7. Adopted(r) \in {"Normal", status[r]} /\ Adopted(r) # "ViewChange"
      BY DEF Adopted
    <2>8. CASE status[r] = "Normal"
      <3>1. /\ Reigned(R, b) /\ b.era \in DOMAIN R /\ b.era >= ballot[r].era
            /\ R[b.era].floor <= acc
            /\ \A e \in DOMAIN R : R[e].by = "rider" /\ e <= EraOf(f.table) =>
                                       EraOf(table[r]) >= e \/ b.era >= e
        BY <1>1, <1>2, <2>3, <2>4, <2>8, RunsPublish
      <3>2. Adopted(r) = "Normal"
        BY <2>7, <2>8
      <3> QED
        BY <1>2, <1>3, <1>7, <2>5, <2>6, <3>1, <3>2, PublishMoved
    <2>9. CASE status[r] = "Joining"
      <3>1. b = ballot[r]
        BY <2>3, <2>9 DEF Walked
      <3>2. /\ ballot[r].era \in DOMAIN R /\ retained[r] = ballot[r]
            /\ accepted[r] >= R[retained[r].era].floor
            /\ ballot[r] = [era |-> ballot[r].era, view |-> ballot[r].era - 1]
        BY <2>1, <2>9 DEF Placed
      <3>3. R[b.era].floor <= acc /\ b.era >= ballot[r].era
        <4>1. R[b.era].floor \in Nat /\ ballot[r].era \in Nat
          BY <1>1, <2>1, <3>1, <3>2, ReignTypes
        <4> QED
          BY <1>1, <1>2, <3>1, <3>2, <4>1
      <3>4. IF Adopted(r) = "Joining"
            THEN status[r] = "Joining" /\ b = [era |-> b.era, view |-> b.era - 1]
            ELSE Reigned(R, b)
        BY <2>9, <3>1, <3>2
      <3> QED
        BY <1>1, <1>2, <1>3, <1>7, <2>5, <2>6, <2>7, <2>9, <3>1, <3>2, <3>3, <3>4, PublishMoved
    <2> QED
      BY <2>8, <2>9
  <1> QED
    BY <1>5, <1>6, <1>7

\* What the leader said m with, of the reigns.
LEMMA FollowsReigned ==
  ASSUME NEW V, NEW R, Ruled(V, R), NEW r \in Node, NEW m \in msgs, Takes(r, m, m.tag),
         m.tag \in {"Prepare", "Commit"}
  PROVE  /\ Reigned(R, m.view)
         /\ m.tag = "Prepare" => MemberIn(V, m.view.era, r)
         /\ Follows(r, m) => Reigned(R, ballot[r]) /\ status[r] \in {"Normal", "Joining"}
  <1>1. Said(V, R, m) /\ r \in m.to
    BY DEF Ruled, Takes
  <1> QED
    BY <1>1 DEF Said, Follows

\* An accepted Prepare leaves its taker in the reign of the message.
LEMMA PrepareMoved ==
  ASSUME NoFused, TInv, Whole, NEW V, Agreed(V), NEW R, Ruled(V, R), NEW r \in Node \ {Leader},
         ReceivePrepare(r)
  PROVE  Moved(R, r)
  <1>1. PICK m \in msgs :
          /\ Takes(r, m, "Prepare")
          /\ \/ HigherView(r, m)
             \/ /\ Follows(r, m) /\ m.slot <= accepted[r]
                /\ Advance(r, accepted[r], m.committed, {Ok(r, m.slot)})
             \/ /\ Follows(r, m) /\ AcceptsNext(r, m)
                /\ Advance(r, m.slot, m.committed, {Ok(r, m.slot)})
             \/ /\ Fetch(r, ballot[r], accepted[r] + 1)
                /\ UNCHANGED <<hist, progressVars, leaderVars, stalled>>
    BY DEF ReceivePrepare
  <1>2. /\ m.tag = "Prepare" /\ MsgSound(m) /\ Kept /\ PlaceSound(r) /\ Goes(r)
        /\ accepted[r] \in Nat /\ committed[Leader] \in Nat /\ Len(hist) \in Nat
    BY <1>1, TInvTypes, LeaderIn, PrepareGoes DEF Takes, TInv
  <1>3. /\ m.committed \in Nat /\ m.committed <= committed[Leader] /\ Ends(m, m.slot)
        /\ m.slot \in Nat
    BY <1>2 DEF MsgSound, Told, Ends
  <1>4. /\ Reigned(R, m.view) /\ MemberIn(V, m.view.era, r)
        /\ Follows(r, m) => Reigned(R, ballot[r]) /\ status[r] \in {"Normal", "Joining"}
    BY <1>1, <1>2, FollowsReigned
  <1>5. CASE HigherView(r, m)
    BY <1>4, <1>5, HigherViewMoved
  <1>6. Follows(r, m) => Adopted(r) = "Normal"
    <2>1. ASSUME Follows(r, m) PROVE MemberOf(r, m.view, r)
      <3>1. Leads(r, m.view, Leader)
        BY <2>1 DEF Follows
      <3> QED
        BY <1>4, <3>1, KnowsMember
    <2> QED
      BY <2>1 DEF Adopted, Follows
  <1>7. ASSUME Follows(r, m), NEW acc, m.slot <= acc
        PROVE  \A x \in {Ok(r, m.slot)} : /\ Adopted(r) = "Normal"
                                          /\ \E s \in Nat : s <= acc /\ x = Ok(r, s)
    BY <1>3, <1>6, <1>7
  <1>8. CASE /\ Follows(r, m) /\ m.slot <= accepted[r]
             /\ Advance(r, accepted[r], m.committed, {Ok(r, m.slot)})
    <2>1. Reached(r, accepted[r]) /\ accepted[r] <= accepted[r]
      BY <1>2 DEF Reached
    <2> QED
      BY <1>3, <1>4, <1>7, <1>8, <2>1, AdvanceMoved
  <1>9. CASE /\ Follows(r, m) /\ AcceptsNext(r, m)
             /\ Advance(r, m.slot, m.committed, {Ok(r, m.slot)})
    <2>1. m.slot = accepted[r] + 1
      BY <1>9 DEF AcceptsNext
    <2>2. Reached(r, m.slot) /\ accepted[r] <= m.slot /\ m.slot <= m.slot
      BY <1>1, <1>2, <1>3, <2>1 DEF Reached
    <2> QED
      BY <1>3, <1>4, <1>7, <1>9, <2>2, AdvanceMoved
  <1>10. CASE /\ Fetch(r, ballot[r], accepted[r] + 1)
              /\ UNCHANGED <<hist, progressVars, leaderVars, stalled>>
    <2>1. /\ UNCHANGED <<accepted, ballot, retained, status, table, oks>>
          /\ \A x \in msgs' \ msgs : x.tag = "GetState"
      BY <1>10 DEF progressVars, leaderVars, Fetch, Send
    <2> QED
      BY <1>2, <2>1, QuietMoved
  <1> QED
    BY <1>1, <1>5, <1>8, <1>9, <1>10

\* So does a Commit, but for the riders that it commits.
LEMMA CommitMoved ==
  ASSUME NoFused, TInv, Whole, NEW V, Agreed(V), NEW R, Ruled(V, R), NEW r \in Node \ {Leader},
         ReceiveCommit(r)
  PROVE  Moved(R, r)
  <1>1. PICK m \in msgs :
          /\ Takes(r, m, "Commit")
          /\ HigherView(r, m) \/ (Follows(r, m) /\ Advance(r, accepted[r], m.committed, {}))
    BY DEF ReceiveCommit
  <1>2. m.tag = "Commit" /\ MsgSound(m) /\ accepted[r] \in Nat
    BY <1>1, TInvTypes DEF Takes, TInv
  <1>3. m.committed \in Nat /\ m.committed <= committed[Leader]
    BY <1>2 DEF MsgSound, Told
  <1>4. /\ Reigned(R, m.view)
        /\ Follows(r, m) => Reigned(R, ballot[r]) /\ status[r] \in {"Normal", "Joining"}
    BY <1>1, <1>2, FollowsReigned
  <1>5. CASE HigherView(r, m)
    BY <1>4, <1>5, HigherViewMoved
  <1>6. CASE Follows(r, m) /\ Advance(r, accepted[r], m.committed, {})
    <2>1. Reached(r, accepted[r]) /\ accepted[r] <= accepted[r]
      BY <1>2 DEF Reached
    <2> QED
      BY <1>3, <1>4, <1>6, <2>1, AdvanceMoved
  <1> QED
    BY <1>1, <1>5, <1>6

\* No Fuse is sent.
LEMMA FuseMoved ==
  ASSUME NEW V, NEW R, Ruled(V, R), NEW r, ReceiveFuse(r)
  PROVE  FALSE
  BY DEF ReceiveFuse, Takes, Ruled, Said

\* Whoever answers a PlannedViewChange leaves its reign for the next era.
LEMMA PlannedViewChangeMoved ==
  ASSUME TInv, NEW V, NEW R, Ruled(V, R), NEW r \in Node \ {Leader}, ReceivePlannedViewChange(r)
  PROVE  Moved(R, r)
  <1> DEFINE answer(m) == [tag |-> "DoViewChange", from |-> r, view |-> m.view,
                           proof |-> Proof(r, ballot[r].era)]
             ask == [tag |-> "GetState", from |-> r, view |-> ballot[r],
                     next |-> accepted[r] + 1]
  <1>1. PICK m \in msgs :
          /\ \/ Send({answer(m)} \cup {}) \/ Send({answer(m)} \cup {ask})
          /\ UNCHANGED <<hist, progressVars, leaderVars, stalled>>
    BY DEF ReceivePlannedViewChange
  <1>2. ask.tag = "GetState" /\ answer(m).tag = "DoViewChange"
    OBVIOUS
  <1>3. /\ UNCHANGED <<accepted, ballot, retained, status, table, oks>>
        /\ msgs' = msgs \cup {answer(m)} \/ msgs' = msgs \cup {answer(m), ask}
    BY <1>1 DEF progressVars, leaderVars, Send
  <1> HIDE DEF ask, answer
  <1>4. Goes(r)
    BY PlannedViewChangeGoes
  <1> QED
    BY <1>2, <1>3, <1>4, QuietMoved

\* A chunk walks a follower through the reigns of the riders in it.
LEMMA FollowerStateMoved ==
  ASSUME NoFused, TInv, Whole, NEW V, Agreed(V), NEW R, Ruled(V, R), NEW r \in Node \ {Leader},
         NEW m \in msgs, m.tag = "NewState", m.through > accepted[r], FollowerState(r, m)
  PROVE  Moved(R, r)
  <1> DEFINE reach == IF status[r] = "Normal" /\ m.view = ballot[r]
                      THEN AtLeast(committed[r], AtMost(m.committed, m.through))
                      ELSE committed[r]
  <1>1. /\ MsgSound(m) /\ Kept /\ PlaceSound(r) /\ accepted[r] \in Nat /\ committed[r] \in Nat
        /\ committed[Leader] \in Nat /\ Len(hist) \in Nat
    BY TInvTypes, LeaderIn DEF TInv
  <1>2. m.committed \in Nat /\ m.committed <= committed[Leader] /\ m.through \in 1 .. Len(hist)
        /\ m.through \in Nat
    BY <1>1 DEF MsgSound, Told
  <1>3. Goes(r)
    BY FollowerStateGoes
  <1>4. reach \in committed[r] .. m.through /\ reach <= committed[Leader]
        /\ (status[r] # "Normal" => reach = committed[r])
    BY <1>1, <1>2 DEF AtLeast, AtMost, PlaceSound
  <1>5. PICK f \in FoldCommitted(r, m.through, reach, TRUE) :
           \E b \in Walked(r, f) :
              \/ Doomed(r, b, f) /\ Fault(r)
              \/ /\ Publish(r, status[r], m.through, b, f)
                 /\ Continue(r, m.more, m.view, m.through + 1)
                 /\ UNCHANGED <<hist, leaderVars, stalled>>
    BY DEF FollowerState
  <1>6. PICK b \in Walked(r, f) :
              \/ Doomed(r, b, f) /\ Fault(r)
              \/ /\ Publish(r, status[r], m.through, b, f)
                 /\ Continue(r, m.more, m.view, m.through + 1)
                 /\ UNCHANGED <<hist, leaderVars, stalled>>
    BY <1>5
  <1>7. f \in FoldCommitted(r, m.through, reach, TRUE)
    OBVIOUS
  <1> HIDE DEF reach
  <1>8. CASE Fault(r)
    BY <1>8, FaultMoved
  <1>9. CASE /\ Publish(r, status[r], m.through, b, f)
             /\ Continue(r, m.more, m.view, m.through + 1)
             /\ UNCHANGED <<hist, leaderVars, stalled>>
    <2>1. /\ Reigns(R) /\ Entries(R) /\ Apart /\ Due(V) /\ Placed(R, r)
      BY DEF Ruled
    <2>2. /\ f.slot \in committed[r] .. reach /\ PointOf(f) \in V
          /\ IF status[r] = "Normal" THEN Running(R, r, f) ELSE f.running = {}
      <3>1. PICK end \in 1 .. Len(hist) : end = m.through
        BY <1>2
      <3>2. reach \in committed[r] .. end /\ reach <= committed[Leader]
            /\ f \in FoldCommitted(r, end, reach, TRUE)
        BY <1>4, <1>7, <3>1
      <3> QED
        BY <2>1, <3>2, FollowerWalk
    <2>3. f.slot \in Nat /\ f.slot <= m.through /\ accepted[r] <= m.through
      BY <1>1, <1>2, <1>4, <2>2
    <2>4. oks' = oks /\ \A x \in msgs' \ msgs : x.tag = "GetState"
      BY <1>9 DEF leaderVars, Continue, Fetch, Send
    <2>5. CASE status[r] = "Normal"
      <3>1. /\ Reigned(R, b) /\ b.era \in DOMAIN R /\ b.era >= ballot[r].era
            /\ R[b.era].floor <= m.through
            /\ \A e \in DOMAIN R : R[e].by = "rider" /\ e <= EraOf(f.table) =>
                                       EraOf(table[r]) >= e \/ b.era >= e
        BY <1>2, <2>2, <2>3, <2>5, RunsPublish
      <3> QED
        BY <1>2, <1>3, <1>9, <2>3, <2>4, <2>5, <3>1, PublishMoved
    <2>6. CASE status[r] # "Normal"
      <3> DEFINE kept == IF status[r] = "ViewChange" THEN retained[r] ELSE b
      <3>1. b = ballot[r]
        BY <2>2, <2>6 DEF Walked
      <3>2. f.table = table[r]
        <4>1. PointAt(r) \in V /\ PointAt(r).slot = committed[r] /\ PointAt(r).table = table[r]
          BY DEF Agreed, PointAt
        <4>2. f.slot = committed[r] /\ PointOf(f).slot = f.slot /\ PointOf(f).table = f.table
          BY <1>1, <1>4, <2>2, <2>6 DEF PointOf
        <4>3. PointOf(f) = PointAt(r)
          BY <2>2, <4>1, <4>2 DEF Agreed, Chain
        <4> QED
          BY <4>1, <4>2, <4>3
      <3>3. /\ ballot[r].era \in DOMAIN R /\ accepted[r] >= R[retained[r].era].floor
            /\ kept.era = retained[r].era /\ retained[r].era \in DOMAIN R
            /\ status[r] # "ViewChange" => retained[r] = ballot[r]
        <4>1. retained[r].era \in DOMAIN R
          BY <1>1, <2>1, ReignTypes
        <4> QED
          BY <2>1, <3>1, <4>1 DEF Placed
      <3>4. R[kept.era].floor <= m.through /\ b.era >= ballot[r].era
        <4>1. R[retained[r].era].floor \in Nat /\ ballot[r].era \in Nat
          BY <1>1, <2>1, <3>3, ReignTypes
        <4> QED
          BY <1>1, <1>2, <2>3, <3>1, <3>3, <4>1
      <3>5. IF status[r] = "Joining" THEN b = [era |-> b.era, view |-> b.era - 1] ELSE Reigned(R, b)
        BY <2>1, <3>1 DEF Placed
      <3>6. \A e \in DOMAIN R : e <= EraOf(f.table) => EraOf(table[r]) >= e
        BY <1>1, <2>1, <3>2, ReignTypes, TInvTypes
      <3> HIDE DEF kept
      <3>7. kept = IF status[r] = "ViewChange" THEN retained[r] ELSE b
        BY DEF kept
      <3> QED
        BY <1>2, <1>3, <1>9, <2>3, <2>4, <2>6, <3>1, <3>3, <3>4, <3>5, <3>6, <3>7, PublishMoved
    <2> QED
      BY <2>5, <2>6
  <1> QED
    BY <1>6, <1>8, <1>9

\* The era that a fenced entry node walks into has a reign, which began before the
\* slot it has come to.
LEMMA WalksIntoReign ==
  ASSUME NoFused, TInv, Whole, NEW V, Agreed(V), NEW R, Ruled(V, R), NEW r \in Node \ {Leader},
         NEW end \in 1 .. Len(hist), NEW through \in committed[r] .. end,
         through <= committed[Leader], NEW f \in FoldCommitted(r, end, through, TRUE),
         f.halt = "Window", EraOf(f.table) > ballot[r].era
  PROVE  ballot[r].era + 1 \in DOMAIN R /\ R[ballot[r].era + 1].floor <= f.slot
  <1>1. /\ Reigns(R) /\ Entries(R) /\ Apart /\ Due(V) /\ Placed(R, r)
    BY DEF Ruled
  <1>2. PointOf(f) \in V /\ f.slot \in committed[r] .. through /\ f.slot < through /\ System(f.slot + 1)
    BY <1>1, FollowerWalk
  <1>3. /\ Len(hist) \in Nat /\ committed[r] \in Nat /\ committed[r] >= INIT_SLOT
        /\ committed[Leader] \in Nat /\ ballot[r].era \in Nat /\ ballot[r].era \in DOMAIN R
    <2>1. PlaceSound(r)
      BY DEF TInv
    <2> QED
      BY <1>1, <2>1, TInvTypes, LeaderIn, ReignTypes DEF PlaceSound, INIT_SLOT, Placed
  <1>4. PICK n : n = f.slot + 1
    OBVIOUS
  <1>5. n \in INIT_SLOT + 1 .. Len(hist) /\ n \in Nat /\ f.slot \in Nat
    BY <1>2, <1>3, <1>4 DEF INIT_SLOT
  <1>6. hist[n].era = EraOf(f.table)
    <2>1. PointOf(f).slot = f.slot /\ PointOf(f).table = f.table
      BY DEF PointOf
    <2> QED
      BY <1>1, <1>2, <1>3, <1>4, <1>5, <2>1 DEF Due
  <1>7. Stamped(R, n)
    BY <1>1, <1>2, <1>4, <1>5 DEF Entries
  <1>8. DOMAIN R = 1 .. ballot[Leader].era /\ ballot[Leader].era \in Nat
    BY <1>1, <1>3, ReignTypes
  <1>9. hist[n].era \in DOMAIN R /\ ballot[r].era + 1 <= hist[n].era /\ ballot[r].era + 1 \in DOMAIN R
    <2>1. hist[n].era \in DOMAIN R
      BY <1>7 DEF Stamped
    <2>2. PICK m, x, top : m = hist[n].era /\ x = ballot[r].era /\ top = ballot[Leader].era
      OBVIOUS
    <2>3. x \in Nat /\ top \in Nat /\ m \in 1 .. top /\ m > x
      BY <1>3, <1>6, <1>8, <2>1, <2>2
    <2>4. x + 1 <= m /\ x + 1 \in 1 .. top
      BY <2>3
    <2> QED
      BY <1>8, <2>1, <2>2, <2>4
  <1>10. R[ballot[r].era + 1].floor < n
    BY <1>7, <1>9 DEF Stamped
  <1>11. R[ballot[r].era + 1].floor \in Nat
    BY <1>1, <1>3, <1>9, ReignTypes
  <1> QED
    BY <1>4, <1>5, <1>9, <1>10, <1>11

\* An entry node that takes a chunk stays fenced, in its era or the next.
LEMMA BootStateMoved ==
  ASSUME NoFused, TInv, Whole, NEW V, Agreed(V), NEW R, Ruled(V, R), NEW r \in Node \ {Leader},
         status[r] = "Joining", NEW m \in msgs, m.tag = "NewState", m.through > accepted[r],
         BootState(r, m)
  PROVE  Moved(R, r)
  <1> DEFINE cap == {AtMost(o.committed, m.committed) : o \in stalled[r]}
             take == IF cap = {} THEN m.committed ELSE Min(cap)
             reach == AtLeast(committed[r], AtMost(take, m.through))
             Goes2(f) == f.halt = "Window" /\ Current(f.table).config.era > ballot[r].era
             Goal(f, b, acc) ==
                \/ Doomed(r, b, f) /\ Fault(r)
                \/ /\ Publish(r, status[r], acc, b, f)
                   /\ Continue(r, m.more \/ Goes2(f) \/ (f.slot < m.through /\ acc > accepted[r]),
                               b, acc + 1)
                   /\ UNCHANGED <<hist, leaderVars, stalled>>
  <1>1. /\ MsgSound(m) /\ Kept /\ PlaceSound(r) /\ accepted[r] \in Nat /\ committed[r] \in Nat
        /\ committed[Leader] \in Nat /\ Len(hist) \in Nat
    BY TInvTypes, LeaderIn DEF TInv
  <1>2. /\ m.committed \in Nat /\ m.committed <= committed[Leader] /\ m.through \in 1 .. Len(hist)
        /\ m.through \in Nat
    BY <1>1 DEF MsgSound, Told
  <1>3. take \in Nat /\ take <= committed[Leader]
    <2>1. CASE cap = {}
      BY <1>2, <2>1
    <2>2. CASE cap # {}
      <3>1. PICK o \in stalled[r] : TRUE
        BY <2>2
      <3>2. stalled[r] = {o} /\ o \in msgs /\ o.tag = "StartView"
        BY <1>1, <3>1 DEF PlaceSound, Single, StartViews
      <3>3. o.committed \in Nat
        BY <3>2 DEF TInv, MsgSound, Told
      <3> DEFINE x == AtMost(o.committed, m.committed)
      <3>4. x \in Nat /\ x <= committed[Leader] /\ cap = {x}
        BY <1>1, <1>2, <3>2, <3>3 DEF AtMost
      <3> HIDE DEF x
      <3>5. Min({x}) = x
        BY <3>4 DEF Min
      <3> QED
        BY <3>4, <3>5
    <2> QED
      BY <2>1, <2>2
  <1> HIDE DEF take
  <1>4. reach \in committed[r] .. m.through /\ reach <= committed[Leader]
    BY <1>1, <1>2, <1>3 DEF AtLeast, AtMost, PlaceSound
  <1>5. PICK f \in FoldCommitted(r, m.through, reach, TRUE) :
           \E b \in IF Goes2(f) THEN {[era |-> ballot[r].era + 1, view |-> ballot[r].view + 1]}
                    ELSE {ballot[r]} :
              \E acc \in {AtLeast(accepted[r], f.slot)} : Goal(f, b, acc)
    BY DEF BootState, take
  <1>6. PICK b, acc :
           /\ b \in IF Goes2(f) THEN {[era |-> ballot[r].era + 1, view |-> ballot[r].view + 1]}
                    ELSE {ballot[r]}
           /\ acc = AtLeast(accepted[r], f.slot) /\ Goal(f, b, acc)
    BY <1>5
  <1>7. f \in FoldCommitted(r, m.through, reach, TRUE)
    OBVIOUS
  <1>8. Goes(r)
    BY BootStateGoes
  <1> HIDE DEF reach
  <1>9. CASE Fault(r)
    BY <1>9, FaultMoved
  <1>10. CASE /\ Publish(r, status[r], acc, b, f)
              /\ Continue(r, m.more \/ Goes2(f) \/ (f.slot < m.through /\ acc > accepted[r]),
                          b, acc + 1)
              /\ UNCHANGED <<hist, leaderVars, stalled>>
    <2>1. PICK end \in 1 .. Len(hist) : end = m.through
      BY <1>2
    <2>2. /\ reach \in committed[r] .. end /\ reach <= committed[Leader]
          /\ f \in FoldCommitted(r, end, reach, TRUE)
      BY <1>4, <1>7, <2>1
    <2>3. f.slot \in committed[r] .. reach
      BY <2>2, FoldsAmong
    <2>4. f.slot \in Nat /\ acc \in Nat /\ accepted[r] <= acc /\ f.slot <= acc
      BY <1>1, <1>2, <1>4, <1>6, <2>3 DEF AtLeast
    <2>5. oks' = oks /\ \A x \in msgs' \ msgs : x.tag = "GetState"
      BY <1>10 DEF leaderVars, Continue, Fetch, Send
    <2>6. /\ ballot[r].era \in DOMAIN R /\ accepted[r] >= R[ballot[r].era].floor
          /\ R[ballot[r].era].floor \in Nat /\ ballot[r].era \in Nat
          /\ ballot[r] = [era |-> ballot[r].era, view |-> ballot[r].era - 1]
      <3>1. Placed(R, r) /\ Reigns(R)
        BY DEF Ruled
      <3>2. /\ ballot[r].era \in DOMAIN R /\ accepted[r] >= R[ballot[r].era].floor
            /\ ballot[r] = [era |-> ballot[r].era, view |-> ballot[r].era - 1]
        BY <3>1 DEF Placed
      <3> QED
        BY <1>1, <3>1, <3>2, ReignTypes
    <2>7. /\ b.era \in DOMAIN R /\ b.era >= ballot[r].era /\ R[b.era].floor <= acc
          /\ b = [era |-> b.era, view |-> b.era - 1]
      <3>1. CASE Goes2(f)
        <4>1. ballot[r].era + 1 \in DOMAIN R /\ R[ballot[r].era + 1].floor <= f.slot
          BY <2>2, <3>1, WalksIntoReign DEF EraOf
        <4>2. R[ballot[r].era + 1].floor \in Nat
          BY <1>1, <4>1, ReignTypes DEF Ruled
        <4>3. ballot[r].view = ballot[r].era - 1
          BY <2>6
        <4>4. b.era = ballot[r].era + 1 /\ b = [era |-> ballot[r].era + 1, view |-> ballot[r].view + 1]
          BY <1>6, <3>1
        <4>5. b = [era |-> b.era, view |-> b.era - 1]
          BY <2>6, <4>3, <4>4
        <4> QED
          BY <2>4, <2>6, <4>1, <4>2, <4>4, <4>5
      <3>2. CASE ~Goes2(f)
        <4>1. b = ballot[r]
          BY <1>6, <3>2
        <4> QED
          BY <1>1, <2>4, <2>6, <4>1
      <3> QED
        BY <3>1, <3>2
    <2> QED
      BY <1>8, <1>10, <2>4, <2>5, <2>7, PublishMoved
  <1> QED
    BY <1>6, <1>9, <1>10

\* Whoever takes a chunk moves among the reigns.
LEMMA NewStateMoved ==
  ASSUME NoFused, TInv, Whole, NEW V, Agreed(V), NEW R, Ruled(V, R), NEW r \in Node \ {Leader},
         ReceiveNewState(r)
  PROVE  Moved(R, r)
  <1>1. PICK m \in msgs :
          /\ Takes(r, m, "NewState")
          /\ \/ UNCHANGED <<hist, progressVars, leaderVars, stalled, msgs>>
             \/ /\ m.through > accepted[r]
                /\ \/ status[r] = "Joining" /\ BootState(r, m)
                   \/ FollowerState(r, m)
    BY DEF ReceiveNewState
  <1>2. m.tag = "NewState" /\ Goes(r)
    BY <1>1, NewStateGoes DEF Takes
  <1>3. CASE UNCHANGED <<hist, progressVars, leaderVars, stalled, msgs>>
    <2>1. UNCHANGED <<accepted, ballot, retained, status, table, oks>> /\ msgs' = msgs
      BY <1>3 DEF progressVars, leaderVars
    <2> QED
      BY <1>2, <2>1, QuietMoved
  <1> QED
    BY <1>1, <1>2, <1>3, BootStateMoved, FollowerStateMoved

\* A replica that adopts a StartView enters a reign that no rider began.
LEMMA StartViewMoved ==
  ASSUME NoFused, TInv, Whole, NEW V, Agreed(V), NEW R, Ruled(V, R), NEW r \in Node \ {Leader},
         NEW m \in msgs, m.tag = "StartView", StartView(r, m)
  PROVE  Moved(R, r)
  <1> DEFINE end == AtLeast(accepted[r], m.accepted)
             Retained == /\ \/ Fetch(r, ballot[r], committed[r] + 1)
                            \/ Fetch(r, m.view, accepted[r] + 1)
                            \/ UNCHANGED <<transfer, msgs>>
                         /\ UNCHANGED <<hist, progressVars, leaderVars>>
             Adopts(f) == /\ Adoptable(r, m)
                          /\ m.committed >= committed[r]
                          /\ Publish(r, "Normal", m.accepted, m.view, f)
                          /\ UNCHANGED <<hist, leaderVars, transfer, msgs>>
  <1>1. /\ MsgSound(m) /\ Kept /\ PlaceSound(r) /\ accepted[r] \in Nat /\ committed[r] \in Nat
        /\ committed[Leader] \in Nat /\ Len(hist) \in Nat /\ Said(V, R, m)
    BY TInvTypes, LeaderIn DEF TInv, Ruled
  <1>2. /\ m.committed \in Nat /\ m.committed <= committed[Leader] /\ m.accepted \in Nat
        /\ m.committed <= m.accepted /\ m.accepted \in 1 .. Len(hist)
    BY <1>1 DEF MsgSound, Told, INIT_SLOT
  <1>3. end \in 1 .. Len(hist) /\ m.accepted <= end
    BY <1>1, <1>2 DEF AtLeast, PlaceSound, INIT_SLOT
  <1>4. PICK f \in FoldCommitted(r, end, m.committed, FALSE) :
             Retained \/ Fault(r) \/ Adopts(f)
    BY DEF StartView
  <1>5. f \in FoldCommitted(r, end, m.committed, FALSE)
    OBVIOUS
  <1>6. Goes(r)
    BY StartViewGoes
  <1> HIDE DEF end
  <1>7. CASE Retained
    <2>1. /\ UNCHANGED <<accepted, ballot, retained, status, table, oks>>
          /\ \A x \in msgs' \ msgs : x.tag = "GetState"
      BY <1>7 DEF progressVars, leaderVars, Fetch, Send
    <2> QED
      BY <1>6, <2>1, QuietMoved
  <1>8. CASE Fault(r)
    BY <1>8, FaultMoved
  <1>9. CASE Adopts(f)
    <2>1. /\ oks' = oks /\ msgs' = msgs /\ Adoptable(r, m) /\ m.committed >= committed[r]
          /\ Publish(r, "Normal", m.accepted, m.view, f)
      BY <1>9 DEF leaderVars
    <2>2. /\ Reigned(R, m.view) /\ m.view.era \in DOMAIN R
          /\ R[m.view.era].by # "rider" /\ R[m.view.era].floor <= m.accepted
          /\ EraAt(V, m.committed, m.view.era)
      BY <1>1 DEF Said, Reigned
    <2>3. /\ Placed(R, r) /\ Reigns(R)
          /\ \A e \in DOMAIN R : e \in Nat /\ R[e].view \in Nat /\ R[e].view >= e - 1
          /\ ballot[r].era \in DOMAIN R /\ retained[r].era \in DOMAIN R
          /\ retained[r].era <= ballot[r].era
      <3>1. Placed(R, r) /\ Reigns(R)
        BY DEF Ruled
      <3>2. ballot[r].era \in DOMAIN R
        BY <3>1 DEF Placed
      <3> QED
        BY <1>1, <3>1, <3>2, ReignTypes
    <2>4. m.view.era >= ballot[r].era
      BY <2>1, <2>2, <2>3 DEF Adoptable, Above
    <2>5. status[r] # "Joining" => retained[r].era < m.view.era
      <3>1. CASE status[r] = "ViewChange"
        <4>1. retained[r].era < ballot[r].era
          BY <2>3, <3>1 DEF Placed
        <4> QED
          BY <2>2, <2>3, <2>4, <4>1
      <3>2. CASE status[r] = "Normal"
        <4>1. Above(m.view, ballot[r]) /\ Reigned(R, ballot[r])
          BY <2>1, <2>3, <3>2 DEF Adoptable, Placed
        <4>2. m.view.view = R[m.view.era].view /\ ballot[r].view = R[ballot[r].era].view
          BY <2>2, <4>1 DEF Reigned
        <4>3. m.view.era # ballot[r].era
          BY <2>2, <2>3, <4>1, <4>2 DEF Above
        <4> QED
          BY <2>2, <2>3, <2>4, <4>3
      <3> QED
        BY <1>1, <3>1, <3>2 DEF PlaceSound
    <2>6. Reverts(R, r)
      <3>1. accepted'[r] = m.accepted
        BY <1>1, <2>1 DEF Publish, Kept
      <3> QED
        BY <2>2, <2>5, <3>1 DEF Reverts
    <2>7. EraOf(f.table) <= m.view.era /\ EraOf(f.table) \in Nat
      <3>1. PICK p \in V : p.slot = m.committed /\ EraOf(p.table) = m.view.era
        BY <2>2 DEF EraAt
      <3>2. m.committed \in committed[r] .. end
        BY <1>1, <1>2, <1>3, <2>1
      <3>3. PointOf(f) \in V /\ f.slot \in committed[r] .. m.committed
        BY <1>2, <1>3, <1>5, <3>2, FoldsAmong
      <3>4. PointOf(f).slot = f.slot /\ PointOf(f).table = f.table /\ f.slot <= m.committed
        BY <1>1, <1>2, <3>3 DEF PointOf
      <3>5. EraOf(f.table) <= EraOf(p.table)
        BY <3>1, <3>3, <3>4, LaterEra
      <3>6. SoundTable(Node, f.table)
        BY <3>3, <3>4 DEF Agreed, Chain
      <3> QED
        BY <3>1, <3>5, <3>6, TableType
    <2>8. \A e \in DOMAIN R : e <= EraOf(f.table) => m.view.era >= e
      BY <2>2, <2>3, <2>7
    <2> QED
      BY <1>2, <1>6, <2>1, <2>2, <2>4, <2>6, <2>8, PublishMoved
  <1> QED
    BY <1>4, <1>7, <1>8, <1>9

\* Every step of a follower moves it among the reigns.
LEMMA FollowingMoved ==
  ASSUME NoFused, TInv, Whole, NEW V, Agreed(V), NEW R, Ruled(V, R), NEW r \in Node \ {Leader},
         Following(r)
  PROVE  Moved(R, r)
  <1>1. CASE ReceiveStartView(r)
    <2>1. PICK m \in msgs : Takes(r, m, "StartView") /\ StartView(r, m)
      BY <1>1 DEF ReceiveStartView
    <2>2. m.tag = "StartView"
      BY <2>1 DEF Takes
    <2> QED
      BY <2>1, <2>2, StartViewMoved
  <1>2. CASE Resume(r)
    <2>1. PICK m \in stalled[r] : StartView(r, m)
      BY <1>2 DEF Resume
    <2>2. m \in msgs /\ m.tag = "StartView"
      BY <2>1 DEF TInv, PlaceSound, StartViews
    <2> QED
      BY <2>1, <2>2, StartViewMoved
  <1> QED
    BY <1>1, <1>2, PrepareMoved, FuseMoved, CommitMoved, NewStateMoved, PlannedViewChangeMoved
       DEF Following

-----------------------------------------------------------------------------
(* The orders of the leader.                                               *)

\* The leader orders the entry e, and sends it to members of its era.
Adds(V, e) ==
    /\ hist' = hist \o <<e>> /\ accepted' = [accepted EXCEPT ![Leader] = @ + 1]
    /\ UNCHANGED <<committed, ballot, retained, status, table, oks>>
    /\ msgs \subseteq msgs'
    /\ \A m \in msgs' \ msgs : /\ m.tag = "Prepare" /\ m.view = ballot[Leader]
                               /\ \A k \in m.to : MemberIn(V, ballot[Leader].era, k)

\* What it orders as a change of the system: one at a time, and with its rider or
\* with a plan.
OrdersChange(e) ==
    /\ e.op # Operation /\ e.era = ballot[Leader].era
    /\ EraOf(table[Leader]) = ballot[Leader].era
    /\ \A s \in committed[Leader] + 1 .. accepted[Leader] : ~System(s)
    /\ \/ Plain(e.op)
       \/ \E v \in Nat : v > ballot[Leader].view /\ Walks(e.op, ballot[Leader].view, v)
    /\ \/ planned' = planned
       \/ Plain(e.op) /\ \A p \in planned' : /\ "target" \in DOMAIN p /\ p.target.view \in Nat
                                             /\ p.target = [era |-> ballot[Leader].era + 1,
                                                            view |-> p.target.view]

\* The log with one entry more.
LEMMA Added ==
  ASSUME TInv, NEW V, NEW e, Adds(V, e), NEW N, N = Len(hist)
  PROVE  /\ N \in Nat /\ Len(hist') = N + 1 /\ hist'[N + 1] = e
         /\ N >= INIT_SLOT
         /\ \A s \in 1 .. N : hist'[s] = hist[s] /\ System(s)' = System(s)
         /\ System(N + 1)' = (e.op # Operation)
         /\ committed[Leader] \in Nat /\ committed[Leader] >= INIT_SLOT
         /\ committed[Leader] <= N /\ accepted[Leader] = N
         /\ \A k : Open(k) => Open(k)'
         /\ \A k : Open(k)' => Open(k) \/ (k = N + 1 /\ e.op # Operation)
         /\ accepted'[Leader] = N + 1 /\ DOMAIN accepted' = Node
         /\ \A n \in Node \ {Leader} : accepted'[n] = accepted[n]
  <1>1. PICK O : hist \in Seq(O)
    BY DEF TInv, HistSound
  <1>2. /\ N \in Nat /\ committed[Leader] \in Nat /\ committed[Leader] >= INIT_SLOT
        /\ committed[Leader] <= N /\ accepted[Leader] = N /\ N >= INIT_SLOT
        /\ Leader \in Node /\ Kept
    <2>1. PlaceSound(Leader) /\ accepted[Leader] = N
      BY LeaderIn DEF TInv
    <2> QED
      BY <2>1, TInvTypes, LeaderIn DEF PlaceSound, INIT_SLOT, TInv, HistSound
  <1>3. /\ Len(hist') = N + 1 /\ hist'[N + 1] = e
        /\ \A s \in 1 .. N : hist'[s] = hist[s]
    <2>1. Len(<<e>>) = 1 /\ <<e>>[1] = e /\ <<e>> \in Seq({e})
      OBVIOUS
    <2>2. hist' = hist \o <<e>>
      BY DEF Adds
    <2>3. hist \in Seq(O \cup {e}) /\ <<e>> \in Seq(O \cup {e})
      BY <1>1
    <2> QED
      BY <2>1, <2>2, <2>3, <1>2
  <1>4. /\ \A s \in 1 .. N : System(s)' = System(s)
        /\ System(N + 1)' = (e.op # Operation)
    BY <1>3 DEF System, Operation
  <1>5. committed'[Leader] = committed[Leader]
    BY DEF Adds
  <1>6. \A k : Open(k) => Open(k)'
    <2>1. ASSUME NEW k, Open(k) PROVE Open(k)'
      <3>1. k \in committed[Leader] + 1 .. N /\ System(k)
        BY <2>1 DEF Open
      <3>2. k \in 1 .. N /\ k \in committed[Leader] + 1 .. N + 1
        BY <1>2, <3>1
      <3> QED
        BY <1>3, <1>4, <1>5, <3>1, <3>2 DEF Open
    <2> QED
      BY <2>1
  <1>7. \A k : Open(k)' => Open(k) \/ (k = N + 1 /\ e.op # Operation)
    <2>1. ASSUME NEW k, Open(k)', k # N + 1 PROVE Open(k)
      <3>1. k \in committed[Leader] + 1 .. N + 1 /\ System(k)'
        BY <1>3, <1>5, <2>1 DEF Open
      <3>2. k \in 1 .. N /\ k \in committed[Leader] + 1 .. N
        BY <1>2, <2>1, <3>1
      <3> QED
        BY <1>4, <3>1, <3>2 DEF Open
    <2>2. ASSUME NEW k, Open(k)', k = N + 1 PROVE e.op # Operation
      <3>1. System(k)'
        BY <2>2 DEF Open
      <3> QED
        BY <1>3, <2>2, <3>1 DEF System
    <2> QED
      BY <2>1, <2>2
  <1>8. /\ accepted'[Leader] = N + 1 /\ DOMAIN accepted' = Node
        /\ \A n \in Node \ {Leader} : accepted'[n] = accepted[n]
    BY <1>2 DEF Adds, Kept
  <1> QED
    BY <1>2, <1>3, <1>4, <1>6, <1>7, <1>8

\* What is said of the entries holds with one more.
LEMMA AddsEntries ==
  ASSUME TInv, NEW V, Agreed(V), NEW R, Ruled(V, R), NEW e, Adds(V, e), NEW N, N = Len(hist),
         (e.op = Operation /\ planned' = planned) \/ OrdersChange(e)
  PROVE  /\ Reigns(R)' /\ Entries(R)' /\ Apart' /\ Due(V)' /\ Pending'
         /\ \A p \in planned' : Overlapping(p)'
  <1> DEFINE b == ballot[Leader]
             T == EraOf(table[Leader])
  <1>1. /\ N \in Nat /\ Len(hist') = N + 1 /\ hist'[N + 1] = e /\ N >= INIT_SLOT
        /\ \A s \in 1 .. N : hist'[s] = hist[s] /\ System(s)' = System(s)
        /\ System(N + 1)' = (e.op # Operation)
        /\ committed[Leader] \in Nat /\ committed[Leader] >= INIT_SLOT
        /\ committed[Leader] <= N /\ accepted[Leader] = N
        /\ \A k : Open(k) => Open(k)'
        /\ \A k : Open(k)' => Open(k) \/ (k = N + 1 /\ e.op # Operation)
    BY Added
  <1>2. /\ ballot' = ballot /\ status' = status /\ committed' = committed /\ table' = table
    BY DEF Adds
  <1>3. /\ Reigns(R) /\ Entries(R) /\ Apart /\ Due(V) /\ Pending
        /\ \A p \in planned : Overlapping(p)
    BY DEF Ruled
  <1>4. /\ DOMAIN R = 1 .. b.era /\ b.era \in Nat /\ b.era \in DOMAIN R
        /\ \A x \in DOMAIN R : x \in Nat /\ R[x].floor \in Nat /\ R[x].floor <= N
        /\ T \in Nat
    BY <1>1, <1>3, ReignTypes, TInvTypes, LeaderIn
  <1>5. \A s \in INIT_SLOT + 1 .. N : s \in 1 .. N /\ s \in Nat
    BY <1>1 DEF INIT_SLOT
  <1>6. \A s \in INIT_SLOT + 1 .. N + 1 : s \in INIT_SLOT + 1 .. N \/ s = N + 1
    BY <1>1 DEF INIT_SLOT
  <1>7. e.op # Operation => OrdersChange(e)
    OBVIOUS
  <1>8. e.op # Operation => \A k : ~Open(k)
    BY <1>1, <1>7 DEF OrdersChange, Open
  <1> HIDE DEF b, T
  <1>9. Reigns(R)'
    <2>1. ASSUME NEW x \in DOMAIN R, Nominee(R, x) PROVE Nominee(R, x)'
      <3>1. PICK k : k = R[x].floor
        OBVIOUS
      <3>2. k \in INIT_SLOT + 1 .. committed[Leader] /\ k \in 1 .. N
        BY <1>1, <2>1, <3>1 DEF Nominee, INIT_SLOT
      <3>3. hist'[k] = hist[k] /\ System(k)' = System(k)
        BY <1>1, <3>2
      <3> QED
        BY <1>2, <2>1, <3>1, <3>2, <3>3 DEF Nominee
    <2>2. \A x \in DOMAIN R : R[x].floor \in INIT_SLOT .. Len(hist')
      BY <1>1, <1>3, <1>4 DEF Reigns, INIT_SLOT
    <2> QED
      BY <1>2, <1>3, <2>1, <2>2 DEF Reigns
  <1>10. ASSUME NEW k \in INIT_SLOT + 1 .. N, System(k) PROVE Stamped(R, k)'
    <2>1. Stamped(R, k) /\ hist'[k] = hist[k]
      BY <1>1, <1>3, <1>5, <1>10 DEF Entries
    <2>2. \A v : Rides(R, k, v) => Rides(R, k, v)'
      BY <1>2, <2>1 DEF Rides
    <2> QED
      BY <2>1, <2>2 DEF Stamped
  <1>11. ASSUME e.op # Operation PROVE Stamped(R, N + 1)'
    <2>1. OrdersChange(e) /\ e.era = b.era /\ b = [era |-> b.era, view |-> R[b.era].view] /\ b.view = R[b.era].view
      BY <1>3, <1>7, <1>11 DEF OrdersChange, Reigns, Reigned, b
    <2>2. hist'[N + 1].era = b.era /\ hist'[N + 1].op = e.op
      BY <1>1, <2>1
    <2>3. \A x \in DOMAIN R : R[x].floor < N + 1
      BY <1>1, <1>4
    <2>4. ASSUME NEW v \in Nat, v > b.view, Walks(e.op, b.view, v) PROVE Rides(R, N + 1, v)'
      <3>1. ~(N + 1 <= committed'[Leader])
        BY <1>1, <1>2
      <3>2. hist'[N + 1].era = b.era /\ v > R[b.era].view /\ Walks(e.op, R[b.era].view, v)
        BY <2>1, <2>2, <2>4
      <3> QED
        BY <2>2, <2>4, <3>1, <3>2 DEF Rides
    <2>5. Plain(e.op) \/ \E v : Rides(R, N + 1, v)'
      BY <2>1, <2>4 DEF OrdersChange, b
    <2> QED
      BY <1>4, <2>2, <2>3, <2>5 DEF Stamped
  <1>12. Entries(R)'
    <2>1. ASSUME NEW k \in INIT_SLOT + 1 .. Len(hist'), System(k)' PROVE Stamped(R, k)'
      <3>1. CASE k \in INIT_SLOT + 1 .. N
        BY <1>1, <1>5, <1>10, <2>1, <3>1
      <3>2. CASE k = N + 1
        BY <1>1, <1>11, <2>1, <3>2
      <3> QED
        BY <1>1, <1>6, <3>1, <3>2
    <2> QED
      BY <2>1 DEF Entries
  <1>13. Apart'
    <2>1. ASSUME NEW j \in INIT_SLOT + 1 .. N + 1, NEW k \in INIT_SLOT + 1 .. N + 1,
                 j < k, System(j)', System(k)'
          PROVE  hist'[j].era < hist'[k].era
      <3>1. j \in INIT_SLOT + 1 .. N /\ j \in 1 .. N /\ j \in Nat
        BY <1>1, <2>1 DEF INIT_SLOT
      <3>2. CASE k \in INIT_SLOT + 1 .. N
        BY <1>1, <1>3, <1>5, <2>1, <3>1, <3>2 DEF Apart
      <3>3. CASE k = N + 1
        <4>1. e.op # Operation /\ OrdersChange(e)
          BY <1>1, <1>7, <2>1, <3>3
        <4>2. System(j) /\ hist'[j] = hist[j]
          BY <1>1, <2>1, <3>1
        <4>3. j <= committed[Leader]
          <5>1. ~(j \in committed[Leader] + 1 .. N)
            BY <1>1, <4>1, <4>2 DEF OrdersChange
          <5> QED
            BY <1>1, <3>1, <5>1
        <4>4. hist[j].era < T
          <5>1. PointAt(Leader).slot = committed[Leader] /\ PointAt(Leader).table = table[Leader]
                /\ Past(PointAt(Leader))
            BY DEF PointAt, Agreed
          <5>2. j \in INIT_SLOT + 1 .. committed[Leader]
            BY <1>1, <3>1, <4>3 DEF INIT_SLOT
          <5> QED
            BY <4>2, <5>1, <5>2 DEF Past, T
        <4>5. hist'[k].era = T
          BY <1>1, <3>3, <4>1 DEF OrdersChange, T
        <4> QED
          BY <4>2, <4>4, <4>5
      <3> QED
        BY <1>6, <3>2, <3>3
    <2> QED
      BY <1>1, <2>1 DEF Apart
  <1>14. Due(V)'
    <2>1. ASSUME NEW p \in V, p.slot + 1 <= N + 1, System(p.slot + 1)'
          PROVE  hist'[p.slot + 1].era = EraOf(p.table)
      <3>1. p.slot \in INIT_SLOT .. committed[Leader] /\ p.slot \in Nat
        <4>1. PointAt(Leader).slot = committed[Leader] /\ Chain(V, PointAt(Leader))
          BY DEF PointAt, Agreed
        <4> QED
          BY <1>1, <4>1 DEF Chain, INIT_SLOT
      <3>2. CASE p.slot + 1 <= N
        <4>1. p.slot + 1 \in 1 .. N
          BY <3>1, <3>2
        <4> QED
          BY <1>1, <1>3, <2>1, <3>2, <4>1 DEF Due
      <3>3. CASE ~(p.slot + 1 <= N)
        <4>1. p.slot = N /\ committed[Leader] = N
          BY <1>1, <2>1, <3>1, <3>3
        <4>2. p = PointAt(Leader)
          <5>1. PointAt(Leader).slot = committed[Leader] /\ Chain(V, PointAt(Leader))
            BY DEF PointAt, Agreed
          <5> QED
            BY <4>1, <5>1 DEF Chain
        <4>3. EraOf(p.table) = T
          BY <4>2 DEF PointAt, T
        <4>4. OrdersChange(e)
          BY <1>1, <1>7, <2>1, <4>1
        <4> QED
          BY <1>1, <4>1, <4>3, <4>4 DEF OrdersChange, T
      <3> QED
        BY <3>2, <3>3
    <2> QED
      BY <1>1, <2>1 DEF Due
  <1>15. Pending'
    <2>1. ASSUME NEW k, Open(k)'
          PROVE  /\ hist'[k].era = T /\ b.era = T
                 /\ \A j : Open(j)' => j = k
      <3>1. CASE e.op = Operation
        <4>1. Open(k) /\ \A j : Open(j)' => Open(j)
          BY <1>1, <2>1, <3>1
        <4>2. k \in 1 .. N
          BY <1>1, <4>1 DEF Open
        <4> QED
          BY <1>1, <1>3, <4>1, <4>2 DEF Pending, T, b
      <3>2. CASE e.op # Operation
        BY <1>1, <1>7, <1>8, <2>1, <3>2 DEF OrdersChange, T, b
      <3> QED
        BY <3>1, <3>2
    <2> QED
      BY <1>2, <2>1 DEF Pending, T, b
  <1>16. ASSUME NEW p \in planned' PROVE Overlapping(p)'
    <2>1. CASE e.op = Operation
      <3>1. Overlapping(p)
        BY <1>3, <2>1 DEF OrdersChange
      <3>2. \A k : Open(k) /\ Plain(hist[k].op) => Open(k)' /\ Plain(hist'[k].op)
        <4>1. ASSUME NEW k, Open(k) PROVE hist'[k] = hist[k]
          <5>1. k \in 1 .. N
            BY <1>1, <4>1 DEF Open
          <5> QED
            BY <1>1, <5>1
        <4> QED
          BY <1>1, <4>1
      <3> QED
        BY <1>2, <3>1, <3>2 DEF Overlapping
    <2>2. CASE e.op # Operation /\ p \in planned
      <3>1. Overlapping(p) /\ OrdersChange(e) /\ \A k : ~Open(k)
        BY <1>3, <1>7, <1>8, <2>2
      <3>2. T = b.era + 1 /\ T = b.era
        BY <3>1 DEF Overlapping, OrdersChange, T, b
      <3> QED
        BY <1>4, <3>2
    <2>3. CASE e.op # Operation /\ p \notin planned
      <3>1. OrdersChange(e) /\ Plain(e.op) /\ "target" \in DOMAIN p /\ p.target.view \in Nat /\ T = b.era
            /\ p.target = [era |-> b.era + 1, view |-> p.target.view]
        BY <1>7, <1>16, <2>3 DEF OrdersChange, T, b
      <3>2. Open(N + 1)' /\ Plain(hist'[N + 1].op)
        <4>1. N + 1 \in committed'[Leader] + 1 .. Len(hist')
          BY <1>1, <1>2
        <4> QED
          BY <1>1, <2>3, <3>1, <4>1 DEF Open
      <3> QED
        BY <1>2, <3>1, <3>2 DEF Overlapping, T, b
    <2> QED
      BY <2>1, <2>2, <2>3
  <1> QED
    BY <1>9, <1>12, <1>13, <1>14, <1>15, <1>16

\* What the leader orders one at a time keeps the reigns.
LEMMA AddsRuled ==
  ASSUME TInv, NEW V, Agreed(V), NEW R, Ruled(V, R), NEW e, Adds(V, e),
         (e.op = Operation /\ planned' = planned) \/ OrdersChange(e)
  PROVE  Ruled(V, R)'
  <1>1. PICK N : N = Len(hist)
    OBVIOUS
  <1>2. /\ Reigns(R)' /\ Entries(R)' /\ Apart' /\ Due(V)' /\ Pending'
        /\ \A p \in planned' : Overlapping(p)'
    BY <1>1, AddsEntries
  <1>3. /\ N \in Nat /\ accepted[Leader] = N /\ accepted'[Leader] = N + 1
        /\ \A n \in Node \ {Leader} : accepted'[n] = accepted[n]
        /\ \A s \in 1 .. N : hist'[s] = hist[s] /\ System(s)' = System(s)
    BY <1>1, Added
  <1>4. /\ ballot' = ballot /\ retained' = retained /\ status' = status
        /\ committed' = committed /\ table' = table /\ oks' = oks
    BY DEF Adds
  <1>5. ASSUME NEW n \in Node PROVE Placed(R, n)'
    <2>1. Placed(R, n) /\ Reigns(R) /\ Len(hist) \in Nat /\ accepted[n] \in Nat
      BY TInvTypes DEF Ruled
    <2>2. accepted'[n] >= accepted[n]
      BY <1>3, <2>1
    <2>3. accepted'[n] \in Nat
      BY <1>3, <2>1
    <2>4. R[retained[n].era].floor \in Nat
      BY <2>1, ReignTypes
    <2>5. accepted'[n] >= R[retained[n].era].floor
      <3>1. accepted[n] >= R[retained[n].era].floor
        BY <2>1 DEF Placed
      <3> QED
        BY <2>1, <2>2, <2>3, <2>4, <3>1
    <2> QED
      BY <1>4, <2>1, <2>5 DEF Placed
  <1>6. ASSUME NEW m \in msgs' PROVE Said(V, R, m)'
    <2>1. CASE m \in msgs
      <3>1. Said(V, R, m)
        BY <2>1 DEF Ruled
      <3>2. Voted(m) => Voted(m)'
        BY <1>3, <1>4 DEF Voted
      <3> QED
        BY <3>1, <3>2 DEF Said
    <2>2. CASE m \notin msgs
      <3>1. /\ m.tag = "Prepare" /\ m.view = ballot[Leader]
            /\ \A k \in m.to : MemberIn(V, ballot[Leader].era, k)
        BY <1>6, <2>2 DEF Adds
      <3>2. Reigned(R, m.view)
        BY <3>1 DEF Ruled, Reigns
      <3> QED
        BY <3>1, <3>2 DEF Said
    <2> QED
      BY <2>1, <2>2
  <1>7. Votes(R, oks)'
    <2>1. ASSUME NEW v \in oks PROVE Vote(R, v[1], v[2])'
      <3>1. Vote(R, v[1], v[2])
        BY <2>1 DEF Ruled, Votes
      <3>2. PICK s, n : s = v[1] /\ n = v[2]
        OBVIOUS
      <3>3. n \in Node \ {Leader} /\ s \in INIT_SLOT + 1 .. accepted[n]
        BY <3>1, <3>2 DEF Vote
      <3>4. accepted[n] \in INIT_SLOT .. N
        BY <1>1, <3>3 DEF TInv, PlaceSound
      <3>5. s \in 1 .. N
        BY <1>3, <3>3, <3>4 DEF INIT_SLOT
      <3>6. hist'[s] = hist[s] /\ System(s)' = System(s)
        BY <1>3, <3>5
      <3>7. Vote(R, s, n)'
        BY <1>3, <1>4, <3>1, <3>2, <3>3, <3>6 DEF Vote
      <3> QED
        BY <3>2, <3>7
    <2> QED
      BY <1>4, <2>1 DEF Votes
  <1>8. DOMAIN retained' = Node /\ Rooted(V)' /\ Crosses(V)' /\ Covers(V, oks)'
    <2>1. \A p : Fenced(p)' = Fenced(p)
      BY <1>4 DEF Fenced
    <2>2. Config(Leader)' = Config(Leader)
      BY <1>4 DEF Config, Leader
    <2>3. Held(oks)' = Held(oks)
      BY <1>4 DEF Held
    <2> QED
      BY <1>4, <2>1, <2>2, <2>3 DEF Ruled, Rooted, Crosses, Covers, CrossedBy, Crossing
  <1> QED
    BY <1>2, <1>5, <1>6, <1>7, <1>8 DEF Ruled

-----------------------------------------------------------------------------
(* The riders of a batch.                                                  *)

\* run_nominations at one operation.
RiderStep(S, op, e) ==
    {IF Nominates(op) /\ b.view = op.from THEN [era |-> e, view |-> op.from + op.offset]
     ELSE b : b \in S}

\* One sequence flattens to itself.
LEMMA FlattenOne == ASSUME NEW s PROVE FlattenSeq(<<s>>) = s
  <1> DEFINE Solves(g) == g = [i \in 1 .. 1 |-> IF i = 1 THEN <<s>>[i] ELSE g[i - 1] \o <<s>>[i]]
             h == [i \in 1 .. 1 |-> s]
             f == CHOOSE g : Solves(g)
  <1>1. Len(<<s>>) = 1 /\ <<s>>[1] = s
    OBVIOUS
  <1>2. Solves(h)
    <2>1. \A i \in 1 .. 1 : (IF i = 1 THEN <<s>>[i] ELSE h[i - 1] \o <<s>>[i]) = s
      OBVIOUS
    <2> QED
      BY <2>1
  <1>3. Solves(f)
    BY <1>2
  <1>4. f[1] = s
    BY <1>1, <1>3
  <1>5. FlattenSeq(<<s>>) = f[1]
    BY <1>1 DEF FlattenSeq
  <1> QED
    BY <1>4, <1>5

\* Of a batch that has a rider at its end at most, the end alone moves a ballot.
LEMMA NominatedLast ==
  ASSUME NEW O, NEW ops \in Seq(O), \A i \in 1 .. Len(ops) - 1 : ~Nominates(ops[i]),
         NEW S, NEW e
  PROVE  /\ ops = <<>> => Nominated(S, <<Batch(ops)>>, e) = S
         /\ ops # <<>> => Nominated(S, <<Batch(ops)>>, e) = RiderStep(S, ops[Len(ops)], e)
  <1> DEFINE n == Len(ops)
             Step(x, v) == {IF Nominates(ops[x]) /\ b.view = ops[x].from
                            THEN [era |-> e, view |-> ops[x].from + ops[x].offset]
                            ELSE b : b \in v}
             Solves(g) == g = [s \in SUBSET (1 .. n) |->
                                 IF s = {} THEN S ELSE Step(Max(s), g[s \ {Max(s)}])]
             f == CHOOSE g : Solves(g)
             V == SUBSET (S \cup {[era |-> e, view |-> ops[i].from + ops[i].offset] : i \in 1 .. n})
             st == [p \in (1 .. n) \X V |-> Step(p[1], p[2])]
             W == {S}
             ss == [p \in (1 .. n - 1) \X W |-> Step(p[1], p[2])]
  <1>1. n \in Nat /\ DOMAIN ops = 1 .. n /\ S \in V
    OBVIOUS
  <1>2. \A x \in 1 .. n, v \in V : Step(x, v) \in V
    OBVIOUS
  <1>3. st \in [(1 .. n) \X V -> V] /\ \A x \in 1 .. n, v \in V : st[<<x, v>>] = Step(x, v)
    <2> HIDE DEF Step, V, n
    <2> QED
      BY <1>2
  <1>4. ASSUME NEW s \in SUBSET (1 .. n), s # {} PROVE Max(s) \in 1 .. n
    BY <1>1, <1>4, MaxIn
  <1>5. Nominated(S, <<Batch(ops)>>, e) = f[1 .. n]
    <2> DEFINE x == Batch(ops)
               arg == [i \in DOMAIN <<x>> |-> IF <<x>>[i].op = "Batch" THEN <<x>>[i].ops
                                              ELSE <<<<x>>[i]>>]
    <2>1. x.op = "Batch" /\ x.ops = ops
      BY DEF Batch
    <2> HIDE DEF x
    <2>2. arg = <<ops>>
      BY <2>1
    <2>3. FlattenSeq(arg) = ops
      BY <2>2, FlattenOne
    <2> HIDE DEF arg
    <2>4. Nominated(S, <<x>>, e) =
            FoldLeft(LAMBDA T, op : {IF Nominates(op) /\ b.view = op.from
                                     THEN [era |-> e, view |-> op.from + op.offset]
                                     ELSE b : b \in T}, S, ops)
      BY <2>3 DEF Nominated, arg
    <2> QED
      BY <1>1, <2>4 DEF FoldLeft, MapThenFoldSet, x
  <1>6. \A x \in 1 .. n - 1 : Step(x, S) = S
    OBVIOUS
  <1>7. Step(n, S) = RiderStep(S, ops[n], e)
    BY DEF RiderStep
  <1> HIDE DEF st, Step, n, V
  <1>8. \E g : Solves(g)
    <2>1. PICK h : FoldOf(h, n, S, st) /\ \A s \in SUBSET (1 .. n) : h[s] \in V
      BY <1>1, <1>3, FoldSolved
    <2>2. ASSUME NEW s \in SUBSET (1 .. n)
          PROVE  h[s] = IF s = {} THEN S ELSE Step(Max(s), h[s \ {Max(s)}])
      <3>1. h[s] = IF s = {} THEN S ELSE st[<<Max(s), h[s \ {Max(s)}]>>]
        BY <2>1, Zenon DEF FoldOf
      <3>2. s # {} => st[<<Max(s), h[s \ {Max(s)}]>>] = Step(Max(s), h[s \ {Max(s)}])
        BY <1>3, <1>4, <2>1
      <3> QED
        BY <3>1, <3>2
    <2>3. h = [s \in SUBSET (1 .. n) |-> h[s]]
      BY <2>1, Zenon DEF FoldOf
    <2>4. Solves(h)
      BY <2>2, <2>3, Zenon
    <2> QED
      BY <2>4
  <1>9. Solves(f)
    BY <1>8
  <1> HIDE DEF f
  <1>10. \A s \in SUBSET (1 .. n) : f[s] = IF s = {} THEN S ELSE Step(Max(s), f[s \ {Max(s)}])
    BY <1>9, Zenon
  <1> HIDE DEF Solves
  <1>11. f[{}] = S
    BY <1>10
  <1>12. ASSUME n # 0 PROVE f[1 .. n] = Step(n, S)
    <2>1. n - 1 \in Nat /\ Max(1 .. n) = n /\ (1 .. n) \ {n} = 1 .. n - 1 /\ 1 .. n # {}
      <3>1. n \in 1 .. n
        BY <1>1, <1>12
      <3> QED
        BY <1>1, <1>12, <3>1, LastPosition
    <2>2. f[1 .. n] = Step(n, f[1 .. n - 1])
      BY <1>10, <2>1
    <2>3. ss \in [(1 .. n - 1) \X W -> W] /\ \A x \in 1 .. n - 1, v \in W : ss[<<x, v>>] = Step(x, v)
      BY <1>6
    <2>4. ASSUME NEW s \in SUBSET (1 .. n - 1), s # {}, f[s \ {Max(s)}] \in W
          PROVE  f[s] = ss[<<Max(s), f[s \ {Max(s)}]>>]
      <3>1. s \in SUBSET (1 .. n) /\ Max(s) \in 1 .. n - 1
        BY <1>1, <2>1, <2>4, MaxIn
      <3> QED
        BY <1>10, <2>3, <2>4, <3>1
    <2> HIDE DEF ss, W
    <2>5. f[{}] = S /\ S \in W
      BY <1>11 DEF W
    <2>6. FoldsBy(f, n - 1, W, S, ss)
      BY <2>4, <2>5 DEF FoldsBy
    <2>7. PICK m : m = n - 1
      OBVIOUS
    <2>8. PICK g : Walk(g, m, W, S, f[1 .. m], ss)
      BY <2>1, <2>3, <2>5, <2>6, <2>7, FoldWalks
    <2>9. f[1 .. m] \in W
      <3>1. m \in 0 .. m
        BY <2>1, <2>7
      <3> QED
        BY <2>8, <3>1 DEF Walk
    <2> QED
      BY <2>2, <2>7, <2>9 DEF W
  <1>13. ops = <<>> <=> n = 0
    BY DEF n
  <1>14. n = 0 => 1 .. n = {}
    OBVIOUS
  <1> QED
    BY <1>5, <1>7, <1>11, <1>12, <1>13, <1>14 DEF n

\* The first of some numbers.
LEMMA MinIn ==
  ASSUME NEW S \in SUBSET Nat, IsFiniteSet(S), NEW s \in SUBSET S, s # {}
  PROVE  Min(s) \in s
  <1> DEFINE T == {t \in SUBSET S : t = {} \/ \E m \in t : \A y \in t : m =< y}
  <1>1. ASSUME NEW t \in SUBSET S, \A x \in t : t \ {x} \in T
        PROVE  t \in T
    <2>1. CASE t = {}
      BY <2>1
    <2>2. CASE t # {}
      <3>1. PICK x \in t : TRUE
        BY <2>2
      <3>2. t \ {x} \in T
        BY <1>1, <3>1
      <3>3. CASE t \ {x} = {}
        BY <3>1, <3>3
      <3>4. CASE t \ {x} # {}
        <4>1. PICK m \in t \ {x} : \A y \in t \ {x} : m =< y
          BY <3>2, <3>4
        <4>2. m \in Nat /\ x \in Nat /\ m \in t /\ \A y \in t : y \in Nat
          BY <1>1, <3>1, <4>1
        <4>3. CASE m =< x
          BY <4>1, <4>2, <4>3
        <4>4. CASE x =< m
          <5>1. \A y \in t : x =< y
            BY <4>1, <4>2, <4>4
          <5> QED
            BY <3>1, <5>1
        <4> QED
          BY <4>2, <4>3, <4>4
      <3> QED
        BY <3>3, <3>4
    <2> QED
      BY <2>1, <2>2
  <1> HIDE DEF T
  <1>2. \A t \in SUBSET S : t \in T
    BY <1>1, SubsetInduction
  <1>3. \E m \in s : \A y \in s : m =< y
    BY <1>2 DEF T
  <1> QED
    BY <1>3 DEF Min

\* A number and the remainder it is made of.
LEMMA Residue ==
  ASSUME NEW m \in Nat, m >= 1, NEW q \in Int, NEW i \in 0 .. m - 1, NEW v, v = m * q + i
  PROVE  v % m = i
  <1>1. v \in Int
    OBVIOUS
  <1> DEFINE d == v \div m
             r == v % m
  <1>2. d \in Int /\ r \in 0 .. m - 1 /\ v = m * d + r /\ v % m = r
    BY <1>1
  <1> HIDE DEF d, r
  <1>3. m * (q - d) = r - i
    BY <1>2
  <1>4. ASSUME q - d >= 1 PROVE FALSE
    <2>1. m * (q - d) >= m
      BY <1>2, <1>4
    <2> QED
      BY <1>2, <1>3, <2>1
  <1>5. ASSUME q - d <= -1 PROVE FALSE
    <2>1. m * (q - d) <= -m
      BY <1>2, <1>5
    <2> QED
      BY <1>2, <1>3, <2>1
  <1>6. q - d = 0
    BY <1>2, <1>4, <1>5
  <1> QED
    BY <1>2, <1>3, <1>6

\* A window of views as wide as the order has one that selects each position.
LEMMA NextViewIn ==
  ASSUME NEW view \in Nat, NEW members \in Nat, NEW index \in 0 .. members - 1
  PROVE  NextViewSelecting(view, index, members) \in view + 1 .. view + members
  <1> DEFINE S == view + 1 .. view + members
             s == {v \in S : v % members = index}
  <1>1. members >= 1 /\ index \in Nat
    OBVIOUS
  <1> DEFINE q == (view + 1) \div members
             r == (view + 1) % members
  <1>2. q \in Int /\ r \in 0 .. members - 1 /\ view + 1 = members * q + r
    BY <1>1
  <1> HIDE DEF q, r
  <1>3. s # {}
    <2>1. CASE index >= r
      <3> DEFINE v == members * q + index
      <3>1. v = view + 1 + (index - r) /\ v \in S
        BY <1>1, <1>2, <2>1
      <3>2. v = members * q + index
        OBVIOUS
      <3> HIDE DEF v
      <3>3. v % members = index
        BY <1>1, <1>2, <3>2, Residue
      <3> QED
        BY <3>1, <3>3
    <2>2. CASE ~(index >= r)
      <3> DEFINE p == q + 1
                 v == members * p + index
      <3>1. v = view + 1 + (members + index - r) /\ v \in S
        <4>1. members * p = members * q + members
          BY <1>2
        <4> QED
          BY <1>1, <1>2, <2>2, <4>1
      <3>2. v = members * p + index /\ p \in Int
        BY <1>2
      <3> HIDE DEF p, v
      <3>3. v % members = index
        BY <1>1, <1>2, <3>2, Residue
      <3> QED
        BY <3>1, <3>3
    <2> QED
      BY <2>1, <2>2
  <1>4. S \in SUBSET Nat /\ IsFiniteSet(S) /\ s \in SUBSET S
    BY FS_Interval
  <1> HIDE DEF S
  <1>5. Min(s) \in s
    BY <1>3, <1>4, MinIn
  <1>6. NextViewSelecting(view, index, members) = Min(s)
    BY DEF NextViewSelecting, S
  <1>7. Min(s) \in S
    BY <1>4, <1>5
  <1> QED
    BY <1>6, <1>7 DEF S

\* The leader orders a client's entry, or a change.
AddsOne(V) == \E e : Adds(V, e) /\ ((e.op = Operation /\ planned' = planned) \/ OrdersChange(e))

\* A batch without a rider moves no ballot.
LEMMA BatchPlain ==
  ASSUME NEW O, NEW ops \in Seq(O), \A i \in 1 .. Len(ops) : ~Nominates(ops[i])
  PROVE  Plain(Batch(ops))
  <1>0. \A i \in 1 .. Len(ops) - 1 : ~Nominates(ops[i])
    OBVIOUS
  <1>1. ASSUME NEW S, NEW e PROVE Nominated(S, <<Batch(ops)>>, e) = S
    <2>0. /\ ops = <<>> => Nominated(S, <<Batch(ops)>>, e) = S
          /\ ops # <<>> => Nominated(S, <<Batch(ops)>>, e) = RiderStep(S, ops[Len(ops)], e)
      BY <1>0, NominatedLast, Zenon
    <2>1. CASE ops = <<>>
      BY <2>0, <2>1
    <2>2. CASE ops # <<>>
      <3>1. Len(ops) \in 1 .. Len(ops)
        BY <2>2
      <3>2. Nominated(S, <<Batch(ops)>>, e) = RiderStep(S, ops[Len(ops)], e)
        BY <2>0, <2>2
      <3>3. ~Nominates(ops[Len(ops)])
        BY <3>1
      <3>4. RiderStep(S, ops[Len(ops)], e) = S
        BY <3>3 DEF RiderStep
      <3> QED
        BY <3>2, <3>4
    <2> QED
      BY <2>1, <2>2
  <1> QED
    BY <1>1 DEF Plain

\* A rider at the end of a batch moves the ballots of its view.
LEMMA EndWalks ==
  ASSUME NEW O, NEW ops \in Seq(O), \A i \in 1 .. Len(ops) - 1 : ~Nominates(ops[i]),
         ops # <<>>, NEW rider, rider = ops[Len(ops)], rider.op = "Nominate"
  PROVE  Walks(Batch(ops), rider.from, rider.from + rider.offset)
  <1>1. ASSUME NEW S, NEW e
        PROVE  Nominated(S, <<Batch(ops)>>, e) = RiderStep(S, rider, e)
    <2>1. /\ ops = <<>> => Nominated(S, <<Batch(ops)>>, e) = S
          /\ ops # <<>> => Nominated(S, <<Batch(ops)>>, e) = RiderStep(S, ops[Len(ops)], e)
      BY NominatedLast, Zenon
    <2> QED
      BY <2>1
  <1>2. \A b, e : RiderStep({b}, rider, e) =
                    {IF b.view = rider.from
                     THEN [era |-> e, view |-> rider.from + rider.offset] ELSE b}
    BY DEF RiderStep, Nominates
  <1>3. \A e : RiderStep({}, rider, e) = {}
    BY DEF RiderStep
  <1> QED
    BY <1>1, <1>2, <1>3 DEF Walks

\* So does one that is added to a batch without.
LEMMA BatchWalks ==
  ASSUME NEW O, NEW q \in Seq(O), \A i \in 1 .. Len(q) : ~Nominates(q[i]),
         NEW rider, rider.op = "Nominate", NEW ops, ops = q \o <<rider>>
  PROVE  Walks(Batch(ops), rider.from, rider.from + rider.offset)
  <1> DEFINE P == O \cup {rider}
  <1>1. q \in Seq(P) /\ <<rider>> \in Seq(P) /\ Len(q) \in Nat
    OBVIOUS
  <1>2. /\ ops \in Seq(P) /\ Len(ops) = Len(q) + 1 /\ ops # <<>>
        /\ ops[Len(q) + 1] = rider /\ \A i \in 1 .. Len(q) : ops[i] = q[i]
    BY <1>1
  <1>3. rider = ops[Len(ops)] /\ \A i \in 1 .. Len(ops) - 1 : ~Nominates(ops[i])
    BY <1>1, <1>2
  <1> HIDE DEF P
  <1> QED
    BY <1>2, <1>3, EndWalks

\* The other members of the leader's era are that at a point of V.
LEMMA BackupsIn ==
  ASSUME TInv, NEW V, Agreed(V), Rooted(V), NEW k \in Backups
  PROVE  MemberIn(V, ballot[Leader].era, k)
  <1>1. PICK rec \in RecordsOf(table[Leader], ballot[Leader].era) : k \in Members(rec.config)
    BY DEF Backups
  <1>2. PointAt(Leader) \in V /\ PointAt(Leader).table = table[Leader]
    BY LeaderIn DEF Agreed, PointAt
  <1>3. rec \in Range(table[Leader]) /\ rec.config.era = ballot[Leader].era
    BY <1>1 DEF RecordsOf
  <1>4. PICK q \in V : rec = Current(q.table)
    BY <1>2, <1>3 DEF Rooted
  <1> QED
    BY <1>1, <1>3, <1>4 DEF MemberIn, EraOf

\* What an action orders and sends.
LEMMA SendsOne ==
  ASSUME TInv, NEW V, Agreed(V), NEW R, Ruled(V, R), NEW e, Order(<<e>>), NEW to,
         Send({Prepare(to)}), oks' = oks,
         \A k \in to : MemberIn(V, ballot[Leader].era, k)
  PROVE  Adds(V, e)
  <1>1. Len(<<e>>) = 1
    OBVIOUS
  <1>2. /\ hist' = hist \o <<e>> /\ accepted' = [accepted EXCEPT ![Leader] = @ + 1]
        /\ UNCHANGED <<committed, ballot, retained, status, table>>
    BY <1>1 DEF Order
  <1>3. msgs' = msgs \cup {Prepare(to)}
    BY DEF Send
  <1>4. Prepare(to).tag = "Prepare" /\ Prepare(to).view = ballot[Leader] /\ Prepare(to).to = to
    BY DEF Prepare
  <1>5. \A m \in msgs' \ msgs : m = Prepare(to)
    BY <1>3
  <1> QED
    BY <1>2, <1>3, <1>4, <1>5 DEF Adds

\* A client's operation is one entry.
LEMMA ProposeAdds ==
  ASSUME TInv, NEW V, Agreed(V), NEW R, Ruled(V, R), Propose
  PROVE  AddsOne(V)
  <1> DEFINE e == Entry(Operation, Config(Leader).era)
  <1>1. /\ Order(<<e>>) /\ Send({Prepare(Backups)}) /\ planned' = planned /\ oks' = oks
    BY DEF Propose, leaderVars
  <1>2. e.op = Operation
    BY DEF Entry
  <1> HIDE DEF e
  <1>3. \A k \in Backups : MemberIn(V, ballot[Leader].era, k)
    BY BackupsIn DEF Ruled
  <1>4. Adds(V, e)
    BY <1>1, <1>3, SendsOne
  <1> QED
    BY <1>1, <1>2, <1>4 DEF AddsOne

\* A change passes the gates of the leader.
LEMMA GatesOpen ==
  ASSUME TInv, NEW op, ReconfigureGates(op) # {}
  PROVE  /\ Config(Leader).era = ballot[Leader].era /\ EraOf(table[Leader]) = ballot[Leader].era
         /\ \A s \in committed[Leader] + 1 .. accepted[Leader] : ~System(s)
  <1>1. /\ Config(Leader).era = ballot[Leader].era
        /\ \A s \in committed[Leader] + 1 .. accepted[Leader] : ~System(s)
    BY DEF ReconfigureGates
  <1> QED
    BY <1>1 DEF EraOf, Config

\* A single change is one entry.
LEMMA ReconfigureAdds ==
  ASSUME TInv, NEW V, Agreed(V), NEW R, Ruled(V, R), NEW ops, Reconfigure(Batch(ops)),
         Plain(Batch(ops)) \/ \E v \in Nat : /\ v > ballot[Leader].view
                                             /\ Walks(Batch(ops), ballot[Leader].view, v)
  PROVE  AddsOne(V)
  <1> DEFINE e == Entry(Batch(ops), ballot[Leader].era)
  <1>1. /\ ReconfigureGates(Batch(ops)) # {} /\ Order(<<e>>)
        /\ Send({Prepare(Backups)}) /\ planned' = planned /\ oks' = oks
    BY DEF Reconfigure, leaderVars
  <1>2. e.op = Batch(ops) /\ e.era = ballot[Leader].era
    BY DEF Entry
  <1>3. e.op # Operation
    BY <1>2 DEF Batch, Operation
  <1> HIDE DEF e
  <1>4. Adds(V, e)
    <2>1. \A k \in Backups : MemberIn(V, ballot[Leader].era, k)
      BY BackupsIn DEF Ruled
    <2> QED
      BY <1>1, <2>1, SendsOne
  <1>5. OrdersChange(e)
    BY <1>1, <1>2, <1>3, GatesOpen DEF OrdersChange
  <1> QED
    BY <1>4, <1>5 DEF AddsOne

\* An overlap is one entry, and the view that is planned with it.
LEMMA PivotAdds ==
  ASSUME TInv, NEW V, Agreed(V), NEW R, Ruled(V, R), NEW ops, OpOver(Node, Batch(ops)),
         ReconfigureWithPivot(Batch(ops)), Plain(Batch(ops))
  PROVE  AddsOne(V)
  <1> DEFINE e == Entry(Batch(ops), ballot[Leader].era)
             c == Config(Leader)
             view == ballot[Leader].view
  <1>1. PICK t \in ReconfigureGates(Batch(ops)) :
          \E p \in [q_i : SUBSET Members(c), q_ii : SUBSET Members(c)],
             i \in At(Current(t).config, Leader) :
            /\ planned' = {[establishing |-> accepted[Leader] + 1, pivot |-> p,
                            target |-> [era |-> Current(t).config.era,
                                        view |-> NextViewSelecting(view, i - 1,
                                                     Len(Current(t).config.order))],
                            solicited |-> FALSE, evidence |-> {}]}
            /\ Send({Prepare(p.q_ii \ {Leader})})
    BY DEF ReconfigureWithPivot
  <1>2. PICK p \in [q_i : SUBSET Members(c), q_ii : SUBSET Members(c)] :
          \E i \in At(Current(t).config, Leader) :
            /\ planned' = {[establishing |-> accepted[Leader] + 1, pivot |-> p,
                            target |-> [era |-> Current(t).config.era,
                                        view |-> NextViewSelecting(view, i - 1,
                                                     Len(Current(t).config.order))],
                            solicited |-> FALSE, evidence |-> {}]}
            /\ Send({Prepare(p.q_ii \ {Leader})})
    BY <1>1
  <1>3. PICK i \in At(Current(t).config, Leader) :
            /\ planned' = {[establishing |-> accepted[Leader] + 1, pivot |-> p,
                            target |-> [era |-> Current(t).config.era,
                                        view |-> NextViewSelecting(view, i - 1,
                                                     Len(Current(t).config.order))],
                            solicited |-> FALSE, evidence |-> {}]}
            /\ Send({Prepare(p.q_ii \ {Leader})})
    BY <1>2
  <1>4. Order(<<e>>) /\ oks' = oks
    BY DEF ReconfigureWithPivot
  <1>5. /\ c.era = ballot[Leader].era /\ EraOf(table[Leader]) = ballot[Leader].era
        /\ \A s \in committed[Leader] + 1 .. accepted[Leader] : ~System(s)
    BY <1>1, GatesOpen
  <1>6. e.op = Batch(ops) /\ e.era = ballot[Leader].era /\ e.op # Operation
    BY DEF Entry, Batch, Operation
  <1> DEFINE d == Current(t).config
             to == p.q_ii \ {Leader}
  <1>7. SoundTable(Node, t) /\ EraOf(t) = EraOf(table[Leader]) + 1
    <2>1. t \in Extend(table[Leader], Batch(ops), accepted[Leader] + 1)
      BY <1>1 DEF ReconfigureGates
    <2>2. SoundTable(Node, table[Leader])
      BY LeaderIn, TInvTypes
    <2> QED
      BY <2>1, <2>2, ExtendIsOne
  <1>8. d.era = ballot[Leader].era + 1 /\ d \in Configs(Node)
    <2>1. d \in Sound(Node)
      BY <1>7, TableType
    <2> QED
      BY <1>5, <1>7, <2>1 DEF EraOf, Sound
  <1>9. view \in Nat
    BY ReignTypes, TInvTypes DEF Ruled, Reigns, Reigned
  <1>10. NextViewSelecting(view, i - 1, Len(d.order)) \in Nat
    <2>1. i \in DOMAIN d.order
      BY <1>3 DEF At
    <2>2. DOMAIN d.order = 1 .. Len(d.order) /\ Len(d.order) \in Nat
      BY <1>8, OrderType
    <2>3. PICK n \in Nat : n = Len(d.order)
      BY <2>2
    <2>4. PICK x \in 0 .. n - 1 : x = i - 1
      BY <2>1, <2>2, <2>3
    <2>5. NextViewSelecting(view, x, n) \in view + 1 .. view + n
      BY <1>9, <2>3, <2>4, NextViewIn
    <2> QED
      BY <1>9, <2>3, <2>4, <2>5
  <1>11. \A k \in to : MemberIn(V, ballot[Leader].era, k)
    <2>1. PointAt(Leader) \in V /\ PointAt(Leader).table = table[Leader]
      BY LeaderIn DEF Agreed, PointAt
    <2>2. to \subseteq Members(c)
      BY <1>2
    <2> QED
      BY <1>5, <2>1, <2>2 DEF MemberIn, Config
  <1>12. Send({Prepare(to)})
    BY <1>3
  <1>13. \A x \in planned' : /\ "target" \in DOMAIN x /\ x.target.view \in Nat
                             /\ x.target = [era |-> ballot[Leader].era + 1, view |-> x.target.view]
    <2>1. \A x \in planned' : /\ "target" \in DOMAIN x
                              /\ x.target = [era |-> d.era, view |-> NextViewSelecting(view, i - 1, Len(d.order))]
      BY <1>3
    <2> HIDE DEF d, view
    <2> QED
      BY <1>8, <1>10, <2>1
  <1> HIDE DEF e, to, c, d, view
  <1>14. Adds(V, e)
    BY <1>4, <1>11, <1>12, SendsOne
  <1>15. OrdersChange(e)
    BY <1>5, <1>6, <1>13 DEF OrdersChange
  <1> QED
    BY <1>14, <1>15 DEF AddsOne

\* A change that is not fused is one entry.
LEMMA AskAdds ==
  ASSUME NoFused, TInv, NEW V, Agreed(V), NEW R, Ruled(V, R), NEW change \in Changes, Ask(change)
  PROVE  AddsOne(V)
  <1> DEFINE bare == change.ops
             rider == RiderOf(bare)
             ops == bare \o rider
             view == ballot[Leader].view
             n == 2 * Len(Config(Leader).order) + 2
             re == {k \in 1 .. n : \E d \in Apply(Config(Leader), Batch(bare)) :
                                      Selects(d, view + k, Leader)}
             nom == [op |-> "Nominate", from |-> view, offset |-> Min(re)]
  <1>1. bare \in Seq(SystemOperation) /\ change.mode # "fused"
    BY ReconfigurationAssumption DEF NoFused
  <1>2. \A i \in 1 .. Len(bare) : ~Nominates(bare[i])
    BY <1>1 DEF SystemOperation, Nominates
  <1>3. view \in Nat
    BY ReignTypes, TInvTypes DEF Ruled, Reigns, Reigned
  <1>4. n \in Nat
    <2>1. Config(Leader) \in Configs(Node)
      BY LeaderConfig DEF Sound
    <2> QED
      BY <2>1, OrderType
  <1>5. rider = <<>> \/ (re # {} /\ rider = <<nom>>)
    BY DEF RiderOf
  <1>6. re # {} => Min(re) \in 1 .. n
    <2> DEFINE S == 1 .. n
    <2>1. S \in SUBSET Nat /\ IsFiniteSet(S) /\ re \in SUBSET S
      BY <1>4, FS_Interval
    <2> HIDE DEF S, re, n
    <2>2. re # {} => Min(re) \in re
      BY <2>1, MinIn
    <2> QED
      BY <2>1, <2>2 DEF S
  <1>7. nom.op = "Nominate" /\ nom.from = view /\ nom.offset = Min(re)
    OBVIOUS
  <1>8. \/ Reconfigure(Batch(ops))
        \/ ReconfigureWithPivot(Batch(bare))
    BY <1>1 DEF Ask
  <1>9. (\E O : bare \in Seq(O)) /\ OpsOver(Node, bare)
    BY ChangeOps
  <1> HIDE DEF bare, rider, re, n, view, nom
  <1>10. Plain(Batch(bare))
    BY <1>1, <1>2, BatchPlain
  <1>11. CASE Reconfigure(Batch(ops))
    <2>1. CASE rider = <<>>
      <3>1. ops = bare
        BY <1>1, <2>1
      <3> QED
        BY <1>10, <1>11, <3>1, ReconfigureAdds
    <2>2. CASE rider = <<nom>> /\ re # {}
      <3>1. Walks(Batch(ops), nom.from, nom.from + nom.offset)
        <4>1. ops = bare \o <<nom>>
          BY <2>2
        <4> QED
          BY <1>1, <1>2, <1>7, <4>1, BatchWalks
      <3>2. PICK v : v = view + Min(re)
        OBVIOUS
      <3>3. v \in Nat /\ v > view
        BY <1>3, <1>4, <1>6, <2>2, <3>2
      <3>4. Walks(Batch(ops), view, v)
        BY <1>7, <3>1, <3>2
      <3> HIDE DEF ops
      <3>5. \E x \in Nat : x > ballot[Leader].view /\ Walks(Batch(ops), ballot[Leader].view, x)
        BY <3>3, <3>4 DEF view
      <3> QED
        BY <1>11, <3>5, ReconfigureAdds
    <2> QED
      BY <1>5, <2>1, <2>2
  <1>12. CASE ReconfigureWithPivot(Batch(bare))
    <2>1. OpOver(Node, Batch(bare))
      BY <1>9 DEF OpOver, Over, Batch
    <2> QED
      BY <1>10, <1>12, <2>1, PivotAdds
  <1> QED
    BY <1>8, <1>11, <1>12

-----------------------------------------------------------------------------
(* The leader's votes.                                                     *)

\* The leader and those that voted for slot s.
Voters(votes, s) == {Leader} \cup {v[2] : v \in {w \in votes : w[1] = s}}

\* The cascade goes no further than slots with a quorum each.
LEMMA CascadeVoted ==
  ASSUME committed[Leader] \in Nat, accepted[Leader] \in Nat,
         committed[Leader] <= accepted[Leader], NEW votes
  PROVE  \A s \in committed[Leader] + 1 .. CascadeFrontier(votes) :
            IsQuorum(Config(Leader), Voters(votes, s))
  <1> DEFINE end == accepted[Leader]
             b == committed[Leader]
             n == end - b
             Voted1(s) == IsQuorum(Config(Leader),
                                  {Leader} \cup {v[2] : v \in {w \in votes : w[1] = s}})
             V == {x \in b .. end : \A s \in b + 1 .. x : Voted1(s)}
             Past1(c, e) == IF \A s \in c + 1 .. e : Voted1(s) THEN e ELSE c
             Step(c) == IF c < end THEN Past1(c, SegmentEnd(c + 1, end)) ELSE c
             Solves(g) == g = [s \in SUBSET (1 .. n) |->
                                 IF s = {} THEN b ELSE Step(g[s \ {Max(s)}])]
             f == CHOOSE g : Solves(g)
             st == [p \in (1 .. n) \X V |-> Step(p[2])]
  <1>1. n \in Nat /\ b \in Nat /\ end \in Nat /\ b <= end
    OBVIOUS
  <1>2. b \in V
    <2> HIDE DEF Voted1
    <2> QED
      BY <1>1
  <1>3. ASSUME NEW c \in V PROVE Step(c) \in V
    <2>0. c \in b .. end /\ \A s \in b + 1 .. c : Voted1(s)
      OBVIOUS
    <2>1. CASE c < end
      <3> DEFINE E == {e \in c + 1 .. end :
                         \A k \in (c + 1) + 1 .. e : System(k) /\ hist[k].era = hist[c + 1].era}
      <3>1. c + 1 \in E /\ E \in SUBSET ((c + 1) .. end)
        <4> HIDE DEF Voted1, V
        <4> QED
          BY <1>1, <2>0, <2>1
      <3>2. Max(E) \in E
        <4> HIDE DEF E
        <4>1. E \in SUBSET (1 .. end) /\ E # {}
          BY <1>1, <2>0, <3>1
        <4> QED
          BY <1>1, <4>1, MaxIn
      <3>3. SegmentEnd(c + 1, end) = Max(E)
        BY DEF SegmentEnd
      <3>4. PICK x : x = SegmentEnd(c + 1, end)
        OBVIOUS
      <3>5. x \in (c + 1) .. end
        <4> HIDE DEF E
        <4> QED
          BY <3>1, <3>2, <3>3, <3>4
      <3> HIDE DEF E, Voted1
      <3>6. CASE \A s \in c + 1 .. x : Voted1(s)
        <4>1. Step(c) = x
          BY <2>1, <3>4, <3>6
        <4>2. \A s \in b + 1 .. x : s \in b + 1 .. c \/ s \in c + 1 .. x
          BY <1>1, <2>0, <3>5
        <4>3. x \in b .. end
          BY <1>1, <2>0, <3>5
        <4> QED
          BY <2>0, <3>6, <4>1, <4>2, <4>3
      <3>7. CASE ~(\A s \in c + 1 .. x : Voted1(s))
        BY <2>1, <3>4, <3>7
      <3> QED
        BY <3>6, <3>7
    <2>2. CASE ~(c < end)
      BY <2>2
    <2> QED
      BY <2>1, <2>2
  <1>4. st \in [(1 .. n) \X V -> V] /\ \A x \in 1 .. n, v \in V : st[<<x, v>>] = Step(v)
    <2> HIDE DEF Step, V, n
    <2> QED
      BY <1>3
  <1>5. ASSUME NEW s \in SUBSET (1 .. n), s # {} PROVE Max(s) \in 1 .. n
    BY <1>1, <1>5, MaxIn
  <1>6. CascadeFrontier(votes) = f[1 .. n]
    BY <1>1 DEF CascadeFrontier, FoldLeft, MapThenFoldSet
  <1> HIDE DEF st, Step, n, b, V
  <1>7. \E g : Solves(g)
    <2>1. PICK h : FoldOf(h, n, b, st) /\ \A s \in SUBSET (1 .. n) : h[s] \in V
      BY <1>1, <1>2, <1>4, FoldSolved
    <2>2. ASSUME NEW s \in SUBSET (1 .. n)
          PROVE  h[s] = IF s = {} THEN b ELSE Step(h[s \ {Max(s)}])
      <3>1. h[s] = IF s = {} THEN b ELSE st[<<Max(s), h[s \ {Max(s)}]>>]
        BY <2>1, Zenon DEF FoldOf
      <3>2. s # {} => st[<<Max(s), h[s \ {Max(s)}]>>] = Step(h[s \ {Max(s)}])
        BY <1>4, <1>5, <2>1
      <3> QED
        BY <3>1, <3>2
    <2>3. h = [s \in SUBSET (1 .. n) |-> h[s]]
      BY <2>1, Zenon DEF FoldOf
    <2>4. Solves(h)
      BY <2>2, <2>3, Zenon
    <2> QED
      BY <2>4
  <1>8. Solves(f)
    BY <1>7
  <1> HIDE DEF f
  <1>9. \A s \in SUBSET (1 .. n) : f[s] = IF s = {} THEN b ELSE Step(f[s \ {Max(s)}])
    BY <1>8, Zenon
  <1> HIDE DEF Solves
  <1>10. ASSUME NEW s \in SUBSET (1 .. n), s # {}, f[s \ {Max(s)}] \in V
         PROVE  f[s] = st[<<Max(s), f[s \ {Max(s)}]>>]
    BY <1>4, <1>5, <1>9, <1>10
  <1>11. FoldsBy(f, n, V, b, st)
    BY <1>9, <1>10 DEF FoldsBy
  <1>12. PICK g : Walk(g, n, V, b, f[1 .. n], st)
    BY <1>1, <1>2, <1>4, <1>11, FoldWalks
  <1>13. n \in 0 .. n
    BY <1>1
  <1>14. f[1 .. n] \in V
    BY <1>12, <1>13 DEF Walk
  <1>15. CascadeFrontier(votes) \in V
    BY <1>6, <1>14
  <1> HIDE DEF Voted1
  <1>16. \A s \in b + 1 .. CascadeFrontier(votes) : Voted1(s)
    BY <1>15 DEF V
  <1> QED
    BY <1>16 DEF Voted1, Voters, b

\* A vote of the leader's ballot is counted for the slots it covers.
LEMMA Counted ==
  ASSUME TInv, NEW V, NEW R, Ruled(V, R), NEW m \in msgs, m.tag = "Ok", m.view = ballot[Leader]
  PROVE  Votes(R, oks \cup {<<s, m.from>> : s \in committed[Leader] + 1 .. m.slot})
  <1>1. Voted(m) /\ Reigns(R) /\ Entries(R) /\ Votes(R, oks)
    BY DEF Ruled, Said
  <1>2. PICK n \in Node \ {Leader} : n = m.from
    BY <1>1 DEF Voted
  <1>3. Placed(R, n) /\ Len(hist) \in Nat /\ accepted[n] \in INIT_SLOT .. Len(hist)
        /\ committed[Leader] \in Nat /\ committed[Leader] >= INIT_SLOT
    BY <1>2, TInvTypes, LeaderIn DEF Ruled, TInv, PlaceSound
  <1>4. /\ ballot[Leader].era \in Nat /\ retained[n].era \in Nat
        /\ retained[n].era >= ballot[Leader].era
        /\ \A e \in DOMAIN R : e \in Nat /\ e <= ballot[Leader].era
    <2>1. /\ ballot[Leader].era \in Nat /\ retained[n].era \in Nat
          /\ \A e \in DOMAIN R : e \in Nat /\ e <= ballot[Leader].era
      BY <1>1, <1>2, <1>3, ReignTypes
    <2>2. ballot[Leader].era \in 1 .. retained[n].era
      BY <1>1, <1>2 DEF Voted
    <2> QED
      BY <2>1, <2>2
  <1>5. m.slot \in Nat /\ m.slot <= accepted[n] /\ status[n] # "Joining"
    BY <1>1, <1>2 DEF Voted
  <1>6. ASSUME NEW s \in committed[Leader] + 1 .. m.slot PROVE Vote(R, s, n)
    <2>1. s \in INIT_SLOT + 1 .. accepted[n] /\ s \in INIT_SLOT + 1 .. Len(hist)
      BY <1>3, <1>5 DEF INIT_SLOT
    <2>2. System(s) => hist[s].era \in DOMAIN R
      BY <1>1, <2>1 DEF Entries, Stamped
    <2>3. \A e \in DOMAIN R : retained[n].era >= e
      BY <1>4
    <2> QED
      BY <1>2, <1>5, <2>1, <2>2, <2>3 DEF Vote
  <1>7. ASSUME NEW v \in oks \cup {<<s, m.from>> : s \in committed[Leader] + 1 .. m.slot}
        PROVE  Vote(R, v[1], v[2])
    <2>1. CASE v \in oks
      BY <1>1, <2>1 DEF Votes
    <2>2. CASE v \in {<<s, m.from>> : s \in committed[Leader] + 1 .. m.slot}
      BY <1>2, <1>6, <2>2
    <2> QED
      BY <2>1, <2>2
  <1> QED
    BY <1>7 DEF Votes

\* The leader counts votes or evidence, or tells what it told before.
LeaderQuiet(R) ==
    /\ hist' = hist /\ DOMAIN retained' = Node
    /\ \A n \in Node : /\ accepted'[n] = accepted[n] /\ committed'[n] = committed[n]
                       /\ ballot'[n] = ballot[n] /\ retained'[n] = retained[n]
                       /\ status'[n] = status[n] /\ table'[n] = table[n]
    /\ Votes(R, oks') /\ oks \subseteq oks'
    /\ \A p \in planned' : Overlapping(p)
    /\ msgs \subseteq msgs'
    /\ \A m \in msgs' \ msgs : \/ m.tag \in {"NewState", "PlannedViewChange"}
                               \/ m.tag = "Commit" /\ m.view = ballot[Leader]

\* It stays in its reign.
LEMMA QuietRuled ==
  ASSUME NEW V, Agreed(V), NEW R, Ruled(V, R), LeaderQuiet(R)
  PROVE  Ruled(V, R)'
  <1>1. /\ hist' = hist /\ Leader \in Node
        /\ committed'[Leader] = committed[Leader] /\ table'[Leader] = table[Leader]
        /\ ballot'[Leader] = ballot[Leader] /\ status'[Leader] = status[Leader]
    BY LeaderIn DEF LeaderQuiet
  <1>2. LeaderStays
    BY <1>1 DEF LeaderStays
  <1>3. /\ Reigns(R)' /\ Entries(R)' /\ Apart' /\ Due(V)' /\ Pending'
        /\ \A p \in planned' : Overlapping(p)'
    BY <1>2, LeaderStaysRuled DEF Ruled, LeaderQuiet
  <1>4. \A n \in Node : Placed(R, n)'
    BY DEF Ruled, LeaderQuiet, Placed, Reigned
  <1>5. ASSUME NEW m \in msgs' PROVE Said(V, R, m)'
    <2>1. Reigned(R, ballot[Leader])
      BY DEF Ruled, Reigns
    <2>2. CASE m \in msgs
      <3>1. Said(V, R, m)
        BY <2>2 DEF Ruled
      <3>2. Voted(m) => Voted(m)'
        BY <1>1 DEF LeaderQuiet, Voted, Leader
      <3> QED
        BY <3>1, <3>2 DEF Said, Reigned, MemberIn, EraAt
    <2>3. CASE m \notin msgs
      BY <1>5, <2>1, <2>3 DEF LeaderQuiet, Said, Reigned
    <2> QED
      BY <2>2, <2>3
  <1>6. Votes(R, oks)'
    <2>1. PICK S : S = oks'
      OBVIOUS
    <2>2. ASSUME NEW v \in S PROVE Vote(R, v[1], v[2])'
      <3>1. Vote(R, v[1], v[2])
        BY <2>1 DEF LeaderQuiet, Votes
      <3>2. PICK s, n : s = v[1] /\ n = v[2]
        OBVIOUS
      <3>3. Vote(R, s, n)'
        BY <1>1, <3>1, <3>2 DEF LeaderQuiet, Vote, System, Leader
      <3> QED
        BY <3>2, <3>3
    <2> QED
      BY <2>1, <2>2 DEF Votes
  <1>7. DOMAIN retained' = Node /\ Rooted(V)'
    BY DEF Ruled, LeaderQuiet, Rooted
  <1>8. \A p \in V : Fenced(p) => Fenced(p)'
    <2>1. ASSUME NEW p \in V, Fenced(p) PROVE Fenced(p)'
      <3>1. ASSUME NEW S, IsQuorum(ConfigOf(p), S)
            PROVE  \E n \in S : ballot'[n].era > EraOf(p.table)
        <4>1. PICK n \in S : ballot[n].era > EraOf(p.table)
          BY <2>1, <3>1 DEF Fenced
        <4>2. SoundTable(Node, p.table)
          BY DEF Agreed, Chain
        <4>3. S \subseteq Node
          BY <3>1, <4>2, QuorumNodes DEF ConfigOf
        <4> QED
          BY <4>1, <4>3 DEF LeaderQuiet
      <3> QED
        BY <3>1 DEF Fenced, ConfigOf
    <2> QED
      BY <2>1
  <1>9. Crosses(V)'
    BY <1>1, <1>8 DEF Ruled, Crosses, Config, Crossing, ConfigOf, Leader
  <1>10. Covers(V, oks)'
    <2>1. Held(oks) \subseteq Held(oks)'
      BY <1>1 DEF LeaderQuiet, Held, Leader
    <2>2. \A p : CrossedBy(p, Held(oks)) => CrossedBy(p, Held(oks))'
      BY <2>1 DEF CrossedBy, ConfigOf
    <2> QED
      BY <1>1, <1>8, <2>2 DEF Ruled, Covers
  <1> QED
    BY <1>2, <1>3, <1>4, <1>5, <1>6, <1>7, <1>9, <1>10 DEF Ruled

-----------------------------------------------------------------------------
(* Quorums of neighbouring eras have a member in common.                   *)

\* What holds more is a quorum too, among the members.
LEMMA QuorumGrows ==
  ASSUME NEW N, NEW c \in Configs(N), NEW S, IsQuorum(c, S), NEW T, S \subseteq T,
         T \subseteq Members(c)
  PROVE  IsQuorum(c, T)
  <1> DEFINE A == {u \in Units(c) : c.order[u[1]].node \in S}
             B == {u \in Units(c) : c.order[u[1]].node \in T}
  <1>1. IsFiniteSet(B) /\ A \subseteq B
    <2>1. IsFiniteSet(Units(c)) /\ B \subseteq Units(c) /\ A \subseteq B
      BY UnitSet
    <2> QED
      BY <2>1, FS_Subset
  <1>2. Cardinality(A) <= Cardinality(B) /\ Cardinality(A) \in Nat /\ Cardinality(B) \in Nat
    <2> HIDE DEF A, B
    <2> QED
      BY <1>1, FS_Subset, FS_CardinalityType
  <1>3. WeightOfSet(c, S) = Cardinality(A) /\ WeightOfSet(c, T) = Cardinality(B)
    BY DEF WeightOfSet
  <1>4. Total(c) \in Nat
    BY UnitSet
  <1> HIDE DEF A, B
  <1> QED
    BY <1>2, <1>3, <1>4 DEF IsQuorum

\* Quorums that the scan does not find apart have a member in common.
LEMMA MeetCross ==
  ASSUME NEW N, NEW c \in Configs(N), NEW d \in Configs(N), Meet(c, d)
  PROVE  Crossing(c, d) /\ Crossing(d, c)
  <1>1. ASSUME NEW a \in Configs(N), NEW b \in Configs(N), ~DisjointQuorumsExist(a, b),
               NEW Q, NEW S, IsQuorum(a, Q), IsQuorum(b, S), Q \cap S = {}
        PROVE  FALSE
    <2> DEFINE U == Members(a) \cup Members(b)
               T == Members(a) \ S
    <2>1. Q \subseteq T /\ T \subseteq Members(a) /\ S \subseteq U \ T /\ U \ T \subseteq Members(b)
          /\ T \in SUBSET U
      BY <1>1 DEF IsQuorum
    <2> HIDE DEF U, T
    <2>2. IsQuorum(a, T) /\ IsQuorum(b, U \ T)
      BY <1>1, <2>1, QuorumGrows
    <2> QED
      BY <1>1, <2>1, <2>2 DEF DisjointQuorumsExist, U
  <1> QED
    BY <1>1 DEF Crossing, Meet

\* Quorums of one era cross.
LEMMA EraCrosses == ASSUME NEW N, NEW c \in Configs(N) PROVE Crossing(c, c)
  <1>1. Meet(c, c)
    BY EraQuorumsMeet DEF Meet, ValidateEra
  <1> QED
    BY <1>1, MeetCross

\* So do those of an era and the next.
LEMMA NextCrosses ==
  ASSUME NEW N, NEW c \in Configs(N), NEW op, OpOver(N, op), NEW d \in Apply(c, op)
  PROVE  Crossing(c, d) /\ Crossing(d, c) /\ Crossing(d, d)
  <1>1. d \in Configs(N) /\ Meet(c, d)
    <2>1. CASE op.op = "Batch"
      <3>1. PICK O : op.ops \in Seq(O)
        BY <2>1 DEF OpOver
      <3>2. OpsOver(N, op.ops) /\ d \in ApplyBatch(c, op.ops)
        BY <2>1 DEF OpOver, Apply
      <3> QED
        BY <3>1, <3>2, BatchQuorumsMeet
    <2>2. CASE op.op # "Batch"
      BY <2>2, OperationQuorumsMeet DEF OpOver, Over
    <2> QED
      BY <2>1, <2>2
  <1> QED
    BY <1>1, MeetCross, EraCrosses

-----------------------------------------------------------------------------
(* The leader's commits.                                                   *)

\* The leader publishes the fold f at the ballot b.
Commits(f, b) ==
    /\ hist' = hist /\ \A n \in Node : accepted'[n] = accepted[n]
    /\ committed' = [committed EXCEPT ![Leader] = f.slot]
    /\ table' = [table EXCEPT ![Leader] = f.table]
    /\ ballot' = [ballot EXCEPT ![Leader] = b]
    /\ retained' = [retained EXCEPT ![Leader] = b]
    /\ status' = [status EXCEPT ![Leader] = "Normal"]
    /\ \A p \in planned' : "target" \in DOMAIN p /\ \E q \in planned : p.target = q.target
    /\ msgs \subseteq msgs'
    /\ \A m \in msgs' \ msgs : /\ m.tag \in {"Commit", "PlannedViewChange"}
                               /\ m.tag = "Commit" => m.view = ballot[Leader]

\* The slots it commits have a quorum each.
Decided(f, votes) ==
    \A s \in committed[Leader] + 1 .. f.slot : IsQuorum(Config(Leader), Voters(votes, s))

\* Points past what the leader had committed are of its era or of that of its fold.
LEMMA PointsPast ==
  ASSUME TInv, TInv', NEW V, Agreed(V), NEW W, Agreed(W)', Outgrows(W, V),
         NEW f, NEW b, Commits(f, b), SoundTable(Node, f.table), f.slot \in Nat,
         committed[Leader] <= f.slot
  PROVE  /\ table'[Leader] = f.table /\ committed'[Leader] = f.slot /\ ballot'[Leader] = b
         /\ \A p \in W \ V :
               /\ p.slot \in committed[Leader] + 1 .. f.slot /\ p.slot \in Nat
               /\ SoundTable(Node, p.table)
               /\ EraOf(table[Leader]) <= EraOf(p.table) /\ EraOf(p.table) <= EraOf(f.table)
               /\ EraOf(p.table) = EraOf(table[Leader]) => ConfigOf(p) = Config(Leader)
               /\ EraOf(p.table) = EraOf(f.table) => ConfigOf(p) = Current(f.table).config
               /\ (\A k \in committed[Leader] + 1 .. p.slot : ~System(k)) => p.table = table[Leader]
  <1>1. /\ Leader \in Node /\ Kept /\ committed[Leader] \in Nat /\ committed[Leader] >= INIT_SLOT
        /\ SoundTable(Node, table[Leader])
    BY LeaderIn, TInvTypes DEF TInv, PlaceSound, INIT_SLOT
  <1>2. /\ table'[Leader] = f.table /\ committed'[Leader] = f.slot /\ ballot'[Leader] = b
        /\ hist' = hist /\ V \subseteq W
    BY <1>1 DEF Commits, Kept, Outgrows
  <1>3. PointAt(Leader) \in W /\ PointAt(Leader).slot = committed[Leader]
        /\ PointAt(Leader).table = table[Leader]
    BY <1>1, <1>2 DEF Agreed, PointAt
  <1>4. /\ \A p \in W : /\ p.slot \in INIT_SLOT .. f.slot
                        /\ SoundTable(Node, p.table)
        /\ \A p, q \in W : p.slot <= q.slot => Alike(p, q)'
        /\ PointAt(Leader)' \in W /\ PointAt(Leader)'.slot = f.slot
        /\ PointAt(Leader)'.table = f.table
    BY <1>2 DEF Agreed, Chain, PointAt, Leader
  <1>5. \A p, q : Alike(p, q)' = Alike(p, q)
    BY <1>2 DEF Alike, System
  <1> DEFINE a == PointAt(Leader)
             z == PointAt(Leader)'
  <1>6. /\ a \in W /\ a.slot = committed[Leader] /\ a.table = table[Leader]
        /\ z \in W /\ z.slot = f.slot /\ z.table = f.table
    BY <1>3, <1>4
  <1> HIDE DEF a, z
  <1>7. ASSUME NEW p \in W \ V
        PROVE  /\ p.slot \in committed[Leader] + 1 .. f.slot /\ p.slot \in Nat
               /\ SoundTable(Node, p.table)
               /\ EraOf(table[Leader]) <= EraOf(p.table) /\ EraOf(p.table) <= EraOf(f.table)
               /\ EraOf(p.table) = EraOf(table[Leader]) => ConfigOf(p) = Config(Leader)
               /\ EraOf(p.table) = EraOf(f.table) => ConfigOf(p) = Current(f.table).config
               /\ (\A k \in committed[Leader] + 1 .. p.slot : ~System(k)) => p.table = table[Leader]
    <2>1. /\ p.slot \in committed[Leader] + 1 .. f.slot /\ p.slot \in Nat
          /\ SoundTable(Node, p.table)
      <3>1. p.slot > committed[Leader]
        BY <1>7 DEF Outgrows
      <3> QED
        BY <1>1, <1>4, <3>1 DEF INIT_SLOT
    <2>2. Alike(a, p) /\ Alike(p, z)
      BY <1>1, <1>4, <1>5, <1>6, <2>1
    <2>3. /\ EraOf(table[Leader]) <= EraOf(p.table) /\ EraOf(p.table) <= EraOf(f.table)
          /\ (\A k \in committed[Leader] + 1 .. p.slot : ~System(k)) => p.table = table[Leader]
      BY <1>6, <2>2 DEF Alike
    <2>4. EraOf(p.table) = EraOf(table[Leader]) => ConfigOf(p) = Config(Leader)
      <3>1. Current(p.table) \in Range(p.table) /\ Current(table[Leader]) \in Range(table[Leader])
        BY <1>1, <2>1, TableType
      <3>2. EraOf(p.table) = EraOf(table[Leader]) => Current(p.table) = Current(table[Leader])
        BY <1>6, <2>2, <3>1 DEF Alike, EraOf
      <3> QED
        BY <3>2 DEF ConfigOf, Config
    <2>5. EraOf(p.table) = EraOf(f.table) => ConfigOf(p) = Current(f.table).config
      <3>1. Current(p.table) \in Range(p.table) /\ Current(f.table) \in Range(f.table)
        BY <2>1, TableType
      <3>2. EraOf(p.table) = EraOf(f.table) => Current(p.table) = Current(f.table)
        BY <1>6, <2>2, <3>1 DEF Alike, EraOf
      <3> QED
        BY <3>2 DEF ConfigOf
    <2> QED
      BY <2>1, <2>3, <2>4, <2>5
  <1> QED
    BY <1>2, <1>7

-----------------------------------------------------------------------------
(* The commits of the leader.                                              *)

\* What the leader's fold comes to: no system entry, or the one that was open.
Comes(f) == FoldsNone(f) \/ \E k : FoldsOne(f, k)

\* An era that can elect crosses the quorums of the leader's new era, and the
\* voters for what it commits.
LEMMA CommitCrosses ==
  ASSUME TInv, TInv', NEW V, Agreed(V), NEW R, Ruled(V, R), NEW W, Agreed(W)', Outgrows(W, V),
         NEW f, NEW b, Commits(f, b), SoundTable(Node, f.table), f.slot \in Nat,
         committed[Leader] < f.slot, f.slot <= Len(hist), Comes(f),
         NEW S, oks' = S, Decided(f, S), Votes(R, S), b.era \in Nat, b.era >= ballot[Leader].era
  PROVE  Crosses(W)' /\ Covers(W, oks)'
  <1> DEFINE c == Config(Leader)
             d == Current(f.table).config
             H == Voters(S, f.slot)
             T == EraOf(table[Leader])
  <1>1. /\ Leader \in Node /\ committed[Leader] \in Nat /\ committed[Leader] >= INIT_SLOT
        /\ Len(hist) \in Nat
        /\ SoundTable(Node, table[Leader]) /\ c \in Sound(Node) /\ c \in Configs(Node) /\ T \in Nat
    BY LeaderIn, TInvTypes, LeaderConfig DEF TInv, PlaceSound, INIT_SLOT, Sound
  <1>2. /\ table'[Leader] = f.table /\ committed'[Leader] = f.slot /\ ballot'[Leader] = b
        /\ \A p \in W \ V :
               /\ EraOf(table[Leader]) <= EraOf(p.table) /\ EraOf(p.table) <= EraOf(f.table)
               /\ EraOf(p.table) \in Nat
               /\ EraOf(p.table) = EraOf(table[Leader]) => ConfigOf(p) = Config(Leader)
               /\ EraOf(p.table) = EraOf(f.table) => ConfigOf(p) = Current(f.table).config
    <2>1. committed[Leader] <= f.slot
      BY <1>1
    <2>2. \A p \in W \ V : SoundTable(Node, p.table) => EraOf(p.table) \in Nat
      BY TableType
    <2> QED
      BY <2>1, <2>2, PointsPast
  <1>3. Config(Leader)' = d /\ Held(oks)' = H
    BY <1>2 DEF Config, Held, Voters, Leader
  <1>4. ASSUME NEW n \in Node
        PROVE  /\ ballot[n].era \in Nat /\ ballot'[n].era \in Nat
               /\ ballot[n].era <= ballot'[n].era
    <2>1. ballot[n].era \in Nat
      BY <1>1, ReignTypes DEF Ruled
    <2>2. CASE n = Leader
      BY <1>2, <2>1, <2>2
    <2>3. CASE n # Leader
      <3>1. ballot'[n] = ballot[n]
        BY <2>3 DEF Commits, TInv, Kept
      <3> QED
        BY <2>1, <3>1
    <2> QED
      BY <2>2, <2>3
  <1>5. \A s \in committed[Leader] + 1 .. f.slot : IsQuorum(c, Voters(S, s))
    BY DEF Decided
  <1>6. IsQuorum(c, H)
    BY <1>1, <1>5
  <1>7. ASSUME NEW p \in V
        PROVE  /\ SoundTable(Node, p.table) /\ EraOf(p.table) \in Nat /\ EraOf(p.table) <= T
               /\ EraOf(p.table) = T => ConfigOf(p) = c
               /\ Fenced(p) => Fenced(p)'
               /\ Fenced(p) \/ Crossing(ConfigOf(p), c)
    <2>1. PointAt(Leader) \in V /\ PointAt(Leader).table = table[Leader]
          /\ PointAt(Leader).slot = committed[Leader] /\ p.slot \in INIT_SLOT .. committed[Leader]
          /\ SoundTable(Node, p.table)
      BY <1>1 DEF Agreed, Chain, PointAt
    <2>2. EraOf(p.table) \in Nat /\ Current(p.table) \in Range(p.table)
          /\ Current(table[Leader]) \in Range(table[Leader])
      BY <1>1, <2>1, TableType
    <2>3. EraOf(p.table) <= T
      <3>1. p.slot <= committed[Leader]
        BY <1>1, <2>1 DEF INIT_SLOT
      <3>2. PICK q \in V : q = PointAt(Leader)
        BY <2>1
      <3>3. EraOf(p.table) <= EraOf(q.table)
        BY <2>1, <3>1, <3>2, LaterEra
      <3> QED
        BY <2>1, <3>2, <3>3
    <2>4. EraOf(p.table) = T => ConfigOf(p) = c
      <3>1. PICK q \in V : q = PointAt(Leader)
        BY <2>1
      <3>2. PICK x \in Range(p.table) : x = Current(p.table)
        BY <2>2
      <3>3. PICK y \in Range(q.table) : y = Current(table[Leader])
        BY <2>1, <2>2, <3>1
      <3>4. x.config.era = y.config.era => x = y
        BY SameRecord
      <3> QED
        BY <3>2, <3>3, <3>4 DEF EraOf, ConfigOf, Config
    <2>5. Fenced(p) => Fenced(p)'
      BY <1>4, <2>1, FencedStays
    <2> QED
      BY <2>1, <2>2, <2>3, <2>4, <2>5 DEF Ruled, Crosses
  <1> HIDE DEF c, d, H, T
  <1>8. ASSUME NEW p \in W
        PROVE  Fenced(p)' \/ (Crossing(ConfigOf(p), d) /\ CrossedBy(p, H))
    <2>1. CASE FoldsNone(f)
      <3>1. f.table = table[Leader] /\ d = c
        BY <2>1 DEF FoldsNone, c, d, Config
      <3>2. Crossing(c, c)
        BY <1>1, EraCrosses
      <3>3. CASE p \in V
        <4>1. Crossing(ConfigOf(p), c) => CrossedBy(p, H)
          BY <1>6 DEF Crossing, CrossedBy
        <4> QED
          BY <1>7, <3>1, <3>3, <4>1
      <3>4. CASE p \notin V
        <4>1. ConfigOf(p) = c
          <5>1. T <= EraOf(p.table) /\ EraOf(p.table) <= T /\ EraOf(p.table) \in Nat
            BY <1>2, <3>1, <3>4 DEF T
          <5>2. EraOf(p.table) = T
            BY <1>1, <5>1
          <5> QED
            BY <1>2, <3>4, <5>2 DEF T, c
        <4>2. CrossedBy(p, H)
          BY <1>6, <3>2, <4>1 DEF Crossing, CrossedBy
        <4> QED
          BY <3>1, <3>2, <4>1, <4>2
      <3> QED
        BY <3>3, <3>4
    <2>2. ASSUME NEW k, FoldsOne(f, k)
          PROVE  Fenced(p)' \/ (Crossing(ConfigOf(p), d) /\ CrossedBy(p, H))
      <3>1. /\ Open(k) /\ k <= f.slot /\ EraOf(f.table) = T + 1 /\ d \in Apply(c, hist[k].op)
            /\ hist[k].era = T /\ ballot[Leader].era = T /\ System(k)
            /\ k \in committed[Leader] + 1 .. Len(hist)
        BY <2>2 DEF FoldsOne, T, c, d, Ruled, Pending, Open
      <3>2. k \in committed[Leader] + 1 .. f.slot /\ k \in 1 .. Len(hist)
        BY <1>1, <3>1
      <3>3. Crossing(c, d) /\ Crossing(d, c) /\ Crossing(d, d) /\ Crossing(c, c)
        <4>1. OpOver(Node, hist[k].op)
          BY <3>2, TInvTypes DEF OpsTyped
        <4> QED
          BY <1>1, <3>1, <4>1, NextCrosses, EraCrosses
      <3>4. \A n \in Voters(S, k) : n \in Node /\ ballot[n].era >= T
        <4>1. ASSUME NEW n \in Voters(S, k) PROVE n \in Node /\ ballot[n].era >= T
          <5>1. CASE n = Leader
            BY <1>1, <3>1, <5>1
          <5>2. CASE n # Leader
            <6>1. PICK v \in S : v[1] = k /\ v[2] = n
              BY <4>1, <5>2 DEF Voters
            <6>2. Vote(R, k, n)
              BY <6>1 DEF Votes
            <6>3. n \in Node /\ retained[n].era >= T
              BY <3>1, <6>2 DEF Vote
            <6>4. Placed(R, n)
              BY <6>3 DEF Ruled
            <6>5. retained[n].era \in 1 .. ballot[n].era
              BY <6>4 DEF Placed
            <6> QED
              BY <1>1, <1>4, <6>3, <6>5
          <5> QED
            BY <5>1, <5>2
        <4> QED
          BY <4>1
      <3>5. IsQuorum(c, Voters(S, k))
        BY <1>5, <3>2
      <3>6. ConfigOf(p) = c \/ ConfigOf(p) = d => Crossing(ConfigOf(p), d) /\ CrossedBy(p, H)
        BY <1>6, <3>3 DEF Crossing, CrossedBy
      <3>7. CASE p \in V
        <4>1. CASE EraOf(p.table) = T
          BY <1>7, <3>6, <3>7, <4>1
        <4>2. CASE EraOf(p.table) # T /\ ~Fenced(p)
          <5>1. Crossing(ConfigOf(p), c) /\ EraOf(p.table) < T
            BY <1>1, <1>7, <3>7, <4>2
          <5>2. ASSUME NEW Q, IsQuorum(ConfigOf(p), Q)
                PROVE  \E n \in Q : ballot'[n].era > EraOf(p.table)
            <6>1. PICK n \in Q : n \in Voters(S, k)
              BY <3>5, <5>1, <5>2 DEF Crossing
            <6>2. ballot'[n].era > EraOf(p.table)
              BY <1>1, <1>4, <1>7, <3>4, <3>7, <5>1, <6>1
            <6> QED
              BY <6>2
          <5> QED
            BY <5>2 DEF Fenced
        <4>3. CASE Fenced(p)
          BY <1>7, <3>7, <4>3
        <4> QED
          BY <4>1, <4>2, <4>3
      <3>8. CASE p \notin V
        <4>1. T <= EraOf(p.table) /\ EraOf(p.table) <= T + 1 /\ EraOf(p.table) \in Nat
          BY <1>2, <3>1, <3>8 DEF T
        <4>2. EraOf(p.table) = T \/ EraOf(p.table) = EraOf(f.table)
          BY <1>1, <3>1, <4>1
        <4>3. ConfigOf(p) = c \/ ConfigOf(p) = d
          BY <1>2, <3>8, <4>2 DEF T, c, d
        <4> QED
          BY <3>6, <4>3
      <3> QED
        BY <3>7, <3>8
    <2> QED
      BY <2>1, <2>2 DEF Comes
  <1>9. Crosses(W)'
    BY <1>3, <1>8 DEF Crosses
  <1>10. Covers(W, oks)'
    <2>1. \A p \in W : Fenced(p)' \/ CrossedBy(p, H)
      BY <1>8
    <2> QED
      BY <1>3, <2>1 DEF Covers, CrossedBy
  <1> QED
    BY <1>9, <1>10

\* The reigns Q are R and later ones.
Extended(R, Q) == DOMAIN R \subseteq DOMAIN Q /\ \A e \in DOMAIN R : Q[e] = R[e]

\* What the commits leave of the leader and the others.
LEMMA Committing ==
  ASSUME TInv, NEW V, NEW R, Ruled(V, R), NEW f, NEW b, Commits(f, b)
  PROVE  /\ Leader \in Node /\ hist' = hist /\ \A n \in Node : accepted'[n] = accepted[n]
         /\ table'[Leader] = f.table /\ committed'[Leader] = f.slot /\ ballot'[Leader] = b
         /\ retained'[Leader] = b /\ status'[Leader] = "Normal" /\ DOMAIN retained' = Node
         /\ \A n \in Node \ {Leader} : /\ table'[n] = table[n] /\ committed'[n] = committed[n]
                                       /\ ballot'[n] = ballot[n] /\ retained'[n] = retained[n]
                                       /\ status'[n] = status[n]
         /\ \A s : System(s)' = System(s)
  <1>1. Leader \in Node /\ Kept /\ DOMAIN retained = Node
    BY LeaderIn DEF TInv, Ruled
  <1> QED
    BY <1>1 DEF Commits, Kept, System

\* What was said is said of the later reigns and points.
LEMMA CommitSaid ==
  ASSUME TInv, NEW V, NEW R, Ruled(V, R), NEW W, V \subseteq W, NEW f, NEW b, Commits(f, b),
         NEW Q, Extended(R, Q), b.era = ballot[Leader].era \/ b.era \notin DOMAIN R
  PROVE  \A m \in msgs' : Said(W, Q, m)'
  <1>1. /\ Leader \in Node /\ (\A n \in Node : accepted'[n] = accepted[n]) /\ ballot'[Leader] = b
        /\ \A n \in Node \ {Leader} : retained'[n] = retained[n] /\ status'[n] = status[n]
    BY Committing
  <1>2. \A x : Reigned(R, x) => Reigned(Q, x)
    BY DEF Reigned, Extended
  <1>3. Reigned(R, ballot[Leader])
    BY DEF Ruled, Reigns
  <1>4. ASSUME NEW m \in msgs' PROVE Said(W, Q, m)'
    <2>1. CASE m \in msgs
      <3>1. Said(V, R, m)
        BY <2>1 DEF Ruled
      <3>2. Voted(m) => Voted(m)'
        <4>1. ASSUME Voted(m), b.era \notin DOMAIN R PROVE m.view.era # b.era
          <5>1. m.from \in Node /\ m.view.era \in 1 .. retained[m.from].era
            BY <4>1 DEF Voted
          <5>2. Placed(R, m.from) /\ Reigns(R) /\ Len(hist) \in Nat
            BY <5>1, TInvTypes DEF Ruled
          <5>3. /\ retained[m.from].era \in Nat /\ retained[m.from].era \in DOMAIN R
                /\ DOMAIN R = 1 .. ballot[Leader].era /\ ballot[Leader].era \in Nat
            BY <5>1, <5>2, ReignTypes
          <5>4. m.view.era \in DOMAIN R
            BY <5>1, <5>3
          <5> QED
            BY <4>1, <5>4
        <4> QED
          BY <1>1, <4>1 DEF Voted
      <3>3. m.tag = "Prepare" => \A r \in m.to : MemberIn(W, m.view.era, r)
        BY <3>1 DEF Said, MemberIn
      <3>4. m.tag = "StartView" => /\ Q[m.view.era].by # "rider"
                                   /\ Q[m.view.era].floor <= m.accepted
                                   /\ EraAt(W, m.committed, m.view.era)
        BY <3>1 DEF Said, EraAt, Extended, Reigned
      <3> QED
        BY <1>2, <3>1, <3>2, <3>3, <3>4 DEF Said
    <2>2. CASE m \notin msgs
      <3>1. m.tag \in {"Commit", "PlannedViewChange"} /\ (m.tag = "Commit" => m.view = ballot[Leader])
        BY <1>4, <2>2 DEF Commits
      <3> QED
        BY <1>2, <1>3, <3>1 DEF Said
    <2> QED
      BY <2>1, <2>2
  <1> QED
    BY <1>4

\* The entries that follow the new points.
LEMMA CommitEntries ==
  ASSUME TInv, TInv', NEW V, Agreed(V), NEW R, Ruled(V, R), NEW W, Agreed(W)', Outgrows(W, V),
         NEW f, NEW b, Commits(f, b), SoundTable(Node, f.table), f.slot \in Nat,
         committed[Leader] < f.slot, f.slot <= Len(hist)
  PROVE  /\ Due(W)' /\ Apart'
         /\ FoldsNone(f) /\ b = ballot[Leader] => Pending'
         /\ (\E k : FoldsOne(f, k)) => Pending'
         /\ \A j : Open(j)' <=> Open(j) /\ j > f.slot
  <1>1. /\ committed[Leader] \in Nat /\ Len(hist) \in Nat
        /\ hist' = hist /\ table'[Leader] = f.table /\ committed'[Leader] = f.slot
        /\ ballot'[Leader] = b /\ \A s : System(s)' = System(s)
    BY LeaderIn, TInvTypes, Committing
  <1>2. Due(V) /\ Apart /\ Pending
    BY DEF Ruled
  <1>3. \A j : Open(j)' <=> Open(j) /\ j > f.slot
    <2>1. ASSUME NEW j PROVE Open(j)' <=> Open(j) /\ j > f.slot
      <3>1. Open(j)' <=> j \in f.slot + 1 .. Len(hist) /\ System(j)
        BY <1>1 DEF Open
      <3>2. j \in f.slot + 1 .. Len(hist) <=> j \in committed[Leader] + 1 .. Len(hist) /\ j > f.slot
        BY <1>1
      <3> QED
        BY <3>1, <3>2 DEF Open
    <2> QED
      BY <2>1
  <1>4. Apart'
    BY <1>1, <1>2 DEF Apart
  <1>5. Due(W)'
    <2>1. ASSUME NEW p \in W, p.slot + 1 <= Len(hist), System(p.slot + 1)
          PROVE  hist[p.slot + 1].era = EraOf(p.table)
      <3>1. CASE p \in V
        BY <1>2, <2>1, <3>1 DEF Due
      <3>2. CASE p \notin V
        <4>1. committed[Leader] <= f.slot
          BY <1>1
        <4>2. /\ p.slot \in committed[Leader] + 1 .. f.slot /\ p.slot \in Nat
              /\ (\A k \in committed[Leader] + 1 .. p.slot : ~System(k)) => p.table = table[Leader]
          BY <2>1, <3>2, <4>1, PointsPast
        <4>3. Open(p.slot + 1)
          BY <1>1, <2>1, <4>2 DEF Open
        <4>4. \A k \in committed[Leader] + 1 .. p.slot : ~System(k)
          <5>1. ASSUME NEW k \in committed[Leader] + 1 .. p.slot, System(k) PROVE FALSE
            <6>1. Open(k)
              BY <1>1, <2>1, <4>2, <5>1 DEF Open
            <6>2. k = p.slot + 1
              BY <1>2, <4>3, <6>1 DEF Pending
            <6> QED
              BY <1>1, <4>2, <5>1, <6>2
          <5> QED
            BY <5>1
        <4> QED
          BY <1>2, <4>2, <4>3, <4>4 DEF Pending
      <3> QED
        BY <3>1, <3>2
    <2> QED
      BY <1>1, <2>1 DEF Due
  <1>6. ASSUME FoldsNone(f), b = ballot[Leader] PROVE Pending'
    BY <1>1, <1>2, <1>3, <1>6 DEF Pending, FoldsNone
  <1>7. ASSUME NEW k, FoldsOne(f, k) PROVE Pending'
    <2>1. \A j : ~Open(j)'
      <3>1. ASSUME NEW j, Open(j)' PROVE FALSE
        <4>1. Open(j) /\ j > f.slot
          BY <1>3, <3>1
        <4>2. j = k /\ k <= f.slot /\ k \in committed[Leader] + 1 .. Len(hist)
          BY <1>2, <1>7, <4>1 DEF FoldsOne, Pending, Open
        <4>3. k \in Nat
          BY <1>1, <4>2
        <4> QED
          BY <1>1, <4>1, <4>2, <4>3
      <3> QED
        BY <3>1
    <2> QED
      BY <2>1 DEF Pending
  <1> QED
    BY <1>3, <1>4, <1>5, <1>6, <1>7

\* Commits that no rider goes with stay in the reign.
LEMMA CommitStays ==
  ASSUME TInv, TInv', NEW V, Agreed(V), NEW R, Ruled(V, R), NEW W, Agreed(W)', Outgrows(W, V),
         NEW f, Commits(f, ballot[Leader]), SoundTable(Node, f.table), f.slot \in Nat,
         committed[Leader] < f.slot, f.slot <= Len(hist), status[Leader] = "Normal",
         FoldsNone(f) \/ \E k : FoldsOne(f, k) /\ Plain(hist[k].op),
         Decided(f, oks'), Votes(R, oks')
  PROVE  Ruled(W, R)'
  <1>1. PICK b : b = ballot[Leader]
    OBVIOUS
  <1>2. PICK S : S = oks'
    OBVIOUS
  <1>3. /\ Leader \in Node /\ hist' = hist /\ \A n \in Node : accepted'[n] = accepted[n]
        /\ table'[Leader] = f.table /\ committed'[Leader] = f.slot /\ ballot'[Leader] = b
        /\ retained'[Leader] = b /\ status'[Leader] = "Normal" /\ DOMAIN retained' = Node
        /\ \A n \in Node \ {Leader} : /\ table'[n] = table[n] /\ committed'[n] = committed[n]
                                      /\ ballot'[n] = ballot[n] /\ retained'[n] = retained[n]
                                      /\ status'[n] = status[n]
        /\ \A s : System(s)' = System(s)
    BY <1>1, Committing
  <1>4. /\ Reigns(R) /\ Entries(R) /\ Pending /\ Len(hist) \in Nat /\ committed[Leader] \in Nat
        /\ committed[Leader] >= INIT_SLOT
        /\ b.era \in Nat /\ Placed(R, Leader) /\ Commits(f, b) /\ Comes(f)
    <2>1. Reigns(R) /\ Entries(R) /\ Pending /\ Placed(R, Leader)
      BY <1>3 DEF Ruled
    <2>2. PlaceSound(Leader)
      BY <1>3 DEF TInv
    <2> QED
      BY <1>1, <1>3, <2>1, <2>2, TInvTypes DEF Reigns, Comes, PlaceSound, INIT_SLOT
  <1>5. /\ Due(W)' /\ Apart' /\ Pending'
        /\ \A j : Open(j)' <=> Open(j) /\ j > f.slot
    <2>1. /\ Due(W)' /\ Apart'
          /\ FoldsNone(f) /\ b = ballot[Leader] => Pending'
          /\ (\E k : FoldsOne(f, k)) => Pending'
          /\ \A j : Open(j)' <=> Open(j) /\ j > f.slot
      BY <1>4, CommitEntries
    <2> QED
      BY <1>1, <2>1
  <1>6. Reigns(R)'
    <2>1. \A e \in DOMAIN R : Nominee(R, e) => Nominee(R, e)'
      <3>1. \A k \in INIT_SLOT + 1 .. committed[Leader] : k \in INIT_SLOT + 1 .. f.slot
        BY <1>4 DEF INIT_SLOT
      <3> QED
        BY <1>3, <3>1 DEF Nominee
    <2> QED
      BY <1>1, <1>3, <1>4, <2>1 DEF Reigns
  <1>7. Entries(R)'
    <2>1. ASSUME NEW j \in INIT_SLOT + 1 .. Len(hist), System(j) PROVE Stamped(R, j)'
      <3>1. Stamped(R, j)
        BY <1>4, <2>1 DEF Entries
      <3>2. CASE j <= committed[Leader] \/ j > f.slot
        <4>1. \A v : Rides(R, j, v) => Rides(R, j, v)'
          <5>1. j \in Nat
            BY <1>4, <2>1 DEF INIT_SLOT
          <5>2. j <= f.slot => j <= committed[Leader]
            BY <1>4, <3>2, <5>1
          <5> QED
            BY <1>3, <5>2 DEF Rides, Starts
        <4> QED
          BY <1>3, <3>1, <4>1 DEF Stamped
      <3>3. CASE ~(j <= committed[Leader] \/ j > f.slot)
        <4>1. Open(j) /\ j \in committed[Leader] + 1 .. f.slot
          BY <1>4, <2>1, <3>3 DEF Open, INIT_SLOT
        <4>2. ~FoldsNone(f)
          BY <2>1, <4>1 DEF FoldsNone
        <4>3. PICK k : FoldsOne(f, k) /\ Plain(hist[k].op)
          BY <4>2
        <4>4. j = k
          BY <1>4, <4>1, <4>3 DEF Pending, FoldsOne
        <4> QED
          BY <1>3, <3>1, <4>3, <4>4 DEF Stamped
      <3> QED
        BY <3>2, <3>3
    <2> QED
      BY <1>3, <2>1 DEF Entries
  <1>8. ASSUME NEW p \in planned' PROVE Overlapping(p)'
    <2>1. PICK q \in planned : "target" \in DOMAIN p /\ p.target = q.target
      BY <1>8 DEF Commits
    <2>2. Overlapping(q)
      BY DEF Ruled
    <2>3. CASE FoldsNone(f)
      <3>1. \A j : Open(j) => Open(j)'
        <4>1. ASSUME NEW j, Open(j) PROVE j > f.slot
          <5>1. j \in committed[Leader] + 1 .. Len(hist) /\ ~(j \in committed[Leader] + 1 .. f.slot)
            BY <2>3, <4>1 DEF Open, FoldsNone
          <5> QED
            BY <1>4, <5>1
        <4> QED
          BY <1>5, <4>1
      <3>2. f.table = table[Leader]
        BY <2>3 DEF FoldsNone
      <3> QED
        BY <1>1, <1>3, <2>1, <2>2, <3>1, <3>2 DEF Overlapping
    <2>4. ASSUME NEW k, FoldsOne(f, k) PROVE Overlapping(p)'
      <3>1. EraOf(f.table) = EraOf(table[Leader]) + 1 /\ ballot[Leader].era = EraOf(table[Leader])
        BY <1>4, <2>4 DEF FoldsOne, Pending
      <3> QED
        BY <1>1, <1>3, <2>1, <2>2, <3>1 DEF Overlapping
    <2> QED
      BY <1>4, <2>3, <2>4 DEF Comes
  <1>9. ASSUME NEW n \in Node PROVE Placed(R, n)'
    <2>1. Placed(R, n)
      BY DEF Ruled
    <2>2. CASE n = Leader
      <3>1. retained[Leader] = ballot[Leader]
        BY <2>1, <2>2 DEF Placed
      <3> QED
        BY <1>1, <1>3, <2>1, <2>2, <3>1 DEF Placed
    <2>3. CASE n # Leader
      BY <1>3, <2>1, <2>3 DEF Placed
    <2> QED
      BY <2>2, <2>3
  <1>10. \A m \in msgs' : Said(W, R, m)'
    <2>1. V \subseteq W /\ Extended(R, R)
      BY DEF Outgrows, Extended
    <2>2. b.era = ballot[Leader].era
      BY <1>1
    <2> QED
      BY <1>4, <2>1, <2>2, CommitSaid
  <1>11. Votes(R, oks)'
    <2>1. ASSUME NEW v \in S PROVE Vote(R, v[1], v[2])'
      <3>1. Vote(R, v[1], v[2])
        BY <1>2, <2>1 DEF Votes
      <3>2. PICK s, n : s = v[1] /\ n = v[2]
        OBVIOUS
      <3>3. Vote(R, s, n)'
        BY <1>3, <3>1, <3>2 DEF Vote
      <3> QED
        BY <3>2, <3>3
    <2> QED
      BY <1>2, <2>1 DEF Votes
  <1>12. Crosses(W)' /\ Covers(W, oks)'
    <2>1. Decided(f, S) /\ Votes(R, S) /\ oks' = S
      BY <1>2
    <2>2. b.era >= ballot[Leader].era
      BY <1>1, <1>4
    <2> QED
      BY <1>4, <2>1, <2>2, CommitCrosses
  <1>13. Rooted(W)'
    BY DEF Ruled, Outgrows, Rooted
  <1> QED
    BY <1>3, <1>5, <1>6, <1>7, <1>8, <1>9, <1>10, <1>11, <1>12, <1>13 DEF Ruled

\* A rider that moves a ballot does move one.
LEMMA WalksOn ==
  ASSUME NEW op, NEW from, NEW to, Walks(op, from, to), from # to
  PROVE  ~Plain(op)
  <1> DEFINE b == [era |-> 0, view |-> from]
             c == [era |-> 0, view |-> to]
  <1>1. b.view = from /\ b # c
    <2>1. b.view = from /\ c.view = to
      OBVIOUS
    <2> QED
      BY <2>1
  <1> HIDE DEF b
  <1>2. Nominated({b}, <<op>>, 0) = {c}
    BY <1>1 DEF Walks
  <1> HIDE DEF c
  <1>3. ASSUME Plain(op) PROVE FALSE
    <2>1. Nominated({b}, <<op>>, 0) = {b}
      BY <1>3 DEF Plain
    <2> QED
      BY <1>1, <1>2, <2>1
  <1> QED
    BY <1>3

\* R, with reign x after the one of era B.
Begun(R, B, x) == [e \in 1 .. B + 1 |-> IF e = B + 1 THEN x ELSE R[e]]

\* Of R it keeps all.
LEMMA BegunIn ==
  ASSUME NEW B \in Nat, B >= 1, NEW R, DOMAIN R = 1 .. B, NEW x, NEW Q, Q = Begun(R, B, x)
  PROVE  /\ DOMAIN Q = 1 .. B + 1 /\ Q[B + 1] = x /\ Extended(R, Q)
         /\ \A e \in DOMAIN R : Q[e] = R[e] /\ e \in DOMAIN Q /\ e \in 1 .. B
         /\ \A e \in DOMAIN Q : e = B + 1 \/ (e \in DOMAIN R /\ e \in 1 .. B)
         /\ B + 1 \in DOMAIN Q /\ B + 1 \notin DOMAIN R /\ B \in DOMAIN R
         /\ \A y : Reigned(R, y) => Reigned(Q, y)
  <1>1. DOMAIN Q = 1 .. B + 1
    BY DEF Begun
  <1>2. /\ B + 1 \in 1 .. B + 1 /\ B + 1 \notin 1 .. B /\ B \in 1 .. B
        /\ \A e \in 1 .. B + 1 : e = B + 1 \/ e \in 1 .. B
        /\ \A e \in 1 .. B : e \in 1 .. B + 1 /\ e # B + 1
    OBVIOUS
  <1>3. Q[B + 1] = x /\ \A e \in DOMAIN R : Q[e] = R[e]
    BY <1>1, <1>2 DEF Begun
  <1>4. DOMAIN R \subseteq DOMAIN Q
    BY <1>1, <1>2
  <1>5. \A y : Reigned(R, y) => Reigned(Q, y)
    BY <1>3, <1>4 DEF Reigned
  <1> QED
    BY <1>1, <1>2, <1>3, <1>4, <1>5 DEF Extended

\* The reigns with that of the rider.
LEMMA RiderReigns ==
  ASSUME TInv, NEW V, NEW R, Ruled(V, R), NEW f, NEW b, NEW B, B = ballot[Leader].era,
         f.slot \in Nat, committed[Leader] < f.slot,
         f.slot <= Len(hist), NEW k, FoldsOne(f, k), NEW v, Rides(R, k, v),
         b = [era |-> B + 1, view |-> v], Commits(f, b),
         NEW Q, Q = Begun(R, B, [view |-> v, floor |-> k, by |-> "rider"])
  PROVE  /\ B \in Nat /\ B >= 1 /\ DOMAIN R = 1 .. B /\ DOMAIN Q = 1 .. B + 1
         /\ Extended(R, Q) /\ Q[B + 1] = [view |-> v, floor |-> k, by |-> "rider"]
         /\ b.era = B + 1 /\ v \in Nat /\ v > R[B].view
         /\ k \in committed[Leader] + 1 .. f.slot /\ System(k) /\ hist[k].era = B
         /\ ~Plain(hist[k].op)
         /\ \A j : Open(j) => j = k
         /\ EraOf(table[Leader]) = B
  <1>1. Reigns(R) /\ Pending /\ Leader \in Node /\ Len(hist) \in Nat /\ committed[Leader] \in Nat
    BY LeaderIn, TInvTypes DEF Ruled
  <1>2. /\ B \in Nat /\ B >= 1 /\ DOMAIN R = 1 .. B
        /\ \A e \in DOMAIN R : R[e].view \in Nat
    BY <1>1 DEF Reigns
  <1>3. /\ Open(k) /\ k <= f.slot /\ \A j : Open(j) => j = k
        /\ hist[k].era = B /\ EraOf(table[Leader]) = B
    BY <1>1 DEF FoldsOne, Pending
  <1>4. k \in committed[Leader] + 1 .. Len(hist) /\ System(k)
    BY <1>3 DEF Open
  <1>5. k \in committed[Leader] + 1 .. f.slot
    BY <1>1, <1>3, <1>4
  <1>6. v \in Nat /\ v > R[B].view /\ Walks(hist[k].op, R[B].view, v)
    BY <1>3 DEF Rides
  <1>7. B \in DOMAIN R
    BY <1>2
  <1>8. R[B].view # v
    BY <1>2, <1>6, <1>7
  <1>9. ~Plain(hist[k].op)
    BY <1>6, <1>8, WalksOn
  <1>10. DOMAIN Q = 1 .. B + 1 /\ Q[B + 1] = [view |-> v, floor |-> k, by |-> "rider"]
         /\ Extended(R, Q)
    BY <1>2, BegunIn
  <1>11. b.era = B + 1
    OBVIOUS
  <1> QED
    BY <1>2, <1>3, <1>4, <1>5, <1>6, <1>9, <1>10, <1>11

\* Commits that a rider goes with begin its reign.
LEMMA CommitRides ==
  ASSUME TInv, TInv', NEW V, Agreed(V), NEW R, Ruled(V, R), NEW W, Agreed(W)', Outgrows(W, V),
         NEW f, NEW b, NEW B, B = ballot[Leader].era,
         SoundTable(Node, f.table), f.slot \in Nat, committed[Leader] < f.slot,
         f.slot <= Len(hist), NEW k, FoldsOne(f, k), NEW v, Rides(R, k, v),
         b = [era |-> B + 1, view |-> v], Commits(f, b),
         Decided(f, oks'), Votes(R, oks'),
         NEW Q, Q = Begun(R, B, [view |-> v, floor |-> k, by |-> "rider"])
  PROVE  Ruled(W, Q)'
  <1>2. PICK S : S = oks'
    OBVIOUS
  <1>3. /\ Leader \in Node /\ hist' = hist /\ \A n \in Node : accepted'[n] = accepted[n]
        /\ table'[Leader] = f.table /\ committed'[Leader] = f.slot /\ ballot'[Leader] = b
        /\ retained'[Leader] = b /\ status'[Leader] = "Normal" /\ DOMAIN retained' = Node
        /\ \A n \in Node \ {Leader} : /\ table'[n] = table[n] /\ committed'[n] = committed[n]
                                      /\ ballot'[n] = ballot[n] /\ retained'[n] = retained[n]
                                      /\ status'[n] = status[n]
        /\ \A s : System(s)' = System(s)
    BY Committing
  <1>4. /\ Reigns(R) /\ Entries(R) /\ Len(hist) \in Nat /\ committed[Leader] \in Nat
        /\ committed[Leader] >= INIT_SLOT /\ accepted[Leader] = Len(hist)
    <2>1. PlaceSound(Leader)
      BY <1>3 DEF TInv
    <2> QED
      BY <1>3, <2>1, TInvTypes DEF Ruled, TInv, PlaceSound, INIT_SLOT
  <1>5. /\ B \in Nat /\ B >= 1 /\ DOMAIN R = 1 .. B /\ DOMAIN Q = 1 .. B + 1
        /\ Extended(R, Q) /\ Q[B + 1] = [view |-> v, floor |-> k, by |-> "rider"]
        /\ b.era = B + 1 /\ v \in Nat /\ v > R[B].view
        /\ k \in committed[Leader] + 1 .. f.slot /\ System(k) /\ hist[k].era = B
        /\ ~Plain(hist[k].op)
        /\ \A j : Open(j) => j = k
        /\ EraOf(table[Leader]) = B
    BY RiderReigns
  <1>6. /\ \A e \in DOMAIN R : Q[e] = R[e] /\ e \in DOMAIN Q /\ e \in 1 .. B
        /\ \A e \in DOMAIN Q : e = B + 1 \/ (e \in DOMAIN R /\ e \in 1 .. B)
        /\ B + 1 \in DOMAIN Q /\ B + 1 \notin DOMAIN R /\ B \in DOMAIN R
        /\ \A x : Reigned(R, x) => Reigned(Q, x)
    <2>1. B \in Nat /\ B >= 1 /\ DOMAIN R = 1 .. B
      BY <1>5
    <2>2. PICK x : x = [view |-> v, floor |-> k, by |-> "rider"]
      OBVIOUS
    <2>3. Q = Begun(R, B, x)
      BY <2>2
    <2> QED
      BY <2>1, <2>3, BegunIn
  <1>7. /\ Due(W)' /\ Apart' /\ Pending'
        /\ \A j : Open(j)' <=> Open(j) /\ j > f.slot
    <2>1. /\ Due(W)' /\ Apart'
          /\ FoldsNone(f) /\ b = ballot[Leader] => Pending'
          /\ (\E j : FoldsOne(f, j)) => Pending'
          /\ \A j : Open(j)' <=> Open(j) /\ j > f.slot
      BY <1>4, CommitEntries
    <2> QED
      BY <2>1
  <1>8. \A x : Reigned(R, x) => Reigned(Q, x)
    BY <1>6
  <1>9. Reigned(Q, b)
    <2>1. b.era \in DOMAIN Q /\ Q[b.era].view = v
      BY <1>5, <1>6
    <2> QED
      BY <1>5, <2>1 DEF Reigned
  <1>10. Reigns(Q)'
    <2>1. ASSUME NEW e \in DOMAIN Q
          PROVE  /\ Q[e].view \in Nat /\ Q[e].view >= e - 1
                 /\ Q[e].floor \in INIT_SLOT .. Len(hist)
                 /\ Q[e].by = "rider" => Nominee(Q, e)'
      <3>1. CASE e = B + 1
        <4>1. R[B].view \in Nat /\ R[B].view >= B - 1
          BY <1>4, <1>6 DEF Reigns
        <4>2. Q[e].view = v /\ Q[e].floor = k
          BY <1>5, <3>1
        <4>3. v >= e - 1 /\ k \in INIT_SLOT .. Len(hist) /\ k \in INIT_SLOT + 1 .. f.slot
              /\ e - 1 = B
          <5>1. PICK w : w = R[B].view
            OBVIOUS
          <5>2. v >= B
            BY <1>5, <4>1, <5>1
          <5>3. e - 1 = B
            BY <1>5, <3>1
          <5>4. k \in INIT_SLOT .. Len(hist) /\ k \in INIT_SLOT + 1 .. f.slot
            <6>1. k \in committed[Leader] + 1 .. f.slot
              BY <1>5
            <6>2. /\ committed[Leader] \in Nat /\ committed[Leader] >= INIT_SLOT
                  /\ f.slot \in Nat /\ f.slot <= Len(hist) /\ Len(hist) \in Nat
              BY <1>4 DEF INIT_SLOT
            <6> QED
              BY <6>1, <6>2 DEF INIT_SLOT
          <5> QED
            BY <5>2, <5>3, <5>4
        <4>4. Nominee(Q, e)'
          BY <1>3, <1>5, <1>6, <4>2, <4>3 DEF Nominee
        <4> QED
          BY <1>5, <4>2, <4>3, <4>4
      <3>2. CASE e \in DOMAIN R
        <4>1. /\ R[e].view \in Nat /\ R[e].view >= e - 1 /\ R[e].floor \in INIT_SLOT .. Len(hist)
              /\ R[e].by = "rider" => Nominee(R, e)
          BY <1>4, <3>2 DEF Reigns
        <4>2. Q[e] = R[e]
          BY <1>6, <3>2
        <4>3. Nominee(R, e) => Nominee(Q, e)'
          <5>1. \A j \in INIT_SLOT + 1 .. committed[Leader] : j \in INIT_SLOT + 1 .. f.slot
            BY <1>4 DEF INIT_SLOT
          <5> QED
            BY <1>3, <1>6, <4>2, <5>1 DEF Nominee
        <4> QED
          BY <4>1, <4>2, <4>3
      <3> QED
        BY <1>6, <3>1, <3>2
    <2>0. B \in Nat
      BY <1>5
    <2>2. ASSUME NEW d \in DOMAIN Q, NEW e \in DOMAIN Q, d < e PROVE Q[d].view < Q[e].view
      <3>1. CASE e \in DOMAIN R
        <4>1. d \in DOMAIN R
          BY <1>6, <2>0, <2>2, <3>1
        <4> QED
          BY <1>4, <1>6, <2>2, <3>1, <4>1 DEF Reigns
      <3>2. CASE e = B + 1
        <4>1. d \in DOMAIN R /\ d <= B /\ d \in Nat
          BY <1>6, <2>0, <2>2, <3>2
        <4>2. R[d].view \in Nat /\ R[B].view \in Nat /\ (d < B => R[d].view < R[B].view)
          BY <1>4, <1>6, <4>1 DEF Reigns
        <4>3. Q[d].view = R[d].view /\ Q[e].view = v
          BY <1>5, <1>6, <3>2, <4>1
        <4>4. v \in Nat /\ v > R[B].view
          BY <1>5
        <4>5. R[d].view < v
          <5>1. CASE d = B
            BY <4>4, <5>1
          <5>2. CASE d < B
            <6>1. R[d].view < R[B].view
              BY <4>2, <5>2
            <6>2. PICK x, y : x = R[d].view /\ y = R[B].view
              OBVIOUS
            <6>3. x \in Nat /\ y \in Nat /\ x < y /\ y < v
              BY <4>2, <4>4, <6>1, <6>2
            <6>4. x < v
              BY <4>4, <6>3
            <6> QED
              BY <6>2, <6>4
          <5> QED
            BY <2>0, <4>1, <5>1, <5>2
        <4> QED
          BY <4>3, <4>5
      <3> QED
        BY <1>6, <3>1, <3>2
    <2>3. ballot'[Leader].era = B + 1 /\ B + 1 \in Nat /\ B + 1 >= 1
      BY <1>3, <1>5
    <2>4. Reigned(Q, ballot[Leader])'
      BY <1>3, <1>9 DEF Reigned, Leader
    <2> QED
      BY <1>3, <1>5, <2>1, <2>2, <2>3, <2>4 DEF Reigns, Leader
  <1>11. Entries(Q)'
    <2>1. ASSUME NEW j \in INIT_SLOT + 1 .. Len(hist), System(j) PROVE Stamped(Q, j)'
      <3>1. Stamped(R, j)
        BY <1>4, <2>1 DEF Entries
      <3>2. /\ hist[j].era \in DOMAIN Q /\ hist[j].era \in DOMAIN R
            /\ \A e \in DOMAIN Q : e <= hist[j].era => e \in DOMAIN R
        <4>1. hist[j].era \in DOMAIN R /\ hist[j].era \in 1 .. B
          BY <1>6, <3>1 DEF Stamped
        <4>2. ~(B + 1 <= hist[j].era)
          BY <1>5, <4>1
        <4> QED
          BY <1>6, <4>1, <4>2
      <3>3. \A e \in DOMAIN Q : e <= hist[j].era => Q[e].floor < j
        BY <1>6, <3>1, <3>2 DEF Stamped
      <3>4. CASE Plain(hist[j].op)
        BY <1>3, <3>2, <3>3, <3>4 DEF Stamped
      <3>5. ASSUME NEW u, Rides(R, j, u), j <= committed[Leader] \/ j > f.slot
            PROVE  Rides(Q, j, u)'
        <4>1. j <= f.slot => j <= committed[Leader]
          BY <1>4, <2>1, <3>5 DEF INIT_SLOT
        <4>2. \A e : Starts(R, e, u, j) => Starts(Q, e, u, j)
          BY <1>6 DEF Starts
        <4> QED
          BY <1>3, <1>6, <3>2, <3>5, <4>1, <4>2 DEF Rides, Starts
      <3>6. CASE ~(j <= committed[Leader] \/ j > f.slot)
        <4>1. Open(j)
          BY <1>4, <2>1, <3>6 DEF Open, INIT_SLOT
        <4>2. j = k
          BY <1>5, <4>1
        <4>3. Starts(Q, B + 1, v, k)
          BY <1>5, <1>6 DEF Starts
        <4>4. Rides(Q, j, v)'
          BY <1>3, <1>5, <1>6, <4>2, <4>3 DEF Rides, Starts
        <4> QED
          BY <1>3, <3>2, <3>3, <4>4 DEF Stamped
      <3>7. CASE (j <= committed[Leader] \/ j > f.slot) /\ ~Plain(hist[j].op)
        <4>1. PICK u : Rides(R, j, u)
          BY <3>1, <3>7 DEF Stamped
        <4>2. Rides(Q, j, u)'
          BY <3>5, <3>7, <4>1
        <4> QED
          BY <1>3, <3>2, <3>3, <4>2 DEF Stamped
      <3> QED
        BY <3>4, <3>6, <3>7
    <2> QED
      BY <1>3, <2>1 DEF Entries
  <1>12. ASSUME NEW p \in planned' PROVE FALSE
    <2>1. PICK q \in planned : TRUE
      BY <1>12 DEF Commits
    <2>2. Overlapping(q)
      BY DEF Ruled
    <2>3. PICK j : Open(j) /\ Plain(hist[j].op)
      <3>1. EraOf(table[Leader]) # ballot[Leader].era + 1
        BY <1>5
      <3> QED
        BY <2>2, <3>1 DEF Overlapping
    <2> QED
      BY <1>5, <2>3
  <1>13. ASSUME NEW n \in Node PROVE Placed(Q, n)'
    <2>1. Placed(R, n)
      BY DEF Ruled
    <2>2. CASE n = Leader
      <3>1. k <= accepted[Leader] /\ Q[b.era].floor = k
        BY <1>4, <1>5
      <3>2. b.era \in DOMAIN Q /\ b.era \in 1 .. b.era /\ accepted[Leader] >= Q[b.era].floor
        BY <1>4, <1>5, <1>6, <3>1
      <3> QED
        BY <1>3, <1>9, <2>2, <3>2 DEF Placed
    <2>3. CASE n # Leader
      <3>1. /\ ballot'[n] = ballot[n] /\ retained'[n] = retained[n] /\ status'[n] = status[n]
            /\ accepted'[n] = accepted[n]
        BY <1>3, <2>3
      <3>2. ballot[n].era \in DOMAIN R /\ retained[n].era \in 1 .. ballot[n].era
        BY <2>1 DEF Placed
      <3>3. retained[n].era \in DOMAIN R
        BY <1>3, <1>4, <2>1, ReignTypes
      <3> QED
        BY <1>6, <1>8, <2>1, <3>1, <3>2, <3>3 DEF Placed
    <2> QED
      BY <2>2, <2>3
  <1>14. \A m \in msgs' : Said(W, Q, m)'
    <2>1. V \subseteq W /\ Extended(R, Q)
      BY <1>5 DEF Outgrows
    <2>2. b.era \notin DOMAIN R
      BY <1>5, <1>6
    <2> QED
      BY <2>1, <2>2, CommitSaid
  <1>15. Votes(Q, oks)'
    <2>1. ASSUME NEW w \in S PROVE Vote(Q, w[1], w[2])'
      <3>1. Vote(R, w[1], w[2])
        BY <1>2, <2>1 DEF Votes
      <3>2. PICK s, n : s = w[1] /\ n = w[2]
        OBVIOUS
      <3>3. Vote(R, s, n) /\ n \in Node /\ n # Leader
        BY <3>1, <3>2 DEF Vote
      <3>4. ~(EraOf(table[n]) >= B + 1)
        <4>1. PICK q \in V : q = PointAt(Leader)
          BY <1>3 DEF Agreed
        <4>2. PICK p \in V : p = PointAt(n)
          BY <3>3 DEF Agreed
        <4>3. p.slot <= q.slot
          BY <3>3, <4>1, <4>2 DEF TInv, PlaceSound, PointAt
        <4>4. EraOf(p.table) <= EraOf(q.table)
          BY <4>3, LaterEra
        <4>5. EraOf(table[n]) <= B /\ EraOf(table[n]) \in Nat
          BY <1>5, <3>3, <4>1, <4>2, <4>4, TInvTypes DEF PointAt
        <4> QED
          BY <1>5, <4>5
      <3>5. ASSUME NEW e \in DOMAIN Q
            PROVE  (IF Q[e].by = "rider" THEN EraOf(table[n]) >= e ELSE s > Q[e].floor)
                      => retained[n].era >= e
        <4>1. CASE e \in DOMAIN R
          BY <1>6, <3>3, <4>1 DEF Vote
        <4>2. CASE e = B + 1
          <5>1. Q[e].by = "rider"
            BY <1>5, <4>2
          <5> QED
            BY <3>4, <4>2, <5>1
        <4> QED
          BY <1>6, <4>1, <4>2
      <3>6. Vote(Q, s, n)'
        BY <1>3, <3>3, <3>5 DEF Vote
      <3> QED
        BY <3>2, <3>6
    <2> QED
      BY <1>2, <2>1 DEF Votes
  <1>16. Crosses(W)' /\ Covers(W, oks)'
    <2>1. Decided(f, S) /\ Votes(R, S) /\ oks' = S /\ Comes(f)
      BY <1>2 DEF Comes
    <2>2. b.era \in Nat /\ b.era >= ballot[Leader].era
      BY <1>5
    <2> QED
      BY <2>1, <2>2, CommitCrosses
  <1>17. Rooted(W)'
    BY DEF Ruled, Outgrows, Rooted
  <1> QED
    BY <1>3, <1>7, <1>10, <1>11, <1>12, <1>13, <1>14, <1>15, <1>16, <1>17 DEF Ruled

-----------------------------------------------------------------------------
(* The steps of the leader.                                                *)

\* The reigns and points of a state.
Ruling == \E V, R : Agreed(V) /\ Ruled(V, R)

\* The points stay while the leader commits nothing.
LEMMA QuietAgreed ==
  ASSUME TInv, NEW V, Agreed(V), NEW R, LeaderQuiet(R)
  PROVE  Agreed(V)'
  <1>1. PICK top : top = PointAt(Leader)
    OBVIOUS
  <1>2. \A r \in Node : PointAt(r)' = PointAt(r)
    BY DEF LeaderQuiet, PointAt
  <1>3. PointAt(Leader)' = top
    <2>1. Leader \in Node
      BY LeaderIn
    <2> QED
      BY <1>1, <1>2, <2>1 DEF LeaderQuiet, PointAt, Leader
  <1>4. hist' = hist
    BY DEF LeaderQuiet
  <1>5. Chain(V, top)' /\ Past(top)' /\ \A m : Known(V, m) => Known(V, m)'
    BY <1>1, <1>4, SameLog DEF Agreed
  <1>6. Chain(V, PointAt(Leader))' /\ Past(PointAt(Leader))'
    BY <1>3, <1>5
  <1>7. \A m \in msgs' : m.tag = "Fuse" => m \in msgs
    BY DEF LeaderQuiet
  <1> QED
    BY <1>2, <1>5, <1>6, <1>7 DEF Agreed

\* What only counts or tells leaves the reigns and the points.
LEMMA QuietRuling ==
  ASSUME TInv, NEW V, Agreed(V), NEW R, Ruled(V, R), LeaderQuiet(R)
  PROVE  Ruling'
  <1>1. Agreed(V)' /\ Ruled(V, R)'
    BY QuietAgreed, QuietRuled
  <1> QED
    BY <1>1 DEF Ruling

\* A fault of the leader leaves its reigns.
LEMMA FaultRuling ==
  ASSUME TInv, NEW V, Agreed(V), NEW R, Ruled(V, R), Fault(Leader)
  PROVE  Ruling'
  <1>1. LeaderQuiet(R)
    BY DEF Fault, leaderVars, fetchVars, LeaderQuiet, Ruled
  <1> QED
    BY <1>1, QuietRuling

\* What the leader publishes of its fold, past what it had committed.
LEMMA PublishCommits ==
  ASSUME TInv, NEW V, NEW R, Ruled(V, R), NEW f, NEW b,
         Publish(Leader, "Normal", accepted[Leader], b, f), hist' = hist,
         planned' = {IF p \in Solicits(f) THEN [p EXCEPT !.solicited = TRUE] ELSE p : p \in planned},
         NEW ms, Send(ms),
         \A m \in ms : /\ m.tag \in {"Commit", "PlannedViewChange"}
                       /\ m.tag = "Commit" => m.view = ballot[Leader]
  PROVE  Commits(f, b)
  <1>1. /\ hist' = hist
        /\ \A n \in Node : accepted'[n] = accepted[n]
        /\ committed' = [committed EXCEPT ![Leader] = f.slot]
        /\ table' = [table EXCEPT ![Leader] = f.table]
        /\ ballot' = [ballot EXCEPT ![Leader] = b]
        /\ retained' = [retained EXCEPT ![Leader] = b]
        /\ status' = [status EXCEPT ![Leader] = "Normal"]
    <2>1. DOMAIN accepted = Node
      BY DEF TInv, Kept
    <2> QED
      BY <2>1 DEF Publish
  <1>2. ASSUME NEW p \in planned'
        PROVE  "target" \in DOMAIN p /\ \E q \in planned : p.target = q.target
    <2>1. PICK q \in planned : p = q \/ p = [q EXCEPT !.solicited = TRUE]
      BY <1>2
    <2>2. "target" \in DOMAIN q
      BY DEF Ruled, Overlapping
    <2>3. PICK x : x = TRUE
      OBVIOUS
    <2>4. p = q \/ p = [q EXCEPT !.solicited = x]
      BY <2>1, <2>3, Zenon
    <2>5. DOMAIN p = DOMAIN q /\ p["target"] = q["target"]
      BY <2>2, <2>4
    <2> QED
      BY <2>2, <2>5, Zenon
  <1>3. msgs \subseteq msgs' /\ \A m \in msgs' \ msgs : m \in ms
    BY DEF Send
  <1> QED
    BY <1>1, <1>2, <1>3, Zenon DEF Commits

\* What the fold of the leader walks to begins a reign, or stays in its own.
LEMMA CommitRuling ==
  ASSUME TInv, TInv', NEW V, Agreed(V), NEW R, Ruled(V, R), NEW W, Agreed(W)', Outgrows(W, V),
         NEW f, NEW b \in Walked(Leader, f), Commits(f, b), SoundTable(Node, f.table), f.slot \in Nat,
         committed[Leader] < f.slot, f.slot <= Len(hist), Comes(f),
         Decided(f, oks'), Votes(R, oks')
  PROVE  Ruling'
  <1>1. status[Leader] = "Normal" /\ Entries(R) /\ Pending /\ Reigned(R, ballot[Leader])
    BY DEF Ruled, Reigns
  <1>2. ASSUME f.running = {ballot[Leader]},
               FoldsNone(f) \/ \E k : FoldsOne(f, k) /\ Plain(hist[k].op)
        PROVE  Ruling'
    <2>1. b = ballot[Leader]
      BY <1>2 DEF Walked
    <2>2. Commits(f, ballot[Leader])
      BY <2>1
    <2>3. Ruled(W, R)'
      BY <1>1, <1>2, <2>2, CommitStays
    <2> QED
      BY <2>3 DEF Ruling
  <1>3. CASE FoldsNone(f)
    BY <1>2, <1>3 DEF FoldsNone
  <1>4. ASSUME NEW k, FoldsOne(f, k) PROVE Ruling'
    <2>1. k \in INIT_SLOT + 1 .. Len(hist) /\ System(k) /\ hist[k].era = ballot[Leader].era
      <3>1. Open(k) /\ committed[Leader] \in Nat /\ committed[Leader] >= INIT_SLOT /\ Len(hist) \in Nat
        BY <1>4, LeaderIn, TInvTypes DEF FoldsOne, TInv, PlaceSound, INIT_SLOT
      <3> QED
        BY <1>1, <3>1 DEF Open, Pending, INIT_SLOT
    <2>2. Stamped(R, k)
      BY <1>1, <2>1 DEF Entries
    <2>3. f.running = Nominated({ballot[Leader]}, <<hist[k].op>>, EraOf(f.table))
          /\ EraOf(f.table) = ballot[Leader].era + 1
      BY <1>1, <1>4 DEF FoldsOne, Pending
    <2>4. CASE Plain(hist[k].op)
      <3>1. f.running = {ballot[Leader]}
        BY <2>3, <2>4 DEF Plain
      <3> QED
        BY <1>2, <1>4, <2>4, <3>1
    <2>5. ASSUME NEW v, Rides(R, k, v) PROVE Ruling'
      <3>1. PICK B : B = ballot[Leader].era
        OBVIOUS
      <3>2. ballot[Leader].view = R[B].view
        BY <1>1, <3>1 DEF Reigned
      <3>3. Walks(hist[k].op, R[B].view, v)
        BY <2>1, <2>5, <3>1 DEF Rides
      <3>4. f.running = {[era |-> B + 1, view |-> v]}
        BY <2>3, <3>1, <3>2, <3>3 DEF Walks
      <3>5. b = [era |-> B + 1, view |-> v]
        BY <3>4 DEF Walked
      <3>6. PICK Q : Q = Begun(R, B, [view |-> v, floor |-> k, by |-> "rider"])
        OBVIOUS
      <3>7. Ruled(W, Q)'
        BY <1>4, <2>5, <3>1, <3>5, <3>6, CommitRides
      <3> QED
        BY <3>7 DEF Ruling
    <2> QED
      BY <2>2, <2>4, <2>5 DEF Stamped
  <1> QED
    BY <1>3, <1>4 DEF Comes

\* A leader that commits stays in its reign or enters that of a rider.
LEMMA FinishRuling ==
  ASSUME NoFused, TInv, TInv', Whole, NEW V, Agreed(V), NEW R, Ruled(V, R), NEW votes, oks \subseteq votes,
         Votes(R, votes), NEW c, c = CascadeFrontier(votes), FinishCommitQuorum(c, votes)
  PROVE  Ruling'
  <1>1. /\ Leader \in Node /\ committed[Leader] \in Nat /\ accepted[Leader] = Len(hist)
        /\ accepted[Leader] \in Nat /\ committed[Leader] <= accepted[Leader]
        /\ SoundTable(Node, table[Leader]) /\ OpsTyped(Len(hist))
    BY LeaderIn, TInvTypes DEF TInv, PlaceSound
  <1>2. c \in committed[Leader] .. Len(hist)
        /\ \A s \in committed[Leader] + 1 .. c : IsQuorum(Config(Leader), Voters(votes, s))
    BY <1>1, FrontierIn, CascadeVoted
  <1>3. PICK W : Agreed(W)' /\ Outgrows(W, V)
    <2>1. Leads1
      BY <1>1, <1>2, FinishLeads
    <2>2. WholeRuns
      BY DEF NoFused, WholeRuns
    <2> QED
      BY <2>1, <2>2, LeadsAgreed
  <1>4. PICK f \in FoldCommitted(Leader, Len(hist), c, TRUE) : \E b \in Walked(Leader, f) :
           \/ c = committed[Leader] /\ oks' = votes
              /\ UNCHANGED <<hist, progressVars, planned, fetchVars, msgs>>
           \/ Fault(Leader)
           \/ /\ Publish(Leader, "Normal", accepted[Leader], b, f)
              /\ oks' = votes
              /\ planned' = {IF p \in Solicits(f) THEN [p EXCEPT !.solicited = TRUE]
                             ELSE p : p \in planned}
              /\ Send({[tag |-> "Commit", to |-> Backups, view |-> ballot[Leader],
                        committed |-> f.slot]}
                      \cup {[tag |-> "PlannedViewChange", to |-> p.pivot.q_i \ {Leader},
                             view |-> p.target] : p \in Solicits(f)})
              /\ UNCHANGED <<hist, fetchVars>>
    BY <1>1, Zenon DEF FinishCommitQuorum
  <1>5. PICK b \in Walked(Leader, f) :
           \/ c = committed[Leader] /\ oks' = votes
              /\ UNCHANGED <<hist, progressVars, planned, fetchVars, msgs>>
           \/ Fault(Leader)
           \/ /\ Publish(Leader, "Normal", accepted[Leader], b, f)
              /\ oks' = votes
              /\ planned' = {IF p \in Solicits(f) THEN [p EXCEPT !.solicited = TRUE]
                             ELSE p : p \in planned}
              /\ Send({[tag |-> "Commit", to |-> Backups, view |-> ballot[Leader],
                        committed |-> f.slot]}
                      \cup {[tag |-> "PlannedViewChange", to |-> p.pivot.q_i \ {Leader},
                             view |-> p.target] : p \in Solicits(f)})
              /\ UNCHANGED <<hist, fetchVars>>
    BY <1>4, Zenon
  <1>6. CASE c = committed[Leader] /\ oks' = votes
             /\ UNCHANGED <<hist, progressVars, planned, fetchVars, msgs>>
    <2>1. LeaderQuiet(R)
      BY <1>6 DEF progressVars, LeaderQuiet, Ruled
    <2> QED
      BY <2>1, QuietRuling
  <1>7. CASE Fault(Leader)
    BY <1>7, FaultRuling
  <1>8. CASE /\ Publish(Leader, "Normal", accepted[Leader], b, f)
             /\ oks' = votes
             /\ planned' = {IF p \in Solicits(f) THEN [p EXCEPT !.solicited = TRUE]
                            ELSE p : p \in planned}
             /\ Send({[tag |-> "Commit", to |-> Backups, view |-> ballot[Leader],
                       committed |-> f.slot]}
                     \cup {[tag |-> "PlannedViewChange", to |-> p.pivot.q_i \ {Leader},
                            view |-> p.target] : p \in Solicits(f)})
             /\ UNCHANGED <<hist, fetchVars>>
    <2> DEFINE ms == {[tag |-> "Commit", to |-> Backups, view |-> ballot[Leader],
                       committed |-> f.slot]}
                     \cup {[tag |-> "PlannedViewChange", to |-> p.pivot.q_i \ {Leader},
                            view |-> p.target] : p \in Solicits(f)}
    <2>1. \A m \in ms : /\ m.tag \in {"Commit", "PlannedViewChange"}
                        /\ m.tag = "Commit" => m.view = ballot[Leader]
      OBVIOUS
    <2>2. Send(ms) /\ oks' = votes /\ hist' = hist /\ Publish(Leader, "Normal", accepted[Leader], b, f)
          /\ planned' = {IF p \in Solicits(f) THEN [p EXCEPT !.solicited = TRUE] ELSE p : p \in planned}
      BY <1>8, Zenon
    <2> HIDE DEF ms
    <2>3. Commits(f, b)
      BY <2>1, <2>2, PublishCommits
    <2>4. /\ f.slot \in committed[Leader] .. c /\ Comes(f) /\ SoundTable(Node, f.table)
      <3>1. Apart /\ Pending /\ status[Leader] = "Normal"
        BY DEF Ruled, Reigns
      <3>2. f.slot \in committed[Leader] .. c /\ Comes(f)
        BY <1>2, <3>1, LeaderWalk DEF Comes
      <3>3. c \in Nat /\ c <= Len(hist) /\ Len(hist) \in Nat /\ committed[Leader] <= c
        BY <1>1, <1>2
      <3>4. SoundTable(Node, f.table)
        BY <1>1, <3>3, FoldSound
      <3> QED
        BY <3>2, <3>4
    <2>5. f.slot \in Nat /\ committed[Leader] <= f.slot /\ f.slot <= Len(hist) /\ f.slot <= c
      BY <1>1, <1>2, <2>4
    <2>6. CASE committed[Leader] < f.slot
      <3>1. \A s \in committed[Leader] + 1 .. f.slot : s \in committed[Leader] + 1 .. c
        BY <1>1, <1>2, <2>5
      <3>2. PICK S : S = oks'
        OBVIOUS
      <3>3. Decided(f, S) /\ Votes(R, S)
        BY <1>2, <2>2, <3>1, <3>2 DEF Decided
      <3> QED
        BY <1>3, <2>3, <2>4, <2>5, <2>6, <3>2, <3>3, CommitRuling
    <2>7. CASE f.slot = committed[Leader]
      <3>1. FoldsNone(f)
        <4>1. ASSUME NEW k, FoldsOne(f, k) PROVE FALSE
          BY <1>1, <2>7, <4>1 DEF FoldsOne, Open
        <4> QED
          BY <2>4, <4>1 DEF Comes
      <3>2. b = ballot[Leader] /\ f.table = table[Leader]
        BY <3>1 DEF FoldsNone, Walked
      <3>3. planned' = planned
        <4>1. Solicits(f) = {}
          BY <1>1, <2>7 DEF Solicits
        <4> QED
          BY <2>2, <4>1, Zenon
      <3>4. retained[Leader] = ballot[Leader] /\ status[Leader] = "Normal" /\ DOMAIN retained = Node
        BY <1>1 DEF Ruled, Placed, Reigns
      <3>5. /\ \A n \in Node : /\ accepted'[n] = accepted[n] /\ committed'[n] = committed[n]
                               /\ ballot'[n] = ballot[n] /\ retained'[n] = retained[n]
                               /\ status'[n] = status[n] /\ table'[n] = table[n]
            /\ DOMAIN retained' = Node
        <4>1. Kept
          BY DEF TInv
        <4> QED
          BY <1>1, <2>3, <2>7, <3>2, <3>4, <4>1 DEF Commits, Kept
      <3>6. msgs \subseteq msgs' /\ \A m \in msgs' \ msgs : m \in ms
        BY <2>2 DEF Send
      <3>7. LeaderQuiet(R)
        BY <2>1, <2>2, <3>3, <3>5, <3>6 DEF LeaderQuiet, Ruled
      <3> QED
        BY <3>7, QuietRuling
    <2> QED
      BY <1>1, <2>5, <2>6, <2>7
  <1> QED
    BY <1>5, <1>6, <1>7, <1>8, Zenon

\* A vote is counted, and may commit.
LEMMA ReceiveOkRuling ==
  ASSUME NoFused, TInv, TInv', Whole, NEW V, Agreed(V), NEW R, Ruled(V, R), ReceiveOk
  PROVE  Ruling'
  <1>1. PICK m \in msgs :
           LET votes == oks \cup {<<s, m.from>> : s \in committed[Leader] + 1 .. m.slot}
           IN  /\ m.tag = "Ok" /\ m.view = ballot[Leader]
               /\ \/ FinishCommitQuorum(CascadeFrontier(oks), oks)
                  \/ FinishCommitQuorum(CascadeFrontier(votes), votes)
    BY Zenon DEF ReceiveOk
  <1> DEFINE votes == oks \cup {<<s, m.from>> : s \in committed[Leader] + 1 .. m.slot}
  <1>2. Votes(R, votes) /\ Votes(R, oks)
    BY <1>1, Counted DEF Ruled
  <1>3. oks \subseteq votes /\ oks \subseteq oks
    OBVIOUS
  <1>4. FinishCommitQuorum(CascadeFrontier(oks), oks)
        \/ FinishCommitQuorum(CascadeFrontier(votes), votes)
    BY <1>1, Zenon
  <1> HIDE DEF votes
  <1>5. CASE FinishCommitQuorum(CascadeFrontier(oks), oks)
    <2>1. PICK S : S = oks
      OBVIOUS
    <2>2. PICK c : c = CascadeFrontier(S)
      OBVIOUS
    <2>3. oks \subseteq S /\ Votes(R, S) /\ FinishCommitQuorum(c, S)
      BY <1>2, <1>3, <1>5, <2>1, <2>2
    <2> QED
      BY <2>2, <2>3, FinishRuling
  <1>6. CASE FinishCommitQuorum(CascadeFrontier(votes), votes)
    <2>1. PICK c : c = CascadeFrontier(votes)
      OBVIOUS
    <2> QED
      BY <1>2, <1>3, <1>6, <2>1, FinishRuling
  <1> QED
    BY <1>4, <1>5, <1>6

\* The leader serves history.
LEMMA ServeRuling ==
  ASSUME TInv, NEW V, Agreed(V), NEW R, Ruled(V, R), ServeState
  PROVE  Ruling'
  <1>1. UNCHANGED <<hist, progressVars, leaderVars>> /\ msgs \subseteq msgs'
        /\ \A m \in msgs' \ msgs : m.tag = "NewState"
    BY DEF ServeState, Send
  <1>2. LeaderQuiet(R)
    BY <1>1 DEF progressVars, leaderVars, LeaderQuiet, Ruled
  <1> QED
    BY <1>2, QuietRuling

\* Evidence that does not suffice yet.
LEMMA HeardRuling ==
  ASSUME TInv, NEW V, Agreed(V), NEW R, Ruled(V, R), NEW p \in planned, NEW heard,
         planned' = {[p EXCEPT !.evidence = heard]},
         UNCHANGED <<hist, progressVars, oks, msgs>>
  PROVE  Ruling'
  <1>1. ASSUME NEW q \in planned' PROVE Overlapping(q)
    <2>1. q = [p EXCEPT !.evidence = heard]
      BY <1>1
    <2>2. Overlapping(p)
      BY DEF Ruled
    <2>3. "target" \in DOMAIN p
      BY <2>2 DEF Overlapping
    <2>4. DOMAIN q = DOMAIN p /\ q["target"] = p["target"]
      BY <2>1, <2>3
    <2>5. q.target = p.target
      BY <2>4
    <2> QED
      BY <2>2, <2>3, <2>4, <2>5 DEF Overlapping
  <1>2. LeaderQuiet(R)
    BY <1>1 DEF progressVars, LeaderQuiet, Ruled
  <1> QED
    BY <1>2, QuietRuling

\* What the leader does when it installs the ballot b of the overlap.
Installs(b) ==
    /\ hist' = hist /\ oks' = oks /\ planned' = {} /\ DOMAIN retained' = Node
    /\ \A n \in Node : /\ accepted'[n] = accepted[n] /\ committed'[n] = committed[n]
                       /\ table'[n] = table[n]
    /\ \A n \in Node \ {Leader} : /\ ballot'[n] = ballot[n] /\ retained'[n] = retained[n]
                                  /\ status'[n] = status[n]
    /\ ballot'[Leader] = b /\ retained'[Leader] = b /\ status'[Leader] = "Normal"
    /\ msgs \subseteq msgs'
    /\ \A m \in msgs' \ msgs : /\ m.tag = "StartView" /\ m.view = b
                               /\ m.accepted = accepted[Leader]
                               /\ m.committed = committed[Leader]

\* Nothing of the system is uncommitted then, and the target leads to the next era.
LEMMA InstallWhere ==
  ASSUME TInv, NEW V, NEW R, Ruled(V, R), NEW p \in planned, NEW f,
         f.table = table[Leader], f.slot = committed[Leader],
         InWindow(f.table, p.target), Legal(Leader, p.target, f), NEW B, B = ballot[Leader].era
  PROVE  /\ B \in Nat /\ B >= 1 /\ DOMAIN R = 1 .. B
         /\ p.target = [era |-> B + 1, view |-> p.target.view] /\ p.target.view \in Nat
         /\ p.target.view > R[B].view
         /\ EraOf(table[Leader]) = B + 1 /\ \A k : ~Open(k)
  <1>1. Reigns(R) /\ Pending /\ Overlapping(p)
    BY DEF Ruled
  <1>2. /\ B \in Nat /\ B >= 1 /\ DOMAIN R = 1 .. B
        /\ ballot[Leader] = [era |-> B, view |-> R[B].view]
    BY <1>1 DEF Reigns, Reigned
  <1>3. PICK v : v = p.target.view
    OBVIOUS
  <1>4. p.target = [era |-> B + 1, view |-> v] /\ v \in Nat
        /\ EraOf(table[Leader]) \in {B, B + 1}
    BY <1>1, <1>3 DEF Overlapping
  <1>5. p.target.era = B + 1 /\ ballot[Leader].era = B /\ ballot[Leader].view = R[B].view
    BY <1>2, <1>4
  <1>6. v > R[B].view
    <2>1. p.target # ballot[Leader]
      BY <1>2, <1>5
    <2>2. p.target.view > ballot[Leader].view
      BY <2>1 DEF Legal, LegalSuccessor, GroundedWalk
    <2> QED
      BY <1>3, <1>5, <2>2
  <1>7. EraOf(table[Leader]) = B + 1
    <2>1. EraOf(table[Leader]) \in {B + 1, B + 2}
      BY <1>2, <1>5 DEF InWindow, EraOf
    <2> QED
      BY <1>2, <1>4, <2>1
  <1>8. \A k : ~Open(k)
    BY <1>1, <1>2, <1>7 DEF Pending
  <1> QED
    BY <1>2, <1>3, <1>4, <1>6, <1>7, <1>8

\* The leader begins the reign of its overlap.
LEMMA InstallRuling ==
  ASSUME TInv, NEW V, Agreed(V), NEW R, Ruled(V, R), NEW B \in Nat, B = ballot[Leader].era, B >= 1,
         DOMAIN R = 1 .. B, NEW v \in Nat, v > R[B].view, EraOf(table[Leader]) = B + 1,
         \A k : ~Open(k), NEW b, b = [era |-> B + 1, view |-> v], Installs(b)
  PROVE  Ruling'
  <1>1. PICK N : N = Len(hist)
    OBVIOUS
  <1>2. PICK x : x = [view |-> v, floor |-> N, by |-> "overlap"]
    OBVIOUS
  <1>3. PICK Q : Q = Begun(R, B, x)
    OBVIOUS
  <1>4. /\ DOMAIN Q = 1 .. B + 1 /\ Q[B + 1] = x /\ Extended(R, Q)
        /\ \A e \in DOMAIN R : Q[e] = R[e] /\ e \in DOMAIN Q /\ e \in 1 .. B
        /\ \A e \in DOMAIN Q : e = B + 1 \/ (e \in DOMAIN R /\ e \in 1 .. B)
        /\ B + 1 \in DOMAIN Q /\ B + 1 \notin DOMAIN R /\ B \in DOMAIN R
        /\ \A y : Reigned(R, y) => Reigned(Q, y)
    BY <1>3, BegunIn
  <1>5. /\ Leader \in Node /\ hist' = hist /\ accepted'[Leader] = accepted[Leader]
        /\ committed'[Leader] = committed[Leader] /\ table'[Leader] = table[Leader]
        /\ ballot'[Leader] = b /\ retained'[Leader] = b /\ status'[Leader] = "Normal"
        /\ \A s : System(s)' = System(s)
    BY LeaderIn DEF Installs, System
  <1>6. /\ Reigns(R) /\ Entries(R) /\ N \in Nat /\ N >= INIT_SLOT /\ accepted[Leader] = N
        /\ committed[Leader] \in Nat /\ committed[Leader] >= INIT_SLOT
    BY <1>1, <1>5, TInvTypes DEF Ruled, TInv, HistSound, PlaceSound, INIT_SLOT
  <1>7. b.era = B + 1 /\ b.view = v /\ Q[B + 1].view = v /\ Q[B + 1].floor = N
        /\ Q[B + 1].by = "overlap"
    BY <1>2, <1>4
  <1>8. Reigned(Q, b)
    BY <1>4, <1>7 DEF Reigned
  <1>9. \A k : ~Open(k)'
    BY <1>5 DEF Open
  <1>10. Reigns(Q)'
    <2>1. ASSUME NEW e \in DOMAIN Q
          PROVE  /\ Q[e].view \in Nat /\ Q[e].view >= e - 1
                 /\ Q[e].floor \in INIT_SLOT .. Len(hist)
                 /\ Q[e].by = "rider" => Nominee(Q, e)'
      <3>1. CASE e = B + 1
        <4>1. PICK w : w = R[B].view
          OBVIOUS
        <4>2. w \in Nat /\ w >= B - 1
          BY <1>4, <1>6, <4>1 DEF Reigns
        <4>3. v >= B
          BY <4>1, <4>2
        <4>4. Q[e].view = v /\ Q[e].floor = N /\ Q[e].by = "overlap"
          BY <1>7, <3>1
        <4>5. v >= e - 1
          BY <3>1, <4>3
        <4>6. N \in INIT_SLOT .. Len(hist)
          BY <1>1, <1>6 DEF INIT_SLOT
        <4> QED
          BY <4>4, <4>5, <4>6
      <3>2. CASE e \in DOMAIN R
        <4>1. /\ R[e].view \in Nat /\ R[e].view >= e - 1 /\ R[e].floor \in INIT_SLOT .. Len(hist)
              /\ R[e].by = "rider" => Nominee(R, e)
          BY <1>6, <3>2 DEF Reigns
        <4>2. Q[e] = R[e]
          BY <1>4, <3>2
        <4>3. Nominee(R, e) => Nominee(Q, e)'
          BY <1>4, <1>5, <4>2 DEF Nominee
        <4> QED
          BY <4>1, <4>2, <4>3
      <3> QED
        BY <1>4, <3>1, <3>2
    <2>2. ASSUME NEW d \in DOMAIN Q, NEW e \in DOMAIN Q, d < e PROVE Q[d].view < Q[e].view
      <3>1. CASE e \in DOMAIN R
        <4>1. d \in DOMAIN R
          BY <1>4, <2>2, <3>1
        <4> QED
          BY <1>4, <1>6, <2>2, <3>1, <4>1 DEF Reigns
      <3>2. CASE e = B + 1
        <4>1. d \in DOMAIN R /\ d <= B /\ d \in Nat
          BY <1>4, <2>2, <3>2
        <4>2. R[d].view \in Nat /\ R[B].view \in Nat /\ (d < B => R[d].view < R[B].view)
          BY <1>4, <1>6, <4>1 DEF Reigns
        <4>3. Q[d].view = R[d].view /\ Q[e].view = v
          BY <1>4, <1>7, <3>2, <4>1
        <4>4. d = B \/ d < B
          BY <4>1
        <4> QED
          BY <4>2, <4>3, <4>4
      <3> QED
        BY <1>4, <3>1, <3>2
    <2>3. ballot'[Leader].era = B + 1 /\ B + 1 \in Nat /\ B + 1 >= 1
      BY <1>5, <1>7
    <2>4. Reigned(Q, ballot[Leader])'
      BY <1>5, <1>8 DEF Reigned, Leader
    <2> QED
      BY <1>4, <1>5, <2>1, <2>2, <2>3, <2>4 DEF Reigns, Leader
  <1>11. Entries(Q)'
    <2>1. ASSUME NEW j \in INIT_SLOT + 1 .. Len(hist), System(j) PROVE Stamped(Q, j)'
      <3>1. Stamped(R, j)
        BY <1>6, <2>1 DEF Entries
      <3>2. /\ hist[j].era \in DOMAIN Q /\ hist[j].era \in DOMAIN R
            /\ \A e \in DOMAIN Q : e <= hist[j].era => e \in DOMAIN R
        <4>1. hist[j].era \in DOMAIN R /\ hist[j].era \in 1 .. B
          BY <1>4, <3>1 DEF Stamped
        <4>2. ~(B + 1 <= hist[j].era)
          BY <4>1
        <4> QED
          BY <1>4, <4>1, <4>2
      <3>3. \A e \in DOMAIN Q : e <= hist[j].era => Q[e].floor < j
        BY <1>4, <3>1, <3>2 DEF Stamped
      <3>4. \A u, e : Starts(R, e, u, j) => Starts(Q, e, u, j)
        BY <1>4 DEF Starts
      <3>5. \A u : Rides(R, j, u) => Rides(Q, j, u)'
        BY <1>4, <1>5, <3>2, <3>4 DEF Rides, Starts
      <3> QED
        BY <1>5, <3>1, <3>2, <3>3, <3>5 DEF Stamped
    <2> QED
      BY <1>5, <2>1 DEF Entries
  <1>12. Apart' /\ Due(V)' /\ Pending'
    BY <1>5, <1>9 DEF Ruled, Apart, Due, Pending
  <1>13. ASSUME NEW n \in Node PROVE Placed(Q, n)'
    <2>1. Placed(R, n)
      BY DEF Ruled
    <2>2. CASE n = Leader
      <3>1. b.era \in DOMAIN Q /\ b.era \in 1 .. b.era /\ accepted[Leader] >= Q[b.era].floor
        BY <1>4, <1>6, <1>7
      <3> QED
        BY <1>5, <1>8, <2>2, <3>1 DEF Placed, Reigned
    <2>3. CASE n # Leader
      <3>1. /\ ballot'[n] = ballot[n] /\ retained'[n] = retained[n] /\ status'[n] = status[n]
            /\ accepted'[n] = accepted[n]
        BY <2>3 DEF Installs
      <3>2. ballot[n].era \in DOMAIN R /\ retained[n].era \in 1 .. ballot[n].era
        BY <2>1 DEF Placed
      <3>3. retained[n].era \in DOMAIN R
        BY <1>1, <1>6, <2>1, ReignTypes
      <3> QED
        BY <1>4, <2>1, <3>1, <3>2, <3>3 DEF Placed, Reigned
    <2> QED
      BY <2>2, <2>3
  <1>14. ASSUME NEW m \in msgs' PROVE Said(V, Q, m)'
    <2>1. CASE m \in msgs
      <3>1. Said(V, R, m)
        BY <2>1 DEF Ruled
      <3>2. ASSUME Voted(m) PROVE Voted(m)'
        <4>1. m.from \in Node /\ m.from # Leader /\ m.view.era \in 1 .. retained[m.from].era
          BY <3>2 DEF Voted
        <4>2. Placed(R, m.from)
          BY <4>1 DEF Ruled
        <4>3. retained[m.from].era \in Nat /\ retained[m.from].era \in 1 .. B
          BY <1>1, <1>6, <4>1, <4>2, ReignTypes
        <4>4. m.view.era # B + 1
          BY <4>1, <4>3
        <4>5. /\ retained'[m.from] = retained[m.from] /\ status'[m.from] = status[m.from]
              /\ accepted'[m.from] = accepted[m.from]
          BY <4>1 DEF Installs
        <4> QED
          BY <1>5, <1>7, <3>2, <4>1, <4>4, <4>5 DEF Voted, Leader
      <3>3. m.tag = "StartView" => Q[m.view.era] = R[m.view.era]
        BY <1>4, <3>1 DEF Said, Reigned
      <3> QED
        BY <1>4, <3>1, <3>2, <3>3 DEF Said, Reigned, MemberIn, EraAt
    <2>2. CASE m \notin msgs
      <3>1. m.tag = "StartView" /\ m.view = b /\ m.accepted = N /\ m.committed = committed[Leader]
        BY <1>6, <1>14, <2>2 DEF Installs
      <3>2. EraAt(V, m.committed, b.era)
        <4>1. PICK q \in V : q = PointAt(Leader)
          BY <1>5 DEF Agreed
        <4>2. q.slot = committed[Leader] /\ EraOf(q.table) = B + 1
          BY <4>1 DEF PointAt
        <4> QED
          BY <1>7, <3>1, <4>2 DEF EraAt
      <3>3. Q[m.view.era].by # "rider" /\ Q[m.view.era].floor <= m.accepted
        BY <1>6, <1>7, <3>1
      <3> QED
        BY <1>8, <3>1, <3>2, <3>3 DEF Said, Reigned, EraAt
    <2> QED
      BY <2>1, <2>2
  <1>15. Votes(Q, oks)'
    <2>1. PICK S : S = oks
      OBVIOUS
    <2>2. ASSUME NEW w \in S PROVE Vote(Q, w[1], w[2])'
      <3>1. PICK s, n : s = w[1] /\ n = w[2]
        OBVIOUS
      <3>2. Vote(R, s, n)
        BY <2>1, <2>2, <3>1 DEF Ruled, Votes
      <3>3. /\ n \in Node /\ n # Leader /\ s \in INIT_SLOT + 1 .. accepted[n]
            /\ accepted[n] \in INIT_SLOT .. N
        BY <1>1, <3>2 DEF Vote, TInv, PlaceSound
      <3>4. ~(s > N)
        BY <1>6, <3>3 DEF INIT_SLOT
      <3>5. ASSUME NEW e \in DOMAIN Q
            PROVE  (IF Q[e].by = "rider" THEN EraOf(table[n]) >= e ELSE s > Q[e].floor)
                      => retained[n].era >= e
        <4>1. CASE e \in DOMAIN R
          BY <1>4, <3>2, <4>1 DEF Vote
        <4>2. CASE e = B + 1
          <5>1. Q[e].by # "rider" /\ Q[e].floor = N
            BY <1>7, <4>2
          <5> QED
            BY <3>4, <5>1
        <4> QED
          BY <1>4, <4>1, <4>2
      <3>6. /\ retained'[n] = retained[n] /\ status'[n] = status[n] /\ accepted'[n] = accepted[n]
            /\ table'[n] = table[n]
        BY <3>3 DEF Installs
      <3>7. Vote(Q, s, n)'
        BY <1>5, <3>2, <3>3, <3>5, <3>6 DEF Vote, Leader
      <3> QED
        BY <3>1, <3>7
    <2>3. oks' = S
      BY <2>1 DEF Installs
    <2> QED
      BY <2>2, <2>3 DEF Votes
  <1>16. \A p \in V : Fenced(p) => Fenced(p)'
    <2>1. \A n \in Node : /\ ballot[n].era \in Nat /\ ballot'[n].era \in Nat
                          /\ ballot[n].era <= ballot'[n].era
      <3>1. ASSUME NEW n \in Node
            PROVE  /\ ballot[n].era \in Nat /\ ballot'[n].era \in Nat
                   /\ ballot[n].era <= ballot'[n].era
        <4>1. ballot[n].era \in Nat
          BY <1>1, <1>6, ReignTypes DEF Ruled
        <4>2. CASE n = Leader
          BY <1>5, <1>7, <4>1, <4>2
        <4>3. CASE n # Leader
          BY <4>1, <4>3 DEF Installs
        <4> QED
          BY <4>2, <4>3
      <3> QED
        BY <3>1
    <2>2. \A p \in V : SoundTable(Node, p.table)
      BY DEF Agreed, Chain
    <2> QED
      BY <2>1, <2>2, FencedStays
  <1>17. Crosses(V)'
    BY <1>5, <1>16 DEF Ruled, Crosses, Config, Crossing, ConfigOf, Leader
  <1>18. Covers(V, oks)'
    <2>1. Held(oks)' = Held(oks)
      BY <1>5 DEF Installs, Held, Leader
    <2> QED
      BY <1>5, <1>16, <2>1 DEF Ruled, Covers, CrossedBy, ConfigOf, Leader
  <1>19. DOMAIN retained' = Node /\ Rooted(V)' /\ \A p \in planned' : Overlapping(p)'
    BY DEF Ruled, Installs, Rooted
  <1>20. Ruled(V, Q)'
    BY <1>10, <1>11, <1>12, <1>13, <1>14, <1>15, <1>17, <1>18, <1>19 DEF Ruled
  <1>21. Agreed(V)'
    <2>1. PICK top : top = PointAt(Leader)
      OBVIOUS
    <2>2. \A r \in Node : PointAt(r)' = PointAt(r)
      BY DEF Installs, PointAt
    <2>3. PointAt(Leader)' = top
      BY <1>5, <2>1 DEF PointAt, Leader
    <2>4. Chain(V, top)' /\ Past(top)' /\ \A m : Known(V, m) => Known(V, m)'
      BY <1>5, <2>1, SameLog DEF Agreed
    <2>5. Chain(V, PointAt(Leader))' /\ Past(PointAt(Leader))'
      BY <2>3, <2>4
    <2>6. \A m \in msgs' : m.tag = "Fuse" => m \in msgs
      BY DEF Installs
    <2> QED
      BY <2>2, <2>4, <2>5, <2>6 DEF Agreed
  <1> QED
    BY <1>20, <1>21 DEF Ruling

\* Evidence is counted, and may install the planned view.
LEMMA EvidenceRuling ==
  ASSUME TInv, NEW V, Agreed(V), NEW R, Ruled(V, R), ReceivePlannedEvidence
  PROVE  Ruling'
  <1> DEFINE same == [slot |-> committed[Leader], table |-> table[Leader],
                      halt |-> "no", running |-> {}]
  <1>1. PICK m \in msgs, p \in planned :
           \/ /\ planned' = {[p EXCEPT !.evidence = p.evidence \cup {m.from}]}
              /\ UNCHANGED <<hist, progressVars, oks, fetchVars, msgs>>
           \/ /\ Publish(Leader, "Normal", accepted[Leader], p.target, same)
              /\ planned' = {}
              /\ Send({[tag |-> "StartView",
                        to |-> Members(Config(Leader)) \ {Leader},
                        view |-> p.target,
                        first |-> AtLeast(1, accepted[Leader] - Budget + 1),
                        accepted |-> accepted[Leader],
                        committed |-> committed[Leader],
                        proof |-> Proof(Leader, p.target.era)]})
              /\ UNCHANGED <<hist, oks, fetchVars>>
    BY Zenon DEF ReceivePlannedEvidence
  <1>2. CASE /\ planned' = {[p EXCEPT !.evidence = p.evidence \cup {m.from}]}
             /\ UNCHANGED <<hist, progressVars, oks, fetchVars, msgs>>
    <2>1. PICK heard : heard = p.evidence \cup {m.from}
      OBVIOUS
    <2>2. planned' = {[p EXCEPT !.evidence = heard]}
          /\ UNCHANGED <<hist, progressVars, oks, msgs>>
      BY <1>2, <2>1
    <2> QED
      BY <2>2, HeardRuling
  <1>3. CASE /\ Publish(Leader, "Normal", accepted[Leader], p.target, same)
             /\ planned' = {}
             /\ Send({[tag |-> "StartView",
                       to |-> Members(Config(Leader)) \ {Leader},
                       view |-> p.target,
                       first |-> AtLeast(1, accepted[Leader] - Budget + 1),
                       accepted |-> accepted[Leader],
                       committed |-> committed[Leader],
                       proof |-> Proof(Leader, p.target.era)]})
             /\ UNCHANGED <<hist, oks, fetchVars>>
    <2>1. PICK f : f = same
      OBVIOUS
    <2>2. f.table = table[Leader] /\ f.slot = committed[Leader]
      BY <2>1
    <2>3. Publish(Leader, "Normal", accepted[Leader], p.target, f)
      BY <1>3, <2>1
    <2>4. InWindow(f.table, p.target) /\ Legal(Leader, p.target, f)
      BY <2>3 DEF Publish
    <2>5. PICK B : B = ballot[Leader].era
      OBVIOUS
    <2>6. /\ B \in Nat /\ B >= 1 /\ DOMAIN R = 1 .. B
          /\ p.target = [era |-> B + 1, view |-> p.target.view] /\ p.target.view \in Nat
          /\ p.target.view > R[B].view
          /\ EraOf(table[Leader]) = B + 1 /\ \A k : ~Open(k)
      BY <2>2, <2>4, <2>5, InstallWhere
    <2>7. PICK b, v : b = p.target /\ v = p.target.view
      OBVIOUS
    <2>8. Installs(b)
      <3>1. Kept /\ Leader \in Node /\ DOMAIN retained = Node
        BY LeaderIn DEF TInv, Ruled
      <3>2. /\ \A n \in Node : /\ accepted'[n] = accepted[n] /\ committed'[n] = committed[n]
                               /\ table'[n] = table[n]
            /\ \A n \in Node \ {Leader} : /\ ballot'[n] = ballot[n] /\ retained'[n] = retained[n]
                                          /\ status'[n] = status[n]
            /\ ballot'[Leader] = b /\ retained'[Leader] = b /\ status'[Leader] = "Normal"
            /\ DOMAIN retained' = Node
        BY <2>2, <2>3, <2>7, <3>1 DEF Publish, Kept
      <3>3. /\ msgs \subseteq msgs'
            /\ \A k \in msgs' \ msgs : /\ k.tag = "StartView" /\ k.view = b
                                       /\ k.accepted = accepted[Leader]
                                       /\ k.committed = committed[Leader]
        BY <1>3, <2>7 DEF Send
      <3> QED
        BY <1>3, <3>2, <3>3 DEF Installs
    <2> QED
      BY <2>5, <2>6, <2>7, <2>8, InstallRuling
  <1> QED
    BY <1>1, <1>2, <1>3, Zenon

\* What the leader orders keeps the reigns and the points.
LEMMA OrderRuling ==
  ASSUME TInv, Whole, NEW V, Agreed(V), NEW R, Ruled(V, R), AddsOne(V),
         \E es : Orders(es) /\ Lawful(es)
  PROVE  Ruling'
  <1>1. PICK e : Adds(V, e) /\ ((e.op = Operation /\ planned' = planned) \/ OrdersChange(e))
    BY DEF AddsOne
  <1>2. Ruled(V, R)'
    BY <1>1, AddsRuled
  <1>3. Agreed(V)'
    BY OrdersAgreed
  <1> QED
    BY <1>2, <1>3 DEF Ruling

\* At first there is one reign, from genesis on.
LEMMA InitEInv == ASSUME Init PROVE EInv
  <1>1. TInv
    BY InitTInv
  <1>2. PICK p : p = [slot |-> INIT_SLOT, table |-> Genesis(InitOrder)]
    OBVIOUS
  <1>3. PICK V : V = {p}
    OBVIOUS
  <1>4. Whole /\ Agreed(V)
    BY <1>2, <1>3, InitAgreed
  <1>5. PICK r0 : r0 = [view |-> 0, floor |-> 2, by |-> "genesis"]
    OBVIOUS
  <1>6. PICK R : R = [e \in 1 .. 1 |-> r0]
    OBVIOUS
  <1>7. /\ DOMAIN R = 1 .. 1 /\ 1 \in DOMAIN R /\ \A e \in DOMAIN R : e = 1
        /\ R[1].view = 0 /\ R[1].floor = 2 /\ R[1].by = "genesis"
    BY <1>5, <1>6
  <1>8. /\ Leader \in Node /\ Leader \in Founders
        /\ hist = <<Entry([op |-> "Void"], 0), Entry([op |-> "Init"], 1)>>
    BY LeaderIn, ReconfigurationAssumption DEF Init, Leader, Founders
  <1>9. Len(hist) = 2 /\ INIT_SLOT = 2
    BY <1>8 DEF INIT_SLOT
  <1>10. /\ \A n \in Node : /\ accepted[n] = 2 /\ committed[n] = 2 /\ retained[n] = ballot[n]
                            /\ ballot[n] = [era |-> 1, view |-> 0]
                            /\ status[n] \in {"Normal", "Joining"}
                            /\ table[n] = Genesis(InitOrder)
         /\ status[Leader] = "Normal" /\ DOMAIN retained = Node
         /\ oks = {} /\ planned = {} /\ msgs = {}
    BY <1>8, <1>9 DEF Init
  <1>11. ASSUME NEW n \in Node PROVE ballot[n].era = 1 /\ ballot[n].view = 0 /\ Reigned(R, ballot[n])
    BY <1>7, <1>10, <1>11 DEF Reigned
  <1>12. Reigns(R)
    <2>1. ballot[Leader].era = 1 /\ Reigned(R, ballot[Leader])
      BY <1>8, <1>11
    <2>2. ASSUME NEW e \in DOMAIN R
          PROVE  /\ R[e].view \in Nat /\ R[e].view >= e - 1
                 /\ R[e].floor \in INIT_SLOT .. Len(hist)
                 /\ R[e].by = "rider" => Nominee(R, e)
      <3>1. e = 1
        BY <1>7
      <3> QED
        BY <1>7, <1>9, <3>1
    <2>3. \A d, e \in DOMAIN R : ~(d < e)
      BY <1>7
    <2> QED
      BY <1>7, <1>10, <2>1, <2>2, <2>3 DEF Reigns
  <1>13. Entries(R) /\ Apart /\ Pending /\ \A k : ~Open(k)
    <2>1. \A k : k \notin INIT_SLOT + 1 .. Len(hist)
      BY <1>9
    <2>2. \A k : ~Open(k)
      BY <1>8, <1>9, <1>10 DEF Open
    <2> QED
      BY <2>1, <2>2 DEF Entries, Apart, Pending
  <1>14. p.slot = 2 /\ p.table = Genesis(InitOrder)
    BY <1>2, <1>9
  <1>15. Due(V)
    BY <1>3, <1>9, <1>14 DEF Due
  <1>16. \A n \in Node : Placed(R, n)
    <2>1. ASSUME NEW n \in Node PROVE Placed(R, n)
      <3>1. ballot[n].era \in DOMAIN R /\ retained[n].era \in 1 .. ballot[n].era
        BY <1>7, <1>10, <1>11
      <3>2. accepted[n] >= R[retained[n].era].floor
        BY <1>7, <1>10, <1>11
      <3>3. ballot[n] = [era |-> ballot[n].era, view |-> ballot[n].era - 1]
        BY <1>10, <1>11
      <3> QED
        BY <1>10, <1>11, <3>1, <3>2, <3>3 DEF Placed
    <2> QED
      BY <2>1
  <1>17. Rooted(V)
    <2>1. \A x \in Range(Genesis(InitOrder)) : x = Current(Genesis(InitOrder))
      BY DEF Genesis, Range, Current
    <2> QED
      BY <1>3, <1>14, <2>1 DEF Rooted
  <1>18. Crosses(V)
    <2>1. Config(Leader) \in Configs(Node)
      BY <1>1, LeaderConfig DEF Sound
    <2>2. Crossing(Config(Leader), Config(Leader))
      BY <2>1, EraCrosses
    <2>3. \A q \in V : ConfigOf(q) = Config(Leader)
      BY <1>3, <1>8, <1>10, <1>14 DEF ConfigOf, Config
    <2> QED
      BY <2>2, <2>3 DEF Crosses
  <1>19. Covers(V, oks)
    BY <1>8, <1>9, <1>10 DEF Covers
  <1>20. Ruled(V, R)
    BY <1>10, <1>12, <1>13, <1>15, <1>16, <1>17, <1>18, <1>19 DEF Ruled, Votes
  <1> QED
    BY <1>1, <1>4, <1>20 DEF EInv

\* Every step keeps them, when no change is fused.
LEMMA NextEInv == ASSUME NoFused, EInv, [Next]_vars PROVE EInv'
  <1>1. TInv /\ Whole
    BY DEF EInv
  <1>2. PICK V, R : Agreed(V) /\ Ruled(V, R)
    BY DEF EInv
  <1>3. TInv'
    BY <1>1, NextTInv
  <1>4. Whole'
    <2>1. IInv /\ WholeRuns
      BY <1>1, <1>2 DEF IInv, NoFused, WholeRuns
    <2> QED
      BY <2>1, NextIInv DEF IInv
  <1>5. CASE UNCHANGED vars
    <2>1. LeaderQuiet(R)
      BY <1>2, <1>5 DEF vars, progressVars, leaderVars, LeaderQuiet, Ruled
    <2> QED
      BY <1>1, <1>2, <1>3, <1>4, <2>1, QuietRuling DEF EInv, Ruling
  <1>6. CASE Propose
    <2>1. Ruling'
      BY <1>1, <1>2, <1>6, ProposeAdds, ProposeOrders, OrderRuling
    <2> QED
      BY <1>3, <1>4, <2>1 DEF EInv, Ruling
  <1>7. ASSUME NEW change \in Changes, Ask(change) PROVE EInv'
    <2>1. Ruling'
      BY <1>1, <1>2, <1>7, AskAdds, AskOrders, OrderRuling
    <2> QED
      BY <1>3, <1>4, <2>1 DEF EInv, Ruling
  <1>8. CASE ReceiveOk
    <2>1. Ruling'
      BY <1>1, <1>2, <1>3, <1>8, ReceiveOkRuling
    <2> QED
      BY <1>3, <1>4, <2>1 DEF EInv, Ruling
  <1>9. CASE ServeState
    <2>1. Ruling'
      BY <1>1, <1>2, <1>9, ServeRuling
    <2> QED
      BY <1>3, <1>4, <2>1 DEF EInv, Ruling
  <1>10. CASE ReceivePlannedEvidence
    <2>1. Ruling'
      BY <1>1, <1>2, <1>10, EvidenceRuling
    <2> QED
      BY <1>3, <1>4, <2>1 DEF EInv, Ruling
  <1>11. ASSUME NEW r \in Node \ {Leader}, Following(r) PROVE EInv'
    <2>1. Moved(R, r)
      BY <1>1, <1>2, <1>11, FollowingMoved
    <2>2. Ruled(V, R)'
      BY <1>1, <1>2, <1>3, <2>1, MovedRuled
    <2>3. Agreed(V)'
      BY <1>1, <1>2, <1>11, FollowingGoes, GoesAgreed
    <2> QED
      BY <1>3, <1>4, <2>2, <2>3 DEF EInv
  <1> QED
    BY <1>5, <1>6, <1>7, <1>8, <1>9, <1>10, <1>11 DEF Next, Leading

-----------------------------------------------------------------------------
(* The theorems.                                                           *)

\* fold_committed: when no chunk is cut off inside a fused batch, an era has the
\* same configuration, operation and slot in the tables of all replicas.
THEOREM RecordsAlike == ASSUME WholeRuns PROVE Spec => []RecordsAgree
  <1>1. Init => IInv
    BY InitIInv
  <1>2. IInv /\ [Next]_vars => IInv'
    BY NextIInv
  <1>3. IInv => RecordsAgree
    BY PointsAgree
  <1> QED
    BY <1>1, <1>2, <1>3, PTL DEF Spec

\* plan_fuse: and an acceptor stamps a fused batch as the leader stamped it.
THEOREM StampsAlike == ASSUME WholeRuns PROVE Spec => []StampsAgree
  <1>1. Init => IInv
    BY InitIInv
  <1>2. IInv /\ [Next]_vars => IInv'
    BY NextIInv
  <1>3. IInv => StampsAgree
    BY StampsAreSame
  <1> QED
    BY <1>1, <1>2, <1>3, PTL DEF Spec

\* When no change is fused, whoever a quorum elects has what is committed.
THEOREM ElectedHaveCommits == ASSUME NoFused PROVE Spec => []ElectedKnowsCommitted
  <1>1. Init => EInv
    BY InitEInv
  <1>2. EInv /\ [Next]_vars => EInv'
    BY NextEInv
  <1>3. EInv => ElectedKnowsCommitted
    BY RuledElects
  <1> QED
    BY <1>1, <1>2, <1>3, PTL DEF Spec
=============================================================================
