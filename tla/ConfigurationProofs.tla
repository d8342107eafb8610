------------------------- MODULE ConfigurationProofs -------------------------
(***************************************************************************)
(* Quorums of neighbouring eras meet, for every configuration: whichever   *)
(* operation establishes the next era, no two quorums of it, and no quorum *)
(* of it and one of the era before, are disjoint. The scans of quorum.rs   *)
(* cannot find a pair after an operation that apply_in_era takes.          *)
(*                                                                         *)
(* The argument counts units of weight. Two disjoint sets hold no more     *)
(* than the total (Split), and a quorum more than half of it (Majority).   *)
(* An operation leaves the units as they are (SameWeights), adds or takes  *)
(* one (OneUnit), doubles or halves what every set holds (Doubled), or     *)
(* lets a member come or go that holds none (Weightless). A batch folds    *)
(* operations over a sequence, and its fold ends among the configurations  *)
(* of the era (FoldedInEra); the sum of what its members' weights moved is *)
(* one unit at most, so one member at most differs, and by one (MassMeets).*)
(* That the library's folds have a value at all, which they only choose,   *)
(* is FoldExists, by induction over a finite set's subsets.                *)
(***************************************************************************)
EXTENDS Configuration, FiniteSetTheorems, SequenceTheorems, TLAPS

\* The configurations over the nodes N.
Configs(N) == [era : Nat, order : Seq([node : N, weight : 0 .. MAX_WEIGHT])]

-----------------------------------------------------------------------------

\* A configuration's order is a sequence of weights within bounds.
LEMMA OrderType ==
  ASSUME NEW N, NEW c \in Configs(N)
  PROVE  /\ c = [era |-> c.era, order |-> c.order] /\ c.era \in Nat
         /\ c.order \in Seq([node : N, weight : 0 .. 2])
         /\ Len(c.order) \in Nat /\ DOMAIN c.order = 1 .. Len(c.order)
         /\ \A i \in 1 .. Len(c.order) :
               /\ c.order[i] \in [node : N, weight : 0 .. 2]
               /\ c.order[i] = [node |-> c.order[i].node, weight |-> c.order[i].weight]
               /\ c.order[i].node \in N
               /\ c.order[i].weight \in 0 .. 2
  <1> DEFINE M == [node : N, weight : 0 .. 2]
  <1>1. /\ c = [era |-> c.era, order |-> c.order] /\ c.era \in Nat
        /\ c.order \in Seq(M)
    BY DEF Configs, MAX_WEIGHT
  <1>2. \A m \in M : /\ m = [node |-> m.node, weight |-> m.weight]
                      /\ m.node \in N /\ m.weight \in 0 .. 2
    OBVIOUS
  <1> HIDE DEF M
  <1>3. /\ Len(c.order) \in Nat /\ DOMAIN c.order = 1 .. Len(c.order)
        /\ \A i \in 1 .. Len(c.order) : c.order[i] \in M
    BY <1>1
  <1> QED
    BY <1>1, <1>2, <1>3 DEF M

\* Units are finitely many pairs of a position and a number.
LEMMA UnitSet ==
  ASSUME NEW N, NEW c \in Configs(N)
  PROVE  /\ Units(c) = {u \in (1 .. Len(c.order)) \X (1 .. 2) :
                            u[2] <= c.order[u[1]].weight}
         /\ IsFiniteSet(Units(c))
         /\ Total(c) \in Nat
         /\ \A S : WeightOfSet(c, S) \in Nat
  <1>1. /\ DOMAIN c.order = 1 .. Len(c.order)
        /\ \A i \in 1 .. Len(c.order) : c.order[i].weight \in 0 .. 2
        /\ Len(c.order) \in Nat
    BY OrderType
  <1>2. Units(c) = {u \in (1 .. Len(c.order)) \X (1 .. 2) :
                        u[2] <= c.order[u[1]].weight}
    <2>1. ASSUME NEW u \in Units(c)
          PROVE  u \in {v \in (1 .. Len(c.order)) \X (1 .. 2) :
                            v[2] <= c.order[v[1]].weight}
      <3>1. PICK i \in 1 .. Len(c.order) : u \in {i} \X (1 .. c.order[i].weight)
        BY <1>1 DEF Units
      <3> QED
        BY <1>1, <3>1
    <2>2. ASSUME NEW u \in (1 .. Len(c.order)) \X (1 .. 2),
                 u[2] <= c.order[u[1]].weight
          PROVE  u \in Units(c)
      <3>1. u[1] \in DOMAIN c.order /\ u \in {u[1]} \X (1 .. c.order[u[1]].weight)
        BY <1>1, <2>2
      <3> QED
        BY <3>1 DEF Units
    <2> QED
      BY <2>1, <2>2
  <1>3. IsFiniteSet((1 .. Len(c.order)) \X (1 .. 2))
    <2>1. IsFiniteSet(1 .. Len(c.order)) /\ IsFiniteSet(1 .. 2)
      <3>1. 1 \in Int /\ 2 \in Int /\ Len(c.order) \in Int
        BY <1>1
      <3> QED
        BY <3>1, FS_Interval, Zenon
    <2> QED
      BY <2>1, FS_Product
  <1>4. IsFiniteSet(Units(c))
    BY <1>2, <1>3, FS_Subset
  <1>5. ASSUME NEW S PROVE WeightOfSet(c, S) \in Nat
    <2>1. {u \in Units(c) : c.order[u[1]].node \in S} \in SUBSET Units(c)
      OBVIOUS
    <2> QED
      BY <1>4, <2>1, FS_Subset, FS_CardinalityType DEF WeightOfSet
  <1> QED
    BY <1>2, <1>4, <1>5, FS_CardinalityType DEF Total

\* Sets with nothing in common add up.
LEMMA Disjoint ==
  ASSUME NEW A, NEW B, IsFiniteSet(A), IsFiniteSet(B), A \cap B = {}
  PROVE  Cardinality(A \cup B) = Cardinality(A) + Cardinality(B)
  <1>1. Cardinality({}) = 0
    BY FS_EmptySet
  <1>2. Cardinality(A) \in Nat /\ Cardinality(B) \in Nat
    BY FS_CardinalityType
  <1>3. Cardinality(A \cup B) = Cardinality(A) + Cardinality(B) - Cardinality(A \cap B)
    BY FS_Union
  <1>4. Cardinality(A \cap B) = 0
    BY <1>1
  <1> QED
    BY <1>2, <1>3, <1>4

\* Sets with no node in common share no unit.
LEMMA Split ==
  ASSUME NEW N, NEW c \in Configs(N), NEW S, NEW T, S \cap T = {}
  PROVE  WeightOfSet(c, S) + WeightOfSet(c, T) <= Total(c)
  <1> DEFINE A == {u \in Units(c) : c.order[u[1]].node \in S}
             B == {u \in Units(c) : c.order[u[1]].node \in T}
  <1>1. IsFiniteSet(Units(c))
    BY UnitSet
  <1>2. A \in SUBSET Units(c) /\ B \in SUBSET Units(c)
        /\ A \cup B \in SUBSET Units(c) /\ A \cap B = {}
    OBVIOUS
  <1>3. IsFiniteSet(A) /\ IsFiniteSet(B)
    BY <1>1, <1>2, FS_Subset
  <1>4. Cardinality(A \cup B) <= Cardinality(Units(c))
    BY <1>1, <1>2, FS_Subset
  <1>5. A \cap B = {}
    BY <1>2
  <1> HIDE DEF A, B
  <1>6. Cardinality(A \cup B) = Cardinality(A) + Cardinality(B)
    BY <1>3, <1>5, Disjoint
  <1> QED
    BY <1>4, <1>6 DEF WeightOfSet, Total, A, B

\* A quorum holds more than half.
LEMMA Majority ==
  ASSUME NEW N, NEW c \in Configs(N), NEW S, IsQuorum(c, S)
  PROVE  2 * WeightOfSet(c, S) > Total(c)
  <1>1. Total(c) \in Nat /\ WeightOfSet(c, S) \in Nat
    BY UnitSet
  <1>2. WeightOfSet(c, S) >= Total(c) \div 2 + 1
    BY DEF IsQuorum
  <1> QED
    BY <1>1, <1>2

\* Two configurations with no disjoint quorums, in either direction.
Meet(c, d) == ~DisjointQuorumsExist(c, d) /\ ~DisjointQuorumsExist(d, c)

\* Meeting is mutual.
LEMMA MeetSym == ASSUME NEW c, NEW d, Meet(c, d) PROVE Meet(d, c)
  BY DEF Meet

\* It is enough that no quorum of one misses a quorum of the other.
LEMMA MeetIf ==
  ASSUME NEW c, NEW d,
         \A S, T : S \cap T = {} /\ IsQuorum(c, S) => ~IsQuorum(d, T)
  PROVE  Meet(c, d)
  <1>1. \A X, S : S \cap (X \ S) = {} /\ (X \ S) \cap S = {}
    OBVIOUS
  <1>2. \A X, S : ~(IsQuorum(c, S) /\ IsQuorum(d, X \ S))
    BY <1>1
  <1>3. \A X, S : ~(IsQuorum(d, S) /\ IsQuorum(c, X \ S))
    BY <1>1
  <1> QED
    BY <1>2, <1>3 DEF Meet, DisjointQuorumsExist

\* Every set holds the same in both.
LEMMA SameWeights ==
  ASSUME NEW N, NEW c \in Configs(N), NEW d \in Configs(N),
         Total(d) = Total(c),
         \A S : WeightOfSet(d, S) = WeightOfSet(c, S)
  PROVE  Meet(c, d)
  <1> SUFFICES ASSUME NEW S, NEW T, S \cap T = {}, IsQuorum(c, S), IsQuorum(d, T)
               PROVE  FALSE
    BY MeetIf
  <1>1. 2 * WeightOfSet(c, S) > Total(c) /\ 2 * WeightOfSet(d, T) > Total(d)
    BY Majority
  <1>2. WeightOfSet(c, S) + WeightOfSet(c, T) <= Total(c)
    BY Split
  <1>3. /\ WeightOfSet(c, S) \in Nat /\ WeightOfSet(c, T) \in Nat
        /\ WeightOfSet(d, T) = WeightOfSet(c, T) /\ Total(c) \in Nat
    BY UnitSet
  <1> QED
    BY <1>1, <1>2, <1>3

\* Every set holds twice as much in d.
LEMMA Doubled ==
  ASSUME NEW N, NEW c \in Configs(N), NEW d \in Configs(N),
         Total(d) = 2 * Total(c),
         \A S : WeightOfSet(d, S) = 2 * WeightOfSet(c, S)
  PROVE  Meet(c, d)
  <1> SUFFICES ASSUME NEW S, NEW T, S \cap T = {}, IsQuorum(c, S), IsQuorum(d, T)
               PROVE  FALSE
    BY MeetIf
  <1>1. 2 * WeightOfSet(c, S) > Total(c) /\ 2 * WeightOfSet(d, T) > Total(d)
    BY Majority
  <1>2. WeightOfSet(c, S) + WeightOfSet(c, T) <= Total(c)
    BY Split
  <1>3. WeightOfSet(d, T) = 2 * WeightOfSet(c, T)
    OBVIOUS
  <1>4. /\ WeightOfSet(c, S) \in Nat /\ WeightOfSet(c, T) \in Nat
        /\ WeightOfSet(d, T) \in Nat /\ Total(c) \in Nat /\ Total(d) \in Nat
    BY UnitSet
  <1> QED
    BY <1>1, <1>2, <1>3, <1>4

\* One position of c is heavier by a unit in d.
LEMMA OneUnit ==
  ASSUME NEW N, NEW c \in Configs(N), NEW d \in Configs(N),
         NEW i \in 1 .. Len(c.order), Len(d.order) = Len(c.order),
         \A j \in 1 .. Len(c.order) :
             /\ d.order[j].node = c.order[j].node
             /\ d.order[j].weight = IF j = i THEN c.order[j].weight + 1
                                    ELSE c.order[j].weight
  PROVE  Meet(c, d)
  <1> DEFINE x == <<i, c.order[i].weight + 1>>
  <1>1. /\ DOMAIN c.order = 1 .. Len(c.order) /\ Len(c.order) \in Nat
        /\ c.order[i].weight \in 0 .. 2
    BY OrderType
  <1>2. d.order[i].weight \in 0 .. 2
    BY <1>1, OrderType
  <1>3. Units(d) = Units(c) \cup {x} /\ x \notin Units(c)
    <2> DEFINE P == (1 .. Len(c.order)) \X (1 .. 2)
    <2>1. /\ Units(c) = {u \in P : u[2] <= c.order[u[1]].weight}
          /\ Units(d) = {u \in P : u[2] <= d.order[u[1]].weight}
      BY UnitSet
    <2>2. ASSUME NEW u \in P
          PROVE  u[2] <= d.order[u[1]].weight <=>
                    u[2] <= c.order[u[1]].weight \/ u = x
      <3>1. u = <<u[1], u[2]>> /\ u[1] \in 1 .. Len(c.order) /\ u[2] \in 1 .. 2
        OBVIOUS
      <3>2. u = x <=> u[1] = i /\ u[2] = c.order[i].weight + 1
        BY <3>1
      <3>3. c.order[u[1]].weight \in 0 .. 2
        BY <3>1, OrderType
      <3> QED
        BY <3>1, <3>2, <3>3
    <2>3. x \in P /\ ~(x[2] <= c.order[x[1]].weight)
      BY <1>1, <1>2
    <2> HIDE DEF P, x
    <2> QED
      BY <2>1, <2>2, <2>3
  <1>4. \A u \in Units(d) : d.order[u[1]].node = c.order[u[1]].node
    BY <1>1, UnitSet
  <1>5. IsFiniteSet(Units(c)) /\ Total(c) \in Nat
    BY UnitSet
  <1>6. Total(d) = Total(c) + 1
    BY <1>3, <1>5, FS_AddElement DEF Total
  <1>7. ASSUME NEW S PROVE WeightOfSet(d, S) \in {WeightOfSet(c, S), WeightOfSet(c, S) + 1}
    <2> DEFINE A == {u \in Units(c) : c.order[u[1]].node \in S}
               B == {u \in Units(d) : d.order[u[1]].node \in S}
    <2>1. B = A \/ B = A \cup {x}
      BY <1>3, <1>4
    <2>2. IsFiniteSet(A)
      BY <1>5, FS_Subset
    <2>3. x \notin A
      BY <1>3
    <2> HIDE DEF A, B, x
    <2>4. Cardinality(B) \in {Cardinality(A), Cardinality(A) + 1}
      BY <2>1, <2>2, <2>3, FS_AddElement
    <2> QED
      BY <2>4 DEF WeightOfSet, A, B
  <1> SUFFICES ASSUME NEW S, NEW T, S \cap T = {}, IsQuorum(c, S), IsQuorum(d, T)
               PROVE  FALSE
    BY MeetIf
  <1>8. 2 * WeightOfSet(c, S) > Total(c) /\ 2 * WeightOfSet(d, T) > Total(d)
    BY Majority
  <1>9. WeightOfSet(c, S) + WeightOfSet(c, T) <= Total(c)
    BY Split
  <1>10. WeightOfSet(c, S) \in Nat /\ WeightOfSet(c, T) \in Nat
    BY UnitSet
  <1>11. WeightOfSet(d, T) <= WeightOfSet(c, T) + 1
    BY <1>7, <1>10
  <1>12. WeightOfSet(d, T) \in Nat
    BY UnitSet
  <1> QED
    BY <1>5, <1>6, <1>8, <1>9, <1>10, <1>11, <1>12

\* The units of c and those of d correspond, node by node.
LEMMA Relabelled ==
  ASSUME NEW N, NEW c \in Configs(N), NEW d \in Configs(N),
         NEW f \in Bijection(Units(c), Units(d)),
         \A u \in Units(c) : d.order[f[u][1]].node = c.order[u[1]].node
  PROVE  Meet(c, d)
  <1>1. IsFiniteSet(Units(c)) /\ IsFiniteSet(Units(d))
    BY UnitSet
  <1>2. Total(d) = Total(c)
    BY <1>1, FS_Bijection DEF ExistsBijection, Total
  <1>3. ASSUME NEW S PROVE WeightOfSet(d, S) = WeightOfSet(c, S)
    <2> DEFINE A == {u \in Units(c) : c.order[u[1]].node \in S}
               B == {u \in Units(d) : d.order[u[1]].node \in S}
               g == [u \in A |-> f[u]]
    <2>1. /\ \A u \in Units(c) : f[u] \in Units(d)
          /\ \A u, v \in Units(c) : f[u] = f[v] => u = v
          /\ \A t \in Units(d) : \E u \in Units(c) : f[u] = t
      BY DEF Bijection, Injection, Surjection, IsInjective
    <2>2. g \in [A -> B]
      BY <2>1
    <2>3. \A u, v \in A : g[u] = g[v] => u = v
      BY <2>1
    <2>4. \A t \in B : \E u \in A : g[u] = t
      BY <2>1
    <2> HIDE DEF A, B, g
    <2>5. g \in Bijection(A, B)
      BY <2>2, <2>3, <2>4 DEF Bijection, Injection, Surjection, IsInjective
    <2>6. IsFiniteSet(A)
      BY <1>1, FS_Subset DEF A
    <2>7. Cardinality(B) = Cardinality(A)
      BY <2>5, <2>6, FS_Bijection DEF ExistsBijection
    <2> QED
      BY <2>7 DEF WeightOfSet, A, B
  <1> QED
    BY <1>2, <1>3, SameWeights

\* A member of no weight at position i of d, and the rest as in c.
LEMMA Weightless ==
  ASSUME NEW N, NEW c \in Configs(N), NEW d \in Configs(N),
         NEW i \in 1 .. Len(c.order) + 1,
         Len(d.order) = Len(c.order) + 1, d.order[i].weight = 0,
         \A j \in 1 .. Len(c.order) :
             d.order[IF j < i THEN j ELSE j + 1] = c.order[j]
  PROVE  Meet(c, d)
  <1> DEFINE f == [u \in Units(c) |-> IF u[1] < i THEN u ELSE <<u[1] + 1, u[2]>>]
  <1>1. Len(c.order) \in Nat /\ i \in Nat
    BY OrderType
  <1>2. /\ Units(c) = {u \in (1 .. Len(c.order)) \X (1 .. 2) :
                          u[2] <= c.order[u[1]].weight}
        /\ Units(d) = {u \in (1 .. Len(c.order) + 1) \X (1 .. 2) :
                          u[2] <= d.order[u[1]].weight}
    BY UnitSet
  <1>3. \A u \in Units(c) : /\ f[u] = <<IF u[1] < i THEN u[1] ELSE u[1] + 1, u[2]>>
                            /\ u[1] \in 1 .. Len(c.order) /\ u[2] \in 1 .. 2
    BY <1>2
  <1>4. ASSUME NEW u \in Units(c) PROVE f[u] \in Units(d)
    <2> DEFINE k == IF u[1] < i THEN u[1] ELSE u[1] + 1
    <2>1. /\ f[u] = <<k, u[2]>> /\ u[1] \in 1 .. Len(c.order) /\ u[2] \in 1 .. 2
          /\ u[2] <= c.order[u[1]].weight
      BY <1>2, <1>3
    <2>2. k \in 1 .. Len(c.order) + 1 /\ d.order[k] = c.order[u[1]]
      BY <1>1, <2>1, SMTT(30)
    <2> HIDE DEF f, k
    <2> QED
      BY <1>2, <2>1, <2>2
  <1>5. \A u, v \in Units(c) : f[u] = f[v] => u = v
    <2> SUFFICES ASSUME NEW u \in Units(c), NEW v \in Units(c), f[u] = f[v]
                 PROVE  u = v
      OBVIOUS
    <2>1. u[2] = v[2] /\ u[1] = v[1]
      BY <1>1, <1>3
    <2>2. u = <<u[1], u[2]>> /\ v = <<v[1], v[2]>>
      BY <1>2
    <2> QED
      BY <2>1, <2>2
  <1>6. ASSUME NEW t \in Units(d) PROVE \E u \in Units(c) : f[u] = t
    <2>1. /\ t \in (1 .. Len(c.order) + 1) \X (1 .. 2)
          /\ t[2] <= d.order[t[1]].weight
      BY <1>2
    <2>2. t[1] # i
      BY <2>1
    <2> DEFINE u == IF t[1] < i THEN t ELSE <<t[1] - 1, t[2]>>
    <2>3. /\ u[1] \in 1 .. Len(c.order) /\ u[2] = t[2]
          /\ t[1] = IF u[1] < i THEN u[1] ELSE u[1] + 1
          /\ u \in (1 .. Len(c.order)) \X (1 .. 2)
      BY <1>1, <2>1, <2>2, SMTT(30)
    <2>4. d.order[t[1]] = c.order[u[1]]
      BY <2>3
    <2>5. u \in Units(c)
      BY <1>2, <2>1, <2>3, <2>4
    <2>6. f[u] = t
      BY <1>3, <2>1, <2>3, <2>5
    <2> QED
      BY <2>5, <2>6
  <1>7. \A u \in Units(c) : d.order[f[u][1]].node = c.order[u[1]].node
    BY <1>3
  <1>8. f \in [Units(c) -> Units(d)]
    BY <1>4
  <1> HIDE DEF f
  <1>9. f \in Bijection(Units(c), Units(d))
    BY <1>5, <1>6, <1>8 DEF Bijection, Injection, Surjection, IsInjective
  <1> QED
    BY <1>7, <1>9, Relabelled

\* Every weight of c, nothing or one, is doubled in d.
LEMMA AllDoubled ==
  ASSUME NEW N, NEW c \in Configs(N), NEW d \in Configs(N),
         Len(d.order) = Len(c.order),
         \A j \in 1 .. Len(c.order) :
             /\ d.order[j].node = c.order[j].node
             /\ d.order[j].weight = 2 * c.order[j].weight
  PROVE  Meet(c, d)
  <1>1. /\ Units(c) = {u \in (1 .. Len(c.order)) \X (1 .. 2) :
                          u[2] <= c.order[u[1]].weight}
        /\ Units(d) = {u \in (1 .. Len(c.order)) \X (1 .. 2) :
                          u[2] <= d.order[u[1]].weight}
        /\ IsFiniteSet(Units(c)) /\ IsFiniteSet(Units(d))
    BY UnitSet
  <1>2. \A j \in 1 .. Len(c.order) : c.order[j].weight \in 0 .. 1
    <2>1. \A j \in 1 .. Len(c.order) :
             c.order[j].weight \in 0 .. 2 /\ d.order[j].weight \in 0 .. 2
      BY OrderType
    <2> QED
      BY <2>1
  <1>3. \A u \in Units(c) : u = <<u[1], 1>> /\ u[1] \in 1 .. Len(c.order)
    BY <1>1, <1>2
  <1>4. \A j \in 1 .. Len(c.order) :
           /\ <<j, 1>> \in Units(d) <=> <<j, 1>> \in Units(c)
           /\ <<j, 2>> \in Units(d) <=> <<j, 1>> \in Units(c)
    BY <1>1, <1>2
  <1>5. ASSUME NEW S
        PROVE  Cardinality({u \in Units(d) : d.order[u[1]].node \in S})
               = 2 * Cardinality({u \in Units(c) : c.order[u[1]].node \in S})
    <2> DEFINE A == {u \in Units(c) : c.order[u[1]].node \in S}
               B == {u \in Units(d) : d.order[u[1]].node \in S}
               C == {u \in B : u[2] = 2}
               g == [u \in A |-> <<u[1], 2>>]
    <2>1. \A u \in Units(d) : u = <<u[1], u[2]>> /\ u[1] \in 1 .. Len(c.order)
                              /\ u[2] \in {1, 2}
      BY <1>1
    <2>2. \A u \in A : u \in B /\ u[2] = 1
      <3> SUFFICES ASSUME NEW u \in A PROVE u \in B /\ u[2] = 1
        OBVIOUS
      <3>1. u = <<u[1], 1>> /\ u[1] \in 1 .. Len(c.order)
        BY <1>3
      <3>2. u \in Units(d)
        BY <1>4, <3>1
      <3> QED
        BY <3>1, <3>2
    <2>3. \A u \in B : u[2] = 2 \/ u \in A
      <3> SUFFICES ASSUME NEW u \in B, u[2] # 2 PROVE u \in A
        OBVIOUS
      <3>1. u = <<u[1], 1>> /\ u[1] \in 1 .. Len(c.order)
        BY <2>1
      <3>2. u \in Units(c)
        BY <1>4, <3>1
      <3> QED
        BY <3>1, <3>2
    <2>4. A \cup C = B /\ A \cap C = {}
      BY <2>2, <2>3
    <2>5. \A u \in A : <<u[1], 2>> \in C
      BY <1>3, <1>4
    <2>6. \A u, v \in A : g[u] = g[v] => u = v
      BY <1>3
    <2>7. \A t \in C : \E u \in A : g[u] = t
      <3> SUFFICES ASSUME NEW t \in C PROVE \E u \in A : g[u] = t
        OBVIOUS
      <3>1. t = <<t[1], 2>> /\ t[1] \in 1 .. Len(c.order)
        BY <2>1
      <3>2. <<t[1], 1>> \in A
        BY <1>4, <3>1
      <3> QED
        BY <3>1, <3>2
    <2>8. g \in [A -> C]
      BY <2>5
    <2>9. IsFiniteSet(A) /\ IsFiniteSet(C)
      BY <1>1, FS_Subset
    <2> HIDE DEF A, B, C, g
    <2>10. g \in Bijection(A, C)
      BY <2>6, <2>7, <2>8 DEF Bijection, Injection, Surjection, IsInjective
    <2>11. Cardinality(C) = Cardinality(A) /\ Cardinality(A) \in Nat
      BY <2>9, <2>10, FS_Bijection, FS_CardinalityType DEF ExistsBijection
    <2>12. Cardinality(B) = Cardinality(A) + Cardinality(C)
      BY <2>4, <2>9, Disjoint
    <2> QED
      BY <2>11, <2>12 DEF A, B
  <1>6. Total(d) = 2 * Total(c)
    <2> DEFINE S == {c.order[j].node : j \in 1 .. Len(c.order)}
    <2>1. {u \in Units(c) : c.order[u[1]].node \in S} = Units(c)
      BY <1>1
    <2>2. {u \in Units(d) : d.order[u[1]].node \in S} = Units(d)
      BY <1>1
    <2> QED
      BY <1>5, <2>1, <2>2 DEF Total
  <1> QED
    BY <1>5, <1>6, Doubled DEF WeightOfSet

-----------------------------------------------------------------------------
(* What the operations make of the order.                                   *)

\* A configuration with another order.
LEMMA Reordered ==
  ASSUME NEW N, NEW c \in Configs(N), NEW o
  PROVE  /\ [c EXCEPT !.order = o].order = o
         /\ o \in Seq([node : N, weight : 0 .. 2]) =>
               [c EXCEPT !.order = o] \in Configs(N)
  <1>1. [c EXCEPT !.order = o] = [era |-> c.era, order |-> o] /\ c.era \in Nat
    BY DEF Configs
  <1> QED
    BY <1>1 DEF Configs, MAX_WEIGHT

\* The members stay, with weights of their own each.
LEMMA Weighed ==
  ASSUME NEW N, NEW c \in Configs(N),
         NEW o \in [1 .. Len(c.order) -> [node : N, weight : 0 .. 2]]
  PROVE  /\ [c EXCEPT !.order = o] \in Configs(N)
         /\ [c EXCEPT !.order = o].order = o
         /\ Len(o) = Len(c.order)
  <1> DEFINE M == [node : N, weight : 0 .. 2]
  <1>1. Len(c.order) \in Nat
    BY OrderType
  <1>2. o \in [1 .. Len(c.order) -> M]
    OBVIOUS
  <1>3. o \in Seq(M) /\ Len(o) = Len(c.order)
    <2> HIDE DEF M
    <2> QED
      BY <1>1, <1>2
  <1> QED
    BY <1>3, Reordered

\* One member has another weight.
LEMMA ReweighedOrder ==
  ASSUME NEW N, NEW c \in Configs(N), NEW i \in 1 .. Len(c.order),
         NEW w \in 0 .. 2, NEW d, d = Reweighed(c, i, w)
  PROVE  /\ d \in Configs(N) /\ Len(d.order) = Len(c.order)
         /\ \A j \in 1 .. Len(c.order) :
               /\ d.order[j].node = c.order[j].node
               /\ d.order[j].weight = IF j = i THEN w ELSE c.order[j].weight
  <1> DEFINE ws == [j \in 1 .. Len(c.order) |->
                       IF j = i THEN w ELSE c.order[j].weight]
             o == [j \in 1 .. Len(c.order) |->
                      [node |-> c.order[j].node, weight |-> ws[j]]]
  <1>1. DOMAIN c.order = 1 .. Len(c.order)
        /\ \A j \in 1 .. Len(c.order) :
              /\ c.order[j].weight \in 0 .. 2
              /\ c.order[j] = [node |-> c.order[j].node, weight |-> c.order[j].weight]
    <2>1. ASSUME NEW j \in 1 .. Len(c.order)
          PROVE  /\ c.order[j].weight \in 0 .. 2
                 /\ c.order[j] = [node |-> c.order[j].node, weight |-> c.order[j].weight]
      <3>1. c.order[j].weight \in 0 .. 2
        BY OrderType
      <3>2. c.order[j] \in [node : N, weight : 0 .. 2]
        BY OrderType
      <3> QED
        BY <3>1, <3>2
    <2>2. DOMAIN c.order = 1 .. Len(c.order)
      BY OrderType
    <2> QED
      BY <2>1, <2>2, Zenon
  <1>2. [c.order EXCEPT ![i].weight = w] = o
    <2>1. [c.order[i] EXCEPT !.weight = w] = [node |-> c.order[i].node, weight |-> w]
      <3>1. \A a, b : [[node |-> a, weight |-> b] EXCEPT !.weight = w]
                      = [node |-> a, weight |-> w]
        OBVIOUS
      <3>2. c.order[i] = [node |-> c.order[i].node, weight |-> c.order[i].weight]
        BY <1>1, Zenon
      <3> QED
        BY <3>1, <3>2
    <2>2. [c.order EXCEPT ![i].weight = w]
          = [j \in 1 .. Len(c.order) |->
                IF j = i THEN [c.order[i] EXCEPT !.weight = w] ELSE c.order[j]]
      BY <1>1, OrderType
    <2> QED
      BY <1>1, <2>1, <2>2
  <1>3. [c EXCEPT !.order = o] = d
    BY <1>2 DEF Reweighed
  <1>4. \A j \in 1 .. Len(c.order) : ws[j] \in 0 .. 2
    BY <1>1
  <1>5. \A j \in 1 .. Len(c.order) : c.order[j].node \in N
    BY OrderType
  <1> HIDE DEF ws
  <1>6. /\ o \in [1 .. Len(c.order) -> [node : N, weight : 0 .. 2]]
        /\ \A j \in 1 .. Len(c.order) :
              o[j].node = c.order[j].node /\ o[j].weight = ws[j]
    BY <1>4, <1>5
  <1> HIDE DEF o
  <1>7. /\ [c EXCEPT !.order = o] \in Configs(N)
        /\ [c EXCEPT !.order = o].order = o /\ Len(o) = Len(c.order)
    BY <1>6, Weighed
  <1>8. /\ d \in Configs(N) /\ Len(d.order) = Len(c.order)
        /\ \A j \in 1 .. Len(c.order) :
              d.order[j].node = c.order[j].node /\ d.order[j].weight = ws[j]
    BY <1>3, <1>6, <1>7, Zenon
  <1> QED
    BY <1>8 DEF ws

\* An element comes in between.
LEMMA Inserted ==
  ASSUME NEW M, NEW s \in Seq(M), NEW e \in M, NEW i \in 1 .. Len(s) + 1, NEW t,
         t = InsertAt(s, i, e)
  PROVE  /\ t \in Seq(M) /\ Len(t) = Len(s) + 1 /\ t[i] = e
         /\ \A j \in 1 .. Len(s) : t[IF j < i THEN j ELSE j + 1] = s[j]
  <1> DEFINE p == SubSeq(s, 1, i - 1)
             q == SubSeq(s, i, Len(s))
  <1>1. Len(s) \in Nat /\ i \in Nat /\ i <= Len(s) + 1 /\ i >= 1
    OBVIOUS
  <1>2. /\ p \in Seq(M) /\ Len(p) = i - 1
        /\ \A j \in 1 .. i - 1 : p[j] = s[j]
    BY <1>1
  <1>3. /\ q \in Seq(M) /\ Len(q) = Len(s) + 1 - i
        /\ \A j \in 1 .. Len(s) + 1 - i : q[j] = s[i + j - 1]
    BY <1>1
  <1> DEFINE r == p \o <<e>>
  <1>4. t = r \o q
    BY DEF InsertAt
  <1> HIDE DEF p, q
  <1>5. /\ r \in Seq(M) /\ Len(r) = i
        /\ \A j \in 1 .. i - 1 : r[j] = s[j]
        /\ r[i] = e
    BY <1>1, <1>2
  <1> HIDE DEF r
  <1>6. t \in Seq(M) /\ Len(t) = Len(s) + 1
    BY <1>1, <1>3, <1>4, <1>5
  <1>7. /\ \A j \in 1 .. i : t[j] = r[j]
        /\ \A j \in i + 1 .. Len(s) + 1 : t[j] = q[j - i]
    BY <1>1, <1>3, <1>4, <1>5
  <1>8. t[i] = e
    BY <1>1, <1>5, <1>7
  <1>9. ASSUME NEW j \in 1 .. Len(s)
        PROVE  t[IF j < i THEN j ELSE j + 1] = s[j]
    <2>1. CASE j < i
      BY <1>1, <1>5, <1>7, <2>1
    <2>2. CASE ~(j < i)
      <3>1. t[j + 1] = q[j + 1 - i]
        BY <1>1, <1>7, <2>2
      <3>2. q[j + 1 - i] = s[j]
        BY <1>1, <1>3, <2>2
      <3> QED
        BY <2>2, <3>1, <3>2
    <2> QED
      BY <2>1, <2>2
  <1> QED
    BY <1>6, <1>8, <1>9

\* An element goes.
LEMMA Removed ==
  ASSUME NEW M, NEW s \in Seq(M), NEW i \in 1 .. Len(s)
  PROVE  /\ RemoveAt(s, i) \in Seq(M) /\ Len(s) = Len(RemoveAt(s, i)) + 1
         /\ \A j \in 1 .. Len(RemoveAt(s, i)) :
               s[IF j < i THEN j ELSE j + 1] = RemoveAt(s, i)[j]
  <1> DEFINE t == RemoveAt(s, i)
  <1> DEFINE p == SubSeq(s, 1, i - 1)
             q == SubSeq(s, i + 1, Len(s))
  <1>1. Len(s) \in Nat /\ i \in Nat /\ i <= Len(s) /\ i >= 1
    OBVIOUS
  <1>2. /\ p \in Seq(M) /\ Len(p) = i - 1
        /\ \A j \in 1 .. i - 1 : p[j] = s[j]
    BY <1>1
  <1>3. /\ q \in Seq(M) /\ Len(q) = Len(s) - i
        /\ \A j \in 1 .. Len(s) - i : q[j] = s[i + j]
    BY <1>1
  <1>4. t = p \o q
    BY DEF RemoveAt
  <1> HIDE DEF p, q, t
  <1>5. t \in Seq(M) /\ Len(t) = Len(s) - 1
    <2>1. p \o q \in Seq(M) /\ Len(p \o q) = Len(p) + Len(q)
      BY <1>2, <1>3, ConcatProperties
    <2> QED
      BY <1>1, <1>2, <1>3, <1>4, <2>1
  <1>6. /\ \A j \in 1 .. i - 1 : t[j] = p[j]
        /\ \A j \in i .. Len(s) - 1 : t[j] = q[j - i + 1]
    BY <1>1, <1>2, <1>3, <1>4
  <1>7. ASSUME NEW j \in 1 .. Len(t)
        PROVE  s[IF j < i THEN j ELSE j + 1] = t[j]
    <2>1. CASE j < i
      BY <1>1, <1>2, <1>5, <1>6, <2>1
    <2>2. CASE ~(j < i)
      <3>1. t[j] = q[j - i + 1]
        BY <1>1, <1>5, <1>6, <2>2
      <3>2. q[j - i + 1] = s[j + 1]
        BY <1>1, <1>3, <1>5, <2>2
      <3> QED
        BY <2>2, <3>1, <3>2
    <2> QED
      BY <2>1, <2>2
  <1> QED
    BY <1>1, <1>5, <1>7 DEF t

-----------------------------------------------------------------------------
(* The operations, one by one.                                             *)

\* A voter gains a unit.
LEMMA IncrementMeets ==
  ASSUME NEW N, NEW c \in Configs(N), NEW n, NEW d \in Increment(c, n)
  PROVE  d \in Configs(N) /\ Meet(c, d)
  <1>1. PICK i \in DOMAIN c.order :
           c.order[i].weight < MAX_WEIGHT /\ d = Reweighed(c, i, c.order[i].weight + 1)
    BY DEF Increment, At
  <1>2. i \in 1 .. Len(c.order) /\ c.order[i].weight \in 0 .. 2
    BY OrderType
  <1>3. c.order[i].weight + 1 \in 0 .. 2
    BY <1>1, <1>2 DEF MAX_WEIGHT
  <1>4. /\ d \in Configs(N) /\ Len(d.order) = Len(c.order)
        /\ \A j \in 1 .. Len(c.order) :
              /\ d.order[j].node = c.order[j].node
              /\ d.order[j].weight = IF j = i THEN c.order[i].weight + 1
                                     ELSE c.order[j].weight
    BY <1>1, <1>2, <1>3, ReweighedOrder, SMTT(30)
  <1> QED
    BY <1>2, <1>4, OneUnit

\* A voter loses a unit.
LEMMA DecrementMeets ==
  ASSUME NEW N, NEW c \in Configs(N), NEW n, NEW d \in Decrement(c, n)
  PROVE  d \in Configs(N) /\ Meet(c, d)
  <1>1. PICK i \in DOMAIN c.order :
           c.order[i].weight # 0 /\ d = Reweighed(c, i, c.order[i].weight - 1)
    BY DEF Decrement, At
  <1>2. i \in 1 .. Len(c.order) /\ c.order[i].weight \in 0 .. 2
    BY OrderType
  <1>3. c.order[i].weight - 1 \in 0 .. 2
    BY <1>1, <1>2
  <1>4. /\ d \in Configs(N) /\ Len(d.order) = Len(c.order)
        /\ \A j \in 1 .. Len(c.order) :
              /\ d.order[j].node = c.order[j].node
              /\ d.order[j].weight = IF j = i THEN c.order[i].weight - 1
                                     ELSE c.order[j].weight
    BY <1>1, <1>2, <1>3, ReweighedOrder
  <1>5. \A j \in 1 .. Len(d.order) :
           /\ c.order[j].node = d.order[j].node
           /\ c.order[j].weight = IF j = i THEN d.order[j].weight + 1
                                  ELSE d.order[j].weight
    BY <1>2, <1>4
  <1>6. Meet(d, c)
    BY <1>2, <1>4, <1>5, OneUnit
  <1> QED
    BY <1>4, <1>6, MeetSym

\* A scaling gives every member the weight w.
LEMMA ScaledOrder ==
  ASSUME NEW N, NEW c \in Configs(N),
         NEW w, \A j \in 1 .. Len(c.order) : w[j] \in 0 .. 2, NEW d,
         d = [c EXCEPT !.order = [j \in DOMAIN c.order |->
                                     [c.order[j] EXCEPT !.weight = w[j]]]]
  PROVE  /\ d \in Configs(N) /\ Len(d.order) = Len(c.order)
         /\ \A j \in 1 .. Len(c.order) :
               d.order[j].node = c.order[j].node /\ d.order[j].weight = w[j]
  <1>1. \A a, b, v : [[node |-> a, weight |-> b] EXCEPT !.weight = v]
                     = [node |-> a, weight |-> v]
    OBVIOUS
  <1>2. ASSUME NEW j \in 1 .. Len(c.order)
        PROVE  [c.order[j] EXCEPT !.weight = w[j]]
               = [node |-> c.order[j].node, weight |-> w[j]]
    <2>1. c.order[j] = [node |-> c.order[j].node, weight |-> c.order[j].weight]
      <3>1. c.order[j] \in [node : N, weight : 0 .. 2]
        BY OrderType
      <3> QED
        BY <3>1
    <2> QED
      BY <1>1, <2>1
  <1>3. DOMAIN c.order = 1 .. Len(c.order)
    BY OrderType
  <1> DEFINE o == [j \in DOMAIN c.order |-> [c.order[j] EXCEPT !.weight = w[j]]]
  <1>4. [c EXCEPT !.order = o] = d
    OBVIOUS
  <1>5. \A j \in 1 .. Len(c.order) : c.order[j].node \in N
    BY OrderType
  <1>6. /\ o \in [1 .. Len(c.order) -> [node : N, weight : 0 .. 2]]
        /\ \A j \in 1 .. Len(c.order) :
              o[j].node = c.order[j].node /\ o[j].weight = w[j]
    BY <1>2, <1>3, <1>5
  <1> HIDE DEF o
  <1>7. /\ [c EXCEPT !.order = o] \in Configs(N)
        /\ [c EXCEPT !.order = o].order = o /\ Len(o) = Len(c.order)
    BY <1>6, Weighed
  <1> QED
    BY <1>4, <1>6, <1>7, Zenon

\* Every weight is doubled.
LEMMA DoubleMeets ==
  ASSUME NEW N, NEW c \in Configs(N), NEW d \in Double(c)
  PROVE  d \in Configs(N) /\ Meet(c, d)
  <1> DEFINE w == [j \in 1 .. Len(c.order) |-> 2 * c.order[j].weight]
  <1>1. DOMAIN c.order = 1 .. Len(c.order)
        /\ \A j \in 1 .. Len(c.order) : c.order[j].weight \in 0 .. 2
    BY OrderType
  <1>2. /\ \A j \in 1 .. Len(c.order) : 2 * c.order[j].weight <= 2
        /\ d = [c EXCEPT !.order = [j \in DOMAIN c.order |->
                    [c.order[j] EXCEPT !.weight = 2 * c.order[j].weight]]]
    BY <1>1 DEF Double, Provided, Scaled, MAX_WEIGHT
  <1>3. \A j \in 1 .. Len(c.order) : w[j] \in 0 .. 2
    BY <1>1, <1>2, SMTT(30)
  <1>4. d = [c EXCEPT !.order = [j \in DOMAIN c.order |->
                    [c.order[j] EXCEPT !.weight = w[j]]]]
    BY <1>1, <1>2
  <1>5. \A j \in 1 .. Len(c.order) : w[j] = 2 * c.order[j].weight
    OBVIOUS
  <1> HIDE DEF w
  <1>6. /\ d \in Configs(N) /\ Len(d.order) = Len(c.order)
        /\ \A j \in 1 .. Len(c.order) :
              d.order[j].node = c.order[j].node /\ d.order[j].weight = w[j]
    BY <1>3, <1>4, ScaledOrder
  <1> QED
    BY <1>5, <1>6, AllDoubled

\* Every weight is halved.
LEMMA HalveMeets ==
  ASSUME NEW N, NEW c \in Configs(N), NEW d \in Halve(c)
  PROVE  d \in Configs(N) /\ Meet(c, d)
  <1> DEFINE w == [j \in 1 .. Len(c.order) |-> c.order[j].weight \div 2]
  <1>1. DOMAIN c.order = 1 .. Len(c.order)
        /\ \A j \in 1 .. Len(c.order) : c.order[j].weight \in 0 .. 2
    BY OrderType
  <1>2. /\ \A j \in 1 .. Len(c.order) : c.order[j].weight % 2 = 0
        /\ d = [c EXCEPT !.order = [j \in DOMAIN c.order |->
                    [c.order[j] EXCEPT !.weight = c.order[j].weight \div 2]]]
    BY <1>1 DEF Halve, Provided, Scaled
  <1>3. \A j \in 1 .. Len(c.order) :
           w[j] \in 0 .. 2 /\ c.order[j].weight = 2 * w[j]
    <2>1. \A v \in 0 .. 2 : v % 2 = 0 => v \div 2 \in 0 .. 2 /\ v = 2 * (v \div 2)
      OBVIOUS
    <2>2. \A j \in 1 .. Len(c.order) : w[j] = c.order[j].weight \div 2
      OBVIOUS
    <2> HIDE DEF w
    <2> QED
      BY <1>1, <1>2, <2>1, <2>2
  <1>4. d = [c EXCEPT !.order = [j \in DOMAIN c.order |->
                    [c.order[j] EXCEPT !.weight = w[j]]]]
    BY <1>1, <1>2
  <1> HIDE DEF w
  <1>5. /\ d \in Configs(N) /\ Len(d.order) = Len(c.order)
        /\ \A j \in 1 .. Len(c.order) :
              d.order[j].node = c.order[j].node /\ d.order[j].weight = w[j]
    BY <1>3, <1>4, ScaledOrder
  <1>6. Meet(d, c)
    BY <1>3, <1>5, AllDoubled
  <1> QED
    BY <1>5, <1>6, MeetSym

\* A member joins without a vote.
LEMMA JoinMeets ==
  ASSUME NEW N, NEW c \in Configs(N), NEW n \in N, NEW p \in Nat,
         NEW d \in Join(c, n, p)
  PROVE  d \in Configs(N) /\ Meet(c, d)
  <1> DEFINE M == [node : N, weight : 0 .. 2]
             e == [node |-> n, weight |-> 0]
             o == InsertAt(c.order, p + 1, e)
  <1>1. p <= Len(c.order) /\ d = [c EXCEPT !.order = o]
    BY DEF Join, Provided
  <1>2. c.order \in Seq(M) /\ Len(c.order) \in Nat
    BY OrderType
  <1>3. e \in M /\ e.weight = 0
    OBVIOUS
  <1>4. p + 1 \in 1 .. Len(c.order) + 1
    BY <1>1, <1>2
  <1> HIDE DEF M, e
  <1>5. /\ o \in Seq(M) /\ Len(o) = Len(c.order) + 1 /\ o[p + 1] = e
        /\ \A j \in 1 .. Len(c.order) : o[IF j < p + 1 THEN j ELSE j + 1] = c.order[j]
    BY <1>2, <1>3, <1>4, Inserted
  <1> HIDE DEF o
  <1>6. d.order = o /\ d \in Configs(N)
    <2>1. [c EXCEPT !.order = o].order = o /\ [c EXCEPT !.order = o] \in Configs(N)
      BY <1>5, Reordered DEF M
    <2> QED
      BY <1>1, <2>1, Zenon
  <1>7. /\ Len(d.order) = Len(c.order) + 1 /\ d.order[p + 1].weight = 0
        /\ \A j \in 1 .. Len(c.order) :
              d.order[IF j < p + 1 THEN j ELSE j + 1] = c.order[j]
    BY <1>3, <1>5, <1>6
  <1> QED
    BY <1>4, <1>6, <1>7, Weightless

\* A member without a vote leaves.
LEMMA LeaveMeets ==
  ASSUME NEW N, NEW c \in Configs(N), NEW n, NEW d \in Leave(c, n)
  PROVE  d \in Configs(N) /\ Meet(c, d)
  <1> DEFINE M == [node : N, weight : 0 .. 2]
  <1>1. PICK i \in DOMAIN c.order :
           c.order[i].weight = 0 /\ d = [c EXCEPT !.order = RemoveAt(c.order, i)]
    BY DEF Leave, At
  <1> DEFINE o == RemoveAt(c.order, i)
  <1>2. c.order \in Seq(M) /\ i \in 1 .. Len(c.order)
    BY OrderType
  <1>3. d = [c EXCEPT !.order = o] /\ o = RemoveAt(c.order, i)
    BY <1>1
  <1> HIDE DEF M, o
  <1>4. /\ o \in Seq(M) /\ Len(c.order) = Len(o) + 1
        /\ \A j \in 1 .. Len(o) : c.order[IF j < i THEN j ELSE j + 1] = o[j]
    BY <1>2, Removed DEF o
  <1>5. d.order = o /\ d \in Configs(N)
    <2>1. [c EXCEPT !.order = o].order = o /\ [c EXCEPT !.order = o] \in Configs(N)
      BY <1>4, Reordered DEF M
    <2> QED
      BY <1>3, <2>1, Zenon
  <1>6. /\ i \in 1 .. Len(d.order) + 1 /\ Len(c.order) = Len(d.order) + 1
        /\ \A j \in 1 .. Len(d.order) :
              c.order[IF j < i THEN j ELSE j + 1] = d.order[j]
    BY <1>2, <1>4, <1>5
  <1>7. Meet(d, c)
    BY <1>1, <1>5, <1>6, Weightless
  <1> QED
    BY <1>5, <1>7, MeetSym

\* An era number is no weight.
LEMMA EraMeets ==
  ASSUME NEW N, NEW c \in Configs(N), NEW b \in Configs(N), Meet(c, b),
         NEW d \in NextEra(b)
  PROVE  d \in Configs(N) /\ Meet(c, d)
  <1>1. d.order = b.order /\ d \in Configs(N)
    BY DEF NextEra, Configs
  <1>2. /\ Members(d) = Members(b)
        /\ \A S : IsQuorum(d, S) <=> IsQuorum(b, S)
    BY <1>1 DEF Members, IsQuorum, WeightOfSet, Total, Units
  <1> QED
    BY <1>1, <1>2 DEF Meet, DisjointQuorumsExist

-----------------------------------------------------------------------------
(* Folds. *)

\* Every nonempty set of naturals has a least element.
LEMMA Least ==
  ASSUME NEW T \in SUBSET Nat, T # {}
  PROVE  \E m \in T : \A k \in T : m <= k
  <1> DEFINE R == {ss \in Nat \X Nat : ss[1] < ss[2]}
  <1>1. IsWellFoundedOn(R, Nat)
    <2>1. OpToRel(<, Nat) = R
      BY Zenon DEF OpToRel
    <2> QED
      BY <2>1, NatLessThanWellFounded, Zenon
  <1> HIDE DEF R
  <1>2. PICK x \in T : \A y \in T : ~(<<y, x>> \in R)
    BY <1>1, WFMin
  <1>3. ASSUME NEW y \in T PROVE x <= y
    <2>1. ~(y < x)
      BY <1>2 DEF R
    <2> QED
      BY <2>1
  <1> QED
    BY <1>3

\* A set of naturals that holds zero and every successor holds them all.
LEMMA SetInduction ==
  ASSUME NEW T \in SUBSET Nat, 0 \in T, \A n \in T : n + 1 \in T
  PROVE  T = Nat
  <1> SUFFICES ASSUME Nat \ T # {} PROVE FALSE
    OBVIOUS
  <1>1. PICK m \in Nat \ T : \A k \in Nat \ T : m <= k
    BY Least
  <1>2. m # 0 /\ m - 1 \in T
    BY <1>1
  <1> QED
    BY <1>1, <1>2

\* A family that holds every set whose smaller subsets it holds, holds every
\* subset of a finite set.
LEMMA SubsetInduction ==
  ASSUME NEW S, IsFiniteSet(S), NEW T,
         \A s \in SUBSET S : (\A x \in s : s \ {x} \in T) => s \in T
  PROVE  \A s \in SUBSET S : s \in T
  <1> DEFINE R == StrictSubsetOrdering(S)
             bad == {s \in SUBSET S : s \notin T}
  <1>1. IsWellFoundedOn(R, SUBSET S)
    <2>1. IsWellFoundedOn(R, FiniteSubsetsOf(S))
      BY FS_StrictSubsetOrderingWellFounded, Zenon
    <2>2. FiniteSubsetsOf(S) = SUBSET S
      BY FS_FiniteSubsetsOfFinite, Zenon
    <2> QED
      BY <2>1, <2>2, Zenon
  <1>2. ASSUME bad # {} PROVE FALSE
    <2> HIDE DEF R
    <2>1. PICK b \in bad : \A s \in bad : ~(<<s, b>> \in R)
      BY <1>1, <1>2, WFMin
    <2>2. ASSUME NEW x \in b PROVE b \ {x} \in T
      <3>1. b \ {x} \in SUBSET S /\ b \in SUBSET S
        BY <2>1
      <3>2. b \ {x} \subseteq b /\ b \ {x} # b
        BY <2>2
      <3>3. <<b \ {x}, b>> \in R
        BY <3>1, <3>2 DEF R, StrictSubsetOrdering
      <3> QED
        BY <2>1, <3>1, <3>3
    <2> QED
      BY <2>1, <2>2
  <1> QED
    BY <1>2

\* What a fold is, subset by subset.
Folds(g, S, b, ch, st) ==
    g = [s \in SUBSET S |-> IF s = {} THEN b ELSE st[<<ch[s], g[s \ {ch[s]}]>>]]

\* There is a function that folds a finite set.
LEMMA FoldExists ==
  ASSUME NEW S, IsFiniteSet(S), NEW V, NEW b \in V,
         NEW ch, \A s \in SUBSET S : s # {} => ch[s] \in s,
         NEW st \in [S \X V -> V]
  PROVE  \E g : Folds(g, S, b, ch, st)
  <1> DEFINE Level(n) == {s \in SUBSET S : Cardinality(s) <= n}
             Upto(n, g) == g = [s \in Level(n) |->
                                  IF s = {} THEN b ELSE st[<<ch[s], g[s \ {ch[s]}]>>]]
             T == {n \in Nat : \E g : Upto(n, g)}
  <1>1. \A s \in SUBSET S : IsFiniteSet(s) /\ Cardinality(s) \in Nat
    BY FS_Subset, FS_CardinalityType
  <1>2. ASSUME NEW s \in SUBSET S, s # {}
        PROVE  /\ s \ {ch[s]} \in SUBSET S
               /\ Cardinality(s \ {ch[s]}) = Cardinality(s) - 1
    BY <1>1, <1>2, FS_RemoveElement
  <1>3. 0 \in T
    <2> DEFINE g == [s \in Level(0) |-> b]
    <2>1. \A s \in Level(0) : s = {}
      BY <1>1, FS_EmptySet
    <2>2. g = [s \in Level(0) |-> IF s = {} THEN b ELSE st[<<ch[s], g[s \ {ch[s]}]>>]]
      BY <2>1
    <2>3. Upto(0, g)
      BY <2>2
    <2> HIDE DEF g, Upto
    <2> QED
      BY <2>3
  <1>4. ASSUME NEW n \in T PROVE n + 1 \in T
    <2>1. PICK g : Upto(n, g)
      OBVIOUS
    <2> DEFINE k == [s \in Level(n + 1) |->
                        IF s = {} THEN b ELSE st[<<ch[s], g[s \ {ch[s]}]>>]]
    <2>2. ASSUME NEW s \in Level(n) PROVE s \in Level(n + 1) /\ k[s] = g[s]
      <3>1. s \in Level(n + 1)
        BY <1>1
      <3>2. g[s] = IF s = {} THEN b ELSE st[<<ch[s], g[s \ {ch[s]}]>>]
        BY <2>1, Zenon
      <3>3. k[s] = IF s = {} THEN b ELSE st[<<ch[s], g[s \ {ch[s]}]>>]
        BY <3>1, Zenon
      <3> QED
        BY <3>1, <3>2, <3>3, Zenon
    <2>3. ASSUME NEW s \in Level(n + 1), s # {} PROVE s \ {ch[s]} \in Level(n)
      <3>1. s \in SUBSET S /\ Cardinality(s) <= n + 1 /\ n \in Nat
        OBVIOUS
      <3> QED
        BY <1>1, <1>2, <2>3, <3>1
    <2>4. \A s \in Level(n + 1) :
             k[s] = IF s = {} THEN b ELSE st[<<ch[s], k[s \ {ch[s]}]>>]
      <3> SUFFICES ASSUME NEW s \in Level(n + 1)
                   PROVE  k[s] = IF s = {} THEN b ELSE st[<<ch[s], k[s \ {ch[s]}]>>]
        OBVIOUS
      <3>1. k[s] = IF s = {} THEN b ELSE st[<<ch[s], g[s \ {ch[s]}]>>]
        BY Zenon
      <3>2. s # {} => k[s \ {ch[s]}] = g[s \ {ch[s]}]
        BY <2>2, <2>3, Zenon
      <3> QED
        BY <3>1, <3>2, Zenon
    <2>5. k = [s \in Level(n + 1) |-> k[s]]
      BY Zenon
    <2> HIDE DEF k, Level
    <2>6. k = [s \in Level(n + 1) |-> IF s = {} THEN b ELSE st[<<ch[s], k[s \ {ch[s]}]>>]]
      BY <2>4, <2>5, Zenon
    <2>7. Upto(n + 1, k)
      BY <2>6
    <2>8. n + 1 \in Nat
      OBVIOUS
    <2> HIDE DEF Upto
    <2> QED
      BY <2>7, <2>8
  <1>5. Cardinality(S) \in T
    <2>1. T \in SUBSET Nat
      OBVIOUS
    <2>2. Cardinality(S) \in Nat
      BY FS_CardinalityType
    <2> HIDE DEF T
    <2> QED
      BY <1>3, <1>4, <2>1, <2>2, SetInduction
  <1>6. PICK g : Upto(Cardinality(S), g)
    BY <1>5
  <1>7. Level(Cardinality(S)) = SUBSET S
    BY FS_Subset
  <1>8. Folds(g, S, b, ch, st)
    BY <1>6, <1>7 DEF Folds
  <1> QED
    BY <1>8

\* The last of a nonempty set of positions.
LEMMA MaxIn ==
  ASSUME NEW n \in Nat, NEW s \in SUBSET (1 .. n), s # {}
  PROVE  Max(s) \in s
  <1> DEFINE T == {t \in SUBSET (1 .. n) : t = {} \/ \E m \in t : \A y \in t : m >= y}
  <1>1. IsFiniteSet(1 .. n)
    BY FS_Interval
  <1>2. ASSUME NEW t \in SUBSET (1 .. n), \A x \in t : t \ {x} \in T
        PROVE  t \in T
    <2>1. CASE t = {}
      BY <2>1
    <2>2. CASE t # {}
      <3>1. PICK x \in t : TRUE
        BY <2>2
      <3>2. t \ {x} \in T
        BY <1>2, <3>1
      <3>3. CASE t \ {x} = {}
        BY <3>1, <3>3
      <3>4. CASE t \ {x} # {}
        <4>1. PICK m \in t \ {x} : \A y \in t \ {x} : m >= y
          BY <3>2, <3>4
        <4>2. m \in Nat /\ x \in Nat /\ m \in t
          BY <1>2, <3>1, <4>1
        <4>3. CASE m >= x
          BY <4>1, <4>2, <4>3
        <4>4. CASE x >= m
          <5>1. \A y \in t : y \in Nat
            OBVIOUS
          <5>2. \A y \in t : x >= y
            BY <4>1, <4>2, <4>4, <5>1
          <5> QED
            BY <3>1, <5>2
        <4> QED
          BY <4>2, <4>3, <4>4
      <3> QED
        BY <3>3, <3>4
    <2> QED
      BY <2>1, <2>2
  <1> HIDE DEF T
  <1> DEFINE S == 1 .. n
  <1> HIDE DEF S
  <1>3. \A t \in SUBSET S : t \in T
    <2>1. IsFiniteSet(S) /\ \A t \in SUBSET S : (\A x \in t : t \ {x} \in T) => t \in T
      BY <1>1, <1>2 DEF S
    <2> QED
      BY <2>1, SubsetInduction
  <1>4. \E m \in s : \A y \in s : m >= y
    BY <1>3 DEF S, T
  <1> QED
    BY <1>4 DEF Max

-----------------------------------------------------------------------------
(* A batch's operations, folded.                                           *)

\* Operations on nodes of N.
OpsOver(N, ops) ==
    \A i \in DOMAIN ops : ops[i].op = "Join" => ops[i].node \in N /\ ops[i].position \in Nat

\* The configurations over N of c's era.
SameEra(N, c) == {d \in Configs(N) : d.era = c.era}

\* One operation keeps the era.
LEMMA OperationKeepsEra ==
  ASSUME NEW N, NEW c \in Configs(N), NEW op, NEW d \in ApplyInEra(c, op),
         op.op = "Join" => op.node \in N /\ op.position \in Nat
  PROVE  d \in Configs(N) /\ d.era = c.era
  <1>1. c = [era |-> c.era, order |-> c.order]
    BY OrderType
  <1>2. CASE op.op = "Increment"
    BY <1>1, <1>2, IncrementMeets DEF ApplyInEra, Increment, Reweighed
  <1>3. CASE op.op = "Decrement"
    BY <1>1, <1>3, DecrementMeets DEF ApplyInEra, Decrement, Reweighed
  <1>4. CASE op.op = "Double"
    BY <1>1, <1>4, DoubleMeets DEF ApplyInEra, Double, Provided, Scaled
  <1>5. CASE op.op = "Halve"
    BY <1>1, <1>5, HalveMeets DEF ApplyInEra, Halve, Provided, Scaled
  <1>6. CASE op.op = "Join"
    BY <1>1, <1>6, JoinMeets DEF ApplyInEra, Join, Provided
  <1>7. CASE op.op = "Leave"
    BY <1>1, <1>7, LeaveMeets DEF ApplyInEra, Leave
  <1>8. CASE op.op = "Nominate"
    BY <1>8 DEF ApplyInEra, Provided
  <1>9. op.op \in {"Increment", "Decrement", "Double", "Halve", "Join", "Leave", "Nominate"}
    BY DEF ApplyInEra
  <1> QED
    BY <1>2, <1>3, <1>4, <1>5, <1>6, <1>7, <1>8, <1>9

\* apply_batch before the checks of what came out.
Folded(c, ops) ==
    FoldLeft(LAMBDA S, op : UNION {ApplyInEra(d, op) : d \in S}, {c}, ops)

\* The last position of a sequence.
LEMMA LastPosition ==
  ASSUME NEW n \in Nat, n # 0
  PROVE  Max(1 .. n) = n /\ (1 .. n) \ {n} = 1 .. (n - 1)
  <1>1. n \in 1 .. n /\ \A y \in 1 .. n : n >= y
    OBVIOUS
  <1>2. /\ Max(1 .. n) \in 1 .. n
        /\ \A y \in 1 .. n : Max(1 .. n) >= y
    BY <1>1 DEF Max
  <1> QED
    BY <1>1, <1>2

\* A walk from b to e through V, of n steps st.
Walk(g, n, V, b, e, st) ==
    /\ g \in [0 .. n -> V] /\ g[0] = b /\ g[n] = e
    /\ \A k \in 1 .. n : g[k] = st[<<k, g[k - 1]>>]

\* What the fold of n positions by st is, subset by subset.
FoldOf(h, n, b, st) ==
    h = [s \in SUBSET (1 .. n) |->
            IF s = {} THEN b ELSE st[<<Max(s), h[s \ {Max(s)}]>>]]

\* A fold of n positions that is by st wherever what is folded before is in V.
FoldsBy(f, n, V, b, st) ==
    /\ f[{}] = b
    /\ \A s \in SUBSET (1 .. n) :
          s # {} /\ f[s \ {Max(s)}] \in V => f[s] = st[<<Max(s), f[s \ {Max(s)}]>>]

\* A fold of the positions of a sequence, whose step is st wherever the fold
\* before it is one of V, walks from b through V, one position at a time.
LEMMA FoldWalks ==
  ASSUME NEW n \in Nat, NEW V, NEW b \in V, NEW st \in [(1 .. n) \X V -> V],
         NEW f, FoldsBy(f, n, V, b, st)
  PROVE  \E g : Walk(g, n, V, b, f[1 .. n], st)
  <1> DEFINE T == {k \in Nat : k <= n => f[1 .. k] \in V}
             g == [k \in 0 .. n |-> f[1 .. k]]
  <1>1. ASSUME NEW k \in 1 .. n, f[1 .. (k - 1)] \in V
        PROVE  f[1 .. k] = st[<<k, f[1 .. (k - 1)]>>] /\ f[1 .. k] \in V
    <2>1. /\ Max(1 .. k) = k /\ (1 .. k) \ {k} = 1 .. (k - 1)
          /\ 1 .. k \in SUBSET (1 .. n) /\ 1 .. k # {}
      BY LastPosition
    <2>2. f[1 .. k] = st[<<k, f[1 .. (k - 1)]>>]
      BY <1>1, <2>1 DEF FoldsBy
    <2> QED
      BY <1>1, <2>2
  <1>2. f[1 .. 0] = b
    <2>1. 1 .. 0 = {}
      OBVIOUS
    <2> QED
      BY <2>1 DEF FoldsBy
  <1>3. 0 \in T
    BY <1>2
  <1>4. ASSUME NEW k \in T PROVE k + 1 \in T
    <2>1. k + 1 <= n => k + 1 \in 1 .. n /\ (k + 1) - 1 = k /\ f[1 .. k] \in V
      OBVIOUS
    <2>2. k + 1 <= n => f[1 .. (k + 1)] \in V
      BY <1>1, <2>1
    <2> QED
      BY <2>2
  <1>5. \A k \in 0 .. n : f[1 .. k] \in V
    <2>1. T \in SUBSET Nat
      OBVIOUS
    <2>2. T = Nat
      <3> HIDE DEF T
      <3> QED
        BY <1>3, <1>4, <2>1, SetInduction
    <2> QED
      BY <2>2
  <1>6. g \in [0 .. n -> V] /\ g[0] = b /\ g[n] = f[1 .. n]
    BY <1>2, <1>5
  <1>7. ASSUME NEW k \in 1 .. n PROVE g[k] = st[<<k, g[k - 1]>>]
    <2>1. k \in 0 .. n /\ k - 1 \in 0 .. n
      OBVIOUS
    <2>2. g[k] = f[1 .. k] /\ g[k - 1] = f[1 .. (k - 1)]
      BY <2>1
    <2> QED
      BY <1>1, <1>5, <2>1, <2>2
  <1> HIDE DEF g
  <1> QED
    BY <1>6, <1>7 DEF Walk

\* Such a fold exists.
LEMMA FoldSolved ==
  ASSUME NEW n \in Nat, NEW V, NEW b \in V, NEW st \in [(1 .. n) \X V -> V]
  PROVE  \E h : FoldOf(h, n, b, st) /\ \A s \in SUBSET (1 .. n) : h[s] \in V
  <1> DEFINE S == 1 .. n
             ch == [s \in SUBSET S |-> Max(s)]
  <1>1. \A s \in SUBSET S : s # {} => ch[s] \in s
    BY MaxIn
  <1>2. IsFiniteSet(S)
    BY FS_Interval
  <1>3. \A s \in SUBSET S : ch[s] = Max(s)
    OBVIOUS
  <1> HIDE DEF ch, S
  <1>4. PICK h : Folds(h, S, b, ch, st)
    BY <1>1, <1>2, FoldExists DEF S
  <1>5. h = [s \in SUBSET S |-> IF s = {} THEN b ELSE st[<<Max(s), h[s \ {Max(s)}]>>]]
    BY <1>3, <1>4, Zenon DEF Folds
  <1>6. \A s \in SUBSET S : h[s] = IF s = {} THEN b ELSE st[<<Max(s), h[s \ {Max(s)}]>>]
    BY <1>5, Zenon
  <1> DEFINE T == {s \in SUBSET S : h[s] \in V}
  <1>7. ASSUME NEW s \in SUBSET S, \A x \in s : s \ {x} \in T PROVE s \in T
    <2>1. CASE s = {}
      BY <1>6, <2>1
    <2>2. CASE s # {}
      <3>1. Max(s) \in s /\ Max(s) \in S
        BY <1>1, <1>3, <2>2
      <3>2. h[s \ {Max(s)}] \in V
        BY <1>7, <3>1
      <3>3. st[<<Max(s), h[s \ {Max(s)}]>>] \in V
        BY <3>1, <3>2 DEF S
      <3> QED
        BY <1>6, <2>2, <3>3
    <2> QED
      BY <2>1, <2>2
  <1>8. \A s \in SUBSET S : s \in T
    <2> HIDE DEF T
    <2> QED
      BY <1>2, <1>7, SubsetInduction
  <1> QED
    BY <1>5, <1>8 DEF S, FoldOf

\* apply_batch folds one operation after the other.
FoldedWalk(g, V, c, ops) ==
    /\ g \in [0 .. Len(ops) -> V]
    /\ g[0] = {c} /\ g[Len(ops)] = Folded(c, ops)
    /\ \A k \in 1 .. Len(ops) : g[k] = UNION {ApplyInEra(d, ops[k]) : d \in g[k - 1]}

\* The fold of a batch is such a walk, and stays where its steps stay.
LEMMA FoldedWalks ==
  ASSUME NEW c, NEW O, NEW ops \in Seq(O), NEW V, {c} \in V,
         \A i \in 1 .. Len(ops), v \in V : UNION {ApplyInEra(d, ops[i]) : d \in v} \in V
  PROVE  \E g : FoldedWalk(g, V, c, ops)
  <1> DEFINE n == Len(ops)
             Step(x, v) == UNION {ApplyInEra(d, ops[x]) : d \in v}
             Solves(g) == g = [s \in SUBSET (1 .. n) |->
                                 IF s = {} THEN {c} ELSE Step(Max(s), g[s \ {Max(s)}])]
             f == CHOOSE g : Solves(g)
             st == [p \in (1 .. n) \X V |-> Step(p[1], p[2])]
  <1>1. n \in Nat /\ DOMAIN ops = 1 .. n
    OBVIOUS
  <1>2. st \in [(1 .. n) \X V -> V] /\ \A x \in 1 .. n, v \in V : st[<<x, v>>] = Step(x, v)
    OBVIOUS
  <1>3. ASSUME NEW s \in SUBSET (1 .. n), s # {} PROVE Max(s) \in 1 .. n
    BY <1>1, <1>3, MaxIn
  <1>4. Folded(c, ops) = f[1 .. n]
    BY <1>1 DEF Folded, FoldLeft, MapThenFoldSet
  <1> HIDE DEF st, Step, n
  <1>5. \E g : Solves(g)
    <2>1. PICK h : FoldOf(h, n, {c}, st) /\ \A s \in SUBSET (1 .. n) : h[s] \in V
      BY <1>1, <1>2, FoldSolved
    <2>2. ASSUME NEW s \in SUBSET (1 .. n)
          PROVE  h[s] = IF s = {} THEN {c} ELSE Step(Max(s), h[s \ {Max(s)}])
      <3>1. h[s] = IF s = {} THEN {c} ELSE st[<<Max(s), h[s \ {Max(s)}]>>]
        BY <2>1, Zenon DEF FoldOf
      <3>2. s # {} => st[<<Max(s), h[s \ {Max(s)}]>>] = Step(Max(s), h[s \ {Max(s)}])
        BY <1>2, <1>3, <2>1
      <3> QED
        BY <3>1, <3>2
    <2>3. h = [s \in SUBSET (1 .. n) |-> h[s]]
      BY <2>1, Zenon DEF FoldOf
    <2>4. Solves(h)
      BY <2>2, <2>3, Zenon
    <2> QED
      BY <2>4
  <1>6. Solves(f)
    BY <1>5
  <1> HIDE DEF f
  <1>7. \A s \in SUBSET (1 .. n) : f[s] = IF s = {} THEN {c} ELSE Step(Max(s), f[s \ {Max(s)}])
    BY <1>6, Zenon
  <1> HIDE DEF Solves
  <1>8. ASSUME NEW s \in SUBSET (1 .. n), s # {}, f[s \ {Max(s)}] \in V
        PROVE  f[s] = st[<<Max(s), f[s \ {Max(s)}]>>]
    BY <1>2, <1>3, <1>7, <1>8
  <1>9. FoldsBy(f, n, V, {c}, st)
    BY <1>7, <1>8 DEF FoldsBy
  <1>10. PICK g : Walk(g, n, V, {c}, f[1 .. n], st)
    <2>1. st \in [(1 .. n) \X V -> V] /\ {c} \in V
      BY <1>2
    <2> QED
      BY <1>1, <1>9, <2>1, FoldWalks
  <1>11. ASSUME NEW k \in 1 .. n PROVE g[k] = Step(k, g[k - 1])
    <2>1. k - 1 \in 0 .. n
      BY <1>1
    <2> QED
      BY <1>2, <1>10, <2>1 DEF Walk
  <1>12. \A k \in 1 .. n : g[k] = UNION {ApplyInEra(d, ops[k]) : d \in g[k - 1]}
    BY <1>11 DEF Step
  <1>13. g \in [0 .. n -> V] /\ g[0] = {c} /\ g[n] = Folded(c, ops)
    BY <1>4, <1>10 DEF Walk
  <1> QED
    BY <1>12, <1>13 DEF n, FoldedWalk

\* What is folded stays in the era, over the same nodes; one operation alone
\* is applied once.
LEMMA FoldedInEra ==
  ASSUME NEW N, NEW c \in Configs(N), NEW O, NEW ops \in Seq(O), OpsOver(N, ops)
  PROVE  /\ Folded(c, ops) \subseteq SameEra(N, c)
         /\ Len(ops) = 1 => Folded(c, ops) = ApplyInEra(c, ops[1])
  <1> DEFINE V == SUBSET SameEra(N, c)
  <1>1. {c} \in V
    BY DEF SameEra
  <1>2. ASSUME NEW i \in 1 .. Len(ops), NEW v \in V, NEW d \in v, NEW e \in ApplyInEra(d, ops[i])
        PROVE  e \in SameEra(N, c)
    <2>1. d \in Configs(N) /\ d.era = c.era
      BY <1>2 DEF SameEra
    <2>2. ops[i].op = "Join" => ops[i].node \in N /\ ops[i].position \in Nat
      BY <1>2 DEF OpsOver
    <2> QED
      BY <1>2, <2>1, <2>2, OperationKeepsEra DEF SameEra
  <1>3. \A i \in 1 .. Len(ops), v \in V : UNION {ApplyInEra(d, ops[i]) : d \in v} \in V
    BY <1>2
  <1> HIDE DEF V
  <1>4. PICK g : FoldedWalk(g, V, c, ops)
    BY <1>1, <1>3, FoldedWalks
  <1>5. ASSUME Len(ops) = 1 PROVE Folded(c, ops) = ApplyInEra(c, ops[1])
    <2>1. g[1] = UNION {ApplyInEra(d, ops[1]) : d \in g[0]}
      BY <1>4, <1>5 DEF FoldedWalk
    <2> QED
      BY <1>4, <1>5, <2>1 DEF FoldedWalk
  <1>6. Folded(c, ops) \in V
    BY <1>4 DEF FoldedWalk
  <1> QED
    BY <1>5, <1>6 DEF V

-----------------------------------------------------------------------------
(* The mass that a batch moves.                                            *)

\* Members are finitely many.
LEMMA MembersFinite ==
  ASSUME NEW N, NEW c \in Configs(N)
  PROVE  IsFiniteSet(Members(c))
  <1>1. DOMAIN c.order = 1 .. Len(c.order) /\ Len(c.order) \in Nat
    BY OrderType
  <1>2. IsFiniteSet(DOMAIN c.order)
    <2>1. IsFiniteSet(1 .. Len(c.order))
      <3>1. \A n \in Nat : IsFiniteSet(1 .. n)
        BY FS_Interval
      <3> QED
        BY <1>1, <3>1, Zenon
    <2> QED
      BY <1>1, <2>1, Zenon
  <1> DEFINE D == DOMAIN c.order
             f == [i \in D |-> c.order[i].node]
  <1>3. Members(c) = {f[i] : i \in D}
    BY DEF Members
  <1>4. f \in Surjection(D, Members(c))
    BY <1>3 DEF Surjection
  <1> QED
    BY <1>2, <1>4, FS_Surjection

\* What a set holds is what it holds without a node, and that node's weight.
LEMMA WeightWithout ==
  ASSUME NEW N, NEW c \in Configs(N), NEW S, NEW n \in S
  PROVE  WeightOfSet(c, S) = WeightOfSet(c, S \ {n}) + WeightOf(c, n)
  <1> DEFINE W(X) == {u \in Units(c) : c.order[u[1]].node \in X}
  <1>1. IsFiniteSet(Units(c))
    BY UnitSet
  <1>2. IsFiniteSet(W(S \ {n})) /\ IsFiniteSet(W({n}))
    <2>1. W(S \ {n}) \in SUBSET Units(c) /\ W({n}) \in SUBSET Units(c)
      OBVIOUS
    <2> QED
      BY <1>1, <2>1, FS_Subset
  <1>3. W(S) = W(S \ {n}) \cup W({n}) /\ W(S \ {n}) \cap W({n}) = {}
    OBVIOUS
  <1> HIDE DEF W
  <1>4. Cardinality(W(S)) = Cardinality(W(S \ {n})) + Cardinality(W({n}))
    BY <1>2, <1>3, Disjoint
  <1> QED
    BY <1>4 DEF WeightOf, WeightOfSet, W

\* Only members hold weight.
LEMMA WeightOfMembers ==
  ASSUME NEW N, NEW c \in Configs(N), NEW U, Members(c) \subseteq U
  PROVE  /\ Total(c) = WeightOfSet(c, U)
         /\ \A S : WeightOfSet(c, S) = WeightOfSet(c, S \cap U)
  <1>1. \A u \in Units(c) : c.order[u[1]].node \in U
    <2>1. \A u \in Units(c) : u[1] \in DOMAIN c.order
      BY DEF Units
    <2> QED
      BY <2>1 DEF Members
  <1>2. {u \in Units(c) : c.order[u[1]].node \in U} = Units(c)
    BY <1>1
  <1>3. \A S : {u \in Units(c) : c.order[u[1]].node \in S}
               = {u \in Units(c) : c.order[u[1]].node \in S \cap U}
    BY <1>1
  <1> QED
    BY <1>2, <1>3, Zenon DEF Total, WeightOfSet

\* Sets whose nodes weigh the same in both hold the same.
LEMMA SameHolding ==
  ASSUME NEW N, NEW c \in Configs(N), NEW d \in Configs(N), NEW S, IsFiniteSet(S),
         \A n \in S : WeightOf(c, n) = WeightOf(d, n)
  PROVE  WeightOfSet(c, S) = WeightOfSet(d, S)
  <1> DEFINE T == {s \in SUBSET S : WeightOfSet(c, s) = WeightOfSet(d, s)}
  <1>1. ASSUME NEW s \in SUBSET S, \A x \in s : s \ {x} \in T
        PROVE  s \in T
    <2>1. CASE s = {}
      <3>1. \A b : {u \in Units(b) : b.order[u[1]].node \in {}} = {}
        OBVIOUS
      <3>2. WeightOfSet(c, {}) = WeightOfSet(d, {})
        BY <3>1, Zenon DEF WeightOfSet
      <3> QED
        BY <2>1, <3>2
    <2>2. CASE s # {}
      <3>1. PICK x \in s : TRUE
        BY <2>2
      <3>2. WeightOfSet(c, s \ {x}) = WeightOfSet(d, s \ {x})
        BY <1>1, <3>1
      <3>3. WeightOfSet(c, s) = WeightOfSet(c, s \ {x}) + WeightOf(c, x)
        BY <3>1, WeightWithout
      <3>4. WeightOfSet(d, s) = WeightOfSet(d, s \ {x}) + WeightOf(d, x)
        BY <3>1, WeightWithout
      <3>5. WeightOf(c, x) = WeightOf(d, x)
        BY <3>1
      <3> QED
        BY <3>2, <3>3, <3>4, <3>5
    <2> QED
      BY <2>1, <2>2
  <1> HIDE DEF T
  <1>2. \A s \in SUBSET S : s \in T
    BY <1>1, SubsetInduction
  <1>3. S \in T
    BY <1>2
  <1> QED
    BY <1>3 DEF T

\* One node weighs a unit more.
LEMMA UnitMoved ==
  ASSUME NEW N, NEW c \in Configs(N), NEW d \in Configs(N),
         NEW x \in Members(c) \cup Members(d),
         WeightOf(d, x) = WeightOf(c, x) + 1,
         \A n \in Members(c) \cup Members(d) : n # x => WeightOf(c, n) = WeightOf(d, n)
  PROVE  Meet(c, d)
  <1> DEFINE U == Members(c) \cup Members(d)
  <1>1. IsFiniteSet(U)
    BY MembersFinite, FS_Union
  <1>2. \A S : WeightOfSet(c, S) \in Nat /\ WeightOfSet(d, S) \in Nat
    BY UnitSet
  <1>3. ASSUME NEW S
        PROVE  WeightOfSet(d, S) = WeightOfSet(c, S) + IF x \in S THEN 1 ELSE 0
    <2>1. /\ WeightOfSet(c, S) = WeightOfSet(c, S \cap U)
          /\ WeightOfSet(d, S) = WeightOfSet(d, S \cap U)
      <3>1. Members(c) \subseteq U /\ Members(d) \subseteq U
        OBVIOUS
      <3> HIDE DEF U
      <3>2. WeightOfSet(c, S) = WeightOfSet(c, S \cap U)
        BY <3>1, WeightOfMembers
      <3>3. WeightOfSet(d, S) = WeightOfSet(d, S \cap U)
        BY <3>1, WeightOfMembers
      <3> QED
        BY <3>2, <3>3
    <2>2. IsFiniteSet(S \cap U) /\ IsFiniteSet((S \cap U) \ {x})
      BY <1>1, FS_Subset
    <2>3. WeightOfSet(c, (S \cap U) \ {x}) = WeightOfSet(d, (S \cap U) \ {x})
      BY <2>2, SameHolding
    <2>4. CASE x \in S
      <3>1. x \in S \cap U
        BY <2>4
      <3>2. /\ WeightOfSet(c, S \cap U) = WeightOfSet(c, (S \cap U) \ {x}) + WeightOf(c, x)
            /\ WeightOfSet(d, S \cap U) = WeightOfSet(d, (S \cap U) \ {x}) + WeightOf(d, x)
        BY <3>1, WeightWithout
      <3>3. WeightOf(c, x) \in Nat
        BY <1>2 DEF WeightOf
      <3> QED
        BY <1>2, <2>1, <2>3, <2>4, <3>2, <3>3
    <2>5. CASE x \notin S
      <3>1. (S \cap U) \ {x} = S \cap U
        BY <2>5
      <3> QED
        BY <1>2, <2>1, <2>3, <2>5, <3>1
    <2> QED
      BY <2>4, <2>5
  <1>4. Total(d) = Total(c) + 1
    <2>1. Total(c) = WeightOfSet(c, U) /\ Total(d) = WeightOfSet(d, U)
      BY WeightOfMembers
    <2> QED
      BY <1>3, <2>1
  <1> SUFFICES ASSUME NEW S, NEW T, S \cap T = {}, IsQuorum(c, S), IsQuorum(d, T)
               PROVE  FALSE
    BY MeetIf
  <1>5. 2 * WeightOfSet(c, S) > Total(c) /\ 2 * WeightOfSet(d, T) > Total(d)
    BY Majority
  <1>6. WeightOfSet(c, S) + WeightOfSet(c, T) <= Total(c)
    BY Split
  <1>7. WeightOfSet(d, T) <= WeightOfSet(c, T) + 1
    BY <1>2, <1>3
  <1>8. Total(c) \in Nat
    BY UnitSet
  <1> QED
    BY <1>2, <1>4, <1>5, <1>6, <1>7, <1>8

\* A sum of one at most is of one node at most, and its unit.
LEMMA MassBounds ==
  ASSUME NEW N, NEW c \in Configs(N), NEW d \in Configs(N), MassMoved(c, d) <= 1
  PROVE  LET U == Members(c) \cup Members(d)
             F(n) == Distance(WeightOf(c, n), WeightOf(d, n))
         IN  /\ \A n \in U : F(n) <= 1
             /\ \A n, m \in U : n # m => F(n) + F(m) <= 1
  <1> DEFINE U == Members(c) \cup Members(d)
             F(n) == Distance(WeightOf(c, n), WeightOf(d, n))
             Pick(s) == CHOOSE x \in s : TRUE
             Solves(g) == g = [s \in SUBSET U |->
                                 IF s = {} THEN 0 ELSE F(Pick(s)) + g[s \ {Pick(s)}]]
             f == CHOOSE g : Solves(g)
  <1>1. IsFiniteSet(U)
    BY MembersFinite, FS_Union
  <1>2. \A n : F(n) \in Nat
    <2>1. \A n : WeightOf(c, n) \in Nat /\ WeightOf(d, n) \in Nat
      BY UnitSet DEF WeightOf
    <2> QED
      BY <2>1 DEF Distance
  <1>3. \A s \in SUBSET U : s # {} => Pick(s) \in s
    OBVIOUS
  <1>4. MassMoved(c, d) = f[U]
    BY DEF MassMoved, MapThenSumSet, MapThenFoldSet
  <1> HIDE DEF F, Pick, U
  <1>5. \E g : Solves(g)
    <2> DEFINE ch == [s \in SUBSET U |-> Pick(s)]
               st == [p \in U \X Nat |-> F(p[1]) + p[2]]
    <2>1. st \in [U \X Nat -> Nat]
      BY <1>2
    <2>2. \A s \in SUBSET U : s # {} => ch[s] \in s
      BY <1>3
    <2> HIDE DEF ch, st
    <2>3. PICK g : Folds(g, U, 0, ch, st)
      BY <1>1, <2>1, <2>2, FoldExists
    <2>4. \A s \in SUBSET U : g[s] = IF s = {} THEN 0 ELSE st[<<ch[s], g[s \ {ch[s]}]>>]
      BY <2>3, Zenon DEF Folds
    <2> DEFINE T == {s \in SUBSET U : g[s] \in Nat}
    <2>5. \A s \in SUBSET U : s \in T
      <3>1. ASSUME NEW s \in SUBSET U, \A x \in s : s \ {x} \in T PROVE s \in T
        <4>1. CASE s = {}
          <5>1. g[s] = 0
            BY <2>4, <4>1, Zenon
          <5> QED
            BY <5>1
        <4>2. CASE s # {}
          <5>1. ch[s] \in s /\ g[s \ {ch[s]}] \in Nat /\ ch[s] \in U
            BY <2>2, <3>1, <4>2
          <5>2. st[<<ch[s], g[s \ {ch[s]}]>>] \in Nat
            BY <2>1, <5>1
          <5> QED
            BY <2>4, <4>2, <5>2
        <4> QED
          BY <4>1, <4>2
      <3> HIDE DEF T
      <3> QED
        BY <1>1, <3>1, SubsetInduction
    <2>6. ASSUME NEW s \in SUBSET U
          PROVE  g[s] = IF s = {} THEN 0 ELSE F(Pick(s)) + g[s \ {Pick(s)}]
      <3>1. CASE s = {}
        BY <2>4, <3>1
      <3>2. CASE s # {}
        <4>1. ch[s] = Pick(s)
          BY DEF ch
        <4>2. Pick(s) \in U /\ s \ {Pick(s)} \in SUBSET U
          BY <1>3, <3>2
        <4>3. g[s \ {Pick(s)}] \in Nat
          BY <2>5, <4>2
        <4>4. st[<<Pick(s), g[s \ {Pick(s)}]>>] = F(Pick(s)) + g[s \ {Pick(s)}]
          BY <4>2, <4>3 DEF st
        <4> QED
          BY <2>4, <3>2, <4>1, <4>4
      <3> QED
        BY <3>1, <3>2
    <2>7. g = [s \in SUBSET U |-> g[s]]
      BY <2>3 DEF Folds
    <2>8. Solves(g)
      BY <2>6, <2>7, Zenon
    <2> QED
      BY <2>8
  <1>6. Solves(f)
    BY <1>5
  <1> HIDE DEF f
  <1>7. \A s \in SUBSET U : f[s] = IF s = {} THEN 0 ELSE F(Pick(s)) + f[s \ {Pick(s)}]
    BY <1>6, Zenon
  <1> HIDE DEF Solves
  <1> DEFINE Bounded(s) == /\ f[s] \in Nat
                           /\ \A n \in s : F(n) <= f[s]
                           /\ \A n, m \in s : n # m => F(n) + F(m) <= f[s]
             T == {s \in SUBSET U : Bounded(s)}
  <1>8. \A s \in SUBSET U : s \in T
    <2>1. ASSUME NEW s \in SUBSET U, \A x \in s : s \ {x} \in T PROVE s \in T
      <3>1. CASE s = {}
        BY <1>7, <3>1
      <3>2. CASE s # {}
        <4> DEFINE x == Pick(s)
                   t == s \ {x}
        <4>1. x \in s /\ t \in T
          BY <1>3, <2>1, <3>2
        <4>2. f[s] = F(x) + f[t]
          BY <1>7, <3>2
        <4> HIDE DEF x, T
        <4>3. Bounded(t)
          BY <4>1 DEF T
        <4>4. \A n \in s : n = x \/ n \in t
          OBVIOUS
        <4> HIDE DEF t
        <4>5. f[s] \in Nat /\ f[s] >= f[t] /\ f[s] >= F(x)
          BY <1>2, <4>2, <4>3
        <4>6. \A n \in s : F(n) <= f[s]
          BY <1>2, <4>3, <4>4, <4>5
        <4>7. ASSUME NEW n \in s, NEW m \in s, n # m PROVE F(n) + F(m) <= f[s]
          <5>1. CASE n \in t /\ m \in t
            BY <1>2, <4>3, <4>5, <4>7, <5>1
          <5>2. CASE n = x /\ m \in t
            BY <1>2, <4>2, <4>3, <5>2
          <5>3. CASE n \in t /\ m = x
            BY <1>2, <4>2, <4>3, <5>3
          <5> QED
            BY <4>4, <4>7, <5>1, <5>2, <5>3
        <4> QED
          BY <4>5, <4>6, <4>7 DEF T
      <3> QED
        BY <3>1, <3>2
    <2> HIDE DEF T
    <2> QED
      BY <1>1, <2>1, SubsetInduction
  <1>9. Bounded(U)
    BY <1>8
  <1>10. f[U] <= 1
    BY <1>4
  <1>11. \A n \in U : F(n) <= 1
    BY <1>2, <1>9, <1>10
  <1>12. \A n, m \in U : n # m => F(n) + F(m) <= 1
    BY <1>2, <1>9, <1>10
  <1> QED
    BY <1>11, <1>12 DEF F, U

\* A unit of mass moves no two quorums apart.
LEMMA MassMeets ==
  ASSUME NEW N, NEW c \in Configs(N), NEW d \in Configs(N), MassMoved(c, d) <= 1
  PROVE  Meet(c, d)
  <1> DEFINE U == Members(c) \cup Members(d)
             F(n) == Distance(WeightOf(c, n), WeightOf(d, n))
  <1>1. /\ \A n \in U : F(n) <= 1
        /\ \A n, m \in U : n # m => F(n) + F(m) <= 1
    BY MassBounds
  <1>2. \A n : WeightOf(c, n) \in Nat /\ WeightOf(d, n) \in Nat
    BY UnitSet DEF WeightOf
  <1>3. \A n : /\ F(n) \in Nat
               /\ F(n) = 0 => WeightOf(c, n) = WeightOf(d, n)
               /\ F(n) = 1 => \/ WeightOf(d, n) = WeightOf(c, n) + 1
                              \/ WeightOf(c, n) = WeightOf(d, n) + 1
    BY <1>2 DEF Distance
  <1>4. CASE \A n \in U : F(n) = 0
    <2>1. IsFiniteSet(U)
      BY MembersFinite, FS_Union
    <2>2. \A n \in U : WeightOf(c, n) = WeightOf(d, n)
      BY <1>3, <1>4
    <2>3. ASSUME NEW S PROVE WeightOfSet(d, S) = WeightOfSet(c, S)
      <3>1. IsFiniteSet(S \cap U)
        BY <2>1, FS_Subset
      <3>2. WeightOfSet(c, S \cap U) = WeightOfSet(d, S \cap U)
        BY <2>2, <3>1, SameHolding
      <3>3. WeightOfSet(c, S) = WeightOfSet(c, S \cap U)
        BY WeightOfMembers
      <3>4. WeightOfSet(d, S) = WeightOfSet(d, S \cap U)
        BY WeightOfMembers
      <3> QED
        BY <3>2, <3>3, <3>4, Zenon
    <2>4. Total(c) = WeightOfSet(c, U) /\ Total(d) = WeightOfSet(d, U)
      BY WeightOfMembers
    <2> QED
      BY <2>3, <2>4, SameWeights
  <1>5. ASSUME NEW x \in U, F(x) # 0 PROVE Meet(c, d)
    <2>1. F(x) = 1
      BY <1>1, <1>3, <1>5
    <2>2. ASSUME NEW n \in U, n # x PROVE WeightOf(c, n) = WeightOf(d, n)
      <3>1. F(n) + F(x) <= 1
        BY <1>1, <2>2
      <3>2. F(n) = 0
        BY <1>3, <2>1, <3>1
      <3> QED
        BY <1>3, <3>2
    <2>3. CASE WeightOf(d, x) = WeightOf(c, x) + 1
      BY <2>2, <2>3, UnitMoved
    <2>4. CASE WeightOf(c, x) = WeightOf(d, x) + 1
      <3>1. x \in Members(d) \cup Members(c)
        OBVIOUS
      <3>2. \A n \in Members(d) \cup Members(c) : n # x => WeightOf(d, n) = WeightOf(c, n)
        BY <2>2
      <3>3. Meet(d, c)
        BY <2>4, <3>1, <3>2, UnitMoved
      <3> QED
        BY <3>3, MeetSym
    <2> QED
      BY <1>3, <2>1, <2>3, <2>4
  <1> QED
    BY <1>4, <1>5

-----------------------------------------------------------------------------
(* Operations have one outcome at most: replicas that apply the same       *)
(* operation to the same configuration come to the same.                   *)

\* No node is a member twice.
Distinct(c) == \A i, j \in DOMAIN c.order : c.order[i].node = c.order[j].node => i = j

\* The configurations over N that are that.
Sound(N) == {c \in Configs(N) : Distinct(c)}

\* An operation on nodes of N, when it brings any.
Over(N, op) == op.op = "Join" => op.node \in N /\ op.position \in Nat

\* A set of one element at most.
Single(S) == \A x, y \in S : x = y

\* A member's weight is at one position.
LEMMA OnePosition == ASSUME NEW c, Distinct(c), NEW n PROVE Single(At(c, n))
  BY DEF Distinct, Single, At

\* Other weights leave the members distinct.
LEMMA ReweighedDistinct ==
  ASSUME NEW c, Distinct(c), NEW d, DOMAIN d.order = DOMAIN c.order,
         \A j \in DOMAIN c.order : d.order[j].node = c.order[j].node
  PROVE  Distinct(d)
  BY DEF Distinct

\* Joining brings a node that was no member; leaving takes one.
LEMMA JoinDistinct ==
  ASSUME NEW N, NEW c \in Sound(N), NEW n \in N, NEW p \in Nat, NEW d \in Join(c, n, p)
  PROVE  Distinct(d)
  <1> DEFINE M == [node : N, weight : 0 .. 2]
             e == [node |-> n, weight |-> 0]
             o == InsertAt(c.order, p + 1, e)
  <1>1. p <= Len(c.order) /\ d = [c EXCEPT !.order = o] /\ n \notin Members(c)
    BY DEF Join, Provided
  <1>2. /\ c.order \in Seq(M) /\ e \in M /\ p + 1 \in 1 .. Len(c.order) + 1
        /\ c = [era |-> c.era, order |-> c.order] /\ Len(c.order) \in Nat
        /\ DOMAIN c.order = 1 .. Len(c.order)
    <2>1. c \in Configs(N) /\ e \in M
      BY DEF Sound
    <2>2. /\ c.order \in Seq(M) /\ c = [era |-> c.era, order |-> c.order]
          /\ Len(c.order) \in Nat /\ DOMAIN c.order = 1 .. Len(c.order)
      BY <2>1, OrderType
    <2> QED
      BY <1>1, <2>1, <2>2
  <1>3. /\ o \in Seq(M) /\ Len(o) = Len(c.order) + 1 /\ o[p + 1] = e
        /\ \A j \in 1 .. Len(c.order) : o[IF j < p + 1 THEN j ELSE j + 1] = c.order[j]
    <2> HIDE DEF M, e
    <2> QED
      BY <1>2, Inserted
  <1>4. d.order = o
    BY <1>1, <1>2
  <1>5. \A j \in 1 .. Len(c.order) : c.order[j].node # n
    BY <1>1, <1>2 DEF Members
  <1> HIDE DEF o
  <1>6. DOMAIN o = 1 .. Len(c.order) + 1 /\ o[p + 1].node = n
    BY <1>2, <1>3
  <1> DEFINE From(i) == IF i < p + 1 THEN i ELSE i - 1
  <1>7. ASSUME NEW i \in DOMAIN o, i # p + 1
        PROVE  From(i) \in 1 .. Len(c.order) /\ o[i] = c.order[From(i)]
    <2>1. From(i) \in 1 .. Len(c.order)
      BY <1>2, <1>6, <1>7
    <2>2. (IF From(i) < p + 1 THEN From(i) ELSE From(i) + 1) = i
      BY <1>2, <1>6, <1>7
    <2> HIDE DEF From
    <2>3. PICK k \in 1 .. Len(c.order) : k = From(i)
      BY <2>1
    <2>4. o[IF k < p + 1 THEN k ELSE k + 1] = c.order[k]
      BY <1>3
    <2>5. (IF k < p + 1 THEN k ELSE k + 1) = i
      BY <2>2, <2>3
    <2>6. o[i] = c.order[k]
      BY <2>4, <2>5
    <2> QED
      BY <2>3, <2>6
  <1>8. ASSUME NEW i \in DOMAIN o, NEW j \in DOMAIN o, o[i].node = o[j].node
        PROVE  i = j
    <2>1. CASE i = p + 1 \/ j = p + 1
      BY <1>5, <1>6, <1>7, <1>8, <2>1
    <2>2. CASE i # p + 1 /\ j # p + 1
      <3>1. From(i) = From(j)
        BY <1>2, <1>7, <1>8, <2>2 DEF Sound, Distinct
      <3> QED
        BY <1>2, <1>6, <2>2, <3>1
    <2> QED
      BY <2>1, <2>2
  <1> QED
    BY <1>4, <1>8 DEF Distinct

\* Leaving takes the one position of a member.
LEMMA LeaveDistinct ==
  ASSUME NEW N, NEW c \in Sound(N), NEW n, NEW d \in Leave(c, n)
  PROVE  Distinct(d)
  <1> DEFINE M == [node : N, weight : 0 .. 2]
  <1>1. PICK i \in DOMAIN c.order : d = [c EXCEPT !.order = RemoveAt(c.order, i)]
    BY DEF Leave, At
  <1> DEFINE o == RemoveAt(c.order, i)
             From(j) == IF j < i THEN j ELSE j + 1
  <1>2. /\ c.order \in Seq(M) /\ i \in 1 .. Len(c.order)
        /\ c = [era |-> c.era, order |-> c.order] /\ Len(c.order) \in Nat
        /\ DOMAIN c.order = 1 .. Len(c.order)
    BY OrderType DEF Sound
  <1>3. /\ o \in Seq(M) /\ Len(c.order) = Len(o) + 1
        /\ \A j \in 1 .. Len(o) : c.order[From(j)] = o[j]
    <2> HIDE DEF M
    <2> QED
      BY <1>2, Removed
  <1>4. d.order = o
    BY <1>1, <1>2
  <1> HIDE DEF o
  <1>5. DOMAIN o = 1 .. Len(o) /\ Len(o) \in Nat
    BY <1>3
  <1>6. ASSUME NEW j \in DOMAIN o, NEW k \in DOMAIN o, o[j].node = o[k].node
        PROVE  j = k
    <2>1. From(j) \in DOMAIN c.order /\ From(k) \in DOMAIN c.order
      BY <1>2, <1>3, <1>5
    <2>2. From(j) = From(k)
      BY <1>3, <1>5, <1>6, <2>1 DEF Sound, Distinct
    <2> QED
      BY <1>2, <1>5, <2>2
  <1> QED
    BY <1>4, <1>6 DEF Distinct

\* One operation has one outcome at most, and keeps the members distinct.
LEMMA OneOutcome ==
  ASSUME NEW N, NEW c \in Sound(N), NEW op, Over(N, op)
  PROVE  Single(ApplyInEra(c, op)) /\ \A d \in ApplyInEra(c, op) : d \in Sound(N) /\ d.era = c.era
  <1>1. /\ c \in Configs(N) /\ Distinct(c) /\ \A n : Single(At(c, n))
        /\ c = [era |-> c.era, order |-> c.order]
        /\ DOMAIN c.order = 1 .. Len(c.order)
        /\ \A i \in 1 .. Len(c.order) :
              c.order[i] = [node |-> c.order[i].node, weight |-> c.order[i].weight]
    <2>1. c \in Configs(N) /\ Distinct(c)
      BY DEF Sound
    <2>2. \A n : Single(At(c, n))
      BY <2>1, OnePosition
    <2>3. c = [era |-> c.era, order |-> c.order] /\ DOMAIN c.order = 1 .. Len(c.order)
      BY <2>1, OrderType
    <2>4. ASSUME NEW i \in 1 .. Len(c.order)
          PROVE  c.order[i] = [node |-> c.order[i].node, weight |-> c.order[i].weight]
      <3>1. c.order[i] \in [node : N, weight : 0 .. 2]
        BY <2>1, OrderType
      <3> QED
        BY <3>1
    <2> QED
      BY <2>1, <2>2, <2>3, <2>4
  <1>2. ASSUME NEW d \in ApplyInEra(c, op) PROVE d \in Configs(N) /\ d.era = c.era
    BY <1>1, <1>2, OperationKeepsEra DEF Over
  <1>3. ASSUME NEW i \in DOMAIN c.order, NEW w PROVE Distinct(Reweighed(c, i, w))
    <2>1. DOMAIN Reweighed(c, i, w).order = DOMAIN c.order
      BY <1>1 DEF Reweighed
    <2>2. \A j \in DOMAIN c.order : Reweighed(c, i, w).order[j].node = c.order[j].node
      BY <1>1 DEF Reweighed
    <2> QED
      BY <1>1, <2>1, <2>2, ReweighedDistinct
  <1>4. CASE op.op = "Increment"
    <2>1. ApplyInEra(c, op) = Increment(c, op.node)
      BY <1>4 DEF ApplyInEra
    <2>2. \A d \in Increment(c, op.node) : Distinct(d)
      BY <1>3 DEF Increment, At
    <2>3. Single(Increment(c, op.node))
      BY <1>1 DEF Increment, Single
    <2> QED
      BY <1>2, <2>1, <2>2, <2>3 DEF Sound
  <1>5. CASE op.op = "Decrement"
    <2>1. ApplyInEra(c, op) = Decrement(c, op.node)
      BY <1>5 DEF ApplyInEra
    <2>2. \A d \in Decrement(c, op.node) : Distinct(d)
      BY <1>3 DEF Decrement, At
    <2>3. Single(Decrement(c, op.node))
      BY <1>1 DEF Decrement, Single
    <2> QED
      BY <1>2, <2>1, <2>2, <2>3 DEF Sound
  <1>6. CASE op.op \in {"Double", "Halve"}
    <2> DEFINE up   == Scaled(c, LAMBDA w : 2 * w)
               down == Scaled(c, LAMBDA w : w \div 2)
    <2>1. ApplyInEra(c, op) \subseteq {up} \/ ApplyInEra(c, op) \subseteq {down}
      BY <1>6 DEF ApplyInEra, Double, Halve, Provided
    <2>2. /\ DOMAIN up.order = DOMAIN c.order
          /\ \A j \in DOMAIN c.order : up.order[j].node = c.order[j].node
      BY <1>1 DEF Scaled
    <2>3. /\ DOMAIN down.order = DOMAIN c.order
          /\ \A j \in DOMAIN c.order : down.order[j].node = c.order[j].node
      BY <1>1 DEF Scaled
    <2> HIDE DEF up, down
    <2>4. Distinct(up) /\ Distinct(down)
      BY <1>1, <2>2, <2>3, ReweighedDistinct
    <2> QED
      BY <1>2, <2>1, <2>4 DEF Sound, Single
  <1>7. CASE op.op = "Join"
    <2>1. ApplyInEra(c, op) = Join(c, op.node, op.position) /\ op.node \in N /\ op.position \in Nat
      BY <1>7 DEF ApplyInEra, Over
    <2>2. \A d \in Join(c, op.node, op.position) : Distinct(d)
      BY <2>1, JoinDistinct
    <2>3. Single(Join(c, op.node, op.position))
      BY DEF Join, Provided, Single
    <2> QED
      BY <1>2, <2>1, <2>2, <2>3 DEF Sound
  <1>8. CASE op.op = "Leave"
    <2>1. ApplyInEra(c, op) = Leave(c, op.node)
      BY <1>8 DEF ApplyInEra
    <2>2. \A d \in Leave(c, op.node) : Distinct(d)
      BY LeaveDistinct
    <2>3. Single(Leave(c, op.node))
      BY <1>1 DEF Leave, Single
    <2> QED
      BY <1>2, <2>1, <2>2, <2>3 DEF Sound
  <1>9. CASE op.op = "Nominate"
    BY <1>9 DEF ApplyInEra, Provided, Single
  <1>10. CASE op.op \notin {"Increment", "Decrement", "Double", "Halve", "Join", "Leave", "Nominate"}
    BY <1>10 DEF ApplyInEra, Single
  <1> QED
    BY <1>4, <1>5, <1>6, <1>7, <1>8, <1>9, <1>10

\* An operation of the log over N: what joins is typed, alone or in a batch.
OpOver(N, op) ==
    /\ Over(N, op)
    /\ op.op = "Batch" => \E O : op.ops \in Seq(O) /\ OpsOver(N, op.ops)

\* The configurations of c's era that are sound.
SoundEra(N, c) == {d \in Sound(N) : d.era = c.era}

\* A batch folds to one configuration at most.
LEMMA FoldedIsOne ==
  ASSUME NEW N, NEW c \in Sound(N), NEW O, NEW ops \in Seq(O), OpsOver(N, ops)
  PROVE  Single(Folded(c, ops)) /\ Folded(c, ops) \subseteq SoundEra(N, c)
  <1> DEFINE V == {v \in SUBSET SoundEra(N, c) : Single(v)}
  <1>1. {c} \in V
    BY DEF SoundEra, Single
  <1>2. ASSUME NEW i \in 1 .. Len(ops), NEW v \in V
        PROVE  UNION {ApplyInEra(d, ops[i]) : d \in v} \in V
    <2> DEFINE w == UNION {ApplyInEra(d, ops[i]) : d \in v}
    <2>1. Over(N, ops[i])
      BY <1>2 DEF Over, OpsOver
    <2>2. v \subseteq SoundEra(N, c) /\ Single(v)
      BY <1>2
    <2>3. ASSUME NEW d \in v, NEW e \in ApplyInEra(d, ops[i]) PROVE e \in SoundEra(N, c)
      <3>1. d \in Sound(N) /\ d.era = c.era
        BY <2>2, <2>3 DEF SoundEra
      <3> QED
        BY <2>1, <2>3, <3>1, OneOutcome DEF SoundEra
    <2>4. ASSUME NEW x \in w, NEW y \in w PROVE x = y
      <3>1. PICK d \in v : x \in ApplyInEra(d, ops[i])
        OBVIOUS
      <3>2. y \in ApplyInEra(d, ops[i])
        BY <2>2, <3>1 DEF Single
      <3>3. d \in Sound(N)
        BY <2>2, <3>1 DEF SoundEra
      <3>4. Single(ApplyInEra(d, ops[i]))
        BY <2>1, <3>3, OneOutcome
      <3> QED
        BY <3>1, <3>2, <3>4 DEF Single
    <2> QED
      BY <2>3, <2>4 DEF Single
  <1> HIDE DEF V
  <1>3. PICK g : FoldedWalk(g, V, c, ops)
    BY <1>1, <1>2, FoldedWalks
  <1>4. Folded(c, ops) \in V
    BY <1>3 DEF FoldedWalk
  <1> QED
    BY <1>4 DEF V

\* The next era's configuration is one at most.
LEMMA NextEraIsOne ==
  ASSUME NEW N, NEW c \in Sound(N)
  PROVE  /\ Single(NextEra(c))
         /\ \A d \in NextEra(c) : d \in Sound(N) /\ d.era = c.era + 1
  <1>1. /\ c = [era |-> c.era, order |-> c.order] /\ c.era \in Nat
        /\ c \in Configs(N) /\ Distinct(c)
    BY OrderType DEF Sound
  <1>2. ASSUME NEW d \in NextEra(c)
        PROVE  d = [era |-> c.era + 1, order |-> c.order]
    BY <1>1, <1>2 DEF NextEra
  <1>3. [era |-> c.era + 1, order |-> c.order] \in Sound(N)
    BY <1>1 DEF Sound, Configs, Distinct
  <1> QED
    BY <1>2, <1>3 DEF Single

\* So is what an operation establishes.
LEMMA InNextEraIsOne ==
  ASSUME NEW N, NEW c \in Sound(N), NEW S \in SUBSET SoundEra(N, c), Single(S)
  PROVE  /\ Single(InNextEra(S))
         /\ \A d \in InNextEra(S) : d \in Sound(N) /\ d.era = c.era + 1
  <1>1. \A b \in S : b \in Sound(N) /\ b.era = c.era
    BY DEF SoundEra
  <1>2. ASSUME NEW d \in InNextEra(S) PROVE \E b \in S : d \in NextEra(b)
    BY <1>2 DEF InNextEra
  <1>3. ASSUME NEW d \in InNextEra(S) PROVE d \in Sound(N) /\ d.era = c.era + 1
    <2>1. PICK b \in S : d \in NextEra(b)
      BY <1>2
    <2> QED
      BY <1>1, <2>1, NextEraIsOne
  <1>4. ASSUME NEW d \in InNextEra(S), NEW e \in InNextEra(S) PROVE d = e
    <2>1. PICK b \in S : d \in NextEra(b)
      BY <1>2
    <2>2. e \in NextEra(b)
      BY <1>2, <2>1 DEF Single
    <2>3. Single(NextEra(b))
      BY <1>1, NextEraIsOne
    <2> QED
      BY <2>1, <2>2, <2>3 DEF Single
  <1> QED
    BY <1>3, <1>4 DEF Single

\* An operation, alone or in a batch, has one outcome at most, an era later.
LEMMA ApplyIsOne ==
  ASSUME NEW N, NEW c \in Sound(N), NEW op, OpOver(N, op)
  PROVE  /\ Single(Apply(c, op))
         /\ \A d \in Apply(c, op) : d \in Sound(N) /\ d.era = c.era + 1
  <1>1. CASE op.op = "Batch"
    <2>1. PICK O : op.ops \in Seq(O) /\ OpsOver(N, op.ops)
      BY <1>1 DEF OpOver
    <2> DEFINE alone == Len(op.ops) = 1 /\ Scales(op.ops[1])
               S == {d \in Folded(c, op.ops) : alone \/ MassMoved(c, d) <= 1}
    <2>2. Single(S) /\ S \in SUBSET SoundEra(N, c)
      BY <2>1, FoldedIsOne DEF Single
    <2>3. Apply(c, op) \subseteq InNextEra(S)
      BY <1>1 DEF Apply, ApplyBatch, Folded, Provided
    <2> HIDE DEF S
    <2>4. /\ Single(InNextEra(S))
          /\ \A d \in InNextEra(S) : d \in Sound(N) /\ d.era = c.era + 1
      BY <2>2, InNextEraIsOne
    <2> QED
      BY <2>3, <2>4 DEF Single
  <1>2. CASE op.op # "Batch" /\ op.op # "Nominate"
    <2>1. Apply(c, op) = InNextEra(ApplyInEra(c, op))
      BY <1>2 DEF Apply
    <2>2. Single(ApplyInEra(c, op)) /\ ApplyInEra(c, op) \in SUBSET SoundEra(N, c)
      BY OneOutcome DEF OpOver, SoundEra
    <2> QED
      BY <2>1, <2>2, InNextEraIsOne
  <1>3. CASE op.op = "Nominate"
    BY <1>3 DEF Apply, Single
  <1> QED
    BY <1>1, <1>2, <1>3

-----------------------------------------------------------------------------
(* The stamps of a fused batch.                                            *)

\* One slot of fold_slots.
SlotStep(f, op) ==
    {[eras |-> Append(f.eras, IF Nominates(op) /\ f.eras # <<>>
                              THEN f.eras[Len(f.eras)]
                              ELSE f.config.era),
      config |-> d] :
        d \in IF Nominates(op) THEN ApplyInEra(f.config, op)
              ELSE InNextEra(ApplyInEra(f.config, op))}

\* fold_slots folds one slot after the other.
SlotWalk(g, V, c, ops) ==
    /\ g \in [0 .. Len(ops) -> V]
    /\ g[0] = {[eras |-> <<>>, config |-> c]} /\ g[Len(ops)] = FoldSlots(c, ops)
    /\ \A k \in 1 .. Len(ops) : g[k] = UNION {SlotStep(f, ops[k]) : f \in g[k - 1]}

\* fold_slots is such a walk, and stays where its steps stay.
LEMMA SlotWalks ==
  ASSUME NEW c, NEW O, NEW ops \in Seq(O), NEW V, {[eras |-> <<>>, config |-> c]} \in V,
         \A i \in 1 .. Len(ops), v \in V : UNION {SlotStep(f, ops[i]) : f \in v} \in V
  PROVE  \E g : SlotWalk(g, V, c, ops)
  <1> DEFINE n == Len(ops)
             b == {[eras |-> <<>>, config |-> c]}
             Step(x, v) == UNION {SlotStep(f, ops[x]) : f \in v}
             Solves(g) == g = [s \in SUBSET (1 .. n) |->
                                 IF s = {} THEN b ELSE Step(Max(s), g[s \ {Max(s)}])]
             f == CHOOSE g : Solves(g)
             st == [p \in (1 .. n) \X V |-> Step(p[1], p[2])]
  <1>1. n \in Nat /\ DOMAIN ops = 1 .. n /\ b \in V
    OBVIOUS
  <1>2. st \in [(1 .. n) \X V -> V] /\ \A x \in 1 .. n, v \in V : st[<<x, v>>] = Step(x, v)
    OBVIOUS
  <1>3. ASSUME NEW s \in SUBSET (1 .. n), s # {} PROVE Max(s) \in 1 .. n
    BY <1>1, <1>3, MaxIn
  <1>4. FoldSlots(c, ops) = f[1 .. n]
    BY <1>1 DEF FoldSlots, FoldLeft, MapThenFoldSet, SlotStep
  <1> HIDE DEF st, Step, n, b
  <1>5. \E g : Solves(g)
    <2>1. PICK h : FoldOf(h, n, b, st) /\ \A s \in SUBSET (1 .. n) : h[s] \in V
      BY <1>1, <1>2, FoldSolved
    <2>2. ASSUME NEW s \in SUBSET (1 .. n)
          PROVE  h[s] = IF s = {} THEN b ELSE Step(Max(s), h[s \ {Max(s)}])
      <3>1. h[s] = IF s = {} THEN b ELSE st[<<Max(s), h[s \ {Max(s)}]>>]
        BY <2>1, Zenon DEF FoldOf
      <3>2. s # {} => st[<<Max(s), h[s \ {Max(s)}]>>] = Step(Max(s), h[s \ {Max(s)}])
        BY <1>2, <1>3, <2>1
      <3> QED
        BY <3>1, <3>2
    <2>3. h = [s \in SUBSET (1 .. n) |-> h[s]]
      BY <2>1, Zenon DEF FoldOf
    <2>4. Solves(h)
      BY <2>2, <2>3, Zenon
    <2> QED
      BY <2>4
  <1>6. Solves(f)
    BY <1>5
  <1> HIDE DEF f
  <1>7. \A s \in SUBSET (1 .. n) : f[s] = IF s = {} THEN b ELSE Step(Max(s), f[s \ {Max(s)}])
    BY <1>6, Zenon
  <1> HIDE DEF Solves
  <1>8. ASSUME NEW s \in SUBSET (1 .. n), s # {}, f[s \ {Max(s)}] \in V
        PROVE  f[s] = st[<<Max(s), f[s \ {Max(s)}]>>]
    BY <1>2, <1>3, <1>7, <1>8
  <1>9. FoldsBy(f, n, V, b, st)
    BY <1>7, <1>8 DEF FoldsBy
  <1>10. PICK g : Walk(g, n, V, b, f[1 .. n], st)
    BY <1>1, <1>2, <1>9, FoldWalks
  <1>11. ASSUME NEW k \in 1 .. n PROVE g[k] = Step(k, g[k - 1])
    <2>1. k - 1 \in 0 .. n
      BY <1>1
    <2> QED
      BY <1>2, <1>10, <2>1 DEF Walk
  <1>12. \A k \in 1 .. n : g[k] = UNION {SlotStep(e, ops[k]) : e \in g[k - 1]}
    BY <1>11 DEF Step
  <1>13. g \in [0 .. n -> V] /\ g[0] = b /\ g[n] = FoldSlots(c, ops)
    BY <1>4, <1>10 DEF Walk
  <1> QED
    BY <1>12, <1>13 DEF n, b, SlotWalk

-----------------------------------------------------------------------------
(* The stamps of a fused batch.                                            *)

\* What fold_slots walks through from c: the first stamp is c's era, each stamp
\* goes at most one past the one before it, and so does the era established.
SlotFolds(N, c) ==
    {f \in [eras : Seq(Nat), config : Sound(N)] :
        /\ f.eras = <<>> => f.config.era = c.era
        /\ f.eras # <<>> => /\ f.eras[1] = c.era
                            /\ f.config.era <= f.eras[Len(f.eras)] + 1
        /\ \A i \in 1 .. Len(f.eras) - 1 : f.eras[i + 1] <= f.eras[i] + 1}

\* One stamp more.
LEMMA StampAppended ==
  ASSUME NEW s \in Seq(Nat), NEW x \in Nat
  PROVE  /\ Append(s, x) \in Seq(Nat) /\ Len(Append(s, x)) = Len(s) + 1
         /\ Append(s, x) # <<>> /\ Append(s, x)[Len(s) + 1] = x
         /\ \A i \in 1 .. Len(s) : Append(s, x)[i] = s[i]
  <1>1. Append(s, x) \in Seq(Nat) /\ Len(Append(s, x)) = Len(s) + 1
    OBVIOUS
  <1>2. Append(s, x)[Len(s) + 1] = x /\ \A i \in 1 .. Len(s) : Append(s, x)[i] = s[i]
    OBVIOUS
  <1>3. Append(s, x) # <<>>
    BY <1>1
  <1> QED
    BY <1>1, <1>2, <1>3

\* One operation gets one stamp.
LEMMA SlotStepIsOne ==
  ASSUME NEW N, NEW c \in Sound(N), NEW f \in SlotFolds(N, c), NEW op, Over(N, op)
  PROVE  /\ Single(SlotStep(f, op))
         /\ \A e \in SlotStep(f, op) :
               e \in SlotFolds(N, c) /\ Len(e.eras) = Len(f.eras) + 1
  <1> DEFINE stamp == IF Nominates(op) /\ f.eras # <<>> THEN f.eras[Len(f.eras)]
                      ELSE f.config.era
             D == IF Nominates(op) THEN ApplyInEra(f.config, op)
                  ELSE InNextEra(ApplyInEra(f.config, op))
             eras == Append(f.eras, stamp)
  <1>1. /\ f = [eras |-> f.eras, config |-> f.config]
        /\ f.eras \in Seq(Nat) /\ f.config \in Sound(N) /\ Len(f.eras) \in Nat
        /\ f.eras = <<>> => f.config.era = c.era
        /\ f.eras # <<>> => /\ f.eras[1] = c.era
                            /\ f.config.era <= f.eras[Len(f.eras)] + 1
        /\ \A i \in 1 .. Len(f.eras) - 1 : f.eras[i + 1] <= f.eras[i] + 1
    BY DEF SlotFolds
  <1>2. SlotStep(f, op) = {[eras |-> eras, config |-> d] : d \in D}
    BY DEF SlotStep
  <1>3. f.config.era \in Nat /\ c.era \in Nat
    <2>1. f.config \in Configs(N) /\ c \in Configs(N)
      BY <1>1 DEF Sound
    <2> QED
      BY <2>1 DEF Configs
  <1>4. /\ Single(ApplyInEra(f.config, op))
        /\ ApplyInEra(f.config, op) \in SUBSET SoundEra(N, f.config)
    BY <1>1, OneOutcome DEF SoundEra
  <1>5. /\ Single(D)
        /\ \A d \in D : d \in Sound(N) /\ d.era = IF Nominates(op) THEN f.config.era
                                                  ELSE f.config.era + 1
    <2>1. CASE Nominates(op)
      BY <1>4, <2>1 DEF SoundEra
    <2>2. CASE ~Nominates(op)
      BY <1>1, <1>4, <2>2, InNextEraIsOne
    <2> QED
      BY <2>1, <2>2
  <1>6. f.eras # <<>> => f.eras[Len(f.eras)] \in Nat
    BY <1>1
  <1>7. /\ stamp \in Nat
        /\ f.eras = <<>> => stamp = c.era /\ stamp = f.config.era
        /\ f.eras # <<>> => stamp <= f.eras[Len(f.eras)] + 1
        /\ Nominates(op) => f.config.era <= stamp + 1
        /\ ~Nominates(op) => f.config.era = stamp
    BY <1>1, <1>3, <1>6
  <1> HIDE DEF stamp, D
  <1>8. /\ eras \in Seq(Nat) /\ Len(eras) = Len(f.eras) + 1 /\ eras # <<>>
        /\ eras[Len(eras)] = stamp
        /\ \A i \in 1 .. Len(f.eras) : eras[i] = f.eras[i]
    <2>1. f.eras \in Seq(Nat) /\ stamp \in Nat
      BY <1>1, <1>7
    <2>2. /\ Append(f.eras, stamp) \in Seq(Nat)
          /\ Len(Append(f.eras, stamp)) = Len(f.eras) + 1
          /\ Append(f.eras, stamp) # <<>>
          /\ Append(f.eras, stamp)[Len(f.eras) + 1] = stamp
          /\ \A i \in 1 .. Len(f.eras) : Append(f.eras, stamp)[i] = f.eras[i]
      BY <2>1, StampAppended, Zenon
    <2> QED
      BY <2>2, Zenon
  <1> HIDE DEF eras
  <1>9. eras[1] = c.era
    <2>1. CASE f.eras = <<>>
      BY <1>7, <1>8, <2>1
    <2>2. CASE f.eras # <<>>
      <3>1. 1 \in 1 .. Len(f.eras)
        BY <1>1, <2>2
      <3> QED
        BY <1>1, <1>8, <2>2, <3>1
    <2> QED
      BY <2>1, <2>2
  <1>10. ASSUME NEW i \in 1 .. Len(eras) - 1 PROVE eras[i + 1] <= eras[i] + 1
    <2>1. CASE i = Len(f.eras)
      <3>1. f.eras # <<>> /\ i \in 1 .. Len(f.eras)
        BY <1>1, <1>8, <2>1
      <3>2. eras[i + 1] = stamp /\ eras[i] = f.eras[Len(f.eras)]
        BY <1>8, <2>1, <3>1
      <3> QED
        BY <1>7, <3>1, <3>2
    <2>2. CASE i # Len(f.eras)
      <3>1. i \in 1 .. Len(f.eras) - 1 /\ i \in 1 .. Len(f.eras) /\ i + 1 \in 1 .. Len(f.eras)
        <4>1. PICK k \in Nat : k = Len(f.eras)
          BY <1>1
        <4>2. i \in 1 .. k /\ i # k
          BY <1>8, <2>2, <4>1
        <4>3. i \in 1 .. k - 1 /\ i \in 1 .. k /\ i + 1 \in 1 .. k
          BY <4>2
        <4> QED
          BY <4>1, <4>3
      <3>2. eras[i] = f.eras[i] /\ eras[i + 1] = f.eras[i + 1]
        BY <1>8, <3>1, Zenon
      <3>3. f.eras[i + 1] <= f.eras[i] + 1
        BY <1>1, <3>1, Zenon
      <3> QED
        BY <3>2, <3>3
    <2> QED
      BY <2>1, <2>2
  <1>11. ASSUME NEW d \in D
         PROVE  /\ [eras |-> eras, config |-> d] \in SlotFolds(N, c)
                /\ [eras |-> eras, config |-> d].eras = eras
    <2>1. d.era <= eras[Len(eras)] + 1
      BY <1>3, <1>5, <1>7, <1>8
    <2>2. d \in Sound(N)
      BY <1>5
    <2> QED
      BY <1>8, <1>9, <1>10, <2>1, <2>2 DEF SlotFolds
  <1> QED
    BY <1>2, <1>5, <1>8, <1>11 DEF Single

\* fold_slots has one outcome at most, with one stamp for each slot.
LEMMA SlotsAreOne ==
  ASSUME NEW N, NEW c \in Sound(N), NEW O, NEW ops \in Seq(O), OpsOver(N, ops)
  PROVE  /\ Single(FoldSlots(c, ops))
         /\ \A f \in FoldSlots(c, ops) :
               f \in SlotFolds(N, c) /\ Len(f.eras) = Len(ops)
  <1> DEFINE V == {v \in SUBSET SlotFolds(N, c) : Single(v)}
             b == [eras |-> <<>>, config |-> c]
  <1>1. {b} \in V
    <2>1. b.eras = <<>> /\ b.config = c /\ b \in [eras : Seq(Nat), config : Sound(N)]
          /\ Len(b.eras) = 0
      OBVIOUS
    <2> HIDE DEF b
    <2>2. b \in SlotFolds(N, c)
      BY <2>1 DEF SlotFolds
    <2> QED
      BY <2>2 DEF Single
  <1>2. ASSUME NEW i \in 1 .. Len(ops) PROVE Over(N, ops[i])
    BY <1>2 DEF Over, OpsOver
  <1>3. ASSUME NEW i \in 1 .. Len(ops), NEW v \in V
        PROVE  UNION {SlotStep(f, ops[i]) : f \in v} \in V
    <2> DEFINE w == UNION {SlotStep(f, ops[i]) : f \in v}
    <2>1. v \subseteq SlotFolds(N, c) /\ Single(v)
      BY <1>3
    <2>2. \A f \in v : /\ Single(SlotStep(f, ops[i]))
                       /\ SlotStep(f, ops[i]) \subseteq SlotFolds(N, c)
      BY <1>2, <2>1, SlotStepIsOne
    <2>3. w \subseteq SlotFolds(N, c)
      BY <2>2
    <2>4. ASSUME NEW x \in w, NEW y \in w PROVE x = y
      <3>1. PICK f \in v : x \in SlotStep(f, ops[i])
        OBVIOUS
      <3>2. y \in SlotStep(f, ops[i])
        BY <2>1, <3>1 DEF Single
      <3> QED
        BY <2>2, <3>1, <3>2 DEF Single
    <2> HIDE DEF w
    <2>5. w \in V
      BY <2>3, <2>4 DEF Single
    <2> QED
      BY <2>5 DEF w
  <1>4. PICK g : SlotWalk(g, V, c, ops)
    <2> HIDE DEF V
    <2> QED
      BY <1>1, <1>3, SlotWalks
  <1>5. FoldSlots(c, ops) \in V
    <2>1. Len(ops) \in 0 .. Len(ops)
      OBVIOUS
    <2> HIDE DEF V
    <2> QED
      BY <1>4, <2>1 DEF SlotWalk
  <1> DEFINE T == {k \in Nat : k <= Len(ops) => \A f \in g[k] : Len(f.eras) = k}
  <1>6. 0 \in T
    BY <1>4 DEF SlotWalk
  <1>7. ASSUME NEW k \in T PROVE k + 1 \in T
    <2>1. CASE k + 1 <= Len(ops)
      <3>1. /\ k \in 0 .. Len(ops) /\ k + 1 \in 1 .. Len(ops) /\ k = (k + 1) - 1
            /\ \A f \in g[k] : Len(f.eras) = k
        BY <1>7, <2>1
      <3>2. g[k] \in V
        <4> HIDE DEF V
        <4> QED
          BY <1>4, <3>1 DEF SlotWalk
      <3>3. g[k + 1] = UNION {SlotStep(f, ops[k + 1]) : f \in g[k]}
        BY <1>4, <3>1 DEF SlotWalk
      <3>4. ASSUME NEW e \in g[k + 1] PROVE Len(e.eras) = k + 1
        <4>1. PICK f \in g[k] : e \in SlotStep(f, ops[k + 1])
          BY <3>3
        <4>2. f \in SlotFolds(N, c)
          BY <3>2, <4>1
        <4> QED
          BY <1>2, <3>1, <4>1, <4>2, SlotStepIsOne
      <3> QED
        BY <1>7, <3>4
    <2> QED
      BY <1>7, <2>1
  <1>8. T = Nat
    <2>1. T \in SUBSET Nat
      OBVIOUS
    <2> HIDE DEF T
    <2> QED
      BY <1>6, <1>7, <2>1, SetInduction
  <1>9. \A f \in FoldSlots(c, ops) : Len(f.eras) = Len(ops)
    <2>1. Len(ops) \in T /\ g[Len(ops)] = FoldSlots(c, ops)
      BY <1>4, <1>8 DEF SlotWalk
    <2> QED
      BY <2>1
  <1> QED
    BY <1>5, <1>9

-----------------------------------------------------------------------------
(* Era tables.                                                             *)

\* An era table over N: the record of an era, and of the one before it.
SoundTable(N, t) ==
    /\ \E O : t \in Seq(O)
    /\ Len(t) \in 1 .. 2
    /\ \A i \in 1 .. Len(t) : t[i].config \in Sound(N)
    /\ Len(t) = 2 => t[2].config.era = t[1].config.era + 1

\* The era a table establishes.
EraOf(t) == Current(t).config.era

\* The current record of a table is its last and the only one of its era.
LEMMA TableType ==
  ASSUME NEW N, NEW t, SoundTable(N, t)
  PROVE  /\ DOMAIN t = 1 .. Len(t) /\ Len(t) \in 1 .. 2
         /\ Current(t) \in Range(t) /\ Current(t).config \in Sound(N) /\ EraOf(t) \in Nat
         /\ \A x \in Range(t) : /\ x.config \in Sound(N) /\ x.config.era \in Nat
                                /\ x.config.era <= EraOf(t)
                                /\ x.config.era = EraOf(t) => x = Current(t)
  <1>1. DOMAIN t = 1 .. Len(t) /\ Len(t) \in 1 .. 2
    BY DEF SoundTable
  <1>2. \A i \in 1 .. Len(t) : t[i].config \in Sound(N) /\ t[i].config.era \in Nat
    BY DEF SoundTable, Sound, Configs
  <1>3. Current(t) \in Range(t) /\ Current(t).config \in Sound(N) /\ EraOf(t) \in Nat
    BY <1>1, <1>2 DEF Current, Range, EraOf
  <1>4. ASSUME NEW i \in 1 .. Len(t)
        PROVE  t[i].config.era <= EraOf(t) /\ (t[i].config.era = EraOf(t) => t[i] = Current(t))
    <2>1. CASE i = Len(t)
      BY <1>2, <2>1 DEF Current, EraOf
    <2>2. CASE i # Len(t)
      <3>1. i = 1 /\ Len(t) = 2
        <4>1. ASSUME NEW k \in Int, k >= 1, k <= 2, NEW j \in Int, j >= 1, j <= k, j # k
              PROVE  j = 1 /\ k = 2
          BY <4>1
        <4>2. Len(t) \in Int /\ Len(t) >= 1 /\ Len(t) <= 2 /\ i \in Int /\ i >= 1 /\ i <= Len(t)
          BY <1>1
        <4> QED
          BY <2>2, <4>1, <4>2
      <3> QED
        BY <1>2, <3>1 DEF Current, EraOf, SoundTable
    <2> QED
      BY <2>1, <2>2
  <1> QED
    BY <1>1, <1>2, <1>3, <1>4 DEF Range

\* Extending a table has one outcome at most: the last record and the new one.
LEMMA ExtendIsOne ==
  ASSUME NEW N, NEW t, SoundTable(N, t), NEW op, OpOver(N, op), NEW at
  PROVE  /\ Single(Extend(t, op, at))
         /\ \A x \in Extend(t, op, at) :
               /\ SoundTable(N, x) /\ EraOf(x) = EraOf(t) + 1
               /\ Range(x) \subseteq Range(t) \cup {Current(x)}
               /\ Current(x).config \in Apply(Current(t).config, op)
  <1> DEFINE n == Len(t)
             Rec(c) == [config |-> c, at |-> at, op |-> op]
             Pushed(c) == Append(t, Rec(c))
             Kept(c)   == {i \in DOMAIN Pushed(c) : Pushed(c)[i].config.era + 1 >= c.era}
             A == Apply(Current(t).config, op)
  <1>1. /\ n \in 1 .. 2 /\ Current(t) = t[n] /\ t[n].config \in Sound(N) /\ t[n] \in Range(t)
        /\ \A i \in 1 .. n : t[i].config.era \in Nat
        /\ n = 2 => t[2].config.era = t[1].config.era + 1
    BY TableType DEF Current, SoundTable, Sound, Configs
  <1>2. Single(A) /\ \A c \in A : c \in Sound(N) /\ c.era = t[n].config.era + 1
    BY <1>1, ApplyIsOne
  <1>3. PICK O : t \in Seq(O)
    BY DEF SoundTable
  <1>4. n \in 1 .. n
    <2>1. n \in 1 .. 2
      BY <1>1
    <2> HIDE DEF n
    <2> QED
      BY <2>1
  <1>5. ASSUME NEW c \in A PROVE SubSeq(Pushed(c), Min(Kept(c)), n + 1) = <<t[n], Rec(c)>>
    <2>1. t \in Seq(O \cup {Rec(c)})
      BY <1>3
    <2> DEFINE r == Rec(c)
    <2>2. r.config = c
      OBVIOUS
    <2>3. r = Rec(c)
      OBVIOUS
    <2> HIDE DEF r
    <2> DEFINE p == Append(t, r)
    <2>4. /\ p \in Seq(O \cup {r}) /\ Len(p) = n + 1 /\ DOMAIN p = 1 .. n + 1
          /\ p[n + 1] = r /\ \A i \in 1 .. n : p[i] = t[i]
      BY <1>1, <2>1 DEF r
    <2>5. Kept(c) = {n, n + 1}
      <3>1. Kept(c) = {i \in DOMAIN p : p[i].config.era + 1 >= c.era}
        BY DEF r
      <3> HIDE DEF Kept, p
      <3>2. n \in Kept(c) /\ n + 1 \in Kept(c)
        <4>1. c.era = t[n].config.era + 1 /\ t[n].config.era \in Nat
          <5> HIDE DEF n
          <5> QED
            BY <1>1, <1>2, <1>4, Zenon
        <4>2. /\ n \in 1 .. n + 1 /\ n + 1 \in 1 .. n + 1 /\ n \in 1 .. n
          BY <1>1
        <4>3. p[n].config.era + 1 >= c.era /\ p[n + 1].config.era + 1 >= c.era
          BY <2>2, <2>4, <4>1, <4>2
        <4> QED
          BY <2>4, <3>1, <4>2, <4>3
      <3>3. ASSUME NEW i \in Kept(c) PROVE i \in {n, n + 1}
        <4>1. i \in 1 .. n + 1 /\ p[i].config.era + 1 >= c.era
          BY <2>4, <3>1
        <4>2. ~(i = 1 /\ n = 2)
          BY <1>1, <1>2, <2>4, <4>1
        <4> QED
          BY <1>1, <4>1, <4>2
      <3> QED
        BY <3>2, <3>3
    <2>6. Min({n, n + 1}) = n
      <3>1. n \in {n, n + 1} /\ \A y \in {n, n + 1} : n =< y
        BY <1>1
      <3>2. Min({n, n + 1}) \in {n, n + 1} /\ \A y \in {n, n + 1} : Min({n, n + 1}) =< y
        BY <3>1 DEF Min
      <3> QED
        BY <1>1, <3>2
    <2> HIDE DEF p
    <2>7. SubSeq(p, n, n + 1) = <<p[n], p[n + 1]>>
      <3>1. n \in 1 .. Len(p) /\ n + 1 \in 1 .. Len(p)
        BY <1>1, <2>4
      <3> DEFINE s == SubSeq(p, n, n + 1)
      <3>2. s \in Seq(O \cup {r}) /\ Len(s) = 2
        BY <1>1, <2>4, <3>1
      <3>3. s[1] = p[n] /\ s[2] = p[n + 1]
        BY <1>1, <2>4, <3>1
      <3> HIDE DEF s
      <3>4. s = <<s[1], s[2]>>
        BY <3>2
      <3> QED
        BY <3>3, <3>4 DEF s
    <2>8. p = Pushed(c)
      BY DEF p, r
    <2> HIDE DEF Pushed, Kept, Rec, n
    <2>9. p[n] = t[n] /\ p[n + 1] = r
      BY <1>4, <2>4, Zenon
    <2> QED
      BY <2>5, <2>6, <2>7, <2>8, <2>9, <2>3
  <1>6. Extend(t, op, at) = {SubSeq(Pushed(c), Min(Kept(c)), n + 1) : c \in A}
    BY DEF Extend
  <1>7. Extend(t, op, at) = {<<t[n], Rec(c)>> : c \in A}
    <2> HIDE DEF A, Pushed, Kept, Rec, n
    <2> QED
      BY <1>5, <1>6
  <1>8. ASSUME NEW c \in A
        PROVE  LET x == <<t[n], Rec(c)>>
               IN  /\ SoundTable(N, x) /\ EraOf(x) = EraOf(t) + 1
                   /\ Range(x) \subseteq Range(t) \cup {Current(x)}
                   /\ Current(x).config \in A
    <2> DEFINE x == <<t[n], Rec(c)>>
    <2>1. Len(x) = 2 /\ x[1] = t[n] /\ x[2] = Rec(c) /\ x[2].config = c
          /\ x \in Seq({t[n], Rec(c)}) /\ DOMAIN x = 1 .. 2
      OBVIOUS
    <2> HIDE DEF x
    <2>2. Current(x) = x[2] /\ EraOf(x) = c.era /\ EraOf(t) = t[n].config.era
      BY <1>1, <2>1 DEF Current, EraOf
    <2>3. SoundTable(N, x)
      BY <1>1, <1>2, <2>1 DEF SoundTable
    <2>4. Range(x) \subseteq Range(t) \cup {Current(x)}
      BY <1>1, <2>1, <2>2 DEF Range
    <2>5. Current(x).config \in A
      BY <2>1, <2>2
    <2> QED
      BY <1>2, <2>2, <2>3, <2>4, <2>5 DEF x
  <1> QED
    BY <1>2, <1>7, <1>8 DEF Single

\* The table after genesis.
LEMMA GenesisSound ==
  ASSUME NEW N, NEW order \in Seq(N), IsInjective(order)
  PROVE  SoundTable(N, Genesis(order)) /\ EraOf(Genesis(order)) = 1
  <1> DEFINE c == Founded(order)
             r == [config |-> c, at |-> 2, op |-> [op |-> "Init"]]
  <1>1. c \in Sound(N) /\ c.era = 1
    <2>1. /\ DOMAIN order = 1 .. Len(order) /\ Len(order) \in Nat
          /\ \A i \in 1 .. Len(order) : order[i] \in N
      OBVIOUS
    <2> DEFINE o == [i \in 1 .. Len(order) |-> [node |-> order[i], weight |-> 1]]
    <2>2. o \in Seq([node : N, weight : 0 .. MAX_WEIGHT])
      BY <2>1 DEF MAX_WEIGHT
    <2>3. c = [era |-> 1, order |-> o]
      BY <2>1 DEF Founded
    <2>4. DOMAIN o = 1 .. Len(order) /\ \A i \in 1 .. Len(order) : o[i].node = order[i]
      OBVIOUS
    <2> HIDE DEF o
    <2>5. c.order = o /\ c.era = 1 /\ c \in Configs(N)
      BY <2>2, <2>3 DEF Configs
    <2>6. Distinct(c)
      BY <2>1, <2>4, <2>5 DEF Distinct, IsInjective
    <2> QED
      BY <2>5, <2>6 DEF Sound
  <1>2. Genesis(order) = <<r>> /\ r.config = c
    BY DEF Genesis
  <1> HIDE DEF r, c
  <1>3. Len(<<r>>) = 1 /\ <<r>>[1] = r /\ <<r>> \in Seq({r})
    OBVIOUS
  <1> DEFINE t == <<r>>
  <1>4. Len(t) = 1 /\ t[1] = r /\ t \in Seq({r})
    BY <1>3
  <1> HIDE DEF t
  <1>5. SoundTable(N, t) /\ EraOf(t) = 1
    BY <1>1, <1>2, <1>4 DEF SoundTable, EraOf, Current
  <1> QED
    BY <1>2, <1>5 DEF t

-----------------------------------------------------------------------------
(* The theorems.                                                           *)

\* No era has two disjoint quorums, whatever its members and weights are: the
\* scan of validate_era finds none.
THEOREM EraQuorumsMeet ==
  ASSUME NEW N, NEW c \in Configs(N)
  PROVE  ValidateEra(c)
  BY SameWeights DEF Meet, ValidateEra

\* apply_in_era never yields a configuration that validate_era or
\* validate_transition of quorum.rs would refuse for its quorums: those of one
\* configuration and those of the next meet, in both directions, after any
\* operation of one slot.
THEOREM OperationQuorumsMeet ==
  ASSUME NEW N, NEW c \in Configs(N), NEW op,
         op.op = "Join" => op.node \in N /\ op.position \in Nat,
         op.op # "Batch", NEW d \in Apply(c, op)
  PROVE  /\ d \in Configs(N) /\ ValidateEra(d) /\ Meet(c, d)
         /\ Cardinality(Members(c) \cup Members(d)) <= MAX_MEMBERS =>
               ValidateTransition(c, d)
  <1>1. PICK b \in ApplyInEra(c, op) : op.op # "Nominate" /\ d \in NextEra(b)
    BY DEF Apply, InNextEra
  <1>2. b \in Configs(N) /\ Meet(c, b)
    <2>1. CASE op.op = "Increment"
      BY <1>1, <2>1, IncrementMeets DEF ApplyInEra
    <2>2. CASE op.op = "Decrement"
      BY <1>1, <2>2, DecrementMeets DEF ApplyInEra
    <2>3. CASE op.op = "Double"
      BY <1>1, <2>3, DoubleMeets DEF ApplyInEra
    <2>4. CASE op.op = "Halve"
      BY <1>1, <2>4, HalveMeets DEF ApplyInEra
    <2>5. CASE op.op = "Join"
      BY <1>1, <2>5, JoinMeets DEF ApplyInEra
    <2>6. CASE op.op = "Leave"
      BY <1>1, <2>6, LeaveMeets DEF ApplyInEra
    <2>7. op.op \in {"Increment", "Decrement", "Double", "Halve", "Join", "Leave"}
      BY <1>1 DEF ApplyInEra
    <2> QED
      BY <2>1, <2>2, <2>3, <2>4, <2>5, <2>6, <2>7
  <1>3. d \in Configs(N) /\ Meet(c, d)
    BY <1>1, <1>2, EraMeets
  <1>4. ValidateEra(d)
    BY <1>3, EraQuorumsMeet
  <1> QED
    BY <1>3, <1>4 DEF Meet, ValidateTransition

\* apply_batch never yields a configuration that validate_era or
\* validate_transition would refuse for its quorums, however many operations
\* fold: all that the two configurations may differ in is one unit of weight
\* of one node, or every weight doubled or halved.
THEOREM BatchQuorumsMeet ==
  ASSUME NEW N, NEW c \in Configs(N), NEW O, NEW ops \in Seq(O), OpsOver(N, ops),
         NEW d \in ApplyBatch(c, ops)
  PROVE  /\ d \in Configs(N) /\ d.era = c.era + 1 /\ ValidateEra(d) /\ Meet(c, d)
         /\ Cardinality(Members(c) \cup Members(d)) <= MAX_MEMBERS =>
               ValidateTransition(c, d)
  <1> DEFINE alone == Len(ops) = 1 /\ Scales(ops[1])
  <1>1. PICK b \in Folded(c, ops) : (alone \/ MassMoved(c, b) <= 1) /\ d \in NextEra(b)
    BY DEF ApplyBatch, Folded, Provided, InNextEra
  <1>2. b \in Configs(N) /\ b.era = c.era
    BY <1>1, FoldedInEra DEF SameEra
  <1>3. Meet(c, b)
    <2>1. CASE alone
      <3>1. b \in ApplyInEra(c, ops[1])
        BY <1>1, <2>1, FoldedInEra
      <3>2. CASE ops[1].op = "Double"
        BY <3>1, <3>2, DoubleMeets DEF ApplyInEra
      <3>3. CASE ops[1].op = "Halve"
        BY <3>1, <3>3, HalveMeets DEF ApplyInEra
      <3> QED
        BY <2>1, <3>2, <3>3 DEF Scales
    <2>2. CASE MassMoved(c, b) <= 1
      BY <1>2, <2>2, MassMeets
    <2> QED
      BY <1>1, <2>1, <2>2
  <1>4. d \in Configs(N) /\ Meet(c, d)
    BY <1>1, <1>2, <1>3, EraMeets
  <1>5. d.era = c.era + 1
    <2>1. b = [era |-> b.era, order |-> b.order]
      BY <1>2, OrderType
    <2> QED
      BY <1>1, <1>2, <2>1 DEF NextEra
  <1>6. ValidateEra(d)
    BY <1>4, EraQuorumsMeet
  <1> QED
    BY <1>4, <1>5, <1>6 DEF Meet, ValidateTransition

=============================================================================
