--------------------------- MODULE HostStoreProofs ---------------------------
(***************************************************************************)
(* What the host's file promises, for every number of slots, of entries    *)
(* and of identities: Spec => []NeverOlder, []SpentStaysDead, []TypeOK,    *)
(* []AppendHarmless, []StoppedIsFinal.                                     *)
(*                                                                         *)
(* The first two are of the header slots alone, and so is their invariant  *)
(* IInv:                                                                   *)
(*  - a running store writes over the slot that is not its own, so its own *)
(*    stands through every crash and refusal, and the two never share a    *)
(*    sequence number (Turns);                                             *)
(*  - the slots a load may still pick name no identity below a dead one,   *)
(*    and never show a dead one Stopped (Dead);                            *)
(*  - while no latch is owed, those slots and the commit in progress carry *)
(*    the identity the replica speaks under, so that the next crash buries *)
(*    it under itself (Owned).                                             *)
(*                                                                         *)
(* The others are of the region's bytes too, and their invariant is IInv   *)
(* with Bytes:                                                             *)
(*  - while the store's mirror can be trusted, the region begins with the  *)
(*    mirror's frames, and a commit in progress writes only behind those   *)
(*    its header and the mirror share (Mirrored);                          *)
(*  - a slot that a load may pick therefore decodes (Readable);            *)
(*  - one of them that says Stopped was written by the halt, which covers  *)
(*    what was last published, or by the load that took it up (Stops).     *)
(* They rest on what the framing of a journal does: a header that counts   *)
(* a prefix of the frames reads that prefix back, whatever follows it.     *)
(***************************************************************************)
EXTENDS HostStore, SequenceTheorems, WellFoundedInduction, TLAPS

-----------------------------------------------------------------------------
(* Flattened sequences: induction over a set of naturals, by its least      *)
(* element.                                                                 *)

\* Every nonempty set of naturals has a least element.
LEMMA Least ==
  ASSUME NEW T \in SUBSET Nat, T # {}
  PROVE  \E m \in T : \A k \in T : m <= k
  <1> DEFINE R == {ss \in Nat \X Nat : ss[1] < ss[2]}
  <1>1. IsWellFoundedOn(R, Nat)
    <2>1. OpToRel(<, Nat) = R
      BY Zenon DEF OpToRel
    <2> QED
      BY <2>1, NatLessThanWellFounded, Zenon
  <1> HIDE DEF R
  <1>2. PICK x \in T : \A y \in T : ~(<<y, x>> \in R)
    BY <1>1, WFMin
  <1>3. ASSUME NEW y \in T PROVE x <= y
    <2>1. ~(y < x)
      BY <1>2 DEF R
    <2> QED
      BY <2>1
  <1> QED
    BY <1>3

\* A set of naturals that holds zero and every successor holds them all.
LEMMA SetInduction ==
  ASSUME NEW T \in SUBSET Nat, 0 \in T, \A n \in T : n + 1 \in T
  PROVE  T = Nat
  <1> SUFFICES ASSUME Nat \ T # {} PROVE FALSE
    OBVIOUS
  <1>1. PICK m \in Nat \ T : \A k \in Nat \ T : m <= k
    BY Least
  <1>2. m # 0 /\ m - 1 \in T
    BY <1>1
  <1> QED
    BY <1>1, <1>2

\* flatten, as a relation between a sequence of sequences and its prefixes.
Flattens(g, ss) ==
    g = [i \in 1 .. Len(ss) |-> IF i = 1 THEN ss[i] ELSE g[i - 1] \o ss[i]]

\* The last of the concatenations one by one is the flattened sequence.
LEMMA FlattenIs ==
  ASSUME NEW X, NEW ss \in Seq(Seq(X)), Len(ss) # 0
  PROVE  \E g : Flattens(g, ss) /\ FlattenSeq(ss) = g[Len(ss)]
  <1> DEFINE N == Len(ss)
             Upto(n, g) == g = [i \in 1 .. n |-> IF i = 1 THEN ss[i] ELSE g[i - 1] \o ss[i]]
             T == {n \in Nat : n <= N => \E g : Upto(n, g)}
  <1>1. 0 \in T
    <2>1. Upto(0, <<>>)
      OBVIOUS
    <2> QED
      BY <2>1
  <1>2. ASSUME NEW n \in T PROVE n + 1 \in T
    <2> HIDE DEF Upto
    <2>1. n \in Nat /\ n + 1 \in Nat /\ N \in Nat
      BY <1>2
    <2> SUFFICES ASSUME n + 1 <= N PROVE \E g : Upto(n + 1, g)
      BY <2>1
    <2>2. n \in Nat /\ n <= N /\ N \in Nat
      BY <2>1
    <2> USE DEF Upto
    <2>3. PICK g : Upto(n, g)
      BY <2>2
    <2> DEFINE e == IF n = 0 THEN ss[1] ELSE g[n] \o ss[n + 1]
               k == [i \in 1 .. n + 1 |-> IF i = n + 1 THEN e ELSE g[i]]
    <2>4. \A i \in 1 .. n : g[i] = IF i = 1 THEN ss[i] ELSE g[i - 1] \o ss[i]
      BY <2>3
    <2>5. \A i \in 1 .. n : k[i] = g[i]
      BY <2>2
    <2>6. k[n + 1] = e
      BY <2>2
    <2>7. \A i \in 1 .. n + 1 : k[i] = IF i = 1 THEN ss[i] ELSE k[i - 1] \o ss[i]
      <3> SUFFICES ASSUME NEW i \in 1 .. n + 1
                   PROVE  k[i] = IF i = 1 THEN ss[i] ELSE k[i - 1] \o ss[i]
        OBVIOUS
      <3> HIDE DEF k
      <3>1. CASE i = n + 1 /\ n = 0
        BY <2>6, <3>1
      <3>2. CASE i = n + 1 /\ n # 0
        <4>1. k[i - 1] = g[n] /\ i # 1 /\ ss[i] = ss[n + 1]
          <5>1. i - 1 = n /\ n \in 1 .. n
            BY <2>2, <3>2
          <5> QED
            BY <2>2, <2>5, <3>2, <5>1
        <4>2. k[i] = g[n] \o ss[n + 1]
          BY <2>6, <3>2
        <4> QED
          BY <4>1, <4>2
      <3>3. CASE i \in 1 .. n
        <4>1. CASE i = 1
          BY <2>4, <2>5, <3>3, <4>1
        <4>2. CASE i # 1
          <5>1. i - 1 \in 1 .. n
            BY <2>2, <3>3, <4>2
          <5> QED
            BY <2>4, <2>5, <3>3, <4>2, <5>1
        <4> QED
          BY <4>1, <4>2
      <3> QED
        BY <2>2, <3>1, <3>2, <3>3
    <2>8. Upto(n + 1, k)
      <3>1. k = [i \in 1 .. n + 1 |-> k[i]]
        OBVIOUS
      <3> HIDE DEF k
      <3> QED
        BY <2>7, <3>1
    <2> QED
      BY <2>8
  <1>3. T = Nat
    <2>1. T \in SUBSET Nat
      OBVIOUS
    <2> HIDE DEF T
    <2> QED
      BY <1>1, <1>2, <2>1, SetInduction
  <1>4. N \in Nat
    OBVIOUS
  <1>5. \E g : Upto(N, g)
    <2> HIDE DEF Upto
    <2> HIDE DEF N
    <2>1. N <= N
      BY <1>4
    <2>2. N \in T
      <3> HIDE DEF T
      <3> QED
        BY <1>3, <1>4, Zenon
    <2> QED
      BY <2>1, <2>2
  <1>6. \E g : Flattens(g, ss)
    BY <1>5 DEF Flattens
  <1>7. Flattens(CHOOSE g : Flattens(g, ss), ss)
    BY <1>6
  <1>8. FlattenSeq(ss) = (CHOOSE g : Flattens(g, ss))[Len(ss)]
    BY DEF FlattenSeq, Flattens
  <1> QED
    BY <1>7, <1>8

\* The flattened sequence, its concatenations written as a function.
LEMMA FlattensAt ==
  ASSUME NEW ss, NEW g, Flattens(g, ss)
  PROVE  \A i \in 1 .. Len(ss) :
            /\ i = 1 => g[i] = ss[i]
            /\ i # 1 => g[i] = g[i - 1] \o ss[i]
  <1> SUFFICES ASSUME NEW i \in 1 .. Len(ss)
               PROVE  /\ i = 1 => g[i] = ss[i]
                      /\ i # 1 => g[i] = g[i - 1] \o ss[i]
    OBVIOUS
  <1>1. g[i] = [j \in 1 .. Len(ss) |->
                  IF j = 1 THEN ss[j] ELSE g[j - 1] \o ss[j]][i]
    BY Zenon DEF Flattens
  <1>2. g[i] = IF i = 1 THEN ss[i] ELSE g[i - 1] \o ss[i]
    BY <1>1, Zenon
  <1> QED
    BY <1>2

\* Two sequences with a common prefix flatten alike over it, into sequences
\* of the same elements.
Agree(ss, tt, n) == n <= Len(ss) /\ n <= Len(tt) /\ \A i \in 1 .. n : ss[i] = tt[i]

\* Sequences that begin alike are flattened alike so far.
LEMMA FlattenAgree ==
  ASSUME NEW X, NEW ss \in Seq(Seq(X)), NEW tt \in Seq(Seq(X)),
         NEW g, Flattens(g, ss), NEW k, Flattens(k, tt), NEW n \in Nat,
         Agree(ss, tt, n)
  PROVE  \A i \in 1 .. n : g[i] = k[i] /\ g[i] \in Seq(X)
  <1> USE DEF Agree
  <1> DEFINE T == {i \in Nat : i \in 1 .. n => g[i] = k[i] /\ g[i] \in Seq(X)}
  <1>1. 0 \in T
    OBVIOUS
  <1>2. ASSUME NEW j \in 1 .. n, j = 1 \/ (g[j - 1] = k[j - 1] /\ g[j - 1] \in Seq(X))
        PROVE  g[j] = k[j] /\ g[j] \in Seq(X)
    <2>1. j \in 1 .. Len(ss) /\ j \in 1 .. Len(tt) /\ ss[j] = tt[j] /\ ss[j] \in Seq(X)
      OBVIOUS
    <2>2. /\ j = 1 => g[j] = ss[j] /\ k[j] = tt[j]
          /\ j # 1 => g[j] = g[j - 1] \o ss[j] /\ k[j] = k[j - 1] \o tt[j]
      <3>1. /\ \A i \in 1 .. Len(ss) : /\ i = 1 => g[i] = ss[i]
                                       /\ i # 1 => g[i] = g[i - 1] \o ss[i]
            /\ \A i \in 1 .. Len(tt) : /\ i = 1 => k[i] = tt[i]
                                       /\ i # 1 => k[i] = k[i - 1] \o tt[i]
        BY FlattensAt, Zenon
      <3> QED
        BY <2>1, <3>1, Zenon
    <2>3. CASE j = 1
      BY <2>1, <2>2, <2>3
    <2>4. CASE j # 1
      BY <1>2, <2>1, <2>2, <2>4, ConcatProperties
    <2> QED
      BY <2>3, <2>4
  <1>3. ASSUME NEW i \in T PROVE i + 1 \in T
    <2>1. i + 1 \in 1 .. n => i + 1 = 1 \/ (i \in 1 .. n /\ i + 1 - 1 = i)
      OBVIOUS
    <2>2. i + 1 \in 1 .. n => g[i + 1] = k[i + 1] /\ g[i + 1] \in Seq(X)
      BY <1>2, <1>3, <2>1
    <2> QED
      BY <2>2
  <1>4. T = Nat
    <2>1. T \in SUBSET Nat
      OBVIOUS
    <2> HIDE DEF T
    <2> QED
      BY <1>1, <1>3, <2>1, SetInduction
  <1>5. \A i \in 1 .. n : i \in Nat
    OBVIOUS
  <1> QED
    BY <1>4, <1>5, Zenon

\* Nothing flattens to nothing.
LEMMA FlattenEmpty ==
  ASSUME NEW ss, Len(ss) = 0
  PROVE  FlattenSeq(ss) = ss
  BY DEF FlattenSeq

\* Sequences over a set flatten to a sequence over it.
LEMMA FlattenType ==
  ASSUME NEW X, NEW ss \in Seq(Seq(X))
  PROVE  FlattenSeq(ss) \in Seq(X)
  <1>1. CASE Len(ss) = 0
    <2>1. FlattenSeq(ss) = ss
      BY <1>1, FlattenEmpty, Zenon
    <2>2. ss = <<>> /\ <<>> \in Seq(X)
      BY <1>1
    <2> QED
      BY <2>1, <2>2, Zenon
  <1>2. CASE Len(ss) # 0
    <2>1. PICK g : Flattens(g, ss) /\ FlattenSeq(ss) = g[Len(ss)]
      BY <1>2, FlattenIs
    <2>2. Len(ss) \in Nat /\ Len(ss) \in 1 .. Len(ss)
      BY <1>2
    <2>3. Agree(ss, ss, Len(ss))
      BY <2>2 DEF Agree
    <2>4. \A i \in 1 .. Len(ss) : g[i] = g[i] /\ g[i] \in Seq(X)
      BY <2>1, <2>2, <2>3, FlattenAgree, Zenon
    <2> QED
      BY <2>1, <2>2, <2>4, Zenon
  <1> QED
    BY <1>1, <1>2

\* One more sequence is flattened onto the end.
LEMMA FlattenLast ==
  ASSUME NEW X, NEW tt \in Seq(Seq(X)), NEW n \in Nat, n # 0, n # 1, Len(tt) = n,
         NEW ss \in Seq(Seq(X)), Len(ss) = n - 1, Agree(ss, tt, n - 1)
  PROVE  FlattenSeq(tt) = FlattenSeq(ss) \o tt[n]
  <1>1. PICK k : Flattens(k, tt) /\ FlattenSeq(tt) = k[n]
    BY FlattenIs
  <1>2. PICK g : Flattens(g, ss) /\ FlattenSeq(ss) = g[n - 1]
    <2>1. Len(ss) # 0
      OBVIOUS
    <2>2. \E g : Flattens(g, ss) /\ FlattenSeq(ss) = g[Len(ss)]
      BY <2>1, FlattenIs, Zenon
    <2> QED
      BY <2>2, Zenon
  <1>3. n \in 1 .. Len(tt) /\ n - 1 \in Nat /\ n - 1 \in 1 .. n - 1
    OBVIOUS
  <1>4. k[n] = k[n - 1] \o tt[n]
    <2>1. \A i \in 1 .. Len(tt) : i # 1 => k[i] = k[i - 1] \o tt[i]
      BY <1>1, FlattensAt, Zenon
    <2> QED
      BY <1>3, <2>1, Zenon
  <1>5. g[n - 1] = k[n - 1]
    <2>1. \A i \in 1 .. n - 1 : g[i] = k[i] /\ g[i] \in Seq(X)
      BY <1>1, <1>2, <1>3, FlattenAgree
    <2> QED
      BY <1>3, <2>1, Zenon
  <1> QED
    BY <1>1, <1>2, <1>4, <1>5, Zenon

\* A concatenation with one sequence more, flattened.
LEMMA FlattenAppend ==
  ASSUME NEW X, NEW ss \in Seq(Seq(X)), NEW e \in Seq(X)
  PROVE  FlattenSeq(Append(ss, e)) = FlattenSeq(ss) \o e
  <1> DEFINE n == Len(ss)
             tt == Append(ss, e)
  <1>1. /\ n \in Nat /\ tt \in Seq(Seq(X)) /\ Len(tt) = n + 1 /\ tt[n + 1] = e
        /\ \A i \in 1 .. n : ss[i] = tt[i]
    OBVIOUS
  <1>2. CASE n = 0
    <2>1. FlattenSeq(ss) = ss /\ ss = <<>>
      BY <1>2, FlattenEmpty
    <2>2. PICK k : Flattens(k, tt) /\ FlattenSeq(tt) = k[1]
      <3> HIDE DEF tt
      <3>1. Len(tt) = 1
        BY <1>1, <1>2
      <3>2. \E k : Flattens(k, tt) /\ FlattenSeq(tt) = k[Len(tt)]
        BY <1>1, <3>1, FlattenIs
      <3> QED
        BY <3>1, <3>2
    <2>3. k[1] = e
      <3>1. 1 \in 1 .. Len(tt) /\ tt[1] = e
        BY <1>1, <1>2
      <3>2. \A i \in 1 .. Len(tt) : i = 1 => k[i] = tt[i]
        BY <2>2, FlattensAt, Zenon
      <3> QED
        BY <3>1, <3>2, Zenon
    <2>4. <<>> \o e = e
      OBVIOUS
    <2> QED
      BY <2>1, <2>2, <2>3, <2>4
  <1>3. CASE n # 0
    <2> DEFINE N == n + 1
    <2>1. N \in Nat /\ N # 0 /\ N # 1 /\ Len(tt) = N /\ Len(ss) = N - 1
      BY <1>1, <1>3
    <2>2. Agree(ss, tt, N - 1)
      BY <1>1 DEF Agree
    <2> HIDE DEF N, tt
    <2>3. FlattenSeq(tt) = FlattenSeq(ss) \o tt[N]
      BY <1>1, <2>1, <2>2, FlattenLast
    <2> QED
      BY <1>1, <2>3 DEF N, tt
  <1> QED
    BY <1>2, <1>3

\* Flattening in two pieces.
Splits(a, b) == FlattenSeq(a \o b) = FlattenSeq(a) \o FlattenSeq(b)

\* Flattening splits off nothing.
LEMMA SplitsNone ==
  ASSUME NEW X, NEW a \in Seq(Seq(X)), NEW c \in Seq(Seq(X)), Len(c) = 0
  PROVE  Splits(a, c)
  <1>1. c = <<>> /\ FlattenSeq(c) = <<>>
    BY FlattenEmpty
  <1>2. a \o c = a
    BY <1>1
  <1>3. FlattenSeq(a) \o <<>> = FlattenSeq(a)
    BY FlattenType
  <1> QED
    BY <1>1, <1>2, <1>3 DEF Splits

\* A split holds on with one more sequence behind it.
LEMMA SplitsMore ==
  ASSUME NEW X, NEW a \in Seq(Seq(X)), NEW d \in Seq(Seq(X)), NEW e \in Seq(X),
         Splits(a, d)
  PROVE  Splits(a, Append(d, e))
  <1>1. a \o Append(d, e) = Append(a \o d, e) /\ a \o d \in Seq(Seq(X))
    OBVIOUS
  <1>2. FlattenSeq(Append(a \o d, e)) = FlattenSeq(a \o d) \o e
    BY <1>1, FlattenAppend
  <1>3. FlattenSeq(Append(d, e)) = FlattenSeq(d) \o e
    BY FlattenAppend
  <1>4. FlattenSeq(a) \in Seq(X) /\ FlattenSeq(d) \in Seq(X)
    BY FlattenType
  <1>5. (FlattenSeq(a) \o FlattenSeq(d)) \o e = FlattenSeq(a) \o (FlattenSeq(d) \o e)
    BY <1>4, ConcatAssociative
  <1> QED
    BY <1>1, <1>2, <1>3, <1>5 DEF Splits

\* Flattening two parts is flattening each.
LEMMA FlattenConcat ==
  ASSUME NEW X, NEW a \in Seq(Seq(X)), NEW b \in Seq(Seq(X))
  PROVE  FlattenSeq(a \o b) = FlattenSeq(a) \o FlattenSeq(b)
  <1> DEFINE T == {n \in Nat : \A c \in Seq(Seq(X)) : Len(c) = n => Splits(a, c)}
  <1>1. 0 \in T
    BY SplitsNone
  <1>2. ASSUME NEW n \in Nat, \A c \in Seq(Seq(X)) : Len(c) = n => Splits(a, c),
               NEW c \in Seq(Seq(X)), Len(c) = n + 1
        PROVE  Splits(a, c)
    <2> DEFINE d == SubSeq(c, 1, n)
               e == c[n + 1]
    <2>1. d \in Seq(Seq(X)) /\ Len(d) = n /\ e \in Seq(X) /\ c = Append(d, e)
      BY <1>2
    <2> HIDE DEF d, e
    <2>2. Splits(a, d)
      BY <1>2, <2>1, Zenon
    <2>3. Splits(a, Append(d, e))
      BY <2>1, <2>2, SplitsMore
    <2> QED
      BY <2>1, <2>3, Zenon
  <1>3. ASSUME NEW n \in T
        PROVE  n + 1 \in T
    <2>1. n \in Nat /\ \A c \in Seq(Seq(X)) : Len(c) = n => Splits(a, c)
      OBVIOUS
    <2>2. \A c \in Seq(Seq(X)) : Len(c) = n + 1 => Splits(a, c)
      BY <1>2, <2>1, Zenon
    <2> QED
      BY <2>1, <2>2
  <1>4. T = Nat
    <2>1. T \in SUBSET Nat
      OBVIOUS
    <2> HIDE DEF T
    <2> QED
      BY <1>1, <1>3, <2>1, SetInduction
  <1>5. Len(b) \in Nat
    OBVIOUS
  <1>6. Splits(a, b)
    BY <1>4, <1>5, Zenon
  <1> QED
    BY <1>6 DEF Splits

-----------------------------------------------------------------------------
(* Frames. *)

\* What a concatenation holds where.
LEMMA ConcatAt ==
  ASSUME NEW S, NEW a \in Seq(S), NEW b \in Seq(S)
  PROVE  /\ a \o b \in Seq(S) /\ Len(a \o b) = Len(a) + Len(b)
         /\ \A i \in 1 .. Len(a) : (a \o b)[i] = a[i]
         /\ \A i \in Len(a) + 1 .. Len(a) + Len(b) : (a \o b)[i] = b[i - Len(a)]
  OBVIOUS

Cell == Nat \X AnyEntry \X Nat

\* A frame is a sequence of cells.
LEMMA FrameType ==
  ASSUME NEW s \in Nat, NEW v \in AnyEntry
  PROVE  Frame(s, v) \in Seq(Cell)
  <1>1. Width[v] \in Nat
    BY EntryAssumption DEF AnyEntry
  <1>2. \A k \in 1 .. Width[v] : <<s, v, k>> \in Cell
    BY DEF Cell
  <1> QED
    BY <1>1, <1>2 DEF Frame

\* So is each of those flattened.
LEMMA FramedType ==
  ASSUME NEW h \in Seq(AnyEntry), NEW n \in 1 .. Len(h) + 1
  PROVE  [i \in 1 .. Len(h) - n + 1 |-> Frame(n + i - 1, h[n + i - 1])]
            \in Seq(Seq(Cell))
  <1>1. Len(h) - n + 1 \in Nat
    OBVIOUS
  <1>2. ASSUME NEW i \in 1 .. Len(h) - n + 1
        PROVE  Frame(n + i - 1, h[n + i - 1]) \in Seq(Cell)
    <2>1. n + i - 1 \in Nat /\ h[n + i - 1] \in AnyEntry
      OBVIOUS
    <2> QED
      BY <2>1, FrameType
  <1> QED
    BY <1>1, <1>2

\* And the frames of a journal.
LEMMA FramesType ==
  ASSUME NEW h \in Seq(AnyEntry), NEW n \in 1 .. Len(h) + 1
  PROVE  FramesFrom(n, h) \in Seq(Cell)
  BY FramedType, FlattenType DEF FramesFrom

\* An empty range has no frames.
LEMMA FramesNone ==
  ASSUME NEW h \in Seq(AnyEntry)
  PROVE  FramesFrom(Len(h) + 1, h) = <<>>
  <1> DEFINE n == Len(h) + 1
             ff == [i \in 1 .. Len(h) - n + 1 |-> Frame(n + i - 1, h[n + i - 1])]
  <1>1. Len(h) - n + 1 = 0
    OBVIOUS
  <1>2. ff = <<>>
    BY <1>1
  <1>3. FlattenSeq(ff) = <<>>
    BY <1>2, FlattenEmpty
  <1> QED
    BY <1>3 DEF FramesFrom

\* The frames of a history are those of its first k entries, then the rest.
LEMMA FramesSplit ==
  ASSUME NEW h \in Seq(AnyEntry), NEW k \in 0 .. Len(h)
  PROVE  Frames(h) = Frames(SubSeq(h, 1, k)) \o FramesFrom(k + 1, h)
  <1> DEFINE l == SubSeq(h, 1, k)
             whole == [i \in 1 .. Len(h) - 1 + 1 |-> Frame(1 + i - 1, h[1 + i - 1])]
             low == [i \in 1 .. Len(l) - 1 + 1 |-> Frame(1 + i - 1, l[1 + i - 1])]
             high == [i \in 1 .. Len(h) - (k + 1) + 1 |->
                         Frame(k + 1 + i - 1, h[k + 1 + i - 1])]
  <1>1. l \in Seq(AnyEntry) /\ Len(l) = k /\ \A i \in 1 .. k : l[i] = h[i]
    OBVIOUS
  <1> HIDE DEF l
  <1>2. low \in Seq(Seq(Cell))
    <2>1. 1 \in 1 .. Len(l) + 1
      BY <1>1
    <2> QED
      BY <1>1, <2>1, FramedType
  <1>3. high \in Seq(Seq(Cell)) /\ whole \in Seq(Seq(Cell))
    <2>1. 1 \in 1 .. Len(h) + 1 /\ k + 1 \in 1 .. Len(h) + 1
      OBVIOUS
    <2> QED
      BY <2>1, FramedType
  <1>4. Len(whole) = Len(h) /\ Len(low) = k /\ Len(high) = Len(h) - k
    BY <1>1
  <1>5. \A i \in 1 .. Len(h) : whole[i] = Frame(i, h[i])
    OBVIOUS
  <1>6. \A i \in 1 .. k : low[i] = Frame(i, h[i])
    BY <1>1
  <1>7. \A i \in 1 .. Len(h) - k : high[i] = Frame(k + i, h[k + i])
    OBVIOUS
  <1> HIDE DEF whole, low, high
  <1>8. whole = low \o high
    <2>1. low \o high \in Seq(Seq(Cell)) /\ Len(low \o high) = Len(h)
      BY <1>2, <1>3, <1>4
    <2>2. ASSUME NEW i \in 1 .. Len(h) PROVE whole[i] = (low \o high)[i]
      <3>1. CASE i \in 1 .. k
        BY <1>2, <1>3, <1>4, <1>5, <1>6, <3>1
      <3>2. CASE i \notin 1 .. k
        <4>1. i - k \in 1 .. Len(h) - k /\ k + (i - k) = i
          BY <3>2
        <4>2. (low \o high)[i] = high[i - k]
          <5>1. i \in Len(low) + 1 .. Len(low) + Len(high) /\ Len(low) = k
            BY <1>4, <3>2
          <5>2. (low \o high)[i] = high[i - Len(low)]
            BY <1>2, <1>3, <5>1, ConcatAt, Zenon
          <5> QED
            BY <5>1, <5>2, Zenon
        <4> QED
          BY <1>5, <1>7, <4>1, <4>2
      <3> QED
        BY <3>1, <3>2
    <2> QED
      BY <1>3, <1>4, <2>1, <2>2, SeqEqual
  <1>9. FlattenSeq(whole) = FlattenSeq(low) \o FlattenSeq(high)
    BY <1>2, <1>3, <1>8, FlattenConcat
  <1> QED
    BY <1>9 DEF Frames, FramesFrom, whole, low, high, l

-----------------------------------------------------------------------------
(* The region. *)

\* The region begins with these cells.
Begins(r, cs) == Len(cs) <= Len(r) /\ SubSeq(r, 1, Len(cs)) = cs

\* What begins with cells begins with fewer of them.
LEMMA BeginsLess ==
  ASSUME NEW r \in Seq(Cell), NEW a \in Seq(Cell), NEW b \in Seq(Cell), Begins(r, a \o b)
  PROVE  Begins(r, a)
  <1>1. Len(a \o b) = Len(a) + Len(b) /\ Len(a) <= Len(r)
    BY DEF Begins
  <1>2. \A i \in 1 .. Len(a) : SubSeq(r, 1, Len(a \o b))[i] = r[i] /\ (a \o b)[i] = a[i]
    BY <1>1 DEF Begins
  <1>3. \A i \in 1 .. Len(a) : r[i] = a[i]
    BY <1>2 DEF Begins
  <1>4. SubSeq(r, 1, Len(a)) \in Seq(Cell) /\ Len(SubSeq(r, 1, Len(a))) = Len(a)
        /\ \A i \in 1 .. Len(a) : SubSeq(r, 1, Len(a))[i] = r[i]
    BY <1>1
  <1>5. SubSeq(r, 1, Len(a)) = a
    BY <1>3, <1>4, SeqEqual
  <1> QED
    BY <1>1, <1>5 DEF Begins

\* The larger of two naturals.
LEMMA MaxOfTwo ==
  ASSUME NEW a \in Nat, NEW b \in Nat
  PROVE  Max({a, b}) = IF a >= b THEN a ELSE b
  <1>1. Max({a, b}) = CHOOSE x \in {a, b} : \A y \in {a, b} : x >= y
    BY DEF Max
  <1> DEFINE m == IF a >= b THEN a ELSE b
  <1>2. m \in {a, b} /\ \A y \in {a, b} : m >= y
    OBVIOUS
  <1>3. \A x \in {a, b} : (\A y \in {a, b} : x >= y) => x = m
    OBVIOUS
  <1> QED
    BY <1>1, <1>2, <1>3

\* What a write leaves where.
LEMMA OverwriteAt ==
  ASSUME NEW r \in Seq(Cell), NEW at \in 0 .. Len(r), NEW cs \in Seq(Cell)
  PROVE  /\ Overwrite(r, at, cs) \in Seq(Cell)
         /\ Len(Overwrite(r, at, cs)) >= Len(r)
         /\ Len(Overwrite(r, at, cs)) >= at + Len(cs)
         /\ \A j \in 1 .. at : Overwrite(r, at, cs)[j] = r[j]
         /\ \A j \in 1 .. Len(cs) : Overwrite(r, at, cs)[at + j] = cs[j]
  <1> DEFINE L == Max({Len(r), at + Len(cs)})
             o == [j \in 1 .. L |-> IF j \in at + 1 .. at + Len(cs) THEN cs[j - at] ELSE r[j]]
  <1>1. L \in Nat /\ L >= Len(r) /\ L >= at + Len(cs)
        /\ (L = Len(r) \/ L = at + Len(cs))
    <2>1. Len(r) \in Nat /\ at + Len(cs) \in Nat
      OBVIOUS
    <2>2. L = IF Len(r) >= at + Len(cs) THEN Len(r) ELSE at + Len(cs)
      BY <2>1, MaxOfTwo, Zenon
    <2> HIDE DEF L
    <2> QED
      BY <2>1, <2>2
  <1> HIDE DEF L
  <1>2. \A j \in 1 .. L : (IF j \in at + 1 .. at + Len(cs) THEN cs[j - at] ELSE r[j]) \in Cell
    BY <1>1
  <1>3. o \in Seq(Cell) /\ Len(o) = L
    BY <1>1, <1>2
  <1>4. \A j \in 1 .. at : o[j] = r[j]
    BY <1>1
  <1>5. \A j \in 1 .. Len(cs) : o[at + j] = cs[j]
    BY <1>1
  <1> HIDE DEF o
  <1>6. Overwrite(r, at, cs) = o
    BY DEF Overwrite, o, L
  <1> QED
    BY <1>1, <1>3, <1>4, <1>5, <1>6

\* A write behind what the region begins with is what it begins with next.
LEMMA BeginsMore ==
  ASSUME NEW r \in Seq(Cell), NEW a \in Seq(Cell), NEW b \in Seq(Cell), Begins(r, a)
  PROVE  Begins(Overwrite(r, Len(a), b), a \o b)
  <1> DEFINE o == Overwrite(r, Len(a), b)
  <1>1. /\ o \in Seq(Cell) /\ Len(o) >= Len(a) + Len(b)
        /\ \A j \in 1 .. Len(a) : o[j] = r[j]
        /\ \A j \in 1 .. Len(b) : o[Len(a) + j] = b[j]
    BY OverwriteAt DEF Begins
  <1> HIDE DEF o
  <1>2. \A j \in 1 .. Len(a) : r[j] = a[j]
    <2>1. \A j \in 1 .. Len(a) : SubSeq(r, 1, Len(a))[j] = r[j]
      BY DEF Begins
    <2> QED
      BY <2>1 DEF Begins
  <1>3. a \o b \in Seq(Cell) /\ Len(a \o b) = Len(a) + Len(b)
    OBVIOUS
  <1>4. \A j \in 1 .. Len(a) + Len(b) : o[j] = (a \o b)[j]
    <2> SUFFICES ASSUME NEW j \in 1 .. Len(a) + Len(b) PROVE o[j] = (a \o b)[j]
      OBVIOUS
    <2>1. CASE j \in 1 .. Len(a)
      BY <1>1, <1>2, <2>1
    <2>2. CASE j \notin 1 .. Len(a)
      <3>1. j - Len(a) \in 1 .. Len(b) /\ Len(a) + (j - Len(a)) = j
        BY <2>2
      <3>2. (a \o b)[j] = b[j - Len(a)]
        BY <2>2
      <3> QED
        BY <1>1, <3>1, <3>2
    <2> QED
      BY <2>1, <2>2
  <1>5. LET p == SubSeq(o, 1, Len(a) + Len(b)) IN
           p \in Seq(Cell) /\ Len(p) = Len(a) + Len(b)
           /\ \A j \in 1 .. Len(a) + Len(b) : p[j] = o[j]
    BY <1>1
  <1>6. SubSeq(o, 1, Len(a) + Len(b)) = a \o b
    BY <1>3, <1>4, <1>5, SeqEqual
  <1> QED
    BY <1>1, <1>3, <1>6 DEF Begins, o

\* A write leaves the bytes before it.
LEMMA OverwriteKeeps ==
  ASSUME NEW r \in Seq(Cell), NEW at \in 0 .. Len(r), NEW cs \in Seq(Cell), NEW n \in 0 .. at
  PROVE  SubSeq(Overwrite(r, at, cs), 1, n) = SubSeq(r, 1, n)
         /\ n <= Len(Overwrite(r, at, cs))
  <1> DEFINE o == Overwrite(r, at, cs)
  <1>1. o \in Seq(Cell) /\ Len(o) >= Len(r) /\ \A j \in 1 .. at : o[j] = r[j]
    BY OverwriteAt
  <1> HIDE DEF o
  <1>2. /\ SubSeq(o, 1, n) \in Seq(Cell) /\ Len(SubSeq(o, 1, n)) = n
        /\ SubSeq(r, 1, n) \in Seq(Cell) /\ Len(SubSeq(r, 1, n)) = n
        /\ \A j \in 1 .. n : SubSeq(o, 1, n)[j] = o[j] /\ SubSeq(r, 1, n)[j] = r[j]
    BY <1>1
  <1>3. SubSeq(o, 1, n) = SubSeq(r, 1, n)
    BY <1>1, <1>2, SeqEqual
  <1> QED
    BY <1>1, <1>3 DEF o

-----------------------------------------------------------------------------
(* The delta. *)

\* A history is a journal of its length.
LEMMA HistoryIs ==
  ASSUME NEW n \in Nat \ {0}, NEW h
  PROVE  h \in History(n) <=> h \in Seq(AnyEntry) /\ Len(h) = n /\ h[1] = Genesis
  <1>1. h \in [1 .. n -> AnyEntry] <=> h \in Seq(AnyEntry) /\ Len(h) = n
    OBVIOUS
  <1> QED
    BY <1>1 DEF History

\* The smaller of two naturals.
LEMMA MinOf ==
  ASSUME NEW T \in SUBSET Nat, T # {}
  PROVE  Min(T) \in T /\ \A k \in T : Min(T) <= k
  BY Least DEF Min

\* A journal begins with the genesis entry.
IsLog(h) == h \in Seq(AnyEntry) /\ Len(h) # 0 /\ h[1] = Genesis

\* The standing prefix is within both, and what stands above the frontier is
\* what the journal holds.
Standing(m, l, c, st) ==
    /\ st \in 1 .. Len(m.entries)
    /\ st \in 1 .. Len(l)
    /\ \A n \in c + 1 .. st : m.entries[n] = l[n]
    /\ m.entries = l => st = Len(l)

\* Where a commit begins to write, and what it leaves standing.
LEMMA StandIs ==
  ASSUME NEW m, NEW l, NEW c \in Nat \ {0}, IsLog(m.entries), IsLog(l)
  PROVE  Standing(m, l, c, Stand(m, l, c))
  <1> USE DEF IsLog
  <1> DEFINE e == m.entries
             hi == Min({Len(e), Len(l)})
             mismatch == {s \in 2 .. hi : s > c /\ e[s] # l[s]}
             st == IF mismatch = {} THEN hi ELSE Min(mismatch) - 1
  <1>1. Stand(m, l, c) = st
    BY DEF Stand
  <1>2. hi \in {Len(e), Len(l)} /\ hi <= Len(e) /\ hi <= Len(l) /\ hi \in Nat \ {0}
    <2>1. {Len(e), Len(l)} \in SUBSET Nat /\ {Len(e), Len(l)} # {} /\ 0 \notin {Len(e), Len(l)}
      OBVIOUS
    <2> QED
      BY <2>1, MinOf
  <1> HIDE DEF hi
  <1>3. st \in 1 .. hi /\ \A s \in 1 .. st : s \notin mismatch
    <2>1. CASE mismatch = {}
      BY <1>2, <2>1
    <2>2. CASE mismatch # {}
      <3>1. mismatch \in SUBSET Nat
        OBVIOUS
      <3> DEFINE k == Min(mismatch)
      <3>2. k \in mismatch /\ \A s \in mismatch : k <= s
        BY <2>2, <3>1, MinOf
      <3>3. k \in 2 .. hi /\ \A s \in 1 .. k - 1 : s \notin mismatch
        <4> HIDE DEF k
        <4>1. k \in 2 .. hi
          BY <3>2
        <4> HIDE DEF mismatch
        <4> QED
          BY <3>2, <4>1
      <3> HIDE DEF mismatch, k
      <3>4. st = k - 1
        BY <2>2 DEF k
      <3> HIDE DEF st
      <3> QED
        BY <1>2, <3>3, <3>4
    <2> QED
      BY <2>1, <2>2
  <1>4. \A n \in c + 1 .. st : e[n] = l[n]
    <2> HIDE DEF st
    <2> QED
      BY <1>2, <1>3
  <1>5. e = l => st = Len(l)
    <2> SUFFICES ASSUME e = l PROVE st = Len(l)
      OBVIOUS
    <2>1. mismatch = {}
      OBVIOUS
    <2> QED
      BY <1>2, <2>1
  <1> HIDE DEF st, e
  <1>6. st \in 1 .. Len(e) /\ st \in 1 .. Len(l)
    BY <1>2, <1>3 DEF e
  <1> QED
    BY <1>1, <1>4, <1>5, <1>6 DEF e, Standing

\* A journal l, committed to c, that a commit over the mirror m may stage.
Stageable(m, l, c, cp) ==
    /\ m.seq \in Nat /\ IsLog(m.entries)
    /\ IsLog(l) /\ Len(l) <= MaxSlot /\ c \in 1 .. Len(l)
    /\ cp \in CopyState

\* What a commit w stages: the journal's entries above the frontier, behind a
\* prefix that the mirror had.
Stages(m, w, l, c, cp) ==
    /\ IsLog(w.entries) /\ Len(w.entries) = Len(l)
    /\ \A n \in c + 1 .. Len(l) : w.entries[n] = l[n]
    /\ w.header \in Header
    /\ w.header.copies = cp
    /\ w.header.committed = c /\ w.header.accepted = Len(l)
    /\ w.header.count = Len(l) /\ w.header.bytes = Len(Frames(w.entries))
    /\ \E n \in 1 .. Len(l) :
          /\ n <= Len(m.entries)
          /\ SubSeq(w.entries, 1, n) = SubSeq(m.entries, 1, n)
          /\ w.at = Len(Frames(SubSeq(w.entries, 1, n)))
          /\ w.cells = FramesFrom(n + 1, w.entries)
    /\ m.entries = l => w.entries = l /\ w.cells = <<>>

\* What a commit stages over a standing journal.
LEMMA Delta ==
  ASSUME NEW m, NEW l, NEW c, NEW cp, Stageable(m, l, c, cp)
  PROVE  Stages(m, CommitOf(m, l, c, cp), l, c, cp)
  <1> DEFINE st == Stand(m, l, c)
             es == SubSeq(m.entries, 1, st) \o SubSeq(l, st + 1, Len(l))
             w == CommitOf(m, l, c, cp)
  <1>1. /\ c \in 1 .. Len(l) /\ cp \in CopyState /\ m.seq \in Nat
        /\ IsLog(l) /\ Len(l) <= MaxSlot /\ IsLog(m.entries)
    BY DEF Stageable
  <1> USE <1>1
  <1>2. /\ st \in 1 .. Len(m.entries) /\ st \in 1 .. Len(l)
        /\ \A n \in c + 1 .. st : m.entries[n] = l[n]
        /\ m.entries = l => st = Len(l)
    <2>1. c \in Nat \ {0}
      BY DEF IsLog
    <2>2. Standing(m, l, c, st)
      BY <2>1, StandIs
    <2> HIDE DEF es, w, st
    <2> QED
      BY <2>2 DEF Standing
  <1> USE DEF IsLog
  <1>3. /\ w.entries = es
        /\ w.at = Len(Frames(SubSeq(m.entries, 1, st)))
        /\ w.cells = FramesFrom(st + 1, es)
        /\ w.header = [seq |-> m.seq + 1, copies |-> cp, accepted |-> Len(l),
                       committed |-> c, count |-> Len(es),
                       bytes |-> Len(Frames(es))]
    BY DEF CommitOf
  <1> HIDE DEF st, w
  <1>4. /\ es \in Seq(AnyEntry) /\ Len(es) = Len(l)
        /\ \A n \in 1 .. st : es[n] = m.entries[n]
        /\ \A n \in st + 1 .. Len(l) : es[n] = l[n]
    <2> DEFINE a == SubSeq(m.entries, 1, st)
               b == SubSeq(l, st + 1, Len(l))
    <2>1. /\ a \in Seq(AnyEntry) /\ Len(a) = st
          /\ b \in Seq(AnyEntry) /\ Len(b) = Len(l) - st
          /\ \A n \in 1 .. st : a[n] = m.entries[n]
          /\ \A n \in 1 .. Len(l) - st : b[n] = l[st + n]
      <3>1. m.entries \in Seq(AnyEntry) /\ l \in Seq(AnyEntry)
            /\ st \in 1 .. Len(m.entries) /\ st \in 1 .. Len(l)
        BY <1>1, <1>2
      <3> HIDE <1>1
      <3>2. /\ a \in Seq(AnyEntry) /\ Len(a) = st
            /\ \A n \in 1 .. st : a[n] = m.entries[n]
        BY <3>1
      <3>3. /\ b \in Seq(AnyEntry) /\ Len(b) = Len(l) - st
            /\ \A n \in 1 .. Len(l) - st : b[n] = l[st + n]
        BY <3>1
      <3> QED
        BY <3>2, <3>3
    <2> HIDE DEF a, b
    <2>2. es = a \o b
      BY DEF a, b
    <2> HIDE DEF es
    <2>3. /\ es \in Seq(AnyEntry) /\ Len(es) = Len(a) + Len(b)
          /\ \A n \in 1 .. Len(a) : es[n] = a[n]
          /\ \A n \in Len(a) + 1 .. Len(a) + Len(b) : es[n] = b[n - Len(a)]
      <3>1. a \in Seq(AnyEntry) /\ b \in Seq(AnyEntry)
        BY <2>1
      <3> QED
        BY <2>2, <3>1, ConcatAt
    <2>4. Len(a) = st /\ Len(a) + Len(b) = Len(l)
      BY <1>2, <2>1
    <2>5. \A n \in 1 .. st : es[n] = m.entries[n]
      BY <2>1, <2>3, <2>4, Zenon
    <2>6. ASSUME NEW n \in st + 1 .. Len(l) PROVE es[n] = l[n]
      <3>1. n - st \in 1 .. Len(l) - st /\ st + (n - st) = n
        BY <1>2
      <3>2. es[n] = b[n - st]
        BY <2>3, <2>4, Zenon
      <3>3. b[n - st] = l[st + (n - st)]
        BY <2>1, <3>1, Zenon
      <3> QED
        BY <3>1, <3>2, <3>3, Zenon
    <2> QED
      BY <2>3, <2>4, <2>5, <2>6
  <1> HIDE DEF es
  <1>5. SubSeq(es, 1, st) = SubSeq(m.entries, 1, st)
    <2>1. /\ SubSeq(es, 1, st) \in Seq(AnyEntry) /\ Len(SubSeq(es, 1, st)) = st
          /\ SubSeq(m.entries, 1, st) \in Seq(AnyEntry) /\ Len(SubSeq(m.entries, 1, st)) = st
          /\ \A n \in 1 .. st : /\ SubSeq(es, 1, st)[n] = es[n]
                                /\ SubSeq(m.entries, 1, st)[n] = m.entries[n]
      BY <1>2, <1>4
    <2> QED
      BY <1>4, <2>1, SeqEqual
  <1>6. es[1] = Genesis
    BY <1>2, <1>4
  <1>7. \A n \in c + 1 .. Len(l) : es[n] = l[n]
    BY <1>2, <1>4
  <1>8. Frames(es) \in Seq(Cell)
    <2>1. 1 \in 1 .. Len(es) + 1
      BY <1>4
    <2> QED
      BY <1>4, <2>1, FramesType DEF Frames
  <1>9. w.header \in Header
    <2>1. Len(Frames(es)) \in Nat
      BY <1>8
    <2>2. Len(l) \in 1 .. MaxSlot /\ c \in 1 .. MaxSlot /\ m.seq + 1 \in Nat
      BY StoreBounds
    <2> QED
      BY <1>3, <1>4, <2>1, <2>2 DEF Header
  <1>10. ASSUME m.entries = l PROVE es = l /\ w.cells = <<>>
    <2>1. st = Len(l) /\ \A n \in 1 .. Len(l) : es[n] = l[n]
      BY <1>2, <1>4, <1>10
    <2>2. es = l
      BY <1>4, <2>1, SeqEqual
    <2> QED
      BY <1>3, <2>1, <2>2, FramesNone
  <1>11. /\ w.header.copies = cp /\ w.header.committed = c
         /\ w.header.accepted = Len(l) /\ w.header.count = Len(l)
         /\ w.header.bytes = Len(Frames(w.entries))
    BY <1>3, <1>4
  <1>12. \E n \in 1 .. Len(l) :
               /\ n <= Len(m.entries)
               /\ SubSeq(w.entries, 1, n) = SubSeq(m.entries, 1, n)
               /\ w.at = Len(Frames(SubSeq(w.entries, 1, n)))
               /\ w.cells = FramesFrom(n + 1, w.entries)
    <2>1. /\ st \in 1 .. Len(l) /\ st <= Len(m.entries)
          /\ SubSeq(w.entries, 1, st) = SubSeq(m.entries, 1, st)
          /\ w.at = Len(Frames(SubSeq(w.entries, 1, st)))
          /\ w.cells = FramesFrom(st + 1, w.entries)
      <3>1. st <= Len(m.entries)
        BY <1>2
      <3> QED
        BY <1>2, <1>3, <1>5, <3>1, Zenon
    <2> QED
      BY <2>1, Zenon
  <1> QED
    BY <1>3, <1>4, <1>6, <1>7, <1>9, <1>10, <1>11, <1>12 DEF w, Stages

-----------------------------------------------------------------------------
(* The slots. *)

\* A slot that decodes has a sequence number above zero.
Slot(h) ==
    /\ h.seq \in Nat
    /\ h.seq = 0 => h = Undecodable
    /\ h.seq # 0 => h.copies \in CopyState

Shaped(f) ==
    /\ f = [slots |-> f.slots, region |-> f.region]
    /\ f.slots = [s \in Side |-> f.slots[s]]
    /\ \A s \in Side : Slot(f.slots[s])

Shape ==
    /\ \A f, g \in file : f = g
    /\ \A f \in file : Shaped(f)
    /\ mirror = [side |-> mirror.side, seq |-> mirror.seq,
                 entries |-> mirror.entries]
    /\ mirror.side \in Side /\ mirror.seq \in Nat
    /\ own \in Identity /\ copies \in CopyState /\ deferred \in BOOLEAN
    /\ spent \subseteq Nat
    /\ \A w \in io : /\ w = [stage |-> w.stage, at |-> w.at, cells |-> w.cells,
                             header |-> w.header]
                     /\ w.header.seq = mirror.seq + 1
                     /\ w.header.copies \in CopyState
    /\ phase \in {"down", "opened", "up", "draining"} => io = {}

\* A running store's own slot stands, and no two slots tie.
Turns ==
    \A f \in file :
        /\ f.slots["A"].seq # f.slots["B"].seq
        /\ \E s \in Side : f.slots[s].seq # 0 /\ f.slots[s].seq >= mirror.seq
        /\ phase # "down" => /\ f.slots[mirror.side].seq = mirror.seq
                             /\ mirror.seq # 0

\* The slots that a load may pick when the process ends now.
Candidates(f) ==
    IF phase = "down" THEN Active(f)
    ELSE {s \in Side : f.slots[s].seq >= mirror.seq}

\* Markers of an identity that every dead one lies below, or that say it did
\* not stop.
Buries(c) == \A i \in spent : i <= c.id /\ (i = c.id => c.marker # "Stopped")

Dead ==
    /\ file = {} => spent = {} /\ phase = "down"
    /\ \A f \in file : \A s \in Candidates(f) : Buries(f.slots[s].copies)
    /\ \A w \in io : Buries(w.header.copies)
    /\ phase # "down" => Buries(copies) /\ \A i \in spent : i < own

Owned ==
    /\ phase # "down" /\ ~deferred =>
          /\ copies.id = own
          /\ \A f \in file : \A s \in Candidates(f) : f.slots[s].copies.id = own
          /\ \A w \in io : w.header.copies.id = own
    /\ phase = "seating" =>
          \A w \in io : w.header.copies = Copies(own, "Joining")
    /\ phase \in {"latching", "stopping", "draining", "halting"} => ~deferred

IInv == Shape /\ Turns /\ Dead /\ Owned

-----------------------------------------------------------------------------
(* Slots and files. *)

\* The other slot.
LEMMA Flip == ASSUME NEW s \in Side
              PROVE  flip(s) \in Side /\ flip(s) # s /\ Side = {s, flip(s)}
  BY DEF Side, flip

\* A slot not yet written is a slot.
LEMMA UndecodableSlot == Slot(Undecodable)
  BY DEF Slot, Undecodable

\* A slot vouches when its sequence number is above zero, and a load picks
\* the higher one.
LEMMA ActiveSlots ==
  ASSUME NEW f, Shaped(f)
  PROVE  Active(f) = {s \in Side : /\ f.slots[s].seq # 0
                                   /\ f.slots[s].seq >= f.slots[flip(s)].seq}
  <1>1. \A s \in Side : f.slots[s] # Undecodable <=> f.slots[s].seq # 0
    BY DEF Shaped, Slot, Undecodable
  <1>2. \A s \in Side : f.slots[s].seq \in Nat
    BY DEF Shaped, Slot
  <1> QED
    BY <1>1, <1>2, Flip DEF Active, Vouches

\* What is left of an interrupted commit differs in one slot at most.
LEMMA InterruptedSlots ==
  ASSUME NEW f, Shaped(f), mirror.side \in Side, NEW w, Slot(w.header),
         NEW g \in Interrupted(f, w)
  PROVE  /\ Shaped(g)
         /\ g.slots[mirror.side] = f.slots[mirror.side]
         /\ g.slots[flip(mirror.side)]
              \in {f.slots[flip(mirror.side)], Undecodable, w.header}
  <1> DEFINE o == flip(mirror.side)
  <1>1. o \in Side /\ o # mirror.side /\ Side = {mirror.side, o}
    BY Flip
  <1>2. CASE w.stage = "region"
    <2>1. PICK r : g = [f EXCEPT !.region = r]
      BY <1>2 DEF Interrupted
    <2>2. g = [slots |-> f.slots, region |-> r]
      BY <2>1 DEF Shaped
    <2> QED
      BY <2>2 DEF Shaped
  <1>3. CASE w.stage # "region"
    <2>1. PICK x \in {f.slots[o], Undecodable, w.header} :
             g = [f EXCEPT !.slots[o] = x]
      BY <1>3 DEF Interrupted
    <2>2. g = [slots |-> [f.slots EXCEPT ![o] = x], region |-> f.region]
      BY <2>1 DEF Shaped
    <2>3. Slot(x)
      BY <2>1, <1>1, UndecodableSlot DEF Shaped
    <2>4. [f.slots EXCEPT ![o] = x] = [s \in Side |-> IF s = o THEN x ELSE f.slots[s]]
      BY <1>1 DEF Shaped
    <2>5. g.slots = [s \in Side |-> IF s = o THEN x ELSE f.slots[s]]
      BY <2>2, <2>4
    <2>6. g.region = f.region /\ g = [slots |-> g.slots, region |-> g.region]
      BY <2>2
    <2>7. g.slots[o] = x /\ \A s \in Side : s # o => g.slots[s] = f.slots[s]
      BY <2>5, <1>1
    <2>8. \A s \in Side : Slot(g.slots[s])
      BY <2>3, <2>7 DEF Shaped
    <2>9. g.slots = [s \in Side |-> g.slots[s]]
      BY <2>5
    <2> QED
      BY <1>1, <2>1, <2>6, <2>7, <2>8, <2>9 DEF Shaped
  <1> QED
    BY <1>2, <1>3

\* A commit's header is a slot's content.
LEMMA HeaderSlot ==
  ASSUME Shape, NEW w \in io
  PROVE  Slot(w.header) /\ w.header.seq = mirror.seq + 1
  BY DEF Shape, Slot

\* The one file there is keeps the load's choice within what the invariant
\* speaks of.
LEMMA ActiveIsCandidate ==
  ASSUME IInv, NEW f \in file, NEW s \in Active(f)
  PROVE  /\ s \in Side /\ s \in Candidates(f)
         /\ f.slots[s].seq # 0 /\ f.slots[s].seq \in Nat
         /\ f.slots[s].seq >= mirror.seq
         /\ f.slots[s].copies \in CopyState
         /\ f.slots[flip(s)].seq < f.slots[s].seq
  <1>1. Shaped(f)
    BY DEF IInv, Shape
  <1>2. /\ s \in Side /\ flip(s) \in Side /\ flip(s) # s /\ Side = {s, flip(s)}
        /\ f.slots[s].seq # 0
        /\ f.slots[s].seq >= f.slots[flip(s)].seq
    BY <1>1, ActiveSlots, Flip
  <1>3. /\ f.slots[s].seq \in Nat /\ f.slots[flip(s)].seq \in Nat
        /\ f.slots[s].copies \in CopyState
    BY <1>1, <1>2 DEF Shaped, Slot
  <1>4. f.slots[s].seq # f.slots[flip(s)].seq
    BY <1>2 DEF IInv, Turns, Side
  <1>5. f.slots[s].seq >= mirror.seq
    <2>1. PICK t \in Side : f.slots[t].seq >= mirror.seq
      BY DEF IInv, Turns
    <2> QED
      BY <2>1, <1>2, <1>3 DEF IInv, Shape
  <1> QED
    BY <1>2, <1>3, <1>4, <1>5 DEF Candidates

-----------------------------------------------------------------------------
(* The steps of a commit. *)

\* Before the first life there is no file.
LEMMA InitIInv == Init => IInv
  <1> SUFFICES ASSUME Init PROVE IInv
    OBVIOUS
  <1>1. Shape
    <2>1. copies \in CopyState /\ own \in Identity
      BY StoreBounds DEF Init, Copies, CopyState, Identity, Marker
    <2>2. deferred \in BOOLEAN
      BY Zenon DEF Init
    <2>3. mirror = [side |-> mirror.side, seq |-> mirror.seq,
                    entries |-> mirror.entries]
      BY DEF Init
    <2>4. mirror.side \in Side /\ mirror.seq \in Nat
      BY DEF Init, Side
    <2> QED
      BY <2>1, <2>2, <2>3, <2>4 DEF Init, Shape
  <1>2. Turns /\ Dead /\ Owned
    BY DEF Init, Turns, Dead, Owned
  <1> QED
    BY <1>1, <1>2 DEF IInv

\* The call of a commit moves the mirror's entries and fixes the header.
LEMMA CommitCall ==
  ASSUME NEW p, NEW m, NEW l, NEW c, NEW cp, Commit(p, m, l, c, cp),
         m = [side |-> m.side, seq |-> m.seq, entries |-> m.entries],
         cp \in CopyState
  PROVE  /\ phase' = p
         /\ mirror' = [side |-> m.side, seq |-> m.seq, entries |-> mirror'.entries]
         /\ mirror'.side = m.side /\ mirror'.seq = m.seq
         /\ \A w \in io' : /\ w.header.seq = m.seq + 1
                           /\ w.header.copies = cp
                           /\ w = [stage |-> w.stage, at |-> w.at,
                                   cells |-> w.cells, header |-> w.header]
  <1> DEFINE k == CommitOf(m, l, c, cp)
  <1>1. k.header.seq = m.seq + 1 /\ k.header.copies = cp
    BY DEF CommitOf
  <1>2. phase' = p /\ mirror' = [m EXCEPT !.entries = k.entries]
    BY DEF Commit
  <1>3. \A w \in io' : /\ w.header = k.header
                       /\ w = [stage |-> w.stage, at |-> w.at,
                               cells |-> w.cells, header |-> w.header]
    BY DEF Commit
  <1> QED
    BY <1>1, <1>2, <1>3

\* A running store writes its markers over the state as it is.
LEMMA CommitStep ==
  ASSUME IInv, NEW p, NEW l, NEW c, NEW cp, Commit(p, mirror, l, c, cp),
         p \in {"writing", "seating", "stopping", "halting"},
         cp \in CopyState, Buries(cp), ~deferred => cp.id = own,
         p = "seating" => cp = Copies(own, "Joining"),
         p \in {"stopping", "halting"} => ~deferred, phase # "down",
         UNCHANGED <<file, own, copies, deferred, spent>>
  PROVE  IInv'
  <1>1. /\ phase' = p
        /\ mirror' = [side |-> mirror.side, seq |-> mirror.seq,
                      entries |-> mirror'.entries]
        /\ mirror'.side = mirror.side /\ mirror'.seq = mirror.seq
        /\ \A w \in io' : /\ w.header.seq = mirror.seq + 1 /\ w.header.copies = cp
                         /\ w = [stage |-> w.stage, at |-> w.at,
                                 cells |-> w.cells, header |-> w.header]
    BY CommitCall DEF IInv, Shape
  <1>2. Shape'
    BY <1>1 DEF IInv, Shape, Shaped, Slot
  <1>3. Turns'
    BY <1>1 DEF IInv, Turns
  <1>4. \A f \in file : Candidates(f)' = Candidates(f)
    BY <1>1 DEF Candidates
  <1>5. Dead'
    BY <1>1, <1>4 DEF IInv, Dead, Buries
  <1>6. Owned'
    BY <1>1, <1>4 DEF IInv, Owned, Copies
  <1> QED
    BY <1>2, <1>3, <1>5, <1>6 DEF IInv

\* The region's sync touches no slot.
LEMMA RegionStep ==
  ASSUME IInv, RegionSync
  PROVE  IInv'
  <1>1. PICK w \in io, f \in file : \E r :
           /\ file' = {[f EXCEPT !.region = r]}
           /\ io' = {[w EXCEPT !.stage = "slot"]}
    BY DEF RegionSync
  <1>2. PICK r :
           /\ w \in io /\ f \in file
           /\ file' = {[f EXCEPT !.region = r]}
           /\ io' = {[w EXCEPT !.stage = "slot"]}
    BY <1>1
  <1>3. UNCHANGED <<phase, mirror, own, copies, deferred, spent>>
    BY DEF RegionSync, lifeVars
  <1> DEFINE g == [f EXCEPT !.region = r]
  <1>4. f \in file /\ w \in io /\ Shaped(f) /\ \A h \in file : h = f
    BY <1>2 DEF IInv, Shape
  <1>5. g = [slots |-> f.slots, region |-> r]
    BY <1>4 DEF Shaped
  <1>6. g.slots = f.slots /\ Shaped(g)
    BY <1>4, <1>5 DEF Shaped
  <1>7. \A v \in io' : v = [stage |-> "slot", at |-> w.at, cells |-> w.cells,
                            header |-> w.header]
    BY <1>2 DEF IInv, Shape
  <1>8. \A h \in file' : h = g
    BY <1>2
  <1>9. phase' \notin {"down", "opened", "up", "draining"}
    BY <1>3, <1>4 DEF IInv, Shape
  <1> HIDE DEF g
  <1>10. Shape'
    BY <1>3, <1>4, <1>6, <1>7, <1>8, <1>9 DEF IInv, Shape
  <1>11. Turns'
    BY <1>3, <1>4, <1>6, <1>8 DEF IInv, Turns
  <1>12. Candidates(g)' = Candidates(f)
    BY <1>3, <1>6, <1>9 DEF Candidates
  <1>13. Dead'
    <2>1. file' # {}
      BY <1>2
    <2>2. \A v \in io' : v.header.copies = w.header.copies
      BY <1>7
    <2>3. Buries(w.header.copies) /\ \A t \in Candidates(f) : Buries(f.slots[t].copies)
      BY <1>4 DEF IInv, Dead
    <2>4. \A x : Buries(x)' <=> Buries(x)
      BY <1>3 DEF Buries
    <2>5. phase' # "down" => Buries(copies') /\ \A i \in spent : i < own
      BY <1>3 DEF IInv, Dead
    <2> QED
      BY <1>3, <1>6, <1>8, <1>12, <2>1, <2>2, <2>3, <2>4, <2>5 DEF Dead, Buries
  <1>14. Owned'
    BY <1>3, <1>4, <1>6, <1>7, <1>8, <1>12 DEF IInv, Owned
  <1> QED
    BY <1>10, <1>11, <1>13, <1>14 DEF IInv

\* The slot's sync makes the header the store's own slot; it alone can be
\* loaded from then on.
LEMMA SlotStep ==
  ASSUME IInv, NEW p, SlotSynced(p), phase # "down",
         p \in {"down", "opened", "up", "draining"},
         own' = own, copies' \in CopyState, deferred' \in BOOLEAN,
         \A w \in io : copies' \in {copies, w.header.copies},
         ~deferred' => \A w \in io : w.header.copies.id = own /\ copies'.id = own,
         p = "draining" => ~deferred'
  PROVE  IInv'
  <1>1. PICK o : o = flip(mirror.side)
    OBVIOUS
  <1>2. PICK w \in io, f \in file : file' = {[f EXCEPT !.slots[o] = w.header]}
    BY <1>1 DEF SlotSynced
  <1>3. PICK g : /\ w \in io /\ f \in file
                 /\ file' = {g} /\ g = [f EXCEPT !.slots[o] = w.header]
    BY <1>2
  <1>4. Shaped(f) /\ mirror.side \in Side /\ mirror.seq \in Nat
    BY <1>3 DEF IInv, Shape
  <1>5. Slot(w.header) /\ w.header.seq = mirror.seq + 1
        /\ w.header.copies \in CopyState
    BY <1>3, HeaderSlot DEF IInv, Shape
  <1>6. o \in Side /\ o # mirror.side /\ Side = {mirror.side, o}
    BY <1>1, <1>4, Flip
  <1>7. g = [slots |-> [f.slots EXCEPT ![o] = w.header], region |-> f.region]
    BY <1>3, <1>4 DEF Shaped
  <1>8. g.slots = [s \in Side |-> IF s = o THEN w.header ELSE f.slots[s]]
    BY <1>4, <1>6, <1>7 DEF Shaped
  <1>9. g.slots[o] = w.header /\ g.slots[mirror.side] = f.slots[mirror.side]
    BY <1>6, <1>8
  <1>10. Shaped(g)
    <2>1. g = [slots |-> g.slots, region |-> g.region]
      BY <1>7
    <2>2. g.slots = [s \in Side |-> g.slots[s]]
      BY <1>8
    <2>3. \A s \in Side : Slot(g.slots[s])
      BY <1>4, <1>5, <1>6, <1>9 DEF Shaped
    <2> QED
      BY <2>1, <2>2, <2>3 DEF Shaped
  <1>11. /\ phase' = p /\ io' = {} /\ spent' = spent
        /\ mirror' = [side |-> o, seq |-> mirror.seq + 1, entries |-> mirror.entries]
    BY <1>1 DEF SlotSynced, IInv, Shape
  <1>12. \A h \in file' : h = g
    BY <1>3
  <1>13. f.slots[mirror.side].seq = mirror.seq
    BY <1>3 DEF IInv, Turns
  <1>14. Shape'
    BY <1>4, <1>6, <1>10, <1>11, <1>12 DEF IInv, Shape
  <1>15. /\ g.slots[o].seq = mirror.seq + 1 /\ g.slots[mirror.side].seq = mirror.seq
         /\ g.slots["A"].seq # g.slots["B"].seq
    BY <1>4, <1>5, <1>6, <1>9, <1>13 DEF Side
  <1>16. Turns'
    BY <1>4, <1>6, <1>11, <1>12, <1>15 DEF Turns
  <1>17. \A s \in Candidates(g)' : s = o
    <2>1. CASE p = "down"
      <3>1. Candidates(g)' = Active(g)
        BY <1>11, <2>1 DEF Candidates, Active, Vouches
      <3>2. \A s \in Active(g) : s \in Side /\ g.slots[s].seq >= g.slots[flip(s)].seq
        BY <1>10, ActiveSlots
      <3> QED
        BY <3>1, <3>2, <1>1, <1>4, <1>6, <1>15
    <2>2. CASE p # "down"
      BY <1>4, <1>6, <1>11, <1>15, <2>2 DEF Candidates
    <2> QED
      BY <2>1, <2>2
  <1>18. Buries(w.header.copies) /\ Buries(copies) /\ Buries(copies')
    BY <1>3 DEF IInv, Dead
  <1>19. Dead'
    BY <1>3, <1>9, <1>11, <1>12, <1>17, <1>18 DEF IInv, Dead, Buries
  <1>20. Owned'
    BY <1>3, <1>9, <1>11, <1>12, <1>17, SMTT(30) DEF Owned
  <1> QED
    BY <1>14, <1>16, <1>19, <1>20 DEF IInv

\* A commit that was cut short leaves the store's own slot.
LEMMA CutShort ==
  ASSUME IInv, phase # "down", NEW w \in io, NEW f \in file,
         NEW g \in Interrupted(f, w)
  PROVE  /\ Shaped(g)
         /\ g.slots["A"].seq # g.slots["B"].seq
         /\ g.slots[mirror.side] = f.slots[mirror.side]
         /\ mirror.side \in Side /\ mirror.seq \in Nat /\ mirror.seq # 0
         /\ g.slots[mirror.side].seq = mirror.seq
         /\ \A s \in Side : g.slots[s].seq >= mirror.seq =>
               \/ s \in Candidates(f) /\ g.slots[s] = f.slots[s]
               \/ g.slots[s] = w.header
  <1> DEFINE o == flip(mirror.side)
  <1>1. Shaped(f) /\ mirror.side \in Side /\ mirror.seq \in Nat
    BY DEF IInv, Shape
  <1>2. Slot(w.header) /\ w.header.seq = mirror.seq + 1
    BY HeaderSlot DEF IInv
  <1>3. /\ Shaped(g) /\ g.slots[mirror.side] = f.slots[mirror.side]
        /\ g.slots[o] \in {f.slots[o], Undecodable, w.header}
    BY <1>1, <1>2, InterruptedSlots
  <1>4. o \in Side /\ o # mirror.side /\ Side = {mirror.side, o}
    BY <1>1, Flip
  <1>5. f.slots[mirror.side].seq = mirror.seq /\ mirror.seq # 0
        /\ f.slots[o].seq # f.slots[mirror.side].seq
    BY <1>4 DEF IInv, Turns, Side
  <1>6. Undecodable.seq = 0
    BY DEF Undecodable
  <1>7. g.slots[o].seq # g.slots[mirror.side].seq
    BY <1>1, <1>2, <1>3, <1>5, <1>6
  <1>8. g.slots["A"].seq # g.slots["B"].seq
    BY <1>4, <1>7 DEF Side
  <1>9. \A s \in Side : g.slots[s].seq >= mirror.seq =>
           \/ s \in Candidates(f) /\ g.slots[s] = f.slots[s]
           \/ g.slots[s] = w.header
    <2>1. mirror.side \in Candidates(f)
      BY <1>1, <1>5 DEF Candidates
    <2>2. f.slots[o].seq >= mirror.seq => o \in Candidates(f)
      BY <1>4 DEF Candidates
    <2>3. ~(Undecodable.seq >= mirror.seq)
      BY <1>1, <1>5, <1>6
    <2> QED
      BY <1>3, <1>4, <2>1, <2>2, <2>3
  <1> QED
    BY <1>1, <1>3, <1>5, <1>8, <1>9

\* The store refuses a latch: the life goes on with the mirror as it was.
LEMMA RefusedStep ==
  ASSUME IInv, LatchRefused
  PROVE  IInv'
  <1>1. PICK w \in io, f \in file : \E h \in Interrupted(f, w) : file' = {h}
    BY DEF LatchRefused
  <1>2. PICK g \in Interrupted(f, w) : file' = {g}
    BY <1>1
  <1>3. /\ phase = "seating" /\ phase' = "up" /\ io' = {}
        /\ UNCHANGED <<mirror, own, copies, deferred, spent>>
    BY DEF LatchRefused, lifeVars
  <1>4. /\ Shaped(g) /\ g.slots["A"].seq # g.slots["B"].seq
        /\ mirror.side \in Side /\ mirror.seq \in Nat /\ mirror.seq # 0
        /\ g.slots[mirror.side].seq = mirror.seq
        /\ \A s \in Side : g.slots[s].seq >= mirror.seq =>
              \/ s \in Candidates(f) /\ g.slots[s] = f.slots[s]
              \/ g.slots[s] = w.header
    BY <1>1, <1>2, <1>3, CutShort
  <1>5. Shape'
    BY <1>2, <1>3, <1>4 DEF IInv, Shape
  <1>6. Turns'
    BY <1>2, <1>3, <1>4 DEF Turns
  <1>7. \A s \in Candidates(g)' : s \in Side /\ g.slots[s].seq >= mirror.seq
    BY <1>3 DEF Candidates
  <1>8. \A s \in Candidates(g)' : \/ g.slots[s] = w.header
                                  \/ s \in Candidates(f) /\ g.slots[s] = f.slots[s]
    BY <1>4, <1>7
  <1>9. Dead'
    <2>1. \A x : Buries(x)' <=> Buries(x)
      BY <1>3 DEF Buries
    <2>2. /\ Buries(w.header.copies) /\ Buries(copies) /\ \A i \in spent : i < own
          /\ \A s \in Candidates(f) : Buries(f.slots[s].copies)
      BY <1>1, <1>3 DEF IInv, Dead
    <2>3. \A s \in Candidates(g)' : Buries(g.slots[s].copies)
      BY <1>8, <2>2
    <2>4. file' = {g} /\ io' = {} /\ copies' = copies /\ own' = own /\ spent' = spent
      BY <1>2, <1>3
    <2> QED
      BY <2>1, <2>2, <2>3, <2>4 DEF Dead
  <1>10. Owned'
    BY <1>1, <1>2, <1>3, <1>8 DEF IInv, Owned
  <1> QED
    BY <1>5, <1>6, <1>9, <1>10 DEF IInv

\* The process dies. Its identity is buried with it when its latch was not
\* owed and no halt is on disk.
LEMMA CrashStep ==
  ASSUME IInv, Crash
  PROVE  IInv'
  <1>1. /\ phase # "down" /\ phase' = "down" /\ io' = {}
        /\ UNCHANGED <<mirror, own, copies, deferred>>
    BY DEF Crash, lifeVars
  <1>2. \E f \in file : \E g : /\ file' = {g} /\ Shaped(g)
           /\ g.slots["A"].seq # g.slots["B"].seq
           /\ g.slots[mirror.side].seq = mirror.seq
           /\ \A s \in Side : g.slots[s].seq >= mirror.seq =>
                 \/ s \in Candidates(f) /\ g.slots[s] = f.slots[s]
                 \/ \E w \in io : g.slots[s] = w.header
    <2>1. CASE io = {}
      <3>1. file' = file
        BY <1>1, <2>1 DEF Crash
      <3>2. PICK f \in file : TRUE
        BY <1>1 DEF IInv, Dead
      <3>3. file' = {f}
        BY <3>1, <3>2 DEF IInv, Shape
      <3>4. /\ Shaped(f) /\ f.slots["A"].seq # f.slots["B"].seq
            /\ f.slots[mirror.side].seq = mirror.seq
        BY <1>1, <3>2 DEF IInv, Shape, Turns
      <3>5. \A s \in Side : f.slots[s].seq >= mirror.seq => s \in Candidates(f)
        BY <1>1 DEF Candidates
      <3> QED
        BY <3>2, <3>3, <3>4, <3>5
    <2>2. CASE io # {}
      <3>1. PICK w \in io, f \in file : \E h \in Interrupted(f, w) : file' = {h}
        BY <2>2 DEF Crash
      <3>2. PICK g \in Interrupted(f, w) : file' = {g}
        BY <3>1
      <3> QED
        BY <1>1, <3>1, <3>2, CutShort
    <2> QED
      BY <2>1, <2>2
  <1>3. PICK f \in file : \E g : /\ file' = {g} /\ Shaped(g)
           /\ g.slots["A"].seq # g.slots["B"].seq
           /\ g.slots[mirror.side].seq = mirror.seq
           /\ \A s \in Side : g.slots[s].seq >= mirror.seq =>
                 \/ s \in Candidates(f) /\ g.slots[s] = f.slots[s]
                 \/ \E w \in io : g.slots[s] = w.header
    BY <1>2
  <1>4. PICK g : /\ f \in file /\ file' = {g} /\ Shaped(g)
           /\ g.slots["A"].seq # g.slots["B"].seq
           /\ g.slots[mirror.side].seq = mirror.seq
           /\ \A s \in Side : g.slots[s].seq >= mirror.seq =>
                 \/ s \in Candidates(f) /\ g.slots[s] = f.slots[s]
                 \/ \E w \in io : g.slots[s] = w.header
    BY <1>3
  <1>5. /\ mirror.side \in Side /\ mirror.seq \in Nat /\ mirror.seq # 0
        /\ own \in Nat /\ spent \subseteq Nat
    BY <1>1 DEF IInv, Shape, Turns, Identity
  <1>6. Candidates(g)' = Active(g)
    BY <1>1 DEF Candidates, Active, Vouches
  <1>7. \A s \in Active(g) :
           /\ s \in Side
           /\ \/ s \in Candidates(f) /\ g.slots[s] = f.slots[s]
              \/ \E w \in io : g.slots[s] = w.header
    <2>1. \A s \in Active(g) : s \in Side /\ g.slots[s].seq >= g.slots[flip(s)].seq
      BY <1>4, ActiveSlots
    <2>2. \A s \in Side : g.slots[s].seq \in Nat /\ (s = mirror.side \/ flip(s) = mirror.side)
      BY <1>4, <1>5 DEF Shaped, Slot, Side, flip
    <2>3. \A s \in Active(g) : g.slots[s].seq >= mirror.seq
      BY <1>4, <1>5, <2>1, <2>2, Flip
    <2> QED
      BY <1>4, <2>1, <2>3
  <1>8. spent' \in {spent, spent \cup {own}}
    BY DEF Crash
  <1>9. Shape'
    BY <1>1, <1>4, <1>5, <1>8 DEF IInv, Shape
  <1>10. Turns'
    BY <1>1, <1>4, <1>5 DEF Turns
  <1>11. \A s \in Active(g) : \A i \in spent : 
            i <= g.slots[s].copies.id
            /\ (i = g.slots[s].copies.id => g.slots[s].copies.marker # "Stopped")
    BY <1>4, <1>7 DEF IInv, Dead, Buries
  <1>12. ASSUME spent' # spent, NEW s \in Active(g)
         PROVE  g.slots[s].copies.id = own /\ g.slots[s].copies.marker # "Stopped"
    <2>1. ~deferred /\ g.slots[s].copies.marker # "Stopped"
      BY <1>4, <1>12 DEF Crash
    <2> QED
      BY <1>1, <1>4, <1>7, <1>12, <2>1 DEF IInv, Owned
  <1>13. ASSUME NEW s \in Active(g), NEW i \in spent'
         PROVE  /\ i <= g.slots[s].copies.id
                /\ i = g.slots[s].copies.id => g.slots[s].copies.marker # "Stopped"
    <2>1. CASE i \in spent
      BY <1>11, <2>1
    <2>2. CASE i \notin spent
      <3>1. spent' # spent /\ i = own
        BY <1>8, <1>13, <2>2
      <3>2. g.slots[s].copies.id = own /\ g.slots[s].copies.marker # "Stopped"
        BY <1>12, <3>1
      <3> QED
        BY <1>5, <3>1, <3>2
    <2> QED
      BY <2>1, <2>2
  <1>14. Dead'
    BY <1>1, <1>4, <1>6, <1>13 DEF Dead, Buries
  <1>15. Owned'
    BY <1>1 DEF Owned
  <1> QED
    BY <1>9, <1>10, <1>14, <1>15 DEF IInv

-----------------------------------------------------------------------------
(* The boots. *)

\* The first life makes its file with one slot.
LEMMA BootFirstStep ==
  ASSUME IInv, BootFirst
  PROVE  IInv'
  <1> DEFINE g == Created(Copies(1, "Joining"))
  <1>1. /\ file = {} /\ file' = {g} /\ phase = "down" /\ phase' = "opened"
        /\ copies' = Copies(1, "Joining") /\ own' = 1 /\ deferred' = FALSE
        /\ mirror' = [side |-> "A", seq |-> 1, entries |-> <<Genesis>>]
        /\ io' = io /\ spent' = spent
    BY DEF BootFirst
  <1>2. spent = {} /\ io = {}
    BY <1>1 DEF IInv, Dead, Shape
  <1>3. Copies(1, "Joining") \in CopyState /\ Copies(1, "Joining").id = 1
    BY StoreBounds DEF Copies, CopyState, Identity, Marker
  <1>4. /\ g = [slots |-> g.slots, region |-> g.region]
        /\ g.slots["A"].seq = 1 /\ g.slots["A"].copies = Copies(1, "Joining")
        /\ g.slots["B"] = Undecodable
        /\ g.slots = [s \in Side |-> g.slots[s]]
    BY DEF Created, Side
  <1>5. Undecodable.seq = 0
    BY DEF Undecodable
  <1> HIDE DEF g
  <1>6. Shaped(g)
    BY <1>3, <1>4, UndecodableSlot DEF Shaped, Slot, Side
  <1>7. Shape'
    <2>1. own' \in Identity /\ mirror'.side \in Side /\ mirror'.seq \in Nat
      BY <1>1, StoreBounds DEF Identity, Side
    <2>2. mirror' = [side |-> mirror'.side, seq |-> mirror'.seq,
                     entries |-> mirror'.entries]
      BY <1>1
    <2>3. spent' \subseteq Nat /\ deferred' \in BOOLEAN
      BY <1>1, <1>2
    <2> QED
      BY <1>1, <1>2, <1>3, <1>6, <2>1, <2>2, <2>3 DEF Shape
  <1>8. Turns'
    BY <1>1, <1>4, <1>5 DEF Turns, Side
  <1>9. Candidates(g)' = {"A"}
    BY <1>1, <1>4, <1>5 DEF Candidates, Side
  <1>10. Dead' /\ Owned'
    BY <1>1, <1>2, <1>3, <1>4, <1>9 DEF Dead, Owned, Buries
  <1> QED
    BY <1>7, <1>8, <1>10 DEF IInv

\* What a start reads is the higher slot, and the mirror resumes from it.
LEMMA StartReads ==
  ASSUME IInv, NEW x \in Starts, phase = "down", phase' # "down", file' = file,
         mirror'.side = MirrorOf(x).side, mirror'.seq = MirrorOf(x).seq
  PROVE  /\ x.hdr.copies \in CopyState /\ Buries(x.hdr.copies)
         /\ x.side \in Side /\ x.hdr.seq \in Nat
         /\ Turns'
         /\ \A f \in file : \A s \in Candidates(f)' : f.slots[s].copies = x.hdr.copies
  <1>1. PICK f \in file : x \in Loaded(f)
    BY DEF Starts
  <1>2. x.side \in Active(f) /\ x.hdr = f.slots[x.side]
    BY <1>1 DEF Loaded
  <1>3. \A h \in file : h = f
    BY <1>1 DEF IInv, Shape
  <1>4. /\ x.side \in Side /\ x.side \in Candidates(f)
        /\ x.hdr.seq # 0 /\ x.hdr.seq \in Nat
        /\ x.hdr.copies \in CopyState
        /\ f.slots[flip(x.side)].seq < x.hdr.seq
    BY <1>1, <1>2, ActiveIsCandidate
  <1>5. Buries(x.hdr.copies)
    BY <1>1, <1>2, <1>4 DEF IInv, Dead
  <1>6. mirror'.side = x.side /\ mirror'.seq = x.hdr.seq
    BY DEF MirrorOf
  <1>7. Side = {x.side, flip(x.side)} /\ flip(x.side) \in Side
    BY <1>4, Flip
  <1>8. \A s \in Side : f.slots[s].seq \in Nat
    BY <1>1 DEF IInv, Shape, Shaped, Slot
  <1>9. Turns'
    BY <1>2, <1>3, <1>4, <1>6, <1>8 DEF Turns, IInv
  <1>10. \A s \in Candidates(f)' : s = x.side
    BY <1>4, <1>6, <1>7, <1>8 DEF Candidates
  <1> QED
    BY <1>2, <1>3, <1>4, <1>5, <1>9, <1>10

\* A clean start keeps an identity that no dead one reaches.
LEMMA BootCleanStep ==
  ASSUME IInv, BootClean
  PROVE  IInv'
  <1>1. PICK x \in Starts :
          /\ x.hdr.copies.marker = "Stopped"
          /\ own' = x.hdr.copies.id
          /\ copies' = Copies(x.hdr.copies.id, "Restarting")
          /\ Commit("latching", MirrorOf(x), x.entries, x.hdr.committed,
                    Copies(x.hdr.copies.id, "Restarting"))
    BY DEF BootClean, GateCommit
  <1>2. phase = "down" /\ deferred' = FALSE /\ file' = file /\ spent' = spent
    BY DEF BootClean
  <1> DEFINE m == MirrorOf(x)
             cp == Copies(x.hdr.copies.id, "Restarting")
  <1>3. m = [side |-> m.side, seq |-> m.seq, entries |-> m.entries]
    BY DEF MirrorOf
  <1>4. x.hdr.copies \in CopyState => cp \in CopyState /\ cp.id = x.hdr.copies.id
                                      /\ cp.marker = "Restarting"
    BY DEF CopyState, Copies, Marker
  <1>5. phase' = "latching" /\ mirror'.side = m.side /\ mirror'.seq = m.seq
    BY <1>1 DEF Commit, MirrorOf
  <1>6. /\ x.hdr.copies \in CopyState /\ Buries(x.hdr.copies)
        /\ x.side \in Side /\ x.hdr.seq \in Nat
        /\ Turns'
        /\ \A f \in file : \A s \in Candidates(f)' : f.slots[s].copies = x.hdr.copies
    BY <1>2, <1>5, StartReads
  <1>7. /\ mirror' = [side |-> m.side, seq |-> m.seq, entries |-> mirror'.entries]
        /\ \A w \in io' : /\ w.header.seq = m.seq + 1 /\ w.header.copies = cp
                         /\ w = [stage |-> w.stage, at |-> w.at,
                                 cells |-> w.cells, header |-> w.header]
    BY <1>1, <1>3, <1>4, <1>6, CommitCall
  <1>8. m.side = x.side /\ m.seq = x.hdr.seq
    BY DEF MirrorOf
  <1>9. x.hdr.copies.id \in Nat /\ x.hdr.copies.id \in Identity
    BY <1>6 DEF CopyState, Identity
  <1>10. \A i \in spent : i < x.hdr.copies.id
    BY <1>1, <1>6, <1>9 DEF Buries, IInv, Shape
  <1> HIDE DEF m, cp
  <1>11. copies' = cp
    BY <1>1 DEF cp
  <1>12. Shape'
    BY <1>1, <1>2, <1>4, <1>5, <1>6, <1>7, <1>8, <1>9, <1>11 DEF IInv, Shape
  <1>13. file # {}
    BY DEF Starts
  <1>14. Buries(cp)' /\ \A f \in file : \A s \in Candidates(f)' : Buries(f.slots[s].copies)'
    BY <1>2, <1>4, <1>6, <1>9, <1>10 DEF Buries, IInv, Shape
  <1>15. Dead'
    BY <1>1, <1>2, <1>5, <1>7, <1>10, <1>11, <1>13, <1>14 DEF Dead
  <1>16. Owned'
    BY <1>1, <1>2, <1>4, <1>5, <1>6, <1>7, <1>11 DEF Owned
  <1> QED
    BY <1>6, <1>12, <1>15, <1>16 DEF IInv

\* A crashed start speaks under the next identity, above every dead one.
LEMMA BootCrashedStep ==
  ASSUME IInv, BootCrashed
  PROVE  IInv'
  <1>1. PICK x \in Starts :
          /\ x.hdr.copies.id < MaxIdentity
          /\ own' = x.hdr.copies.id + 1
          /\ copies' = x.hdr.copies
          /\ mirror' = MirrorOf(x)
    BY DEF BootCrashed
  <1>2. /\ phase = "down" /\ phase' = "opened" /\ deferred' = TRUE
        /\ UNCHANGED <<file, io, spent>>
    BY DEF BootCrashed
  <1>3. /\ x.hdr.copies \in CopyState /\ Buries(x.hdr.copies)
        /\ x.side \in Side /\ x.hdr.seq \in Nat
        /\ Turns'
        /\ \A f \in file : \A s \in Candidates(f)' : f.slots[s].copies = x.hdr.copies
    BY <1>1, <1>2, StartReads
  <1>4. x.hdr.copies.id \in Nat /\ io = {} /\ own' \in Identity
    BY <1>1, <1>2, <1>3, StoreBounds DEF CopyState, Identity, IInv, Shape
  <1>5. /\ mirror' = [side |-> mirror'.side, seq |-> mirror'.seq,
                      entries |-> mirror'.entries]
        /\ mirror'.side = x.side /\ mirror'.seq = x.hdr.seq
    BY <1>1 DEF MirrorOf
  <1>6. Shape'
    BY <1>1, <1>2, <1>3, <1>4, <1>5 DEF IInv, Shape
  <1>7. \A i \in spent : i < own'
    BY <1>1, <1>3, <1>4 DEF Buries, IInv, Shape
  <1>8. file # {}
    BY DEF Starts
  <1>9. Dead'
    BY <1>1, <1>2, <1>3, <1>4, <1>7, <1>8 DEF Dead, Buries
  <1>10. Owned'
    BY <1>2 DEF Owned
  <1> QED
    BY <1>3, <1>6, <1>9, <1>10 DEF IInv

-----------------------------------------------------------------------------

\* A replica at work writes nothing.
LEMMA QuietStep ==
  ASSUME IInv, UNCHANGED <<file, phase, io, mirror, own, copies, deferred, spent>>
  PROVE  IInv'
  <1>1. \A f \in file : Candidates(f)' = Candidates(f)
    BY DEF Candidates, Active, Vouches
  <1>2. Shape'
    BY DEF IInv, Shape, Shaped, Slot
  <1>3. Turns'
    BY DEF IInv, Turns
  <1>4. Dead'
    BY <1>1 DEF IInv, Dead, Buries
  <1>5. Owned'
    BY <1>1 DEF IInv, Owned
  <1> QED
    BY <1>2, <1>3, <1>4, <1>5 DEF IInv

\* Every step of a life preserves the invariant.
LEMMA NextIInv == IInv /\ [Next]_vars => IInv'
  <1> SUFFICES ASSUME IInv, [Next]_vars PROVE IInv'
    OBVIOUS
  <1>1. /\ own \in Nat /\ copies \in CopyState
        /\ phase # "down" => Buries(copies) /\ \A i \in spent : i < own
        /\ spent \subseteq Nat
    BY DEF IInv, Shape, Dead, Identity
  <1>2. ASSUME NEW m \in Marker, phase # "down", Copies(own, m) \in CopyState
        PROVE  Buries(Copies(own, m)) /\ Copies(own, m).id = own
    BY <1>1, <1>2 DEF Buries, Copies
  <1>3. ASSUME NEW m \in Marker, phase # "down", ~deferred
        PROVE  Copies(own, m) \in CopyState
    BY <1>1, <1>3 DEF IInv, Owned, Copies, CopyState
  <1>4. CASE BootFirst \/ BootClean \/ BootCrashed
    BY <1>4, BootFirstStep, BootCleanStep, BootCrashedStep
  <1>5. CASE RegionSync \/ LatchRefused \/ Crash
    BY <1>5, RegionStep, RefusedStep, CrashStep
  <1>6. CASE WriteState
    <2>1. /\ phase = "opened" /\ Commit("writing", mirror, log, committed, copies)
          /\ UNCHANGED <<file, own, copies, deferred, spent>>
      BY <1>6 DEF WriteState, lifeVars
    <2>2. ~deferred => copies.id = own
      BY <2>1 DEF IInv, Owned
    <2> QED
      BY <1>1, <2>1, <2>2, CommitStep
  <1>7. CASE BeginStop
    <2>1. /\ phase = "up" /\ ~deferred
          /\ Commit("stopping", mirror, log, committed, Copies(own, "Stopping"))
          /\ UNCHANGED <<file, own, copies, deferred, spent>>
      BY <1>7 DEF BeginStop, GateCommit, lifeVars
    <2>2. "Stopping" \in Marker
      BY DEF Marker
    <2> QED
      BY <1>2, <1>3, <2>1, <2>2, CommitStep
  <1>8. CASE FinishStop
    <2>1. /\ phase = "draining"
          /\ Commit("halting", mirror, log, committed, Copies(own, "Stopped"))
          /\ UNCHANGED <<file, own, copies, deferred, spent>>
      BY <1>8 DEF FinishStop, GateCommit, lifeVars
    <2>2. "Stopped" \in Marker /\ ~deferred
      BY <2>1 DEF Marker, IInv, Owned
    <2> QED
      BY <1>2, <1>3, <2>1, <2>2, CommitStep
  <1>9. CASE TickVoting
    <2>1. /\ phase = "up"
          /\ UNCHANGED <<file, own, copies, deferred, spent>>
      BY <1>9 DEF TickVoting
    <2>2. CASE Commit("seating", mirror, log, committed, Copies(own, "Joining"))
      <3>1. own \in Identity
        BY DEF IInv, Shape
      <3>2. "Joining" \in Marker /\ Copies(own, "Joining") \in CopyState
        BY <3>1 DEF Marker, Copies, CopyState
      <3> QED
        BY <1>2, <2>1, <2>2, <3>2, CommitStep
    <2>3. CASE UNCHANGED <<phase, io, mirror>>
      BY <2>1, <2>3, QuietStep
    <2> QED
      BY <1>9, <2>2, <2>3 DEF TickVoting, SettleDeferred, GateCommit
  <1>10. CASE CleanLatched \/ InitOk \/ Stopping \/ Exit
    <2>1. PICK p \in {"down", "opened", "up", "draining"} :
             /\ SlotSynced(p) /\ phase # "down"
             /\ p = "draining" => phase = "stopping"
             /\ UNCHANGED <<own, copies, deferred>>
      BY <1>10 DEF CleanLatched, InitOk, Stopping, Exit, lifeVars
    <2>2. ~deferred => \A w \in io : w.header.copies.id = own /\ copies.id = own
      BY <2>1 DEF IInv, Owned
    <2>3. p = "draining" => ~deferred
      BY <2>1 DEF IInv, Owned
    <2>4. deferred' \in BOOLEAN
      BY <2>1 DEF IInv, Shape
    <2> QED
      BY <1>1, <2>1, <2>2, <2>3, <2>4, SlotStep
  <1>11. CASE Latched
    <2>1. /\ phase = "seating" /\ SlotSynced("up") /\ own' = own
          /\ copies' = Copies(own, "Joining") /\ deferred' = FALSE
      BY <1>11 DEF Latched
    <2>2. \A w \in io : w.header.copies = Copies(own, "Joining")
      BY <2>1 DEF IInv, Owned
    <2>3. \A w \in io : w.header.copies \in CopyState
      BY DEF IInv, Shape
    <2>4. PICK w \in io : TRUE
      BY <2>1 DEF SlotSynced
    <2>5. Copies(own, "Joining") \in CopyState /\ Copies(own, "Joining").id = own
      BY <2>2, <2>3, <2>4 DEF Copies
    <2> QED
      BY <2>1, <2>2, <2>5, SlotStep
  <1>12. CASE \/ \E v \in Entry : Accept(v)
              \/ Advance \/ Install \/ StatusMoves \/ GainWeight
    BY <1>12, QuietStep
       DEF Accept, Advance, Install, Publish, Persist, StatusMoves, GainWeight,
           lifeVars
  <1>13. CASE UNCHANGED vars
    BY <1>13, QuietStep DEF vars, lifeVars
  <1> QED
    BY <1>4, <1>5, <1>6, <1>7, <1>8, <1>9, <1>10, <1>11, <1>12, <1>13 DEF Next

\* The running store's own slot, or one after it, is the one a load picks.
LEMMA NeverOlderHolds == IInv => NeverOlder
  <1>1. ASSUME IInv PROVE NeverOlder
    <2> SUFFICES ASSUME NEW f \in file
                 PROVE  \E s \in Active(f) : f.slots[s].seq >= mirror.seq
      BY DEF NeverOlder
    <2>1. Shaped(f) /\ mirror.seq \in Nat
      BY <1>1 DEF IInv, Shape
    <2>2. \A s \in Side : f.slots[s].seq \in Nat /\ flip(s) \in Side
                          /\ Side = {s, flip(s)}
      BY <2>1, Flip DEF Shaped, Slot
    <2>3. PICK s \in Side : f.slots[s].seq # 0 /\ f.slots[s].seq >= mirror.seq
      BY <1>1 DEF IInv, Turns
    <2>4. CASE f.slots[s].seq >= f.slots[flip(s)].seq
      BY <2>1, <2>3, <2>4, ActiveSlots
    <2>5. CASE f.slots[flip(s)].seq > f.slots[s].seq
      <3>1. flip(flip(s)) = s
        BY DEF flip, Side
      <3> QED
        BY <2>1, <2>2, <2>3, <2>5, <3>1, ActiveSlots
    <2> QED
      BY <2>2, <2>4, <2>5
  <1> QED
    BY <1>1

\* Whatever instant the process dies at, a slot decodes, and the one a load
\* picks is not older than the last commit that completed.
THEOREM SlotsNeverGoBack == Spec => []NeverOlder
  BY InitIInv, NextIInv, NeverOlderHolds, PTL DEF Spec

\* An identity that latched and died uncleanly is never spoken under again,
\* whichever slot the crash left for the next start to read.
THEOREM SpentIdentityNeverReturns == Spec => []SpentStaysDead
  <1>1. IInv => SpentStaysDead
    BY DEF IInv, Shape, Dead, SpentStaysDead
  <1> QED
    BY InitIInv, NextIInv, <1>1, PTL DEF Spec

-----------------------------------------------------------------------------
(* The bytes. *)

\* The mirror is what the region holds, but for a life whose latch was
\* refused: there the store's mirror has moved on and the file has not.
Trusted == phase # "down" /\ (phase = "up" /\ deferred => announce)

Counts(hdr) == hdr \in Header /\ hdr.committed <= hdr.accepted

Typed(f) ==
    /\ f.region \in Seq(Cell)
    /\ \A s \in Side : f.slots[s] = Undecodable \/ Counts(f.slots[s])

Types ==
    /\ \A f \in file : Typed(f)
    /\ phase \in {"down", "opened", "latching", "writing", "up", "seating",
                  "stopping", "draining", "halting"}
    /\ \A w \in io : /\ w.stage \in {"region", "slot"}
                     /\ Counts(w.header) /\ w.cells \in Seq(Cell)
    /\ IsLog(mirror.entries)
    /\ IsLog(log) /\ Len(log) <= MaxSlot /\ committed \in 1 .. Len(log)
    /\ announce \in BOOLEAN
    /\ announce => deferred
    /\ phase = "seating" => deferred /\ ~announce

Leads == Trusted => \A f \in file : f.slots[flip(mirror.side)].seq < mirror.seq

\* Every slot a load may pick decodes.
Counted(f) == \A s \in Active(f) : Decoded(f, f.slots[s]) # {}

Readable == \A f \in file : (Trusted /\ io = {}) \/ ~inplace => Counted(f)

\* What is staged: the header counts the entries e, and the region holds
\* their frames up to where the write begins.
Staged(f, w, e, ip) ==
    /\ w.header.count = Len(e)
    /\ w.header.bytes = Len(Frames(e))
    /\ w.stage = "slot" => Begins(f.region, Frames(e))
    /\ w.stage = "region" =>
          /\ w.at \in 0 .. Len(Frames(e))
          /\ Begins(f.region, SubSeq(Frames(e), 1, w.at))
          /\ SubSeq(Frames(e), 1, w.at) \o w.cells = Frames(e)
          /\ ~ip => \A s \in Active(f) : f.slots[s].bytes <= w.at

Mirrored ==
    Trusted => \A f \in file :
        /\ io = {} => Begins(f.region, Frames(mirror.entries))
        /\ \A w \in io : Staged(f, w, mirror.entries, inplace)

\* No slot that a load may pick says Stopped.
Unstopped(f) == \A s \in Active(f) : f.slots[s].copies.marker # "Stopped"

\* What a clean start of f loads is what was last published.
Final(f) ==
    \A s \in Active(f) :
        f.slots[s].copies.marker = "Stopped" =>
            \E x \in Loaded(f) :
                /\ x.hdr.committed = committed
                /\ x.hdr.accepted = Len(log)
                /\ Len(x.entries) = Len(log)
                /\ \A n \in committed + 1 .. Len(log) : x.entries[n] = log[n]

Stops ==
    /\ copies.marker # "Stopped"
    /\ phase # "halting" => \A w \in io : w.header.copies.marker # "Stopped"
    /\ phase \notin {"down", "latching"} => \A f \in file : Unstopped(f)
    /\ phase = "latching" => \A w \in io : w.stage = "slot"
    /\ phase = "halting" =>
          /\ Len(mirror.entries) = Len(log)
          /\ \A n \in committed + 1 .. Len(log) : mirror.entries[n] = log[n]
          /\ \A w \in io : /\ w.header.committed = committed
                           /\ w.header.accepted = Len(log)
    /\ \A f \in file : Final(f)

Bytes == Types /\ Leads /\ Readable /\ Mirrored /\ Stops

\* A journal's frames are cells.
LEMMA FramesTyped ==
  ASSUME NEW h, IsLog(h)
  PROVE  Frames(h) \in Seq(Cell)
  <1>1. h \in Seq(AnyEntry) /\ 1 \in 1 .. Len(h) + 1
    BY DEF IsLog
  <1> QED
    BY <1>1, FramesType DEF Frames

\* What a load reads is a journal, and the region begins with its frames.
LEMMA DecodedIs ==
  ASSUME NEW f, f.region \in Seq(Cell), NEW hdr \in Header, NEW h \in Decoded(f, hdr)
  PROVE  IsLog(h) /\ Len(h) = hdr.count /\ Begins(f.region, Frames(h))
  <1>1. /\ h \in History(hdr.count) /\ hdr.bytes <= Len(f.region)
        /\ Frames(h) = SubSeq(f.region, 1, hdr.bytes)
    BY DEF Decoded
  <1>2. hdr.count \in Nat \ {0} /\ hdr.bytes \in Nat
    BY DEF Header
  <1>3. h \in Seq(AnyEntry) /\ Len(h) = hdr.count /\ h[1] = Genesis
    BY <1>1, <1>2, HistoryIs
  <1>4. Len(SubSeq(f.region, 1, hdr.bytes)) = hdr.bytes
    BY <1>1, <1>2
  <1> QED
    BY <1>1, <1>2, <1>3, <1>4 DEF IsLog, Begins

\* A header that counts the frames the region begins with is one a load
\* accepts.
LEMMA DecodesThem ==
  ASSUME NEW f, NEW hdr, NEW h, IsLog(h), hdr.count = Len(h),
         hdr.bytes = Len(Frames(h)), Begins(f.region, Frames(h))
  PROVE  h \in Decoded(f, hdr)
  <1>1. Len(h) \in Nat \ {0}
    BY DEF IsLog
  <1>2. h \in History(hdr.count)
    BY <1>1, HistoryIs DEF IsLog
  <1> QED
    BY <1>2 DEF Decoded, Begins

\* A load reads on what it counted, whatever changed behind it.
LEMMA DecodedKeeps ==
  ASSUME NEW f, NEW g, NEW hdr,
         SubSeq(g.region, 1, hdr.bytes) = SubSeq(f.region, 1, hdr.bytes),
         hdr.bytes <= Len(g.region)
  PROVE  Decoded(f, hdr) \subseteq Decoded(g, hdr)
  BY DEF Decoded

\* A running store's own slot is the one a load picks.
LEMMA OwnIsActive ==
  ASSUME IInv, Leads, Trusted, NEW f \in file
  PROVE  Active(f) = {mirror.side} /\ mirror.side \in Side
  <1>1. Shaped(f) /\ mirror.side \in Side /\ mirror.seq \in Nat
    BY DEF IInv, Shape
  <1>2. f.slots[mirror.side].seq = mirror.seq /\ mirror.seq # 0
    BY DEF IInv, Turns, Trusted
  <1>3. f.slots[flip(mirror.side)].seq < mirror.seq
    BY DEF Leads
  <1>4. flip(mirror.side) \in Side /\ Side = {mirror.side, flip(mirror.side)}
        /\ flip(flip(mirror.side)) = mirror.side
    BY <1>1, Flip DEF flip, Side
  <1>5. \A s \in Side : f.slots[s].seq \in Nat
    BY <1>1 DEF Shaped, Slot
  <1>6. mirror.side \in Active(f)
    BY <1>1, <1>2, <1>3, <1>4, <1>5, ActiveSlots
  <1>7. flip(mirror.side) \notin Active(f)
    BY <1>1, <1>2, <1>3, <1>4, <1>5, ActiveSlots
  <1>8. Active(f) \subseteq Side
    BY DEF Active, Vouches
  <1> QED
    BY <1>1, <1>4, <1>6, <1>7, <1>8

\* No two slots tie, so a load picks one.
LEMMA OneActive ==
  ASSUME NEW f, Shaped(f), f.slots["A"].seq # f.slots["B"].seq,
         NEW s \in Active(f), NEW t \in Active(f)
  PROVE  s = t /\ s \in Side /\ f.slots[s].seq # 0
  <1>1. \A v \in Side : f.slots[v].seq \in Nat
    BY DEF Shaped, Slot
  <1>2. s \in Side /\ t \in Side /\ f.slots[s].seq # 0
        /\ f.slots[s].seq >= f.slots[flip(s)].seq
        /\ f.slots[t].seq >= f.slots[flip(t)].seq
    BY ActiveSlots
  <1> QED
    BY <1>1, <1>2 DEF Side, flip

\* The slots alone say which one a load picks.
LEMMA SameSlots ==
  ASSUME NEW f, NEW g, g.slots = f.slots
  PROVE  Active(g) = Active(f)
  BY DEF Active, Vouches

\* A slot that a load picks carries a header.
LEMMA ActiveHeader ==
  ASSUME NEW f, Shaped(f), Typed(f), NEW s \in Active(f)
  PROVE  s \in Side /\ Counts(f.slots[s]) /\ f.slots[s] \in Header
         /\ f.slots[s].bytes \in Nat /\ f.slots[s].copies \in CopyState
  <1>1. s \in Side /\ f.slots[s].seq # 0
    BY ActiveSlots
  <1>2. Undecodable.seq = 0
    BY DEF Undecodable
  <1>3. Counts(f.slots[s])
    BY <1>1, <1>2 DEF Typed
  <1> QED
    BY <1>1, <1>3 DEF Counts, Header

\* What is staged can be read from the region once it is there, and what
\* was counted before stays readable while it is written.
LEMMA RegionWritten ==
  ASSUME NEW f, f.region \in Seq(Cell), NEW w, w.stage = "region", w.cells \in Seq(Cell),
         NEW e, IsLog(e), NEW ip, Staged(f, w, e, ip), NEW k \in 0 .. Len(w.cells)
  PROVE  LET r == Overwrite(f.region, w.at, SubSeq(w.cells, 1, k)) IN
         /\ r \in Seq(Cell)
         /\ k = Len(w.cells) => Begins(r, Frames(e))
         /\ \A n \in 0 .. w.at : SubSeq(r, 1, n) = SubSeq(f.region, 1, n) /\ n <= Len(r)
         /\ w.at <= Len(f.region)
  <1> DEFINE a == SubSeq(Frames(e), 1, w.at)
             cs == SubSeq(w.cells, 1, k)
             r == Overwrite(f.region, w.at, cs)
  <1>1. Frames(e) \in Seq(Cell)
    BY FramesTyped
  <1>2. w.at \in 0 .. Len(Frames(e)) /\ Begins(f.region, a) /\ a \o w.cells = Frames(e)
    BY DEF Staged
  <1>3. a \in Seq(Cell) /\ Len(a) = w.at
    BY <1>1, <1>2
  <1>4. cs \in Seq(Cell) /\ (k = Len(w.cells) => cs = w.cells)
    OBVIOUS
  <1> HIDE DEF a, cs
  <1>5. w.at \in 0 .. Len(f.region)
    BY <1>2, <1>3 DEF Begins
  <1>6. r \in Seq(Cell)
    BY <1>4, <1>5, OverwriteAt
  <1>7. ASSUME k = Len(w.cells) PROVE Begins(r, Frames(e))
    <2>1. cs = w.cells
      BY <1>4, <1>7
    <2>2. Begins(Overwrite(f.region, Len(a), w.cells), a \o w.cells)
      BY <1>2, <1>3, BeginsMore
    <2> QED
      BY <1>2, <1>3, <2>1, <2>2
  <1>8. \A n \in 0 .. w.at : SubSeq(r, 1, n) = SubSeq(f.region, 1, n) /\ n <= Len(r)
    BY <1>4, <1>5, OverwriteKeeps
  <1> HIDE DEF r
  <1> QED
    BY <1>5, <1>6, <1>7, <1>8 DEF r, cs

\* What a load returns, member by member.
LEMMA LoadedIs ==
  ASSUME NEW f, NEW x
  PROVE  x \in Loaded(f) <=>
            \E s \in Active(f) : \E h \in Decoded(f, f.slots[s]) :
               x = [side |-> s, hdr |-> f.slots[s], entries |-> h]
  BY DEF Loaded

\* While a commit is in progress the region holds what it stages.
LEMMA InProgress ==
  ASSUME IInv, Bytes, NEW w \in io, NEW f \in file
  PROVE  /\ phase \notin {"down", "opened", "up", "draining"}
         /\ Trusted /\ Staged(f, w, mirror.entries, inplace)
         /\ Shaped(f) /\ Typed(f) /\ IsLog(mirror.entries)
         /\ w.stage \in {"region", "slot"} /\ w.cells \in Seq(Cell)
         /\ Counts(w.header) /\ w.header \in Header
         /\ w.stage = "slot" => Begins(f.region, Frames(mirror.entries))
  <1>1. phase \notin {"down", "opened", "up", "draining"}
    BY DEF IInv, Shape
  <1>2. Trusted
    BY <1>1 DEF Trusted
  <1>3. Staged(f, w, mirror.entries, inplace)
    BY <1>2 DEF Bytes, Mirrored
  <1>4. Shaped(f) /\ Typed(f) /\ IsLog(mirror.entries)
    BY DEF IInv, Shape, Bytes, Types
  <1>5. w.stage \in {"region", "slot"} /\ w.cells \in Seq(Cell) /\ Counts(w.header)
    BY DEF Bytes, Types
  <1> QED
    BY <1>1, <1>2, <1>3, <1>4, <1>5 DEF Staged, Counts

\* The staged header reads back as the mirror; one that says Stopped is the
\* halt's, and covers what was last published.
LEMMA HeaderReads ==
  ASSUME IInv, Bytes, NEW w \in io, NEW f \in file, w.stage = "slot",
         NEW g, g.region = f.region, NEW s \in Active(g), g.slots[s] = w.header
  PROVE  /\ Decoded(g, g.slots[s]) # {}
         /\ g.slots[s].copies.marker = "Stopped" =>
              /\ phase = "halting"
              /\ \E x \in Loaded(g) :
                    /\ x.hdr.committed = committed
                    /\ x.hdr.accepted = Len(log)
                    /\ Len(x.entries) = Len(log)
                    /\ \A n \in committed + 1 .. Len(log) : x.entries[n] = log[n]
  <1> DEFINE e == mirror.entries
  <1>1. /\ Staged(f, w, e, inplace) /\ IsLog(e) /\ Begins(f.region, Frames(e))
    BY InProgress
  <1>2. e \in Decoded(g, g.slots[s])
    BY <1>1, DecodesThem DEF Staged
  <1>3. ASSUME g.slots[s].copies.marker = "Stopped"
        PROVE  /\ phase = "halting"
               /\ \E x \in Loaded(g) :
                    /\ x.hdr.committed = committed
                    /\ x.hdr.accepted = Len(log)
                    /\ Len(x.entries) = Len(log)
                    /\ \A n \in committed + 1 .. Len(log) : x.entries[n] = log[n]
    <2>1. phase = "halting"
      BY <1>3 DEF Bytes, Stops
    <2>2. /\ Len(e) = Len(log) /\ \A n \in committed + 1 .. Len(log) : e[n] = log[n]
          /\ w.header.committed = committed /\ w.header.accepted = Len(log)
      BY <2>1 DEF Bytes, Stops
    <2> DEFINE x == [side |-> s, hdr |-> g.slots[s], entries |-> e]
    <2>3. x \in Loaded(g)
      BY <1>2, LoadedIs
    <2>4. x.hdr = w.header /\ x.entries = e
      OBVIOUS
    <2> HIDE DEF x
    <2> QED
      BY <2>1, <2>2, <2>3, <2>4
  <1> QED
    BY <1>2, <1>3

\* A cut in the region's write: the slots are as they were.
LEMMA CutInRegion ==
  ASSUME IInv, Bytes, NEW w \in io, NEW f \in file, w.stage = "region",
         NEW k \in 0 .. Len(w.cells),
         NEW g, g.slots = f.slots,
         g.region = Overwrite(f.region, w.at, SubSeq(w.cells, 1, k))
  PROVE  /\ Typed(g) /\ Unstopped(g)
         /\ ~inplace => Counted(g)
         /\ k = Len(w.cells) => Begins(g.region, Frames(mirror.entries))
  <1>1. /\ Trusted /\ Staged(f, w, mirror.entries, inplace) /\ Shaped(f) /\ Typed(f)
        /\ IsLog(mirror.entries) /\ w.cells \in Seq(Cell) /\ phase # "down"
    BY InProgress
  <1>2. /\ g.region \in Seq(Cell)
        /\ k = Len(w.cells) => Begins(g.region, Frames(mirror.entries))
        /\ \A n \in 0 .. w.at : /\ SubSeq(g.region, 1, n) = SubSeq(f.region, 1, n)
                                /\ n <= Len(g.region)
        /\ w.at \in Nat
    <2>1. f.region \in Seq(Cell) /\ w.at \in Nat
      <3>1. w.at \in 0 .. Len(Frames(mirror.entries))
        BY <1>1 DEF Staged
      <3> QED
        BY <1>1, <3>1 DEF Typed
    <2> DEFINE r == Overwrite(f.region, w.at, SubSeq(w.cells, 1, k))
    <2>2. /\ r \in Seq(Cell)
          /\ k = Len(w.cells) => Begins(r, Frames(mirror.entries))
          /\ \A n \in 0 .. w.at : /\ SubSeq(r, 1, n) = SubSeq(f.region, 1, n)
                                  /\ n <= Len(r)
      BY <1>1, <2>1, RegionWritten, Zenon
    <2> QED
      BY <2>1, <2>2
  <1>3. Active(g) = Active(f)
    BY SameSlots
  <1>4. Typed(g)
    BY <1>1, <1>2 DEF Typed
  <1>5. Unstopped(g)
    <2>1. phase # "latching"
      BY DEF Bytes, Stops
    <2>2. Unstopped(f)
      BY <1>1, <2>1 DEF Bytes, Stops
    <2> QED
      BY <1>3, <2>2 DEF Unstopped
  <1>6. ASSUME ~inplace PROVE Counted(g)
    <2> SUFFICES ASSUME NEW s \in Active(f) PROVE Decoded(g, f.slots[s]) # {}
      BY <1>3 DEF Counted
    <2>1. f.slots[s].bytes \in Nat
      BY <1>1, ActiveHeader
    <2>2. f.slots[s].bytes \in 0 .. w.at
      BY <1>1, <1>2, <1>6, <2>1 DEF Staged
    <2>3. Decoded(f, f.slots[s]) # {}
      BY <1>6 DEF Bytes, Readable, Counted
    <2> QED
      BY <1>2, <2>2, <2>3, DecodedKeeps
  <1> QED
    BY <1>2, <1>4, <1>5, <1>6

\* A cut in the slot's write leaves the store's own slot for the load, or
\* the staged header.
LEMMA CutInSlot ==
  ASSUME IInv, Bytes, NEW w \in io, NEW f \in file, w.stage = "slot",
         NEW g \in Interrupted(f, w), g.region = f.region
  PROVE  /\ Typed(g) /\ Final(g)
         /\ ~inplace => Counted(g)
         /\ phase \notin {"latching", "halting"} => Unstopped(g)
  <1> DEFINE o == flip(mirror.side)
  <1>1. /\ phase # "down" /\ Trusted /\ Shaped(f) /\ Typed(f) /\ Counts(w.header)
    BY InProgress
  <1>2. /\ Shaped(g) /\ g.slots["A"].seq # g.slots["B"].seq
        /\ g.slots[mirror.side] = f.slots[mirror.side]
        /\ mirror.side \in Side /\ mirror.seq \in Nat
        /\ g.slots[mirror.side].seq = mirror.seq
    BY <1>1, CutShort
  <1>3. g.slots[o] \in {f.slots[o], Undecodable, w.header}
    <2>1. Slot(w.header)
      BY HeaderSlot DEF IInv
    <2> QED
      BY <1>1, <1>2, <2>1, InterruptedSlots
  <1>4. o \in Side /\ Side = {mirror.side, o} /\ flip(o) = mirror.side
    BY <1>2, Flip DEF flip, Side
  <1>5. Typed(g)
    BY <1>1, <1>2, <1>3, <1>4 DEF Typed
  <1>6. Active(f) = {mirror.side}
    BY <1>1, OwnIsActive DEF Bytes
  <1>7. \A s \in Active(g) : s = mirror.side \/ (s = o /\ g.slots[o] = w.header)
    <2> SUFFICES ASSUME NEW s \in Active(g), s = o PROVE g.slots[o] = w.header
      <3>1. Active(g) \subseteq Side
        BY DEF Active, Vouches
      <3> QED
        BY <1>4, <3>1
    <2>1. g.slots[o].seq >= g.slots[mirror.side].seq /\ g.slots[o].seq # 0
      BY <1>2, <1>4, ActiveSlots
    <2>2. f.slots[o].seq < mirror.seq /\ f.slots[o].seq \in Nat
      BY <1>1, <1>4 DEF Bytes, Leads, Shaped, Slot
    <2>3. Undecodable.seq = 0
      BY DEF Undecodable
    <2> QED
      BY <1>2, <1>3, <2>1, <2>2, <2>3
  <1>8. \A s \in Active(g) : s = mirror.side => Decoded(g, g.slots[s]) = Decoded(f, f.slots[s])
    BY <1>2 DEF Decoded
  <1>9. ASSUME ~inplace PROVE Counted(g)
    <2> SUFFICES ASSUME NEW s \in Active(g) PROVE Decoded(g, g.slots[s]) # {}
      BY DEF Counted
    <2>1. CASE s = mirror.side
      <3>1. Decoded(f, f.slots[s]) # {}
        BY <1>6, <1>9, <2>1 DEF Bytes, Readable, Counted
      <3> QED
        BY <1>8, <2>1, <3>1
    <2>2. CASE s = o /\ g.slots[o] = w.header
      BY <2>2, HeaderReads
    <2> QED
      BY <1>7, <2>1, <2>2
  <1>10. Final(g)
    <2> SUFFICES ASSUME NEW s \in Active(g), g.slots[s].copies.marker = "Stopped"
                 PROVE  \E x \in Loaded(g) :
                           /\ x.hdr.committed = committed
                           /\ x.hdr.accepted = Len(log)
                           /\ Len(x.entries) = Len(log)
                           /\ \A n \in committed + 1 .. Len(log) : x.entries[n] = log[n]
      BY DEF Final
    <2>1. CASE s = mirror.side
      <3>1. Final(f) /\ s \in Active(f) /\ f.slots[s].copies.marker = "Stopped"
        BY <1>2, <1>6, <2>1 DEF Bytes, Stops
      <3>2. Loaded(f) \subseteq Loaded(g)
        <4> SUFFICES ASSUME NEW x \in Loaded(f) PROVE x \in Loaded(g)
          OBVIOUS
        <4>1. PICK t \in Active(f) : \E h \in Decoded(f, f.slots[t]) :
                 x = [side |-> t, hdr |-> f.slots[t], entries |-> h]
          BY LoadedIs
        <4>2. t = s /\ t \in Active(g) /\ Decoded(g, g.slots[t]) = Decoded(f, f.slots[t])
              /\ g.slots[t] = f.slots[t]
          BY <1>2, <1>6, <1>8, <2>1
        <4> QED
          BY <4>1, <4>2, LoadedIs
      <3> QED
        BY <3>1, <3>2 DEF Final
    <2>2. CASE s = o /\ g.slots[o] = w.header
      BY <2>2, HeaderReads
    <2> QED
      BY <1>7, <2>1, <2>2
  <1>11. ASSUME phase \notin {"latching", "halting"}, NEW s \in Active(g)
         PROVE  g.slots[s].copies.marker # "Stopped"
    <2>1. CASE s = mirror.side
      <3>1. Unstopped(f)
        BY <1>1, <1>11 DEF Bytes, Stops
      <3> QED
        BY <1>2, <1>6, <2>1, <3>1 DEF Unstopped
    <2>2. CASE s = o /\ g.slots[o] = w.header
      BY <1>11, <2>2 DEF Bytes, Stops
    <2> QED
      BY <1>7, <2>1, <2>2
  <1> QED
    BY <1>5, <1>9, <1>10, <1>11 DEF Unstopped

\* Whatever a crash or a refusal leaves of a commit.
LEMMA CutReads ==
  ASSUME IInv, Bytes, NEW w \in io, NEW f \in file, NEW g \in Interrupted(f, w)
  PROVE  /\ Typed(g) /\ Final(g)
         /\ ~inplace => Counted(g)
         /\ phase \notin {"latching", "halting"} => Unstopped(g)
  <1>1. Shaped(f) /\ w.stage \in {"region", "slot"}
    BY InProgress
  <1>2. CASE w.stage = "region"
    <2>1. PICK k \in 0 .. Len(w.cells) :
             g = [f EXCEPT !.region = Overwrite(@, w.at, SubSeq(w.cells, 1, k))]
      BY <1>2 DEF Interrupted
    <2>2. g.slots = f.slots
          /\ g.region = Overwrite(f.region, w.at, SubSeq(w.cells, 1, k))
      BY <1>1, <2>1 DEF Shaped
    <2>3. Typed(g) /\ Unstopped(g) /\ (~inplace => Counted(g))
      BY <1>2, <2>2, CutInRegion
    <2> QED
      BY <2>3 DEF Unstopped, Final
  <1>3. CASE w.stage = "slot"
    <2>1. g.region = f.region
      BY <1>1, <1>3 DEF Interrupted, Shaped
    <2> QED
      BY <1>3, <2>1, CutInSlot
  <1> QED
    BY <1>1, <1>2, <1>3

-----------------------------------------------------------------------------
(* The steps. *)

\* The region holds the mirror m, and the journal l is one to write over it.
Writable(m, l, c, cp) ==
    /\ m = [side |-> m.side, seq |-> m.seq, entries |-> m.entries]
    /\ Stageable(m, l, c, cp)
    /\ \A f \in file : Typed(f) /\ Begins(f.region, Frames(m.entries))

\* A journal's prefixes are journals.
LEMMA LogPrefix ==
  ASSUME NEW h, IsLog(h), NEW n \in 1 .. Len(h)
  PROVE  IsLog(SubSeq(h, 1, n))
  <1>1. h \in Seq(AnyEntry) /\ n \in Nat /\ n # 0
    BY DEF IsLog
  <1>2. SubSeq(h, 1, n) \in Seq(AnyEntry) /\ Len(SubSeq(h, 1, n)) = n
    BY <1>1
  <1>3. SubSeq(h, 1, n)[1] = h[1]
    BY <1>1
  <1> HIDE DEF AnyEntry
  <1> QED
    BY <1>1, <1>2, <1>3 DEF IsLog

\* What a commit stages over a region that holds the mirror.
LEMMA CommitMakes ==
  ASSUME NEW p, NEW m, NEW l, NEW c, NEW cp, Writable(m, l, c, cp),
         Commit(p, m, l, c, cp)
  PROVE  /\ phase' = p /\ io' # {}
         /\ mirror'.side = m.side /\ mirror'.seq = m.seq
         /\ IsLog(mirror'.entries) /\ Len(mirror'.entries) = Len(l)
         /\ \A n \in c + 1 .. Len(l) : mirror'.entries[n] = l[n]
         /\ \A v \in io' : /\ v.stage \in {"region", "slot"}
                           /\ Counts(v.header) /\ v.cells \in Seq(Cell)
                           /\ v.header.copies = cp
                           /\ v.header.committed = c /\ v.header.accepted = Len(l)
                           /\ m.entries = l => v.stage = "slot"
         /\ \A f \in file : \A v \in io' : Staged(f, v, mirror'.entries, inplace')
  <1> DEFINE w == CommitOf(m, l, c, cp)
             e == w.entries
  <1>1. /\ c \in 1 .. Len(l) /\ cp \in CopyState /\ m.seq \in Nat
        /\ IsLog(l) /\ Len(l) <= MaxSlot /\ IsLog(m.entries)
        /\ Stageable(m, l, c, cp)
    BY DEF Writable, Stageable
  <1>2. Stages(m, w, l, c, cp)
    BY <1>1, Delta
  <1> HIDE DEF w
  <1>3. /\ IsLog(e) /\ Len(e) = Len(l)
        /\ \A n \in c + 1 .. Len(l) : e[n] = l[n]
        /\ w.header \in Header /\ w.header.copies = cp
        /\ w.header.committed = c /\ w.header.accepted = Len(l)
        /\ w.header.count = Len(l) /\ w.header.bytes = Len(Frames(e))
        /\ m.entries = l => e = l /\ w.cells = <<>>
    BY <1>2 DEF Stages
  <1>4. PICK n \in 1 .. Len(l) :
               /\ n <= Len(m.entries)
               /\ SubSeq(e, 1, n) = SubSeq(m.entries, 1, n)
               /\ w.at = Len(Frames(SubSeq(e, 1, n)))
               /\ w.cells = FramesFrom(n + 1, e)
    BY <1>2 DEF Stages
  <1>5. /\ phase' = p /\ mirror' = [m EXCEPT !.entries = e]
        /\ io' = {[stage |-> IF w.cells = <<>> THEN "slot" ELSE "region",
                   at |-> w.at, cells |-> w.cells, header |-> w.header]}
        /\ inplace' = (w.cells # <<>> /\
                       \E f \in file : \E s \in Active(f) : w.at < f.slots[s].bytes)
    BY DEF Commit, w
  <1>6. mirror'.side = m.side /\ mirror'.seq = m.seq /\ mirror'.entries = e
    BY <1>5 DEF Writable
  <1> HIDE DEF e
  <1> DEFINE a == Frames(SubSeq(e, 1, n))
  <1>7. /\ a \in Seq(Cell) /\ w.cells \in Seq(Cell) /\ Frames(e) = a \o w.cells
        /\ Frames(e) \in Seq(Cell)
    <2>1. e \in Seq(AnyEntry) /\ n \in 0 .. Len(e) /\ n + 1 \in 1 .. Len(e) + 1
      <3>1. e \in Seq(AnyEntry) /\ n \in 1 .. Len(e)
        BY <1>3, <1>4, Zenon DEF IsLog
      <3> QED
        BY <3>1
    <2>2. Frames(e) = a \o w.cells
      BY <1>4, <2>1, FramesSplit
    <2>3. w.cells \in Seq(Cell)
      BY <1>4, <2>1, FramesType
    <2>4. IsLog(SubSeq(e, 1, n))
      <3>1. n \in 1 .. Len(e)
        BY <1>3, <1>4, Zenon
      <3> QED
        BY <1>3, <3>1, LogPrefix
    <2> QED
      BY <1>3, <2>2, <2>3, <2>4, FramesTyped
  <1>8. ASSUME NEW f \in file PROVE Begins(f.region, a)
    <2>1. m.entries \in Seq(AnyEntry) /\ n \in 0 .. Len(m.entries)
          /\ n + 1 \in 1 .. Len(m.entries) + 1
      <3>1. m.entries \in Seq(AnyEntry) /\ n <= Len(m.entries) /\ n \in Nat
        BY <1>1, <1>4 DEF IsLog
      <3> QED
        BY <3>1
    <2>2. Frames(m.entries) = a \o FramesFrom(n + 1, m.entries)
      BY <1>4, <2>1, FramesSplit
    <2>3. FramesFrom(n + 1, m.entries) \in Seq(Cell)
      BY <2>1, FramesType
    <2>4. f.region \in Seq(Cell) /\ Begins(f.region, Frames(m.entries))
      BY DEF Writable, Typed
    <2> HIDE DEF a
    <2> QED
      BY <1>7, <2>2, <2>3, <2>4, BeginsLess
  <1> HIDE DEF a
  <1>9. w.at = Len(a) /\ SubSeq(Frames(e), 1, w.at) = a /\ w.at \in 0 .. Len(Frames(e))
    <2>1. w.at = Len(a)
      BY <1>4 DEF a
    <2>2. SubSeq(a \o w.cells, 1, Len(a)) = a /\ Len(a \o w.cells) = Len(a) + Len(w.cells)
      <3>1. /\ a \o w.cells \in Seq(Cell) /\ Len(a \o w.cells) = Len(a) + Len(w.cells)
            /\ \A i \in 1 .. Len(a) : (a \o w.cells)[i] = a[i]
        BY <1>7, ConcatAt
      <3> DEFINE b == a \o w.cells
      <3> HIDE DEF b
      <3>2. /\ SubSeq(b, 1, Len(a)) \in Seq(Cell) /\ Len(SubSeq(b, 1, Len(a))) = Len(a)
            /\ \A i \in 1 .. Len(a) : SubSeq(b, 1, Len(a))[i] = b[i]
        BY <1>7, <3>1 DEF b
      <3>3. SubSeq(b, 1, Len(a)) = a
        BY <1>7, <3>1, <3>2, SeqEqual DEF b
      <3> QED
        BY <3>1, <3>3 DEF b
    <2> QED
      BY <1>7, <2>1, <2>2
  <1>10. w.cells = <<>> => Frames(e) = a
    BY <1>7
  <1>11. Counts(w.header)
    BY <1>1, <1>3 DEF Counts
  <1>12. ASSUME NEW f \in file, NEW v \in io' PROVE Staged(f, v, e, inplace')
    <2>1. /\ v.stage = IF w.cells = <<>> THEN "slot" ELSE "region"
          /\ v.at = w.at /\ v.cells = w.cells /\ v.header = w.header
      BY <1>5
    <2>2. Begins(f.region, a)
      BY <1>8
    <2>3. v.stage = "slot" => Begins(f.region, Frames(e))
      BY <1>10, <2>1, <2>2
    <2>4. ASSUME v.stage = "region", ~inplace', NEW s \in Active(f)
          PROVE  f.slots[s].bytes <= v.at
      <3>1. w.cells # <<>>
        BY <2>1, <2>4
      <3>2. ~(w.at < f.slots[s].bytes)
        BY <1>5, <2>4, <3>1
      <3>3. Typed(f)
        BY DEF Writable
      <3>4. f.slots[s].bytes \in Nat
        <4>1. s \in Side /\ f.slots[s] # Undecodable
          BY DEF Active, Vouches
        <4> QED
          BY <3>3, <4>1 DEF Typed, Counts, Header
      <3> QED
        BY <1>9, <2>1, <3>2, <3>4
    <2> QED
      BY <1>3, <1>7, <1>9, <2>1, <2>2, <2>3, <2>4 DEF Staged
  <1>13. \A v \in io' : /\ v.stage \in {"region", "slot"}
                        /\ Counts(v.header) /\ v.cells \in Seq(Cell)
                        /\ v.header.copies = cp
                        /\ v.header.committed = c /\ v.header.accepted = Len(l)
                        /\ m.entries = l => v.stage = "slot"
    BY <1>3, <1>5, <1>7, <1>11 DEF e
  <1> QED
    BY <1>3, <1>5, <1>6, <1>12, <1>13

\* A running store's commit over the region its mirror tells of.
LEMMA CommitBytes ==
  ASSUME IInv, Bytes, NEW p, NEW cp \in CopyState,
         Commit(p, mirror, log, committed, cp),
         p \in {"writing", "seating", "stopping", "halting"},
         phase \in {"opened", "up", "draining"}, Trusted,
         p # "halting" => cp.marker # "Stopped",
         announce' \in BOOLEAN, announce' => deferred,
         p = "seating" => deferred /\ ~announce',
         UNCHANGED <<file, log, committed, copies, deferred>>
  PROVE  Bytes'
  <1>1. io = {} /\ mirror.seq \in Nat /\ mirror.side \in Side
        /\ mirror = [side |-> mirror.side, seq |-> mirror.seq, entries |-> mirror.entries]
    BY DEF IInv, Shape
  <1>2. /\ IsLog(mirror.entries) /\ IsLog(log) /\ Len(log) <= MaxSlot
        /\ committed \in 1 .. Len(log)
        /\ \A f \in file : Typed(f) /\ Begins(f.region, Frames(mirror.entries))
    BY <1>1 DEF Bytes, Types, Mirrored
  <1>3. /\ phase' = p /\ io' # {}
        /\ mirror'.side = mirror.side /\ mirror'.seq = mirror.seq
        /\ IsLog(mirror'.entries) /\ Len(mirror'.entries) = Len(log)
        /\ \A n \in committed + 1 .. Len(log) : mirror'.entries[n] = log[n]
        /\ \A v \in io' : /\ v.stage \in {"region", "slot"}
                          /\ Counts(v.header) /\ v.cells \in Seq(Cell)
                          /\ v.header.copies = cp
                          /\ v.header.committed = committed
                          /\ v.header.accepted = Len(log)
        /\ \A f \in file : \A v \in io' : Staged(f, v, mirror'.entries, inplace')
    <2>1. Writable(mirror, log, committed, cp)
      BY <1>1, <1>2 DEF Writable, Stageable
    <2> QED
      BY <2>1, CommitMakes
  <1>4. Types'
    BY <1>2, <1>3 DEF Types
  <1>5. Leads'
    BY <1>3 DEF Bytes, Leads
  <1>6. Readable'
    BY <1>1, <1>3 DEF Bytes, Readable
  <1>7. Mirrored'
    BY <1>3 DEF Mirrored
  <1>8. \A f \in file : Final(f)' <=> Final(f)
    BY DEF Final
  <1>9. Stops'
    BY <1>3, <1>8 DEF Bytes, Stops
  <1> QED
    BY <1>4, <1>5, <1>6, <1>7, <1>9 DEF Bytes

\* The region's sync.
LEMMA RegionBytes ==
  ASSUME IInv, Bytes, RegionSync
  PROVE  Bytes'
  <1>1. PICK w \in io, f \in file :
           /\ w.stage = "region"
           /\ file' = {[f EXCEPT !.region = Overwrite(@, w.at, w.cells)]}
           /\ io' = {[w EXCEPT !.stage = "slot"]}
    BY DEF RegionSync
  <1>2. UNCHANGED <<phase, mirror, log, committed, copies, announce, deferred, inplace>>
    BY DEF RegionSync, lifeVars, replicaVars
  <1> DEFINE g == [f EXCEPT !.region = Overwrite(@, w.at, w.cells)]
             v == [w EXCEPT !.stage = "slot"]
  <1>3. /\ Trusted /\ Staged(f, w, mirror.entries, inplace) /\ Shaped(f)
        /\ w.cells \in Seq(Cell) /\ Counts(w.header)
        /\ phase \notin {"down", "opened", "up", "draining"}
    BY <1>1, InProgress
  <1>4. g.slots = f.slots /\ g.region = Overwrite(f.region, w.at, w.cells)
    BY <1>3 DEF Shaped
  <1>5. v.stage = "slot" /\ v.header = w.header /\ v.cells = w.cells
    <2>1. w = [stage |-> w.stage, at |-> w.at, cells |-> w.cells, header |-> w.header]
      BY <1>1 DEF IInv, Shape
    <2> QED
      BY <2>1
  <1>6. file' = {g} /\ io' = {v}
    BY <1>1
  <1> HIDE DEF g, v
  <1>7. /\ Typed(g) /\ Unstopped(g) /\ (~inplace => Counted(g))
        /\ Begins(g.region, Frames(mirror.entries))
    <2>1. SubSeq(w.cells, 1, Len(w.cells)) = w.cells /\ Len(w.cells) \in 0 .. Len(w.cells)
      BY <1>3
    <2>2. g.region = Overwrite(f.region, w.at, SubSeq(w.cells, 1, Len(w.cells)))
      BY <1>4, <2>1
    <2> QED
      BY <1>1, <1>4, <2>1, <2>2, CutInRegion
  <1>8. Types'
    BY <1>2, <1>3, <1>5, <1>6, <1>7 DEF Bytes, Types
  <1>9. Leads'
    BY <1>1, <1>2, <1>4, <1>6 DEF Bytes, Leads, Trusted
  <1>10. Readable'
    BY <1>2, <1>6, <1>7 DEF Readable
  <1>11. Staged(g, v, mirror.entries, inplace)
    BY <1>3, <1>5, <1>7 DEF Staged
  <1>12. Mirrored'
    BY <1>2, <1>6, <1>11 DEF Mirrored
  <1>13. Final(g)'
    BY <1>7 DEF Unstopped, Final
  <1>14. Stops'
    BY <1>1, <1>2, <1>5, <1>6, <1>7, <1>13 DEF Bytes, Stops
  <1> QED
    BY <1>8, <1>9, <1>10, <1>12, <1>14 DEF Bytes

\* The slot's sync puts the header where a load finds it.
LEMMA SlotLands ==
  ASSUME IInv, NEW p, SlotSynced(p), phase # "down"
  PROVE  \E w \in io, f \in file, g \in file' :
            /\ w.stage = "slot" /\ file' = {g} /\ g.region = f.region
            /\ g.slots[flip(mirror.side)] = w.header
            /\ g.slots[mirror.side] = f.slots[mirror.side]
            /\ g.slots[mirror.side].seq = mirror.seq
            /\ Shaped(g) /\ Active(g) = {flip(mirror.side)}
  <1> DEFINE o == flip(mirror.side)
  <1>1. PICK w \in io, f \in file : /\ w.stage = "slot"
                                    /\ file' = {[f EXCEPT !.slots[o] = w.header]}
    BY DEF SlotSynced
  <1> DEFINE g == [f EXCEPT !.slots[o] = w.header]
  <1>2. Shaped(f) /\ mirror.side \in Side /\ mirror.seq \in Nat
    BY <1>1 DEF IInv, Shape
  <1>3. Slot(w.header) /\ w.header.seq = mirror.seq + 1
    BY <1>1, HeaderSlot DEF IInv
  <1>4. /\ o \in Side /\ o # mirror.side /\ Side = {mirror.side, o}
        /\ flip(o) = mirror.side
    BY <1>2, Flip DEF flip, Side
  <1>5. g = [slots |-> [f.slots EXCEPT ![o] = w.header], region |-> f.region]
    BY <1>2 DEF Shaped
  <1>6. g.slots = [s \in Side |-> IF s = o THEN w.header ELSE f.slots[s]]
        /\ g.region = f.region
    BY <1>2, <1>4, <1>5 DEF Shaped
  <1>7. g = [slots |-> g.slots, region |-> g.region]
    BY <1>5
  <1>8. file' = {g}
    BY <1>1
  <1> HIDE DEF g
  <1>9. g.slots[o] = w.header /\ g.slots[mirror.side] = f.slots[mirror.side]
        /\ g.slots = [s \in Side |-> g.slots[s]]
    BY <1>4, <1>6
  <1>10. Shaped(g)
    BY <1>2, <1>3, <1>4, <1>7, <1>9 DEF Shaped
  <1>11. g.slots[mirror.side].seq = mirror.seq
    BY <1>1, <1>9 DEF IInv, Turns
  <1>12. Active(g) = {o}
    <2>1. o \in Active(g)
      BY <1>2, <1>3, <1>4, <1>9, <1>10, <1>11, ActiveSlots
    <2>2. mirror.side \notin Active(g)
      BY <1>2, <1>3, <1>4, <1>9, <1>10, <1>11, ActiveSlots
    <2>3. Active(g) \subseteq Side
      BY DEF Active, Vouches
    <2> QED
      BY <1>4, <2>1, <2>2, <2>3
  <1> QED
    BY <1>1, <1>6, <1>8, <1>9, <1>10, <1>11, <1>12

\* The slot's sync.
LEMMA SlotBytes ==
  ASSUME IInv, Bytes, NEW p, SlotSynced(p), phase # "down",
         p \in {"down", "opened", "up", "draining"}, phase = "halting" => p = "down",
         copies' = copies \/ copies'.marker # "Stopped",
         announce' = announce, announce => deferred', UNCHANGED <<log, committed>>
  PROVE  Bytes'
  <1> DEFINE o == flip(mirror.side)
  <1>1. PICK w \in io, f \in file, g \in file' :
            /\ w.stage = "slot" /\ file' = {g} /\ g.region = f.region
            /\ g.slots[o] = w.header
            /\ g.slots[mirror.side] = f.slots[mirror.side]
            /\ g.slots[mirror.side].seq = mirror.seq
            /\ Shaped(g) /\ Active(g) = {o}
    BY SlotLands
  <1>2. /\ phase' = p /\ io' = {} /\ inplace' = FALSE
        /\ mirror'.side = o /\ mirror'.seq = mirror.seq + 1
        /\ mirror'.entries = mirror.entries
    BY DEF SlotSynced, IInv, Shape
  <1>3. /\ Trusted /\ Typed(f) /\ Counts(w.header)
        /\ Begins(f.region, Frames(mirror.entries))
    BY <1>1, InProgress
  <1>4. mirror.side \in Side /\ mirror.seq \in Nat /\ Side = {mirror.side, o}
        /\ flip(o) = mirror.side
    <2>1. mirror.side \in Side /\ mirror.seq \in Nat
      BY DEF IInv, Shape
    <2> QED
      BY <2>1, Flip DEF flip, Side
  <1>5. Typed(g)
    BY <1>1, <1>3, <1>4 DEF Typed
  <1>6. Counted(g)
    BY <1>1, HeaderReads DEF Counted
  <1>7. Types'
    BY <1>1, <1>2, <1>5 DEF Bytes, Types
  <1>8. Leads'
    BY <1>1, <1>2, <1>4 DEF Leads
  <1>9. Readable'
    BY <1>1, <1>6 DEF Readable
  <1>10. Mirrored'
    BY <1>1, <1>2, <1>3 DEF Mirrored
  <1>11. Final(g)'
    <2>1. \A s \in Active(g) : g.slots[s] = w.header
      BY <1>1
    <2>2. Final(g)
      BY <1>1, <2>1, HeaderReads DEF Final
    <2> QED
      BY <2>2 DEF Final
  <1>12. p # "down" => Unstopped(g)
    BY <1>1 DEF Bytes, Stops, Unstopped
  <1>13. copies'.marker # "Stopped"
    BY DEF Bytes, Stops
  <1>14. Stops'
    BY <1>1, <1>2, <1>11, <1>12, <1>13 DEF Stops
  <1> QED
    BY <1>7, <1>8, <1>9, <1>10, <1>14 DEF Bytes

\* A replica at work writes nothing, and its file never says Stopped.
LEMMA QuietBytes ==
  ASSUME IInv, Bytes, phase = "up",
         UNCHANGED <<file, phase, io, mirror, copies, deferred, inplace>>,
         IsLog(log'), Len(log') <= MaxSlot, committed' \in 1 .. Len(log'),
         announce' \in BOOLEAN, announce' => announce
  PROVE  Bytes'
  <1>1. io = {}
    BY DEF IInv, Shape
  <1>2. Trusted' => Trusted
    BY DEF Trusted
  <1>3. Types'
    BY <1>1 DEF Bytes, Types
  <1>4. Leads'
    BY <1>2 DEF Bytes, Leads
  <1>5. Readable'
    BY <1>2 DEF Bytes, Readable
  <1>6. Mirrored'
    BY <1>1, <1>2 DEF Bytes, Mirrored
  <1>7. \A f \in file : Unstopped(f)
    BY DEF Bytes, Stops
  <1>8. \A f \in file : Final(f)'
    BY <1>7 DEF Unstopped, Final
  <1>9. Stops'
    BY <1>1, <1>7, <1>8 DEF Bytes, Stops
  <1> QED
    BY <1>3, <1>4, <1>5, <1>6, <1>9 DEF Bytes

\* What the replica publishes is a journal.
LEMMA PublishBytes ==
  ASSUME IInv, Bytes, NEW l, NEW c \in 1 .. Len(l), Publish(l, c),
         IsLog(l), Len(l) <= MaxSlot
  PROVE  Bytes'
  <1>1. /\ phase = "up" /\ log' = l /\ committed' = c
        /\ UNCHANGED <<file, phase, io, mirror, copies, deferred, inplace, announce>>
    BY DEF Publish, Persist, lifeVars
  <1>2. announce \in BOOLEAN
    BY DEF Bytes, Types
  <1> QED
    BY <1>1, <1>2, QuietBytes

\* The steps of a replica at work.
LEMMA WorkBytes ==
  ASSUME IInv, Bytes,
         \/ \E v \in Entry : Accept(v)
         \/ Advance \/ Install \/ StatusMoves \/ GainWeight
  PROVE  Bytes'
  <1>1. IsLog(log) /\ Len(log) <= MaxSlot /\ committed \in 1 .. Len(log)
    BY DEF Bytes, Types
  <1>2. log \in Seq(AnyEntry) /\ Len(log) \in Nat \ {0} /\ log[1] = Genesis
    BY <1>1 DEF IsLog
  <1>3. ASSUME NEW v \in Entry, Accept(v) PROVE Bytes'
    <2> DEFINE l == Append(log, v)
    <2>1. Publish(l, committed) /\ Len(log) < MaxSlot
      BY <1>3 DEF Accept
    <2>2. v \in AnyEntry
      BY DEF AnyEntry
    <2>3. l \in Seq(AnyEntry) /\ Len(l) = Len(log) + 1 /\ l[1] = Genesis
      BY <1>2, <2>2
    <2> HIDE DEF l
    <2>4. IsLog(l) /\ Len(l) <= MaxSlot /\ committed \in 1 .. Len(l)
      BY <1>1, <1>2, <2>1, <2>3, StoreBounds DEF IsLog
    <2> QED
      BY <2>1, <2>4, PublishBytes
  <1>4. CASE Advance
    <2>1. Publish(log, committed + 1) /\ committed < Len(log)
      BY <1>4 DEF Advance
    <2>2. committed + 1 \in 1 .. Len(log)
      BY <1>1, <1>2, <2>1
    <2> QED
      BY <1>1, <2>1, <2>2, PublishBytes
  <1>5. CASE Install
    <2>1. PICK n \in committed .. MaxSlot : \E h \in History(n) :
             \E c \in committed .. n : Publish(h, c)
      BY <1>5 DEF Install
    <2>2. PICK h \in History(n) : \E c \in committed .. n : Publish(h, c)
      BY <2>1
    <2>3. PICK c \in committed .. n : Publish(h, c)
      BY <2>2
    <2>4. n \in Nat \ {0} /\ n <= MaxSlot /\ c \in 1 .. n
      BY <1>1, <1>2, StoreBounds
    <2>5. IsLog(h) /\ Len(h) = n
      BY <2>4, HistoryIs DEF IsLog
    <2>6. c \in 1 .. Len(h) /\ Len(h) <= MaxSlot
      BY <2>4, <2>5
    <2> QED
      BY <2>3, <2>5, <2>6, PublishBytes
  <1>6. CASE StatusMoves \/ GainWeight
    <2>1. /\ phase = "up"
          /\ UNCHANGED <<file, phase, io, mirror, copies, deferred, inplace,
                         log, committed, announce>>
      BY <1>6 DEF StatusMoves, GainWeight, replicaVars
    <2>2. announce \in BOOLEAN
      BY DEF Bytes, Types
    <2> QED
      BY <1>1, <2>1, <2>2, QuietBytes
  <1> QED
    BY <1>3, <1>4, <1>5, <1>6

\* The store refuses a latch: from there on the mirror is not trusted.
LEMMA RefusedBytes ==
  ASSUME IInv, Bytes, LatchRefused
  PROVE  Bytes'
  <1>1. PICK w \in io, f \in file : \E g \in Interrupted(f, w) : file' = {g}
    BY DEF LatchRefused
  <1>2. PICK g \in Interrupted(f, w) : file' = {g}
    BY <1>1
  <1>3. /\ phase = "seating" /\ phase' = "up" /\ io' = {}
        /\ UNCHANGED <<mirror, log, committed, copies, announce, deferred, inplace>>
    BY DEF LatchRefused, lifeVars, replicaVars
  <1>4. Typed(g) /\ Final(g) /\ (~inplace => Counted(g)) /\ Unstopped(g)
    BY <1>1, <1>2, <1>3, CutReads
  <1>5. deferred /\ ~announce
    BY <1>3 DEF Bytes, Types
  <1>6. ~Trusted'
    BY <1>3, <1>5 DEF Trusted
  <1>7. Types'
    BY <1>2, <1>3, <1>4 DEF Bytes, Types
  <1>8. Leads' /\ Mirrored'
    BY <1>6 DEF Leads, Mirrored
  <1>9. Readable'
    BY <1>2, <1>3, <1>4, <1>6 DEF Readable
  <1>10. Final(g)'
    BY <1>3, <1>4 DEF Final
  <1>11. Stops'
    BY <1>2, <1>3, <1>4, <1>10 DEF Bytes, Stops
  <1> QED
    BY <1>7, <1>8, <1>9, <1>11 DEF Bytes

\* The process dies.
LEMMA CrashBytes ==
  ASSUME IInv, Bytes, Crash
  PROVE  Bytes'
  <1>1. /\ phase # "down" /\ phase' = "down" /\ io' = {}
        /\ UNCHANGED <<mirror, log, committed, copies, announce, deferred, inplace>>
    BY DEF Crash, lifeVars, replicaVars
  <1>2. \A g \in file' : Typed(g) /\ Final(g) /\ (~inplace => Counted(g))
    <2>1. CASE io = {}
      BY <2>1 DEF Crash, Bytes, Types, Stops, Readable
    <2>2. CASE io # {}
      <3>1. PICK w \in io, f \in file : \E h \in Interrupted(f, w) : file' = {h}
        BY <2>2 DEF Crash
      <3>2. PICK g \in Interrupted(f, w) : file' = {g}
        BY <3>1
      <3>3. Typed(g) /\ Final(g) /\ (~inplace => Counted(g))
        BY <3>1, <3>2, CutReads
      <3> QED
        BY <3>2, <3>3
    <2> QED
      BY <2>1, <2>2
  <1>3. ~Trusted'
    BY <1>1 DEF Trusted
  <1>4. Types'
    BY <1>1, <1>2 DEF Bytes, Types
  <1>5. Leads' /\ Mirrored'
    BY <1>3 DEF Leads, Mirrored
  <1>6. Readable'
    BY <1>1, <1>2, <1>3 DEF Readable
  <1>7. \A g \in file' : Final(g)'
    BY <1>1, <1>2 DEF Final
  <1>8. Stops'
    BY <1>1, <1>7 DEF Bytes, Stops
  <1> QED
    BY <1>4, <1>5, <1>6, <1>8 DEF Bytes

-----------------------------------------------------------------------------
(* The boots. *)

\* The first life's file holds the genesis entry.
LEMMA FirstBytes ==
  ASSUME IInv, Bytes, BootFirst
  PROVE  Bytes'
  <1> DEFINE h == <<Genesis>>
             cp == Copies(1, "Joining")
             g == Created(cp)
             hdr == [seq |-> 1, copies |-> cp, accepted |-> 1, committed |-> 1,
                     count |-> 1, bytes |-> Len(Frames(h))]
  <1>1. /\ file' = {g} /\ phase = "down" /\ phase' = "opened" /\ io' = io
        /\ copies' = cp /\ log' = h /\ committed' = 1
        /\ mirror' = [side |-> "A", seq |-> 1, entries |-> h]
        /\ announce' = FALSE /\ deferred' = FALSE
    BY DEF BootFirst
  <1>2. io = {}
    BY <1>1 DEF IInv, Shape
  <1>3. IsLog(h) /\ Len(h) = 1
    BY DEF IsLog, AnyEntry
  <1>4. cp \in CopyState /\ cp.marker = "Joining"
    BY StoreBounds DEF Copies, CopyState, Identity, Marker
  <1>5. Frames(h) \in Seq(Cell)
    BY <1>3, FramesTyped
  <1>6. g.slots["A"] = hdr /\ g.slots["B"] = Undecodable /\ g.region = Frames(h)
    BY DEF Created
  <1>7. Counts(hdr) /\ hdr.copies = cp /\ hdr.count = 1 /\ hdr.bytes = Len(Frames(h))
        /\ hdr.seq = 1
    <2>1. 1 \in 1 .. MaxSlot /\ Len(Frames(h)) \in Nat
      BY <1>5, StoreBounds
    <2> HIDE DEF h
    <2> QED
      BY <1>4, <2>1 DEF Counts, Header
  <1> HIDE DEF h, hdr, g, cp
  <1>8. Typed(g)
    BY <1>5, <1>6, <1>7 DEF Typed, Side
  <1>9. Begins(g.region, Frames(h))
    <2>1. SubSeq(Frames(h), 1, Len(Frames(h))) = Frames(h) /\ Len(Frames(h)) \in Nat
      BY <1>5
    <2> QED
      BY <1>6, <2>1 DEF Begins
  <1>10. Active(g) \subseteq {"A"}
    BY <1>6 DEF Active, Vouches, Side
  <1>11. Counted(g)
    <2>1. h \in Decoded(g, g.slots["A"])
      BY <1>3, <1>6, <1>7, <1>9, DecodesThem
    <2> QED
      BY <1>10, <2>1 DEF Counted
  <1>12. Unstopped(g)
    BY <1>4, <1>6, <1>7, <1>10 DEF Unstopped
  <1>13. Types'
    <2>1. Len(h) <= MaxSlot /\ 1 \in 1 .. Len(h)
      BY <1>3, StoreBounds
    <2>2. IsLog(mirror'.entries) /\ IsLog(log') /\ Len(log') <= MaxSlot
          /\ committed' \in 1 .. Len(log')
      BY <1>1, <1>3, <2>1
    <2>3. announce' \in BOOLEAN /\ ~announce'
      BY <1>1
    <2>4. \A f \in file' : Typed(f)
      BY <1>1, <1>8
    <2>5. io' = {} /\ phase' = "opened"
      BY <1>1, <1>2
    <2> QED
      BY <2>2, <2>3, <2>4, <2>5 DEF Types
  <1>14. Leads'
    <2>1. flip("A") = "B" /\ Undecodable.seq = 0
      BY DEF flip, Undecodable
    <2> QED
      BY <1>1, <1>6, <2>1 DEF Leads
  <1>15. Readable'
    BY <1>1, <1>11 DEF Readable
  <1>16. Mirrored'
    BY <1>1, <1>2, <1>9 DEF Mirrored
  <1>17. Final(g)'
    BY <1>12 DEF Unstopped, Final
  <1>18. Stops'
    BY <1>1, <1>2, <1>4, <1>12, <1>17 DEF Stops
  <1> QED
    BY <1>13, <1>14, <1>15, <1>16, <1>18 DEF Bytes

\* What a start reads.
LEMMA StartBytes ==
  ASSUME IInv, Bytes, NEW x \in Starts, ReopenFenced(x)
  PROVE  /\ IsLog(x.entries) /\ Len(x.entries) <= MaxSlot
         /\ x.hdr.committed \in 1 .. Len(x.entries) /\ x.hdr.accepted = Len(x.entries)
         /\ x.hdr.copies \in CopyState /\ x.hdr.seq \in Nat /\ x.side \in Side
         /\ \A f \in file : /\ Typed(f) /\ Counted(f)
                            /\ Begins(f.region, Frames(x.entries))
                            /\ Active(f) = {x.side} /\ f.slots[x.side] = x.hdr
                            /\ x \in Loaded(f)
                            /\ f.slots[flip(x.side)].seq < x.hdr.seq
  <1>1. PICK f \in file : x \in Loaded(f)
    BY DEF Starts
  <1>2. PICK s \in Active(f) : \E h \in Decoded(f, f.slots[s]) :
           x = [side |-> s, hdr |-> f.slots[s], entries |-> h]
    BY <1>1, LoadedIs
  <1>3. PICK h \in Decoded(f, f.slots[s]) :
           x = [side |-> s, hdr |-> f.slots[s], entries |-> h]
    BY <1>2
  <1>4. x.side = s /\ x.hdr = f.slots[s] /\ x.entries = h
    BY <1>3
  <1>5. Shaped(f) /\ Typed(f) /\ \A k \in file : k = f
    BY DEF IInv, Shape, Bytes, Types
  <1>6. /\ s \in Side /\ Counts(f.slots[s]) /\ f.slots[s] \in Header
        /\ f.slots[s].copies \in CopyState
    BY <1>5, ActiveHeader
  <1>7. IsLog(h) /\ Len(h) = f.slots[s].count /\ Begins(f.region, Frames(h))
    BY <1>5, <1>6, DecodedIs DEF Typed
  <1>8. f.slots[flip(s)].seq < f.slots[s].seq /\ f.slots[s].seq \in Nat
    BY ActiveIsCandidate
  <1>9. Active(f) = {s}
    <2>1. f.slots["A"].seq # f.slots["B"].seq
      BY DEF IInv, Turns
    <2> QED
      BY <1>5, <2>1, OneActive
  <1>10. Counted(f)
    BY <1>9 DEF Counted
  <1>11. /\ Len(h) <= MaxSlot
         /\ f.slots[s].committed \in 1 .. Len(h) /\ f.slots[s].accepted = Len(h)
    <2>1. f.slots[s].accepted = Len(h)
      BY <1>4 DEF ReopenFenced
    <2> QED
      BY <1>6, <2>1, StoreBounds DEF Counts, Header
  <1> QED
    BY <1>1, <1>4, <1>5, <1>6, <1>7, <1>8, <1>9, <1>10, <1>11

\* A clean start writes its latch over the journal it loaded.
LEMMA CleanBytes ==
  ASSUME IInv, Bytes, BootClean
  PROVE  Bytes'
  <1>1. PICK x \in Starts :
          /\ x.hdr.copies.marker = "Stopped"
          /\ Rebuild(x)
          /\ copies' = Copies(x.hdr.copies.id, "Restarting")
          /\ Commit("latching", MirrorOf(x), x.entries, x.hdr.committed,
                    Copies(x.hdr.copies.id, "Restarting"))
    BY DEF BootClean, GateCommit
  <1>2. phase = "down" /\ announce' = FALSE /\ deferred' = FALSE /\ file' = file
    BY DEF BootClean
  <1> DEFINE m == MirrorOf(x)
             cp == Copies(x.hdr.copies.id, "Restarting")
             l == x.entries
             c == x.hdr.committed
  <1>3. ReopenFenced(x) /\ log' = l /\ committed' = c
    BY <1>1 DEF Rebuild
  <1>4. /\ IsLog(l) /\ Len(l) <= MaxSlot
        /\ c \in 1 .. Len(l) /\ x.hdr.accepted = Len(l)
        /\ x.hdr.copies \in CopyState /\ x.hdr.seq \in Nat /\ x.side \in Side
        /\ \A f \in file : /\ Typed(f) /\ Counted(f)
                           /\ Begins(f.region, Frames(l))
                           /\ Active(f) = {x.side} /\ f.slots[x.side] = x.hdr
                           /\ x \in Loaded(f)
                           /\ f.slots[flip(x.side)].seq < x.hdr.seq
    BY <1>3, StartBytes
  <1>5. m = [side |-> m.side, seq |-> m.seq, entries |-> m.entries]
        /\ m.side = x.side /\ m.seq = x.hdr.seq /\ m.entries = l
    BY DEF MirrorOf
  <1>6. cp \in CopyState /\ cp.marker = "Restarting"
    BY <1>4 DEF CopyState, Copies, Marker
  <1>7. Commit("latching", m, l, c, cp) /\ copies' = cp
    BY <1>1
  <1> HIDE DEF m, l, c, cp
  <1>8. Writable(m, l, c, cp)
    BY <1>4, <1>5, <1>6 DEF Writable, Stageable
  <1>9. /\ phase' = "latching" /\ io' # {}
        /\ mirror'.side = m.side /\ mirror'.seq = m.seq
        /\ IsLog(mirror'.entries) /\ Len(mirror'.entries) = Len(l)
        /\ \A v \in io' : /\ v.stage \in {"region", "slot"}
                          /\ Counts(v.header) /\ v.cells \in Seq(Cell)
                          /\ v.header.copies = cp
                          /\ m.entries = l => v.stage = "slot"
        /\ \A f \in file : \A v \in io' : Staged(f, v, mirror'.entries, inplace')
    BY <1>7, <1>8, CommitMakes
  <1>10. Types'
    BY <1>2, <1>3, <1>4, <1>9 DEF Types
  <1>11. Leads'
    BY <1>2, <1>4, <1>5, <1>9 DEF Leads
  <1>12. Readable'
    BY <1>2, <1>4 DEF Readable
  <1>13. Mirrored'
    BY <1>2, <1>9 DEF Mirrored
  <1>14. \A f \in file : Final(f)'
    <2> SUFFICES ASSUME NEW f \in file PROVE Final(f)'
      OBVIOUS
    <2>1. /\ x \in Loaded(f) /\ x.hdr.committed = committed'
          /\ x.hdr.accepted = Len(log') /\ Len(x.entries) = Len(log')
          /\ \A n \in committed' + 1 .. Len(log') : x.entries[n] = log'[n]
      BY <1>3, <1>4 DEF l, c
    <2> QED
      BY <2>1 DEF Final
  <1>15. Stops'
    BY <1>2, <1>5, <1>6, <1>7, <1>9, <1>14 DEF Stops
  <1> QED
    BY <1>10, <1>11, <1>12, <1>13, <1>15 DEF Bytes

\* A crashed start takes the journal up as it is.
LEMMA CrashedBytes ==
  ASSUME IInv, Bytes, BootCrashed
  PROVE  Bytes'
  <1>1. PICK x \in Starts :
          /\ x.hdr.copies.marker # "Stopped"
          /\ Rebuild(x)
          /\ copies' = x.hdr.copies
          /\ mirror' = MirrorOf(x)
    BY DEF BootCrashed
  <1>2. /\ phase = "down" /\ phase' = "opened" /\ file' = file /\ io' = io
        /\ announce' = TRUE /\ deferred' = TRUE
    BY DEF BootCrashed
  <1>3. ReopenFenced(x) /\ log' = x.entries /\ committed' = x.hdr.committed
    BY <1>1 DEF Rebuild
  <1>4. /\ IsLog(x.entries) /\ Len(x.entries) <= MaxSlot
        /\ x.hdr.committed \in 1 .. Len(x.entries)
        /\ x.hdr.seq \in Nat /\ x.side \in Side
        /\ \A f \in file : /\ Typed(f) /\ Counted(f)
                           /\ Begins(f.region, Frames(x.entries))
                           /\ Active(f) = {x.side} /\ f.slots[x.side] = x.hdr
                           /\ f.slots[flip(x.side)].seq < x.hdr.seq
    BY <1>3, StartBytes
  <1>5. mirror'.side = x.side /\ mirror'.seq = x.hdr.seq /\ mirror'.entries = x.entries
    BY <1>1 DEF MirrorOf
  <1>6. io' = {}
    BY <1>2 DEF IInv, Shape
  <1>7. Types'
    BY <1>2, <1>3, <1>4, <1>5, <1>6 DEF Types
  <1>8. Leads'
    BY <1>2, <1>4, <1>5 DEF Leads
  <1>9. Readable'
    BY <1>2, <1>4 DEF Readable
  <1>10. Mirrored'
    BY <1>2, <1>4, <1>5, <1>6 DEF Mirrored
  <1>11. \A f \in file : Unstopped(f)
    BY <1>1, <1>4 DEF Unstopped
  <1>12. \A f \in file : Final(f)'
    BY <1>11 DEF Unstopped, Final
  <1>13. Stops'
    BY <1>1, <1>2, <1>6, <1>11, <1>12 DEF Stops
  <1> QED
    BY <1>7, <1>8, <1>9, <1>10, <1>13 DEF Bytes

-----------------------------------------------------------------------------

\* A file not yet written has no bytes to disagree about.
LEMMA InitBytes == Init => Bytes
  <1> SUFFICES ASSUME Init PROVE Bytes
    OBVIOUS
  <1>1. IsLog(<<Genesis>>) /\ Len(<<Genesis>>) = 1
    BY DEF IsLog, AnyEntry
  <1>2. Types
    <2>1. 1 <= MaxSlot /\ 1 \in 1 .. 1
      BY StoreBounds
    <2>2. IsLog(mirror.entries) /\ IsLog(log) /\ Len(log) = 1 /\ committed = 1
      BY <1>1 DEF Init
    <2>3. announce \in BOOLEAN /\ ~announce
      BY Zenon DEF Init
    <2> QED
      BY <2>1, <2>2, <2>3 DEF Init, Types
  <1>3. Leads /\ Readable /\ Mirrored
    BY DEF Init, Leads, Readable, Mirrored
  <1>4. Stops
    BY DEF Init, Stops, Copies
  <1> QED
    BY <1>2, <1>3, <1>4 DEF Bytes

\* Every step of a life preserves what the bytes say.
LEMMA NextBytes == IInv /\ Bytes /\ [Next]_vars => Bytes'
  <1> SUFFICES ASSUME IInv, Bytes, [Next]_vars PROVE Bytes'
    OBVIOUS
  <1>1. CASE BootFirst \/ BootClean \/ BootCrashed
    BY <1>1, FirstBytes, CleanBytes, CrashedBytes
  <1>2. CASE RegionSync \/ LatchRefused \/ Crash
    BY <1>2, RegionBytes, RefusedBytes, CrashBytes
  <1>3. CASE \/ \E v \in Entry : Accept(v)
             \/ Advance \/ Install \/ StatusMoves \/ GainWeight
    BY <1>3, WorkBytes
  <1>4. announce \in BOOLEAN /\ (announce => deferred) /\ copies.marker # "Stopped"
    BY DEF Bytes, Types, Stops
  <1>5. own \in Identity /\ copies \in CopyState
    BY DEF IInv, Shape
  <1>6. ASSUME NEW m \in Marker PROVE Copies(own, m) \in CopyState /\ Copies(own, m).marker = m
    BY <1>5 DEF Copies, CopyState
  <1>7. CASE WriteState
    <2>1. /\ phase = "opened" /\ Commit("writing", mirror, log, committed, copies)
          /\ UNCHANGED <<file, log, committed, copies, announce, deferred>>
      BY <1>7 DEF WriteState, lifeVars, replicaVars
    <2>2. Trusted
      BY <2>1 DEF Trusted
    <2> QED
      BY <1>4, <1>5, <2>1, <2>2, CommitBytes
  <1>8. CASE BeginStop
    <2>1. /\ phase = "up" /\ ~deferred
          /\ Commit("stopping", mirror, log, committed, Copies(own, "Stopping"))
          /\ UNCHANGED <<file, log, committed, copies, announce, deferred>>
      BY <1>8 DEF BeginStop, GateCommit, lifeVars, replicaVars
    <2>2. Trusted /\ "Stopping" \in Marker
      BY <2>1 DEF Trusted, Marker
    <2> QED
      BY <1>4, <1>6, <2>1, <2>2, CommitBytes
  <1>9. CASE FinishStop
    <2>1. /\ phase = "draining"
          /\ Commit("halting", mirror, log, committed, Copies(own, "Stopped"))
          /\ UNCHANGED <<file, log, committed, copies, announce, deferred>>
      BY <1>9 DEF FinishStop, GateCommit, lifeVars, replicaVars
    <2>2. Trusted /\ "Stopped" \in Marker
      BY <2>1 DEF Trusted, Marker
    <2> QED
      BY <1>4, <1>6, <2>1, <2>2, CommitBytes
  <1>10. CASE TickVoting
    <2>1. /\ phase = "up" /\ announce /\ announce' = FALSE
          /\ UNCHANGED <<file, log, committed, copies, deferred>>
      BY <1>10 DEF TickVoting, replicaVars
    <2>2. CASE Commit("seating", mirror, log, committed, Copies(own, "Joining"))
      <3>1. Trusted /\ "Joining" \in Marker
        BY <2>1 DEF Trusted, Marker
      <3> QED
        BY <1>4, <1>6, <2>1, <2>2, <3>1, CommitBytes
    <2>3. CASE UNCHANGED <<phase, io, mirror, inplace>>
      <3>1. IsLog(log) /\ Len(log) <= MaxSlot /\ committed \in 1 .. Len(log)
        BY DEF Bytes, Types
      <3> QED
        BY <2>1, <2>3, <3>1, QuietBytes
    <2> QED
      BY <1>10, <2>2, <2>3 DEF TickVoting, SettleDeferred, GateCommit
  <1>11. CASE CleanLatched \/ InitOk \/ Stopping \/ Exit
    <2>1. PICK p \in {"down", "opened", "up", "draining"} :
             /\ SlotSynced(p) /\ phase # "down"
             /\ phase = "halting" => p = "down"
             /\ UNCHANGED <<copies, announce, deferred>>
      BY <1>11 DEF CleanLatched, InitOk, Stopping, Exit, lifeVars
    <2>2. UNCHANGED <<log, committed>>
      BY <2>1 DEF SlotSynced, replicaVars
    <2> QED
      BY <1>4, <2>1, <2>2, SlotBytes
  <1>12. CASE Latched
    <2>1. /\ phase = "seating" /\ SlotSynced("up")
          /\ copies' = Copies(own, "Joining") /\ deferred' = FALSE
          /\ announce' = announce
      BY <1>12 DEF Latched
    <2>2. ~announce
      BY <2>1 DEF Bytes, Types
    <2>3. UNCHANGED <<log, committed>>
      BY <2>1 DEF SlotSynced, replicaVars
    <2>4. copies'.marker # "Stopped"
      BY <2>1 DEF Copies
    <2> QED
      BY <2>1, <2>2, <2>3, <2>4, SlotBytes
  <1>13. CASE UNCHANGED vars
    <2>1. UNCHANGED <<file, phase, io, mirror, log, committed, copies, announce,
                      deferred, inplace>>
      BY <1>13 DEF vars, lifeVars, replicaVars
    <2>2. Types'
      BY <2>1 DEF Bytes, Types
    <2>3. Leads' /\ Readable' /\ Mirrored'
      BY <2>1 DEF Bytes, Leads, Readable, Mirrored, Trusted
    <2>4. \A f \in file : Final(f)'
      BY <2>1 DEF Bytes, Stops, Final
    <2>5. Stops'
      BY <2>1, <2>4 DEF Bytes, Stops
    <2> QED
      BY <2>2, <2>3, <2>5 DEF Bytes
  <1> QED
    BY <1>1, <1>2, <1>3, <1>7, <1>8, <1>9, <1>10, <1>11, <1>12, <1>13 DEF Next

\* The slots and the bytes together are inductive.
LEMMA Invariance == Spec => [](IInv /\ Bytes)
  <1>1. Init => IInv /\ Bytes
    BY InitIInv, InitBytes
  <1>2. IInv /\ Bytes /\ [Next]_vars => (IInv /\ Bytes)'
    BY NextIInv, NextBytes
  <1> QED
    BY <1>1, <1>2, PTL DEF Spec

\* Slots, region, staged commit and replica stay well typed: what the host
\* stages always fits the header it writes and the journal it loads.
THEOREM TypeCorrect == Spec => []TypeOK
  <1>1. IInv /\ Bytes => TypeOK
    <2> SUFFICES ASSUME IInv, Bytes PROVE TypeOK
      OBVIOUS
    <2>1. ASSUME NEW h, IsLog(h) PROVE h \in History(Len(h))
      <3>1. Len(h) \in Nat \ {0}
        BY <2>1 DEF IsLog
      <3> QED
        BY <2>1, <3>1, HistoryIs DEF IsLog
    <2>2. \A f \in file : \A s \in Side : f.slots[s] \in Header \cup {Undecodable}
      BY DEF Bytes, Types, Typed, Counts
    <2>3. \A w \in io : w.stage \in {"region", "slot"} /\ w.header \in Header
      BY DEF Bytes, Types, Counts
    <2> QED
      BY <2>1, <2>2, <2>3 DEF TypeOK, IInv, Shape, Bytes, Types
  <1> QED
    BY Invariance, <1>1, PTL

\* As long as a life has only appended behind what its slots count, a process
\* that dies at any instant of a commit leaves a file that the next load reads.
THEOREM AppendsAreHarmless == Spec => []AppendHarmless
  <1>1. IInv /\ Bytes => AppendHarmless
    <2> SUFFICES ASSUME IInv, Bytes, NEW f \in file, ~inplace PROVE Loaded(f) # {}
      BY DEF AppendHarmless
    <2>1. PICK s \in Active(f) : TRUE
      BY NeverOlderHolds DEF NeverOlder
    <2>2. Decoded(f, f.slots[s]) # {}
      BY DEF Bytes, Readable, Counted
    <2>3. PICK h \in Decoded(f, f.slots[s]) : TRUE
      BY <2>2
    <2>4. [side |-> s, hdr |-> f.slots[s], entries |-> h] \in Loaded(f)
      BY <2>1, <2>3, LoadedIs
    <2> QED
      BY <2>4
  <1> QED
    BY Invariance, <1>1, PTL

\* A slot that says Stopped, whenever a load can pick it, reads back the very
\* journal and commit index that the replica last published.
THEOREM StoppedVouches == Spec => []StoppedIsFinal
  <1>1. IInv /\ Bytes => StoppedIsFinal
    BY DEF Bytes, Stops, Final, StoppedIsFinal
  <1> QED
    BY Invariance, <1>1, PTL
=============================================================================
