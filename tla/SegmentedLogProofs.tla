------------------------- MODULE SegmentedLogProofs --------------------------
(***************************************************************************)
(* SegmentedLog implements Journal, for every slab capacity and every      *)
(* sequence of calls.                                                      *)
(*                                                                         *)
(* Sound says when slabs, boundaries and tail represent one run: the slabs *)
(* are sorted and disjoint, cover everything below the tail, and carry the *)
(* slots their position says.  The lemmas follow what the calls do to a    *)
(* sound view (extend the tail, seal it, drop slabs in front, cut at a     *)
(* slot) and what entry_at then reads; they speak of constants, so that    *)
(* they apply to the journal before a step and after it.                   *)
(***************************************************************************)
EXTENDS SegmentedLog, TLAPS

USE JournalAssumption

SlabOk(slab, b) ==
    /\ b.len = Len(slab)
    /\ b.len > 0
    /\ \A k \in 1 .. Len(slab) : slab[k].slot = b.first + k - 1

Sorted(bs) ==
    \A i, j \in 1 .. Len(bs) : i < j => LastOf(bs[i]) < bs[j].first

Holds(b, s) == b.first <= s /\ s <= LastOf(b)

Covered(bs, f) ==
    \A s \in Nat : f <= s /\ s < TailStart(bs, f) =>
        \E i \in 1 .. Len(bs) : Holds(bs[i], s)

Typed(ss, bs, t, f) ==
    /\ ss \in Seq(Seq(Entry))
    /\ bs \in Seq(Boundary)
    /\ t \in Seq(Entry)
    /\ f \in Nat

Sound(ss, bs, t, f) ==
    /\ Typed(ss, bs, t, f)
    /\ Len(ss) = Len(bs)
    /\ \A i \in 1 .. Len(bs) : SlabOk(ss[i], bs[i]) /\ f <= bs[i].first
    /\ Sorted(bs)
    /\ Covered(bs, f)
    /\ \A k \in 1 .. Len(t) : t[k].slot = TailStart(bs, f) + k - 1

-----------------------------------------------------------------------------
(***************************************************************************)
(* What entry_at reads.                                                    *)
(***************************************************************************)

\* Every slab ends below the tail.
LEMMA BelowTail ==
    ASSUME NEW ss, NEW bs, NEW t, NEW f, Sound(ss, bs, t, f)
    PROVE  /\ TailStart(bs, f) \in Nat
           /\ f <= TailStart(bs, f)
           /\ Len(bs) \in Nat
           /\ \A i \in 1 .. Len(bs) : /\ LastOf(bs[i]) < TailStart(bs, f)
                                      /\ bs[i].first <= LastOf(bs[i])
                                      /\ LastOf(bs[i]) \in Nat
                                      /\ bs[i].first \in Nat
                                      /\ bs[i].len \in Nat
<1>1. /\ bs \in Seq(Boundary) /\ f \in Nat /\ Sorted(bs)
      /\ \A i \in 1 .. Len(bs) : bs[i].len > 0 /\ f <= bs[i].first
  BY DEF Sound, Typed, SlabOk
<1>2. \A i \in 1 .. Len(bs) : bs[i].first \in Nat /\ bs[i].len \in Nat
  <2> SUFFICES ASSUME NEW i \in 1 .. Len(bs)
               PROVE  bs[i].first \in Nat /\ bs[i].len \in Nat
    OBVIOUS
  <2>1. bs[i] \in Boundary
    BY <1>1
  <2> QED BY <2>1 DEF Boundary, Slot
<1>3. \A i \in 1 .. Len(bs) : bs[i].first <= LastOf(bs[i]) /\ LastOf(bs[i]) \in Nat
  BY <1>1, <1>2 DEF LastOf
<1>4. CASE bs = <<>>
  BY <1>1, <1>4 DEF TailStart
<1>5. CASE bs # <<>>
  <2>1. Len(bs) \in Nat /\ Len(bs) >= 1
    BY <1>1, <1>5
  <2>2. TailStart(bs, f) = LastOf(bs[Len(bs)]) + 1
    BY <1>5 DEF TailStart
  <2>3. \A i \in 1 .. Len(bs) : LastOf(bs[i]) <= LastOf(bs[Len(bs)])
    <3> SUFFICES ASSUME NEW i \in 1 .. Len(bs), i # Len(bs)
                 PROVE  LastOf(bs[i]) <= LastOf(bs[Len(bs)])
      BY <1>3, <2>1
    <3>1. LastOf(bs[i]) < bs[Len(bs)].first
      BY <1>1, <2>1 DEF Sorted
    <3> QED BY <1>2, <1>3, <2>1, <3>1
  <2> QED BY <1>1, <1>2, <1>3, <2>1, <2>2, <2>3
<1> QED BY <1>4, <1>5

\* A slot a slab holds is read from that slab.
LEMMA ReadSlab ==
    ASSUME NEW ss, NEW bs, NEW t, NEW f, Sound(ss, bs, t, f),
           NEW s \in Nat, NEW i \in 1 .. Len(bs), Holds(bs[i], s)
    PROVE  EntryAt(ss, bs, t, f, s) = ss[i][s - bs[i].first + 1]
<1> DEFINE P(k) == /\ \A j \in 1 .. k : bs[j].first <= s
                   /\ \A j \in k + 1 .. Len(bs) : bs[j].first > s
<1>1. /\ Len(bs) \in Nat
      /\ \A j \in 1 .. Len(bs) : /\ bs[j].first \in Nat /\ bs[j].len \in Nat
                                 /\ LastOf(bs[j]) \in Nat
                                 /\ bs[j].first <= LastOf(bs[j])
  BY BelowTail
<1>2. bs[i].first <= s /\ s <= LastOf(bs[i])
  BY DEF Holds
<1>3. Sorted(bs)
  BY DEF Sound
<1>4. P(i)
  BY SMTT(30), <1>1, <1>2, <1>3 DEF Sorted
<1>5. \A k \in 0 .. Len(bs) : P(k) => k = i
  BY <1>1, <1>2, <1>3 DEF Sorted
<1>6. IndexOf(bs, s) = CHOOSE k \in 0 .. Len(bs) : P(k)
  BY DEF IndexOf
<1> HIDE DEF P
<1>7. IndexOf(bs, s) = i
  BY <1>1, <1>4, <1>5, <1>6
<1>8. s - bs[i].first < bs[i].len
  BY <1>1, <1>2 DEF LastOf
<1> QED BY <1>1, <1>7, <1>8 DEF EntryAt

\* A slot past the slabs is read from the tail.
LEMMA ReadTail ==
    ASSUME NEW ss, NEW bs, NEW t, NEW f, Sound(ss, bs, t, f),
           NEW s \in Nat, TailStart(bs, f) <= s
    PROVE  EntryAt(ss, bs, t, f, s) = t[s - TailStart(bs, f) + 1]
<1> DEFINE P(k) == /\ \A j \in 1 .. k : bs[j].first <= s
                   /\ \A j \in k + 1 .. Len(bs) : bs[j].first > s
<1>1. /\ Len(bs) \in Nat
      /\ TailStart(bs, f) \in Nat
      /\ \A j \in 1 .. Len(bs) : /\ bs[j].first \in Nat /\ bs[j].len \in Nat
                                 /\ LastOf(bs[j]) \in Nat
                                 /\ bs[j].first <= LastOf(bs[j])
                                 /\ LastOf(bs[j]) < TailStart(bs, f)
  BY BelowTail
<1>2. P(Len(bs))
  BY <1>1
<1>3. \A k \in 0 .. Len(bs) : P(k) => k = Len(bs)
  BY <1>1
<1>4. IndexOf(bs, s) = CHOOSE k \in 0 .. Len(bs) : P(k)
  BY DEF IndexOf
<1> HIDE DEF P
<1>5. IndexOf(bs, s) = Len(bs)
  BY <1>1, <1>2, <1>3, <1>4
<1>6. ~(Len(bs) > 0 /\ s - bs[Len(bs)].first < bs[Len(bs)].len)
  BY <1>1 DEF LastOf
<1> QED BY <1>5, <1>6 DEF EntryAt

-----------------------------------------------------------------------------
(***************************************************************************)
(* What the calls do to a sound view.                                      *)
(***************************************************************************)

\* The slot after the view's last one.
EndOf(bs, t, f) == TailStart(bs, f) + Len(t)

\* A slot the view holds is in one slab or in the tail.
LEMMA SlabOrTail ==
    ASSUME NEW ss, NEW bs, NEW t, NEW f, Sound(ss, bs, t, f),
           NEW s \in Nat, f <= s
    PROVE  \/ \E i \in 1 .. Len(bs) : Holds(bs[i], s)
           \/ TailStart(bs, f) <= s
  BY BelowTail DEF Sound, Covered

\* Entries that go on where the view ends extend it.
LEMMA ExtendTail ==
    ASSUME NEW ss, NEW bs, NEW t, NEW f, Sound(ss, bs, t, f),
           NEW es \in Seq(Entry),
           \A k \in 1 .. Len(es) : es[k].slot = EndOf(bs, t, f) + k - 1
    PROVE  /\ Sound(ss, bs, t \o es, f)
           /\ EndOf(bs, t \o es, f) = EndOf(bs, t, f) + Len(es)
           /\ \A s \in Nat : f <= s /\ s < EndOf(bs, t, f) + Len(es) =>
                  EntryAt(ss, bs, t \o es, f, s) =
                      IF s < EndOf(bs, t, f) THEN EntryAt(ss, bs, t, f, s)
                      ELSE es[s - EndOf(bs, t, f) + 1]
<1> DEFINE n == TailStart(bs, f)
           u == t \o es
<1>1. t \in Seq(Entry) /\ Len(t) \in Nat /\ Len(es) \in Nat /\ n \in Nat
  <2>1. t \in Seq(Entry)
    BY DEF Sound, Typed
  <2>2. n \in Nat
    BY BelowTail
  <2> QED BY <2>1, <2>2
<1>2. /\ u \in Seq(Entry)
      /\ Len(u) = Len(t) + Len(es)
      /\ \A k \in 1 .. Len(t) : u[k] = t[k]
      /\ \A k \in 1 .. Len(es) : u[Len(t) + k] = es[k]
  BY <1>1
<1>3. EndOf(bs, t, f) = n + Len(t)
  BY DEF EndOf
<1>4. \A k \in 1 .. Len(t) : t[k].slot = n + k - 1
  BY DEF Sound
<1> HIDE DEF u, n
<1>5. \A k \in 1 .. Len(u) : u[k].slot = n + k - 1
  <2> SUFFICES ASSUME NEW k \in 1 .. Len(u) PROVE u[k].slot = n + k - 1
    OBVIOUS
  <2>1. CASE k \in 1 .. Len(t)
    BY <2>1, <1>1, <1>2, <1>4
  <2>2. CASE k \notin 1 .. Len(t)
    <3>1. PICK m \in 1 .. Len(es) : k = Len(t) + m
      <4>1. k - Len(t) \in 1 .. Len(es) /\ k = Len(t) + (k - Len(t))
        BY <2>2, <1>1, <1>2
      <4> QED BY <4>1
    <3>2. es[m].slot = n + Len(t) + m - 1 /\ u[k] = es[m]
      BY <3>1, <1>2, <1>3
    <3> QED BY <3>1, <3>2, <1>1
  <2> QED BY <2>1, <2>2, <1>1, <1>2
<1>6. Sound(ss, bs, u, f)
  BY <1>2, <1>5 DEF Sound, Typed, n
<1>7. EndOf(bs, u, f) = n + Len(t) + Len(es)
  BY <1>1, <1>2 DEF EndOf, n
<1>8. ASSUME NEW s \in Nat, f <= s, s < n + Len(t) + Len(es)
      PROVE  EntryAt(ss, bs, u, f, s) =
                 IF s < n + Len(t) THEN EntryAt(ss, bs, t, f, s)
                 ELSE es[s - (n + Len(t)) + 1]
  <2>1. CASE \E i \in 1 .. Len(bs) : Holds(bs[i], s)
    <3>1. PICK i \in 1 .. Len(bs) : Holds(bs[i], s)
      BY <2>1
    <3>2. EntryAt(ss, bs, u, f, s) = EntryAt(ss, bs, t, f, s)
      BY <3>1, <1>6, ReadSlab
    <3>3. s < n
      BY <3>1, BelowTail, <1>1 DEF Holds, n
    <3> QED BY <3>2, <3>3, <1>1
  <2>2. CASE n <= s
    <3>1. EntryAt(ss, bs, u, f, s) = u[s - n + 1]
      BY <2>2, <1>6, ReadTail DEF n
    <3>2. EntryAt(ss, bs, t, f, s) = t[s - n + 1]
      BY <2>2, ReadTail DEF n
    <3>3. s - n + 1 \in 1 .. Len(u)
      BY <1>1, <1>2, <1>8, <2>2
    <3>4. CASE s < n + Len(t)
      BY SMTT(30), <3>1, <3>2, <3>3, <3>4, <1>1, <1>2
    <3>5. CASE ~(s < n + Len(t))
      <4>1. PICK m \in 1 .. Len(es) : /\ s - n + 1 = Len(t) + m
                                      /\ m = s - (n + Len(t)) + 1
        <5>1. s - (n + Len(t)) + 1 \in 1 .. Len(es)
          BY <3>3, <3>5, <1>1, <1>2
        <5>2. s - n + 1 = Len(t) + (s - (n + Len(t)) + 1)
          BY <1>1
        <5> QED BY <5>1, <5>2
      <4>2. u[s - n + 1] = es[m]
        BY <4>1, <1>2
      <4> QED BY <3>1, <3>5, <4>1, <4>2
    <3> QED BY <3>4, <3>5
  <2> QED BY <2>1, <2>2, <1>8, SlabOrTail DEF n
<1> QED BY <1>3, <1>6, <1>7, <1>8 DEF u

\* seal_tail: the tail becomes the last slab and nothing reads differently.
LEMMA Seal ==
    ASSUME NEW ss, NEW bs, NEW t, NEW f, Sound(ss, bs, t, f), t # <<>>
    PROVE  /\ Sound(Append(ss, t), Append(bs, BoundaryOf(t)), <<>>, f)
           /\ EndOf(Append(bs, BoundaryOf(t)), <<>>, f) = EndOf(bs, t, f)
           /\ \A s \in Nat : f <= s /\ s < EndOf(bs, t, f) =>
                  EntryAt(Append(ss, t), Append(bs, BoundaryOf(t)), <<>>, f, s)
                      = EntryAt(ss, bs, t, f, s)
<1> DEFINE n == TailStart(bs, f)
           b == BoundaryOf(t)
           bt == Append(bs, b)
           st == Append(ss, t)
<1>1. /\ ss \in Seq(Seq(Entry)) /\ bs \in Seq(Boundary) /\ t \in Seq(Entry)
      /\ f \in Nat /\ Len(ss) = Len(bs) /\ Len(bs) \in Nat /\ Len(t) \in Nat
      /\ Len(t) > 0 /\ n \in Nat /\ f <= n
  BY SMTT(30), BelowTail DEF Sound, Typed
<1>2. \A k \in 1 .. Len(t) : t[k].slot = n + k - 1 /\ t[k].slot \in Slot
  <2>1. \A k \in 1 .. Len(t) : t[k].slot = n + k - 1
    BY DEF Sound
  <2>2. \A k \in 1 .. Len(t) : t[k] \in Entry
    BY <1>1
  <2> QED BY <2>1, <2>2 DEF Entry
<1>3. b.first = n /\ b.len = Len(t) /\ b \in Boundary
  <2>1. t[1].slot = n /\ n \in Slot
    BY <1>1, <1>2
  <2> QED BY <2>1, <1>1 DEF BoundaryOf, Boundary
<1>4. LastOf(b) = n + Len(t) - 1
  BY <1>3 DEF LastOf
<1> HIDE DEF b
<1>5. /\ bt \in Seq(Boundary) /\ Len(bt) = Len(bs) + 1 /\ bt[Len(bs) + 1] = b
      /\ \A i \in 1 .. Len(bs) : bt[i] = bs[i]
      /\ st \in Seq(Seq(Entry)) /\ Len(st) = Len(bs) + 1 /\ st[Len(bs) + 1] = t
      /\ \A i \in 1 .. Len(bs) : st[i] = ss[i]
      /\ bt # <<>>
  BY <1>1, <1>3
<1> HIDE DEF bt, st
<1>6. TailStart(bt, f) = n + Len(t)
  BY <1>1, <1>4, <1>5 DEF TailStart
<1>7. \A i \in 1 .. Len(bs) : /\ bt[i] = bs[i] /\ bt[i].first <= LastOf(bt[i])
                              /\ LastOf(bt[i]) < n /\ LastOf(bt[i]) \in Nat
                              /\ bt[i].first \in Nat
  BY <1>5, BelowTail DEF n
<1> HIDE DEF n
<1>8. Sound(st, bt, <<>>, f)
  <2>1. Typed(st, bt, <<>>, f)
    BY <1>1, <1>5 DEF Typed
  <2>2. ASSUME NEW i \in 1 .. Len(bt) PROVE SlabOk(st[i], bt[i]) /\ f <= bt[i].first
    <3>1. CASE i = Len(bs) + 1
      BY <3>1, <1>1, <1>2, <1>3, <1>5 DEF SlabOk
    <3>2. CASE i # Len(bs) + 1
      <4>1. i \in 1 .. Len(bs)
        BY <2>2, <3>2, <1>1, <1>5
      <4>2. SlabOk(ss[i], bs[i]) /\ f <= bs[i].first
        BY <4>1 DEF Sound
      <4> QED BY <4>1, <4>2, <1>5
    <3> QED BY <3>1, <3>2
  <2>3. Sorted(bt)
    <3> SUFFICES ASSUME NEW i \in 1 .. Len(bt), NEW j \in 1 .. Len(bt), i < j
                 PROVE  LastOf(bt[i]) < bt[j].first
      BY DEF Sorted
    <3>1. i \in 1 .. Len(bs)
      BY <1>1, <1>5
    <3>2. CASE j = Len(bs) + 1
      BY <3>1, <3>2, <1>3, <1>5, <1>7
    <3>3. CASE j # Len(bs) + 1
      <4>1. j \in 1 .. Len(bs)
        BY <3>3, <1>1, <1>5
      <4>2. LastOf(bs[i]) < bs[j].first
        BY <3>1, <4>1 DEF Sound, Sorted
      <4> QED BY <3>1, <4>1, <4>2, <1>5
    <3> QED BY <3>2, <3>3
  <2>4. Covered(bt, f)
    <3> SUFFICES ASSUME NEW s \in Nat, f <= s, s < n + Len(t)
                 PROVE  \E i \in 1 .. Len(bt) : Holds(bt[i], s)
      BY <1>6 DEF Covered
    <3>1. CASE n <= s
      <4>1. Len(bs) + 1 \in 1 .. Len(bt) /\ Holds(bt[Len(bs) + 1], s)
        BY <3>1, <1>1, <1>3, <1>4, <1>5 DEF Holds
      <4> QED BY <4>1
    <3>2. CASE \E i \in 1 .. Len(bs) : Holds(bs[i], s)
      <4>1. PICK i \in 1 .. Len(bs) : Holds(bs[i], s)
        BY <3>2
      <4>2. i \in 1 .. Len(bt) /\ Holds(bt[i], s)
        BY <4>1, <1>1, <1>5
      <4> QED BY <4>2
    <3> QED BY <3>1, <3>2, SlabOrTail DEF n
  <2> QED BY <2>1, <2>2, <2>3, <2>4, <1>5 DEF Sound
<1>9. ASSUME NEW s \in Nat, f <= s, s < n + Len(t)
      PROVE  EntryAt(st, bt, <<>>, f, s) = EntryAt(ss, bs, t, f, s)
  <2>1. CASE n <= s
    <3>1. Len(bs) + 1 \in 1 .. Len(bt) /\ Holds(bt[Len(bs) + 1], s)
      BY <2>1, <1>9, <1>1, <1>3, <1>4, <1>5 DEF Holds
    <3>2. EntryAt(st, bt, <<>>, f, s) = st[Len(bs) + 1][s - bt[Len(bs) + 1].first + 1]
      BY <3>1, <1>8, ReadSlab
    <3>3. EntryAt(ss, bs, t, f, s) = t[s - n + 1]
      BY <2>1, ReadTail DEF n
    <3> QED BY <3>2, <3>3, <1>3, <1>5
  <2>2. CASE \E i \in 1 .. Len(bs) : Holds(bs[i], s)
    <3>1. PICK i \in 1 .. Len(bs) : Holds(bs[i], s)
      BY <2>2
    <3>2. i \in 1 .. Len(bt) /\ Holds(bt[i], s) /\ bt[i] = bs[i] /\ st[i] = ss[i]
      BY <3>1, <1>1, <1>5
    <3>3. EntryAt(st, bt, <<>>, f, s) = st[i][s - bt[i].first + 1]
      BY <3>2, <1>8, ReadSlab
    <3>4. EntryAt(ss, bs, t, f, s) = ss[i][s - bs[i].first + 1]
      BY <3>1, ReadSlab
    <3> QED BY <3>2, <3>3, <3>4
  <2> QED BY <2>1, <2>2, <1>9, SlabOrTail DEF n
<1>10. EndOf(bs, t, f) = n + Len(t) /\ EndOf(bt, <<>>, f) = n + Len(t)
  BY <1>1, <1>6 DEF EndOf, n
<1> QED BY <1>8, <1>9, <1>10 DEF bt, st, b

\* reclaim_through drops the first d slabs; the rest starts at g.
Dropped(ss, bs, f, d, g, sd, bd) ==
    /\ d \in 0 .. Len(bs)
    /\ g = IF d < Len(bs) THEN bs[d + 1].first ELSE TailStart(bs, f)
    /\ sd = SubSeq(ss, d + 1, Len(ss)) /\ bd = SubSeq(bs, d + 1, Len(bs))

\* The first slot moves to where the rest starts, and nothing else reads
\* differently.
LEMMA DropFront ==
    ASSUME NEW ss, NEW bs, NEW t, NEW f, Sound(ss, bs, t, f),
           NEW d, NEW g, NEW sd, NEW bd, Dropped(ss, bs, f, d, g, sd, bd)
    PROVE  /\ Sound(sd, bd, t, g)
           /\ TailStart(bd, g) = TailStart(bs, f)
           /\ g \in Nat /\ f <= g /\ g <= TailStart(bs, f)
           /\ \A s \in Nat : g <= s =>
                  EntryAt(sd, bd, t, g, s) = EntryAt(ss, bs, t, f, s)
<1> USE DEF Dropped
<1> DEFINE n == TailStart(bs, f)
<1>1. /\ ss \in Seq(Seq(Entry)) /\ bs \in Seq(Boundary) /\ t \in Seq(Entry)
      /\ f \in Nat /\ Len(ss) = Len(bs) /\ Len(bs) \in Nat
  BY DEF Sound, Typed
<1>2. /\ n \in Nat /\ f <= n
      /\ \A i \in 1 .. Len(bs) :
            /\ bs[i].first \in Nat /\ bs[i].first <= LastOf(bs[i])
            /\ LastOf(bs[i]) \in Nat /\ LastOf(bs[i]) < n
  BY BelowTail
<1>3. /\ bd \in Seq(Boundary) /\ Len(bd) = Len(bs) - d
      /\ sd \in Seq(Seq(Entry)) /\ Len(sd) = Len(bs) - d
      /\ \A i \in 1 .. Len(bs) - d : /\ d + i \in 1 .. Len(bs)
                                      /\ bd[i] = bs[d + i]
                                      /\ sd[i] = ss[d + i]
  BY SMTT(30), <1>1
<1>4. g \in Nat /\ g <= n
  <2>1. CASE d < Len(bs)
    <3>1. d + 1 \in 1 .. Len(bs)
      BY <2>1, <1>1
    <3> QED BY <2>1, <3>1, <1>2
  <2>2. CASE ~(d < Len(bs))
    BY <2>2, <1>2
  <2> QED BY <2>1, <2>2
<1>5. f <= g
  <2>1. CASE d < Len(bs)
    <3>1. d + 1 \in 1 .. Len(bs)
      BY <2>1, <1>1
    <3> QED BY <2>1, <3>1 DEF Sound
  <2>2. CASE ~(d < Len(bs))
    BY <2>2, <1>2
  <2> QED BY <2>1, <2>2
<1>6. TailStart(bd, g) = n
  <2>1. CASE d < Len(bs)
    <3>1. Len(bs) - d \in 1 .. Len(bs) - d /\ d + (Len(bs) - d) = Len(bs)
      BY <2>1, <1>1
    <3>2. bd[Len(bd)] = bs[Len(bs)]
      BY <3>1, <1>3
    <3>3. Len(bd) > 0 /\ Len(bs) > 0
      BY <2>1, <1>1, <1>3
    <3>4. bd # <<>> /\ bs # <<>>
      BY ONLY <3>3
    <3> QED BY <3>2, <3>4 DEF TailStart
  <2>2. CASE ~(d < Len(bs))
    <3>1. bd = <<>> /\ g = n
      BY <2>2, <1>1, <1>3
    <3> QED BY <3>1 DEF TailStart
  <2> QED BY <2>1, <2>2
<1>7. Sorted(bs)
  BY DEF Sound
\* The slab that holds a slot from g on is not dropped.
<1>8. ASSUME NEW s \in Nat, g <= s, NEW i \in 1 .. Len(bs), Holds(bs[i], s)
      PROVE  i - d \in 1 .. Len(bd) /\ bd[i - d] = bs[i] /\ sd[i - d] = ss[i]
  <2>1. bs[i].first <= s /\ s <= LastOf(bs[i])
    BY <1>8 DEF Holds
  <2>2. i > d
    <3>1. SUFFICES ASSUME i <= d PROVE FALSE
      BY <1>1
    <3>2. CASE d < Len(bs)
      <4>1. d + 1 \in 1 .. Len(bs) /\ i < d + 1
        BY <3>1, <3>2, <1>1
      <4>2. LastOf(bs[i]) < bs[d + 1].first
        BY <4>1, <1>7 DEF Sorted
      <4> QED BY <3>2, <4>1, <4>2, <2>1, <1>2, <1>8
    <3>3. CASE ~(d < Len(bs))
      BY <3>3, <2>1, <1>2, <1>8
    <3> QED BY <3>2, <3>3
  <2>3. i - d \in 1 .. Len(bs) - d /\ d + (i - d) = i
    BY <2>2, <1>1
  <2> QED BY <2>3, <1>3
<1> HIDE DEF n
<1>9. Sound(sd, bd, t, g)
  <2>1. Typed(sd, bd, t, g)
    BY <1>1, <1>3, <1>4 DEF Typed
  <2>2. ASSUME NEW i \in 1 .. Len(bd) PROVE SlabOk(sd[i], bd[i]) /\ g <= bd[i].first
    <3>1. d + i \in 1 .. Len(bs) /\ bd[i] = bs[d + i] /\ sd[i] = ss[d + i]
      BY <1>3
    <3>2. SlabOk(ss[d + i], bs[d + i])
      BY <3>1 DEF Sound
    <3>3. d + 1 \in 1 .. Len(bs) /\ g = bs[d + 1].first
      BY SMTT(30), <1>1, <1>3
    <3>4. CASE i = 1
      <4>1. bd[i] = bs[d + 1] /\ bs[d + 1].first \in Nat
        BY <3>1, <3>3, <3>4, <1>2
      <4>2. g <= bd[i].first
        BY <4>1, <3>3
      <4> QED BY <3>1, <3>2, <4>2
    <3>5. CASE i # 1
      <4>1. d + 1 < d + i
        BY <3>5, <1>1, <1>3
      <4>2. LastOf(bs[d + 1]) < bs[d + i].first
        BY <3>1, <3>3, <4>1, <1>7 DEF Sorted
      <4>3. /\ bs[d + 1].first <= LastOf(bs[d + 1])
            /\ bs[d + 1].first \in Nat /\ LastOf(bs[d + 1]) \in Nat
        BY <3>3, <1>2
      <4>4. bs[d + i].first \in Nat
        BY <3>1, <1>2
      <4>5. g <= bs[d + i].first
        BY <3>3, <4>2, <4>3, <4>4
      <4> QED BY <3>1, <3>2, <4>5
    <3> QED BY <3>4, <3>5
  <2>3. Sorted(bd)
    <3> SUFFICES ASSUME NEW i \in 1 .. Len(bd), NEW j \in 1 .. Len(bd), i < j
                 PROVE  LastOf(bd[i]) < bd[j].first
      BY DEF Sorted
    <3>1. /\ d + i \in 1 .. Len(bs) /\ bd[i] = bs[d + i]
          /\ d + j \in 1 .. Len(bs) /\ bd[j] = bs[d + j]
      BY <1>3
    <3>2. d + i < d + j
      BY <1>1, <1>3
    <3> QED BY <3>1, <3>2, <1>7 DEF Sorted
  <2>4. Covered(bd, g)
    <3> SUFFICES ASSUME NEW s \in Nat, g <= s, s < n
                 PROVE  \E i \in 1 .. Len(bd) : Holds(bd[i], s)
      BY <1>6 DEF Covered
    <3>1. PICK i \in 1 .. Len(bs) : Holds(bs[i], s)
      BY SMTT(30), <1>4, <1>5, <1>1 DEF Sound, Covered, n
    <3>2. i - d \in 1 .. Len(bd) /\ bd[i - d] = bs[i]
      BY <3>1, <1>8
    <3> QED BY <3>1, <3>2
  <2>5. \A k \in 1 .. Len(t) : t[k].slot = TailStart(bd, g) + k - 1
    BY <1>6 DEF Sound, n
  <2> QED BY <2>1, <2>2, <2>3, <2>4, <2>5, <1>3 DEF Sound
<1>10. ASSUME NEW s \in Nat, g <= s
       PROVE  EntryAt(sd, bd, t, g, s) = EntryAt(ss, bs, t, f, s)
  <2>1. CASE n <= s
    <3>1. EntryAt(sd, bd, t, g, s) = t[s - n + 1]
      BY <2>1, <1>6, <1>9, ReadTail
    <3>2. EntryAt(ss, bs, t, f, s) = t[s - n + 1]
      BY <2>1, ReadTail DEF n
    <3> QED BY <3>1, <3>2
  <2>2. CASE \E i \in 1 .. Len(bs) : Holds(bs[i], s)
    <3>1. PICK i \in 1 .. Len(bs) : Holds(bs[i], s)
      BY <2>2
    <3>2. PICK j \in 1 .. Len(bd) : bd[j] = bs[i] /\ sd[j] = ss[i]
      BY <3>1, <1>8, <1>10
    <3>3. EntryAt(sd, bd, t, g, s) = sd[j][s - bd[j].first + 1]
      <4>1. Holds(bd[j], s)
        BY <3>1, <3>2
      <4>2. s \in Nat /\ j \in 1 .. Len(bd)
        BY <3>2
      <4> QED BY ONLY <4>1, <4>2, <1>9, ReadSlab
    <3>4. EntryAt(ss, bs, t, f, s) = ss[i][s - bs[i].first + 1]
      BY <3>1, ReadSlab
    <3> QED BY <3>2, <3>3, <3>4
  <2>3. f <= s
    BY <1>1, <1>4, <1>5, <1>10
  <2> QED BY <2>1, <2>2, <2>3, SlabOrTail DEF n
<1> QED BY <1>4, <1>5, <1>6, <1>9, <1>10 DEF n

\* The slabs leave no gap: when the slabs dropped end at or before slot x, the
\* rest starts at or before the slot after it.
LEMMA DropBound ==
    ASSUME NEW ss, NEW bs, NEW t, NEW f, Sound(ss, bs, t, f),
           NEW d, NEW g, NEW sd, NEW bd, Dropped(ss, bs, f, d, g, sd, bd),
           NEW x \in Nat, \A i \in 1 .. d : LastOf(bs[i]) <= x
    PROVE  g = f \/ g <= x + 1
<1> DEFINE n == TailStart(bs, f)
<1>1. /\ n \in Nat /\ f <= n /\ Len(bs) \in Nat /\ f \in Nat
      /\ \A i \in 1 .. Len(bs) :
            /\ bs[i].first \in Nat /\ bs[i].first <= LastOf(bs[i])
            /\ LastOf(bs[i]) \in Nat /\ LastOf(bs[i]) < n
  BY BelowTail DEF Sound, Typed
<1>2. /\ Sorted(bs) /\ Covered(bs, f)
      /\ \A i \in 1 .. Len(bs) : f <= bs[i].first
  BY DEF Sound
<1>3. d \in 0 .. Len(bs) /\ g = IF d < Len(bs) THEN bs[d + 1].first ELSE n
  BY DEF Dropped
<1>4. bs = <<>> => n = f
  BY DEF TailStart
<1>5. bs # <<>> => n = LastOf(bs[Len(bs)]) + 1 /\ Len(bs) >= 1
  <2>1. bs \in Seq(Boundary)
    BY DEF Sound, Typed
  <2> QED BY <2>1 DEF TailStart
<1>6. \A s \in Nat : f <= s /\ s < n =>
          \E i \in 1 .. Len(bs) : bs[i].first <= s /\ s <= LastOf(bs[i])
  BY <1>2 DEF Covered, Holds
<1>7. \A i, j \in 1 .. Len(bs) : i < j => LastOf(bs[i]) < bs[j].first
  BY <1>2 DEF Sorted
<1> HIDE DEF n
<1>8. CASE d = Len(bs) /\ d = 0
  <2>1. bs = <<>>
    BY <1>1, <1>5, <1>8
  <2> QED BY <2>1, <1>3, <1>4, <1>8
<1>9. CASE d = Len(bs) /\ d > 0
  <2>1. n = LastOf(bs[d]) + 1 /\ d \in 1 .. d
    BY <1>1, <1>5, <1>9
  <2> QED BY <2>1, <1>1, <1>3, <1>9
<1>10. CASE d < Len(bs)
  <2>1. d + 1 \in 1 .. Len(bs) /\ g = bs[d + 1].first
    BY <1>1, <1>3, <1>10
  <2>2. CASE d = 0
    <3>1. f < n
      BY <2>1, <1>1, <1>2
    <3>2. PICK j \in 1 .. Len(bs) : bs[j].first <= f /\ f <= LastOf(bs[j])
      BY <3>1, <1>1, <1>6
    <3>3. ~(1 < j)
      <4>1. 1 \in 1 .. Len(bs) /\ f <= bs[1].first /\ bs[1].first <= LastOf(bs[1])
        BY <2>1, <2>2, <1>1, <1>2
      <4> QED BY <4>1, <3>2, <1>1, <1>7
    <3>4. j = 1
      BY <3>3, <1>1
    <3> QED BY <3>2, <3>4, <2>1, <2>2, <1>1, <1>2
  <2>3. CASE d > 0
    <3> DEFINE s == LastOf(bs[d]) + 1
    <3>1. d \in 1 .. Len(bs) /\ d \in 1 .. d /\ s \in Nat /\ f <= s
      BY <2>3, <1>1, <1>2, <1>3
    <3>2. LastOf(bs[d]) < bs[d + 1].first /\ bs[d + 1].first < n
      BY <2>1, <3>1, <1>1, <1>7
    <3>3. s < n
      BY <3>1, <3>2, <2>1, <1>1
    <3> HIDE DEF s
    <3>4. PICK j \in 1 .. Len(bs) : bs[j].first <= s /\ s <= LastOf(bs[j])
      BY <3>1, <3>3, <1>6
    <3>5. d < j
      <4>1. LastOf(bs[j]) > LastOf(bs[d])
        BY <3>1, <3>4, <1>1 DEF s
      <4>2. ~(j < d)
        BY <4>1, <3>1, <1>1, <1>7
      <4>3. j # d
        BY <4>1, <3>1, <1>1
      <4> QED BY <4>2, <4>3, <3>1
    <3>6. bs[d + 1].first <= bs[j].first
      <4>1. CASE j = d + 1
        BY <4>1, <1>1
      <4>2. CASE j # d + 1
        <5>1. d + 1 < j
          BY <4>2, <3>1, <3>5
        <5> QED BY <5>1, <2>1, <1>1, <1>7
      <4> QED BY <4>1, <4>2
    <3>7. LastOf(bs[d]) <= x
      BY <3>1
    <3> QED BY SMTT(30), <3>1, <3>4, <3>6, <3>7, <2>1, <1>1 DEF s
  <2> QED BY <2>2, <2>3, <1>3
<1> QED BY <1>1, <1>3, <1>8, <1>9, <1>10

\* What install_suffix keeps below slot at: the slabs sc with boundaries bc
\* and the tail tc are those of the view, cut at that slot.
CutAt(ss, bs, t, at, sc, bc, tc) ==
    /\ sc \in Seq(Seq(Entry)) /\ bc \in Seq(Boundary) /\ tc \in Seq(Entry)
    /\ Len(bc) <= Len(bs) /\ Len(sc) = Len(bc)
    /\ \A i \in 1 .. Len(bc) :
          /\ bc[i].first = bs[i].first /\ bs[i].first < at
          /\ LastOf(bc[i]) = IF LastOf(bs[i]) < at THEN LastOf(bs[i]) ELSE at - 1
          /\ bc[i].len = Len(sc[i])
          /\ \A k \in 1 .. Len(sc[i]) : k \in 1 .. Len(ss[i]) /\ sc[i][k] = ss[i][k]
    /\ \A i \in Len(bc) + 1 .. Len(bs) : bs[i].first >= at
    /\ Len(tc) <= Len(t)
    /\ \A k \in 1 .. Len(tc) : tc[k] = t[k] /\ t[k].slot < at
    /\ \A k \in Len(tc) + 1 .. Len(t) : t[k].slot >= at

\* A view cut at a slot is sound, ends there, and reads as before below it.
LEMMA Cut ==
    ASSUME NEW ss, NEW bs, NEW t, NEW f, Sound(ss, bs, t, f),
           NEW at \in Nat, f <= at, at <= EndOf(bs, t, f),
           NEW sc, NEW bc, NEW tc, CutAt(ss, bs, t, at, sc, bc, tc)
    PROVE  /\ Sound(sc, bc, tc, f)
           /\ EndOf(bc, tc, f) = at
           /\ \A s \in Nat : f <= s /\ s < at =>
                  EntryAt(sc, bc, tc, f, s) = EntryAt(ss, bs, t, f, s)
<1> DEFINE n == TailStart(bs, f)
           m == TailStart(bc, f)
<1>1. /\ t \in Seq(Entry) /\ f \in Nat /\ Len(bs) \in Nat /\ Len(t) \in Nat
      /\ bs \in Seq(Boundary) /\ Len(ss) = Len(bs) /\ Sorted(bs)
      /\ \A i \in 1 .. Len(bs) : SlabOk(ss[i], bs[i]) /\ f <= bs[i].first
  BY DEF Sound, Typed
<1>2. /\ n \in Nat /\ f <= n
      /\ \A i \in 1 .. Len(bs) :
            /\ bs[i].first \in Nat /\ bs[i].first <= LastOf(bs[i])
            /\ LastOf(bs[i]) \in Nat /\ LastOf(bs[i]) < n
  BY BelowTail
<1>3. \A k \in 1 .. Len(t) : t[k].slot = n + k - 1
  BY DEF Sound
<1>4. at <= n + Len(t)
  BY DEF EndOf
<1>5. /\ sc \in Seq(Seq(Entry)) /\ bc \in Seq(Boundary) /\ tc \in Seq(Entry)
      /\ Len(bc) \in Nat /\ Len(tc) \in Nat
      /\ Len(bc) <= Len(bs) /\ Len(sc) = Len(bc) /\ Len(tc) <= Len(t)
      /\ \A k \in 1 .. Len(tc) : tc[k] = t[k] /\ t[k].slot < at
      /\ \A k \in Len(tc) + 1 .. Len(t) : t[k].slot >= at
      /\ \A i \in Len(bc) + 1 .. Len(bs) : bs[i].first >= at
  BY DEF CutAt
<1>6. \A i \in 1 .. Len(bc) :
          /\ i \in 1 .. Len(bs)
          /\ bc[i].first = bs[i].first /\ bs[i].first < at
          /\ LastOf(bc[i]) = IF LastOf(bs[i]) < at THEN LastOf(bs[i]) ELSE at - 1
          /\ bc[i].len = Len(sc[i])
          /\ \A k \in 1 .. Len(sc[i]) : k \in 1 .. Len(ss[i]) /\ sc[i][k] = ss[i][k]
  BY <1>1, <1>5 DEF CutAt
\* The slab that holds a slot below the cut is kept, and so is the slot.
<1>7. ASSUME NEW s \in Nat, s < at, NEW i \in 1 .. Len(bs), Holds(bs[i], s)
      PROVE  i \in 1 .. Len(bc) /\ Holds(bc[i], s)
  <2>1. bs[i].first <= s /\ s <= LastOf(bs[i])
    BY <1>7 DEF Holds
  <2>2. i \in 1 .. Len(bc)
    <3> SUFFICES ASSUME i \in Len(bc) + 1 .. Len(bs) PROVE FALSE
      BY <1>1, <1>5
    <3>1. bs[i].first >= at /\ bs[i].first \in Nat
      BY <1>2, <1>5
    <3> QED BY <2>1, <3>1, <1>7
  <2>3. bc[i].first <= s /\ s <= LastOf(bc[i])
    BY <2>1, <2>2, <1>2, <1>6, <1>7
  <2> QED BY <2>2, <2>3 DEF Holds
<1>8. ASSUME NEW s \in Nat, f <= s, s < n
      PROVE  \E i \in 1 .. Len(bs) : Holds(bs[i], s)
  BY <1>8 DEF Sound, Covered
<1> HIDE DEF n
<1>9. ASSUME at <= n PROVE Len(tc) = 0 /\ m = at
  <2>1. Len(tc) = 0
    <3> SUFFICES ASSUME Len(tc) > 0 PROVE FALSE
      BY <1>5
    <3>1. 1 \in 1 .. Len(tc) /\ 1 \in 1 .. Len(t)
      BY <1>1, <1>5
    <3>2. t[1].slot < at /\ t[1].slot = n
      BY <3>1, <1>2, <1>3, <1>5
    <3> QED BY <3>2, <1>2, <1>9
  <2>2. ASSUME Len(bc) = 0 PROVE m = at
    <3>1. bc = <<>>
      BY <2>2, <1>5
    <3>2. m = f
      BY <3>1 DEF TailStart
    <3>3. f = at
      <4> SUFFICES ASSUME f # at PROVE FALSE
        OBVIOUS
      <4>1. f < at /\ f < n
        BY <1>1, <1>2, <1>9
      <4>2. PICK i \in 1 .. Len(bs) : Holds(bs[i], f)
        BY <4>1, <1>1, <1>8
      <4>3. i \in 1 .. Len(bc)
        BY <4>1, <4>2, <1>1, <1>7
      <4> QED BY <4>3, <2>2
    <3> QED BY <3>2, <3>3
  <2>3. ASSUME Len(bc) > 0 PROVE m = at
    <3> DEFINE k == Len(bc)
    <3>1. k \in 1 .. Len(bc) /\ k \in 1 .. Len(bs) /\ bc # <<>>
      BY <2>3, <1>1, <1>5
    <3>2. m = LastOf(bc[k]) + 1
      BY <3>1 DEF TailStart
    <3> HIDE DEF k
    <3>3. /\ bs[k].first < at /\ f <= bs[k].first /\ bs[k].first \in Nat
          /\ LastOf(bs[k]) \in Nat
          /\ LastOf(bc[k]) = IF LastOf(bs[k]) < at THEN LastOf(bs[k]) ELSE at - 1
      BY <3>1, <1>1, <1>2, <1>6
    <3>4. at - 1 \in Nat /\ f <= at - 1 /\ at - 1 < n
      BY <3>3, <1>1, <1>2, <1>9
    <3>5. PICK i \in 1 .. Len(bs) : Holds(bs[i], at - 1)
      BY <3>4, <1>8
    <3>6. i \in 1 .. Len(bc) /\ i <= k
      <4>1. at - 1 < at
        OBVIOUS
      <4>2. i \in 1 .. Len(bc)
        BY <3>4, <3>5, <4>1, <1>7
      <4> QED BY <4>2, <1>5 DEF k
    <3>7. i = k
      <4> SUFFICES ASSUME i < k PROVE FALSE
        BY <3>1, <3>6
      <4>1. LastOf(bs[i]) < bs[k].first
        BY <3>1, <1>1 DEF Sorted
      <4>2. at - 1 <= LastOf(bs[i]) /\ LastOf(bs[i]) \in Nat
        BY <3>5, <1>2 DEF Holds
      <4> QED BY <3>3, <3>4, <4>1, <4>2
    <3>8. at - 1 <= LastOf(bs[k])
      BY <3>5, <3>7 DEF Holds
    <3>9. LastOf(bc[k]) = at - 1
      BY <3>3, <3>8
    <3> QED BY <3>2, <3>9
  <2>4. m = at
    BY <2>2, <2>3, <1>5
  <2> QED BY <2>1, <2>4, <1>5
<1>10. ASSUME at > n PROVE m = n /\ at = n + Len(tc)
  <2>1. Len(bc) = Len(bs)
    <3> SUFFICES ASSUME Len(bc) < Len(bs) PROVE FALSE
      BY <1>1, <1>5
    <3>1. /\ Len(bc) + 1 \in Len(bc) + 1 .. Len(bs)
          /\ Len(bc) + 1 \in 1 .. Len(bs)
      BY <1>1, <1>5
    <3>2. /\ bs[Len(bc) + 1].first >= at /\ bs[Len(bc) + 1].first \in Nat
          /\ LastOf(bs[Len(bc) + 1]) \in Nat
          /\ bs[Len(bc) + 1].first <= LastOf(bs[Len(bc) + 1])
          /\ LastOf(bs[Len(bc) + 1]) < n
      BY <3>1, <1>2, <1>5
    <3> QED BY <3>2, <1>2, <1>10
  <2>2. m = n
    <3>1. CASE Len(bs) = 0
      <4>1. bs = <<>> /\ bc = <<>>
        BY <3>1, <2>1, <1>1, <1>5
      <4> QED BY <4>1 DEF TailStart, n
    <3>2. CASE Len(bs) > 0
      <4>1. bs # <<>> /\ bc # <<>> /\ Len(bs) \in 1 .. Len(bc) /\ Len(bs) \in 1 .. Len(bs)
        BY <3>2, <2>1, <1>1, <1>5
      <4>2. LastOf(bc[Len(bs)]) = LastOf(bs[Len(bs)])
        BY <4>1, <1>2, <1>6, <1>10
      <4> QED BY <4>1, <4>2, <2>1 DEF TailStart, n
    <3> QED BY <3>1, <3>2, <1>1
  <2>3. n + Len(tc) <= at
    <3>1. CASE Len(tc) = 0
      BY <3>1, <1>2, <1>10
    <3>2. CASE Len(tc) > 0
      <4>1. Len(tc) \in 1 .. Len(tc) /\ Len(tc) \in 1 .. Len(t)
        BY <3>2, <1>1, <1>5
      <4>2. t[Len(tc)].slot < at /\ t[Len(tc)].slot = n + Len(tc) - 1
        BY <4>1, <1>3, <1>5
      <4> QED BY <4>2, <1>2, <1>5
    <3> QED BY <3>1, <3>2, <1>5
  <2>4. at <= n + Len(tc)
    <3>1. CASE Len(tc) = Len(t)
      BY <3>1, <1>4
    <3>2. CASE Len(tc) # Len(t)
      <4>1. /\ Len(tc) + 1 \in Len(tc) + 1 .. Len(t)
            /\ Len(tc) + 1 \in 1 .. Len(t)
        BY <3>2, <1>1, <1>5
      <4>2. t[Len(tc) + 1].slot >= at /\ t[Len(tc) + 1].slot = n + (Len(tc) + 1) - 1
        BY <4>1, <1>3, <1>5
      <4> QED BY <4>2, <1>2, <1>5
    <3> QED BY <3>1, <3>2
  <2>5. at = n + Len(tc)
    <3>1. n + Len(tc) \in Nat /\ at \in Nat
      BY <1>2, <1>5
    <3> QED BY ONLY <2>3, <2>4, <3>1
  <2> QED BY <2>2, <2>5
<1>11. /\ m \in Nat /\ m <= n /\ m <= at /\ m + Len(tc) = at
       /\ Len(tc) > 0 => m = n
  <2>1. CASE at <= n
    BY <2>1, <1>9, <1>2, <1>5
  <2>2. CASE at > n
    BY <2>2, <1>10, <1>2, <1>5
  <2> QED BY <2>1, <2>2, <1>2
<1> HIDE DEF m
<1>12. Sound(sc, bc, tc, f)
  <2>1. Typed(sc, bc, tc, f)
    BY <1>1, <1>5 DEF Typed
  <2>2. ASSUME NEW i \in 1 .. Len(bc) PROVE SlabOk(sc[i], bc[i]) /\ f <= bc[i].first
    <3>1. /\ i \in 1 .. Len(bs)
          /\ bc[i].first = bs[i].first /\ bs[i].first < at
          /\ LastOf(bc[i]) = IF LastOf(bs[i]) < at THEN LastOf(bs[i]) ELSE at - 1
          /\ bc[i].len = Len(sc[i])
          /\ \A k \in 1 .. Len(sc[i]) : k \in 1 .. Len(ss[i]) /\ sc[i][k] = ss[i][k]
      BY <1>6
    <3>2. SlabOk(ss[i], bs[i]) /\ f <= bs[i].first
      BY <3>1, <1>1
    <3>3. sc[i] \in Seq(Entry) /\ Len(sc[i]) \in Nat
      BY <1>5
    <3>4. bc[i].len > 0
      <4>1. bs[i].first <= LastOf(bc[i]) /\ bs[i].first \in Nat
        BY <3>1, <1>2
      <4>2. LastOf(bc[i]) = bs[i].first + Len(sc[i]) - 1
        BY <3>1 DEF LastOf
      <4> QED BY <3>1, <3>3, <4>1, <4>2
    <3>5. \A k \in 1 .. Len(sc[i]) : sc[i][k].slot = bc[i].first + k - 1
      BY <3>1, <3>2 DEF SlabOk
    <3> QED BY <3>1, <3>2, <3>4, <3>5 DEF SlabOk
  <2>3. Sorted(bc)
    <3> SUFFICES ASSUME NEW i \in 1 .. Len(bc), NEW j \in 1 .. Len(bc), i < j
                 PROVE  LastOf(bc[i]) < bc[j].first
      BY DEF Sorted
    <3>1. /\ i \in 1 .. Len(bs) /\ j \in 1 .. Len(bs)
          /\ bc[j].first = bs[j].first
          /\ LastOf(bc[i]) = IF LastOf(bs[i]) < at THEN LastOf(bs[i]) ELSE at - 1
      BY <1>6
    <3>2. LastOf(bs[i]) < bs[j].first
      BY <3>1, <1>1 DEF Sorted
    <3>3. LastOf(bs[i]) \in Nat /\ bs[j].first \in Nat
      BY <3>1, <1>2
    <3> QED BY <3>1, <3>2, <3>3
  <2>4. Covered(bc, f)
    <3> SUFFICES ASSUME NEW s \in Nat, f <= s, s < m
                 PROVE  \E i \in 1 .. Len(bc) : Holds(bc[i], s)
      BY DEF Covered, m
    <3>1. s < n /\ s < at
      BY <1>2, <1>11
    <3>2. PICK i \in 1 .. Len(bs) : Holds(bs[i], s)
      BY <3>1, <1>8
    <3>3. i \in 1 .. Len(bc) /\ Holds(bc[i], s)
      BY <3>1, <3>2, <1>7
    <3> QED BY <3>3
  <2>5. \A k \in 1 .. Len(tc) : tc[k].slot = m + k - 1
    <3> SUFFICES ASSUME NEW k \in 1 .. Len(tc) PROVE tc[k].slot = m + k - 1
      OBVIOUS
    <3>1. Len(tc) > 0 /\ k \in 1 .. Len(t)
      BY <1>1, <1>5
    <3>2. tc[k] = t[k] /\ t[k].slot = n + k - 1 /\ m = n
      BY <3>1, <1>3, <1>5, <1>11
    <3> QED BY <3>2
  <2> QED BY <2>1, <2>2, <2>3, <2>4, <2>5, <1>5 DEF Sound, m
<1>13. ASSUME NEW s \in Nat, f <= s, s < at
       PROVE  EntryAt(sc, bc, tc, f, s) = EntryAt(ss, bs, t, f, s)
  <2>1. CASE \E i \in 1 .. Len(bs) : Holds(bs[i], s)
    <3>1. PICK i \in 1 .. Len(bs) : Holds(bs[i], s)
      BY <2>1
    <3>2. i \in 1 .. Len(bc) /\ Holds(bc[i], s)
      BY <3>1, <1>7, <1>13
    <3>3. EntryAt(sc, bc, tc, f, s) = sc[i][s - bc[i].first + 1]
      BY <3>2, <1>12, ReadSlab
    <3>4. EntryAt(ss, bs, t, f, s) = ss[i][s - bs[i].first + 1]
      BY <3>1, ReadSlab
    <3>5. /\ bc[i].first = bs[i].first /\ bs[i].first \in Nat
          /\ bc[i].len = Len(sc[i])
          /\ \A k \in 1 .. Len(sc[i]) : sc[i][k] = ss[i][k]
      BY <3>1, <3>2, <1>2, <1>6
    <3>6. sc[i] \in Seq(Entry)
      BY <3>2, <1>5
    <3>7. s - bs[i].first + 1 \in 1 .. Len(sc[i])
      BY SMTT(30), <3>2, <3>5, <3>6 DEF Holds, LastOf
    <3> QED BY <3>3, <3>4, <3>5, <3>7
  <2>2. CASE n <= s
    <3>1. m = n /\ at = n + Len(tc)
      BY <2>2, <1>2, <1>10, <1>13
    <3>2. EntryAt(sc, bc, tc, f, s) = tc[s - n + 1]
      BY <2>2, <3>1, <1>12, ReadTail DEF m
    <3>3. EntryAt(ss, bs, t, f, s) = t[s - n + 1]
      BY <2>2, ReadTail DEF n
    <3>4. s - n + 1 \in 1 .. Len(tc)
      BY <2>2, <3>1, <1>2, <1>5, <1>13
    <3> QED BY <3>2, <3>3, <3>4, <1>5
  <2> QED BY <2>1, <2>2, <1>13, SlabOrTail DEF n
<1> QED BY <1>11, <1>12, <1>13 DEF EndOf, m

\* What install_suffix does to a view for a suffix that starts at slot from.
Cuts(ss, bs, t, from, kept, keptTail, sc, bc, tc) ==
    /\ kept \in 0 .. Len(bs) /\ keptTail \in 0 .. Len(t)
    /\ \A i \in 1 .. kept : bs[i].first < from
    /\ \A i \in kept + 1 .. Len(bs) : bs[i].first >= from
    /\ \A k \in 1 .. keptTail : t[k].slot < from
    /\ \A k \in keptTail + 1 .. Len(t) : t[k].slot >= from
    /\ bc = IF kept > 0 /\ LastOf(bs[kept]) >= from
            THEN [SubSeq(bs, 1, kept) EXCEPT ![kept].len = from - bs[kept].first]
            ELSE SubSeq(bs, 1, kept)
    /\ sc = IF kept > 0 /\ LastOf(bs[kept]) >= from
            THEN [SubSeq(ss, 1, kept) EXCEPT
                    ![kept] = SubSeq(@, 1, from - bs[kept].first)]
            ELSE SubSeq(ss, 1, kept)
    /\ tc = SubSeq(t, 1, keptTail)

\* Such a cut is a cut at that slot, or at the end of the view when the suffix
\* starts past it.
LEMMA CutBy ==
    ASSUME NEW ss, NEW bs, NEW t, NEW f, Sound(ss, bs, t, f),
           NEW from \in Nat, NEW at \in Nat,
           at = from \/ (at = EndOf(bs, t, f) /\ at <= from),
           NEW kept, NEW keptTail, NEW sc, NEW bc, NEW tc,
           Cuts(ss, bs, t, from, kept, keptTail, sc, bc, tc)
    PROVE  CutAt(ss, bs, t, at, sc, bc, tc)
<1> DEFINE n == TailStart(bs, f)
           b == bs[kept]
           keep == from - b.first
           straddles == kept > 0 /\ LastOf(b) >= from
<1>1. /\ ss \in Seq(Seq(Entry)) /\ bs \in Seq(Boundary) /\ t \in Seq(Entry)
      /\ Len(ss) = Len(bs) /\ Len(bs) \in Nat /\ Len(t) \in Nat
      /\ Sorted(bs)
      /\ \A i \in 1 .. Len(bs) : bs[i].len = Len(ss[i])
      /\ \A k \in 1 .. Len(t) : t[k].slot = n + k - 1
  BY DEF Sound, Typed, SlabOk
<1>2. /\ n \in Nat /\ EndOf(bs, t, f) = n + Len(t)
      /\ \A i \in 1 .. Len(bs) :
            /\ bs[i].first \in Nat /\ bs[i].first <= LastOf(bs[i])
            /\ LastOf(bs[i]) \in Nat /\ LastOf(bs[i]) < n /\ bs[i].len \in Nat
  BY BelowTail DEF EndOf
<1>3. at <= from /\ (at = from \/ at = n + Len(t))
  BY <1>2
<1>4. /\ kept \in 0 .. Len(bs) /\ keptTail \in 0 .. Len(t)
      /\ \A i \in 1 .. kept : bs[i].first < from
      /\ \A i \in kept + 1 .. Len(bs) : bs[i].first >= from
      /\ \A k \in 1 .. keptTail : t[k].slot < from
      /\ \A k \in keptTail + 1 .. Len(t) : t[k].slot >= from
      /\ tc = SubSeq(t, 1, keptTail)
  BY DEF Cuts
<1>5. /\ bc = IF straddles THEN [SubSeq(bs, 1, kept) EXCEPT ![kept].len = keep]
              ELSE SubSeq(bs, 1, kept)
      /\ sc = IF straddles
              THEN [SubSeq(ss, 1, kept) EXCEPT ![kept] = SubSeq(@, 1, keep)]
              ELSE SubSeq(ss, 1, kept)
  BY DEF Cuts
<1> HIDE DEF n
<1>6. straddles => /\ at = from /\ keep \in Nat /\ keep > 0 /\ keep <= b.len
                   /\ kept \in 1 .. Len(bs)
  <2> SUFFICES ASSUME straddles
               PROVE  /\ at = from /\ keep \in Nat /\ keep > 0 /\ keep <= b.len
                      /\ kept \in 1 .. Len(bs)
    OBVIOUS
  <2>1. kept \in 1 .. Len(bs) /\ kept \in 1 .. kept
    BY <1>1, <1>4
  <2>2. /\ b.first \in Nat /\ b.len \in Nat /\ LastOf(b) < n /\ LastOf(b) \in Nat
        /\ b.first < from
    BY <2>1, <1>2, <1>4
  <2>3. LastOf(b) >= from
    OBVIOUS
  <2> HIDE DEF b
  <2>4. b.first + b.len - 1 >= from
    BY <2>3 DEF LastOf
  <2>5. at = from
    BY <2>2, <2>3, <1>1, <1>2, <1>3
  <2>6. keep \in Nat /\ keep > 0 /\ keep <= b.len
    BY <2>2, <2>4
  <2> QED BY <2>1, <2>5, <2>6
<1>7. \A i \in 1 .. kept : bs[i].first < at
  <2> SUFFICES ASSUME NEW i \in 1 .. kept PROVE bs[i].first < at
    OBVIOUS
  <2>1. i \in 1 .. Len(bs) /\ bs[i].first < from
    BY <1>1, <1>4
  <2>2. bs[i].first \in Nat /\ bs[i].first < n
    BY <2>1, <1>2
  <2> QED BY <2>1, <2>2, <1>1, <1>2, <1>3
<1>8. \A i \in 1 .. kept : ~(straddles /\ i = kept) => LastOf(bs[i]) < at
  <2> SUFFICES ASSUME NEW i \in 1 .. kept, ~(straddles /\ i = kept)
               PROVE  LastOf(bs[i]) < at
    OBVIOUS
  <2>1. i \in 1 .. Len(bs) /\ kept \in 1 .. Len(bs) /\ kept > 0 /\ kept \in 1 .. kept
    BY <1>1, <1>4
  <2>2. LastOf(bs[i]) < from
    <3>1. CASE i = kept
      BY <3>1, <2>1, <1>2
    <3>2. CASE i # kept
      <4>1. LastOf(bs[i]) < bs[kept].first
        <5>1. i < kept
          BY <3>2, <2>1
        <5> QED BY <5>1, <2>1, <1>1 DEF Sorted
      <4>2. bs[kept].first < from /\ bs[kept].first \in Nat /\ LastOf(bs[i]) \in Nat
        BY <2>1, <1>2, <1>4
      <4> QED BY <4>1, <4>2
    <3> QED BY <3>1, <3>2
  <2>3. LastOf(bs[i]) \in Nat /\ LastOf(bs[i]) < n
    BY <2>1, <1>2
  <2> QED BY <2>2, <2>3, <1>1, <1>2, <1>3
<1>9. /\ Len(tc) = keptTail /\ tc \in Seq(Entry)
      /\ \A k \in 1 .. keptTail : tc[k] = t[k]
  BY <1>1, <1>4
<1>10. \A k \in 1 .. keptTail : t[k].slot < at
  <2> SUFFICES ASSUME NEW k \in 1 .. keptTail PROVE t[k].slot < at
    OBVIOUS
  <2>1. k \in 1 .. Len(t) /\ t[k].slot < from
    BY <1>1, <1>4
  <2>2. t[k].slot = n + k - 1
    BY <2>1, <1>1
  <2> QED BY <2>1, <2>2, <1>1, <1>2, <1>3
<1>11. \A k \in keptTail + 1 .. Len(t) : t[k].slot >= at
  <2> SUFFICES ASSUME NEW k \in keptTail + 1 .. Len(t) PROVE t[k].slot >= at
    OBVIOUS
  <2>1. k \in 1 .. Len(t) /\ t[k].slot >= from
    BY <1>1, <1>4
  <2> QED BY <2>1, <1>1, <1>2, <1>3
<1>12. \A i \in kept + 1 .. Len(bs) : bs[i].first >= at
  <2> SUFFICES ASSUME NEW i \in kept + 1 .. Len(bs) PROVE bs[i].first >= at
    OBVIOUS
  <2>1. i \in 1 .. Len(bs) /\ bs[i].first >= from
    BY <1>1, <1>4
  <2>2. bs[i].first \in Nat
    BY <2>1, <1>2
  <2> QED BY <2>1, <2>2, <1>3
<1> DEFINE bk == SubSeq(bs, 1, kept)
           sk == SubSeq(ss, 1, kept)
<1>13. /\ bk \in Seq(Boundary) /\ Len(bk) = kept
       /\ sk \in Seq(Seq(Entry)) /\ Len(sk) = kept
       /\ \A i \in 1 .. kept : /\ i \in 1 .. Len(bs)
                               /\ bk[i] = bs[i] /\ sk[i] = ss[i]
                               /\ bs[i] \in Boundary /\ ss[i] \in Seq(Entry)
  BY <1>1, <1>4
<1>14. CASE ~straddles
  <2>1. bc = bk /\ sc = sk
    BY <1>5, <1>14
  <2> HIDE DEF bk, sk, straddles
  <2>2. /\ sc \in Seq(Seq(Entry)) /\ bc \in Seq(Boundary) /\ Len(bc) <= Len(bs)
        /\ Len(sc) = Len(bc) /\ Len(bc) = kept
    BY <2>1, <1>4, <1>13
  <2>3. ASSUME NEW i \in 1 .. Len(bc)
        PROVE  /\ bc[i].first = bs[i].first /\ bs[i].first < at
               /\ LastOf(bc[i]) = IF LastOf(bs[i]) < at THEN LastOf(bs[i]) ELSE at - 1
               /\ bc[i].len = Len(sc[i])
               /\ \A k \in 1 .. Len(sc[i]) : k \in 1 .. Len(ss[i]) /\ sc[i][k] = ss[i][k]
    <3>1. bc[i] = bs[i] /\ sc[i] = ss[i] /\ i \in 1 .. kept /\ i \in 1 .. Len(bs)
      BY <2>1, <2>2, <1>13
    <3> QED BY <3>1, <1>1, <1>7, <1>8, <1>14
  <2> QED BY <2>2, <2>3, <1>4, <1>9, <1>10, <1>11, <1>12 DEF CutAt
<1>15. CASE straddles
  <2>1. /\ bc = [bk EXCEPT ![kept].len = keep]
        /\ sc = [sk EXCEPT ![kept] = SubSeq(@, 1, keep)]
    BY <1>5, <1>15
  <2>2. /\ at = from /\ keep \in Nat /\ keep > 0 /\ keep <= b.len
        /\ kept \in 1 .. kept /\ kept \in 1 .. Len(bs) /\ b.first + keep = at
    BY <1>2, <1>4, <1>6, <1>15
  <2>3. /\ b \in Boundary /\ ss[kept] \in Seq(Entry) /\ b.len = Len(ss[kept])
        /\ bk[kept] = b /\ sk[kept] = ss[kept]
    BY <2>2, <1>1, <1>13
  <2>4. b.first \in Slot
    BY <2>3 DEF Boundary
  <2>5. PICK x : x = SubSeq(ss[kept], 1, keep)
    OBVIOUS
  <2>6. /\ x \in Seq(Entry) /\ Len(x) = keep
        /\ \A k \in 1 .. keep : k \in 1 .. Len(ss[kept]) /\ x[k] = ss[kept][k]
    BY <2>2, <2>3, <2>5
  <2>7. PICK y : y = [b EXCEPT !.len = keep]
    OBVIOUS
  <2>8. y \in Boundary /\ y.first = b.first /\ y.len = keep
    BY <2>2, <2>3, <2>7 DEF Boundary
  <2> HIDE DEF bk, sk, straddles, b, keep
  <2>9. bc = [bk EXCEPT ![kept] = y] /\ sc = [sk EXCEPT ![kept] = x]
    BY <2>1, <2>3, <2>5, <2>7
  <2>10. /\ sc \in Seq(Seq(Entry)) /\ bc \in Seq(Boundary) /\ Len(bc) <= Len(bs)
         /\ Len(sc) = Len(bc) /\ Len(bc) = kept
         /\ bc[kept] = y /\ sc[kept] = x
         /\ \A i \in 1 .. kept : i # kept => bc[i] = bs[i] /\ sc[i] = ss[i]
    BY <2>2, <2>6, <2>8, <2>9, <1>4, <1>13
  <2>11. ASSUME NEW i \in 1 .. Len(bc)
         PROVE  /\ bc[i].first = bs[i].first /\ bs[i].first < at
                /\ LastOf(bc[i]) = IF LastOf(bs[i]) < at THEN LastOf(bs[i]) ELSE at - 1
                /\ bc[i].len = Len(sc[i])
                /\ \A k \in 1 .. Len(sc[i]) : k \in 1 .. Len(ss[i]) /\ sc[i][k] = ss[i][k]
    <3>1. CASE i = kept
      <4>1. bc[i] = y /\ sc[i] = x /\ bs[i] = b
        BY <3>1, <2>10 DEF b
      <4>2. LastOf(b) >= at /\ LastOf(b) \in Nat
        BY <2>2, <1>2, <1>15 DEF straddles, b
      <4>3. LastOf(y) = at - 1
        <5>1. b.first \in Nat
          BY <2>4 DEF Slot
        <5> QED BY <5>1, <2>2, <2>8 DEF LastOf
      <4>4. bs[i].first < at
        BY <2>10, <1>7
      <4>5. bc[i].first = bs[i].first
        BY <4>1, <2>8
      <4>6. LastOf(bc[i]) = IF LastOf(bs[i]) < at THEN LastOf(bs[i]) ELSE at - 1
        BY <4>1, <4>2, <4>3
      <4> QED BY <4>1, <4>4, <4>5, <4>6, <3>1, <2>6, <2>8
    <3>2. CASE i # kept
      <4>1. bc[i] = bs[i] /\ sc[i] = ss[i] /\ i \in 1 .. kept /\ i \in 1 .. Len(bs)
        BY <3>2, <2>10, <1>13
      <4> QED BY <4>1, <3>2, <1>1, <1>7, <1>8
    <3> QED BY <3>1, <3>2
  <2> QED BY <2>10, <2>11, <1>4, <1>9, <1>10, <1>11, <1>12 DEF CutAt
<1> QED BY <1>14, <1>15

\* One iteration of accept: seal the tail when it is full, then push.
OnePushed(ss, bs, t, f, e, sp, bp, tp) ==
    /\ e \in Entry /\ e.slot = EndOf(bs, t, f)
    /\ tp = IF Len(t) >= Capacity THEN <<e>> ELSE Append(t, e)
    /\ sp = IF Len(t) >= Capacity THEN Append(ss, t) ELSE ss
    /\ bp = IF Len(t) >= Capacity THEN Append(bs, BoundaryOf(t)) ELSE bs

\* It extends the view by the entry.
LEMMA PushOne ==
    ASSUME NEW ss, NEW bs, NEW t, NEW f, Sound(ss, bs, t, f),
           NEW e, NEW sp, NEW bp, NEW tp,
           OnePushed(ss, bs, t, f, e, sp, bp, tp)
    PROVE  /\ Sound(sp, bp, tp, f)
           /\ tp # <<>>
           /\ EndOf(bp, tp, f) = EndOf(bs, t, f) + 1
           /\ EntryAt(sp, bp, tp, f, EndOf(bs, t, f)) = e
           /\ \A s \in Nat : f <= s /\ s < EndOf(bs, t, f) =>
                  EntryAt(sp, bp, tp, f, s) = EntryAt(ss, bs, t, f, s)
<1> USE DEF OnePushed
<1> DEFINE n == EndOf(bs, t, f)
           tm == IF Len(t) >= Capacity THEN <<>> ELSE t
<1>1. t \in Seq(Entry) /\ Len(t) \in Nat /\ f \in Nat
  BY DEF Sound, Typed
<1>2. n \in Nat /\ f <= n
  BY <1>1, BelowTail DEF EndOf
<1>3. /\ Sound(sp, bp, tm, f)
      /\ EndOf(bp, tm, f) = n
      /\ \A s \in Nat : f <= s /\ s < n =>
             EntryAt(sp, bp, tm, f, s) = EntryAt(ss, bs, t, f, s)
  <2>1. CASE Len(t) >= Capacity
    <3>1. t # <<>>
      BY <2>1, <1>1
    <3>2. sp = Append(ss, t) /\ bp = Append(bs, BoundaryOf(t)) /\ tm = <<>>
      BY <2>1
    <3> QED BY <3>1, <3>2, Seal
  <2>2. CASE ~(Len(t) >= Capacity)
    BY <2>2
  <2> QED BY <2>1, <2>2
<1> DEFINE es == <<e>>
<1>4. /\ es \in Seq(Entry) /\ Len(es) = 1 /\ es[1] = e
      /\ \A k \in 1 .. Len(es) : es[k].slot = n + k - 1
  BY <1>2
<1>5. tp = tm \o es /\ tp # <<>>
  <2>1. CASE Len(t) >= Capacity
    <3>1. <<>> \o <<e>> = <<e>>
      OBVIOUS
    <3> QED BY <2>1, <3>1
  <2>2. CASE ~(Len(t) >= Capacity)
    <3>1. t \o <<e>> = Append(t, e) /\ Append(t, e) # <<>>
      BY <1>1
    <3> QED BY <2>2, <3>1
  <2> QED BY <2>1, <2>2
<1> HIDE DEF es, tm, n
<1>6. /\ Sound(sp, bp, tm \o es, f)
      /\ EndOf(bp, tm \o es, f) = n + Len(es)
      /\ \A s \in Nat : f <= s /\ s < n + Len(es) =>
             EntryAt(sp, bp, tm \o es, f, s) =
                 IF s < n THEN EntryAt(sp, bp, tm, f, s) ELSE es[s - n + 1]
  <2>1. \A k \in 1 .. Len(es) : es[k].slot = EndOf(bp, tm, f) + k - 1
    BY <1>3, <1>4
  <2> HIDE DEF EndOf
  <2>2. Sound(sp, bp, tm, f) /\ es \in Seq(Entry) /\ EndOf(bp, tm, f) = n
    BY <1>3, <1>4
  <2> QED BY ONLY <2>1, <2>2, ExtendTail
<1>7. Sound(sp, bp, tp, f) /\ EndOf(bp, tp, f) = n + 1
  BY <1>4, <1>5, <1>6
<1>8. EntryAt(sp, bp, tp, f, n) = e
  <2>1. n < n + Len(es) /\ ~(n < n) /\ n - n + 1 = 1
    BY <1>2, <1>4
  <2> QED BY <2>1, <1>2, <1>4, <1>5, <1>6
<1>9. ASSUME NEW s \in Nat, f <= s, s < n
      PROVE  EntryAt(sp, bp, tp, f, s) = EntryAt(ss, bs, t, f, s)
  <2>1. s < n + Len(es)
    BY <1>2, <1>4, <1>9
  <2> QED BY <2>1, <1>3, <1>5, <1>6, <1>9
<1> QED BY <1>5, <1>7, <1>8, <1>9 DEF n

\* A batch that becomes a slab at once.
SlabPushed(ss, bs, t, f, es, sp, bp) ==
    /\ t = <<>>
    /\ es \in Seq(Entry) /\ es # <<>>
    /\ \A k \in 1 .. Len(es) : es[k].slot = TailStart(bs, f) + k - 1
    /\ sp = Append(ss, es) /\ bp = Append(bs, BoundaryOf(es))

\* accept of such a batch extends the view by it.
LEMMA PushSlab ==
    ASSUME NEW ss, NEW bs, NEW t, NEW f, Sound(ss, bs, t, f),
           NEW es, NEW sp, NEW bp, SlabPushed(ss, bs, t, f, es, sp, bp)
    PROVE  /\ Sound(sp, bp, t, f)
           /\ EndOf(bp, t, f) = TailStart(bs, f) + Len(es)
           /\ \A s \in Nat : f <= s /\ s < TailStart(bs, f) + Len(es) =>
                  EntryAt(sp, bp, t, f, s) =
                      IF s < TailStart(bs, f) THEN EntryAt(ss, bs, t, f, s)
                      ELSE es[s - TailStart(bs, f) + 1]
<1> USE DEF SlabPushed
<1> DEFINE n == TailStart(bs, f)
<1>1. n \in Nat
  BY BelowTail
<1>2. EndOf(bs, t, f) = n
  BY <1>1 DEF EndOf
<1>3. t \o es = es
  OBVIOUS
<1>4. /\ Sound(ss, bs, es, f)
      /\ EndOf(bs, es, f) = n + Len(es)
      /\ \A s \in Nat : f <= s /\ s < n + Len(es) =>
             EntryAt(ss, bs, es, f, s) =
                 IF s < n THEN EntryAt(ss, bs, t, f, s) ELSE es[s - n + 1]
  <2>1. \A k \in 1 .. Len(es) : es[k].slot = EndOf(bs, t, f) + k - 1
    BY <1>2
  <2>2. Sound(ss, bs, t, f) /\ es \in Seq(Entry)
    OBVIOUS
  <2>3. /\ Sound(ss, bs, t \o es, f)
        /\ EndOf(bs, t \o es, f) = EndOf(bs, t, f) + Len(es)
        /\ \A s \in Nat : f <= s /\ s < EndOf(bs, t, f) + Len(es) =>
               EntryAt(ss, bs, t \o es, f, s) =
                   IF s < EndOf(bs, t, f) THEN EntryAt(ss, bs, t, f, s)
                   ELSE es[s - EndOf(bs, t, f) + 1]
    BY ONLY <2>1, <2>2, ExtendTail
  <2> QED BY ONLY <2>3, <1>2, <1>3
<1>5. /\ Sound(sp, bp, t, f)
      /\ EndOf(bp, t, f) = EndOf(bs, es, f)
      /\ \A s \in Nat : f <= s /\ s < EndOf(bs, es, f) =>
             EntryAt(sp, bp, t, f, s) = EntryAt(ss, bs, es, f, s)
  <2>1. /\ Sound(Append(ss, es), Append(bs, BoundaryOf(es)), <<>>, f)
        /\ EndOf(Append(bs, BoundaryOf(es)), <<>>, f) = EndOf(bs, es, f)
        /\ \A s \in Nat : f <= s /\ s < EndOf(bs, es, f) =>
               EntryAt(Append(ss, es), Append(bs, BoundaryOf(es)), <<>>, f, s)
                   = EntryAt(ss, bs, es, f, s)
    <3>1. Sound(ss, bs, es, f) /\ es # <<>>
      BY <1>4
    <3> QED BY ONLY <3>1, Seal
  <2>2. t = <<>> /\ sp = Append(ss, es) /\ bp = Append(bs, BoundaryOf(es))
    OBVIOUS
  <2> QED BY ONLY <2>1, <2>2
<1> QED BY <1>4, <1>5

-----------------------------------------------------------------------------
(***************************************************************************)
(* The inductive invariant.                                                *)
(***************************************************************************)

\* The view ends where the frontier is, or past it by what an accept in
\* progress has pushed.
Frontier ==
    /\ accepted \in Nat /\ accepted < MaxSlot /\ pushed \in Nat
    /\ EndOf(boundaries, tail, first_slot) = accepted + 1 + pushed
    /\ 1 <= first_slot /\ first_slot <= accepted + 1
    /\ accepted = NoSlot => first_slot = VOID_SLOT

\* The entries pushed are the first ones of the call in progress.
Pushing ==
    /\ call \in SUBSET Call
    /\ \A c, d \in call : c = d
    /\ pushed > 0 =>
          /\ tail # <<>>
          /\ \E c \in call :
                /\ Accepts(c)
                /\ pushed < Len(c.es)
                /\ \A k \in 1 .. pushed : Get(accepted + k) = c.es[k]

IInv == Sound(slabs, boundaries, tail, first_slot) /\ Frontier /\ Pushing

\* What an entry of the run is, as the refinement mapping reads it.
Content == [s \in first_slot .. accepted |-> Get(s)]

\* with_tail_capacity makes an empty journal.
LEMMA InitIInv == Init => IInv /\ Abstract!Init
<1> SUFFICES ASSUME Init PROVE IInv /\ Abstract!Init
  OBVIOUS
<1>1. TailStart(<<>>, VOID_SLOT) = 1
  BY DEF TailStart, VOID_SLOT
<1>2. Sound(slabs, boundaries, tail, first_slot)
  BY <1>1 DEF Init, Sound, Typed, Sorted, Covered, VOID_SLOT
<1>3. Frontier
  BY <1>1 DEF Init, Frontier, EndOf, NoSlot, VOID_SLOT
<1>4. Pushing
  BY DEF Init, Pushing
<1>5. Abstract!Init
  <2>1. Content = [s \in VOID_SLOT .. NoSlot |-> s]
    BY DEF Init, Content, VOID_SLOT, NoSlot
  <2> QED BY <2>1 DEF Init, Abstract!Init, Content, Abstract!VOID_SLOT,
              Abstract!NoSlot, VOID_SLOT, NoSlot
<1> QED BY <1>2, <1>3, <1>4, <1>5 DEF IInv

\* A call is one of Journal's calls.
LEMMA CallTyped ==
    ASSUME NEW c \in Call
    PROVE  /\ c.kind \in {"accept", "install", "reclaim"}
           /\ c.slot \in Slot /\ c.es \in Seq(Entry)
           /\ c \in Abstract!Call
<1>1. <<>> \in Seq(Entry) /\ Offer \subseteq Seq(Entry)
  OBVIOUS
<1>2. /\ c.kind \in {"accept", "install", "reclaim"}
      /\ c.slot \in Slot /\ c.es \in Seq(Entry)
      /\ c = [kind |-> c.kind, slot |-> c.slot, es |-> c.es]
  <2>1. NoSlot \in Slot
    BY DEF NoSlot, Slot
  <2>2. CASE c \in [kind : {"accept"}, slot : {NoSlot}, es : Offer]
    BY <2>1, <2>2, <1>1
  <2>3. CASE c \in [kind : {"install"}, slot : Slot, es : Offer]
    BY <2>3, <1>1
  <2>4. CASE c \in [kind : {"reclaim"}, slot : Slot, es : {<<>>}]
    BY <2>4, <1>1
  <2> QED BY <2>2, <2>3, <2>4 DEF Call
<1>3. c \in Abstract!Call
  BY <1>2 DEF Abstract!Call, Abstract!Slot, Abstract!Entry, Slot, Entry
<1> QED BY <1>2, <1>3

\* What the invariant says of the call being answered.
LEMMA Calling ==
    ASSUME IInv, NEW c \in call
    PROVE  /\ call = {c}
           /\ c.kind \in {"accept", "install", "reclaim"}
           /\ c.slot \in Nat /\ c.slot \in Slot
           /\ c.es \in Seq(Entry) /\ Len(c.es) \in Nat
           /\ c \in Abstract!Call
           /\ pushed > 0 => /\ tail # <<>>
                            /\ Accepts(c)
                            /\ pushed < Len(c.es)
                            /\ \A k \in 1 .. pushed : Get(accepted + k) = c.es[k]
<1>1. call \in SUBSET Call /\ \A d \in call : d = c
  BY DEF IInv, Pushing
<1>2. c \in Call
  BY <1>1
<1>3. /\ c.kind \in {"accept", "install", "reclaim"}
      /\ c.slot \in Slot /\ c.es \in Seq(Entry) /\ c \in Abstract!Call
  BY <1>2, CallTyped
<1>6. c.slot \in Nat /\ Len(c.es) \in Nat
  BY <1>3 DEF Slot
<1>7. call = {c}
  BY <1>1
<1>8. pushed > 0 => /\ tail # <<>>
                    /\ Accepts(c)
                    /\ pushed < Len(c.es)
                    /\ \A k \in 1 .. pushed : Get(accepted + k) = c.es[k]
  BY <1>1 DEF IInv, Pushing
<1> QED BY <1>3, <1>6, <1>7, <1>8

\* The slots of a call that accept or install_suffix lets through.
LEMMA Running ==
    ASSUME IInv, NEW c \in call, NEW at \in Nat, RunFrom(c.es, at)
    PROVE  /\ Len(c.es) > 0
           /\ \A k \in 1 .. Len(c.es) : c.es[k] \in Entry /\ c.es[k].slot = at + k - 1
           /\ c.es[Len(c.es)].slot = at + Len(c.es) - 1
           /\ at + Len(c.es) - 1 < MaxSlot
           /\ Abstract!RunFrom(c.es, at)
<1>1. c.es \in Seq(Entry)
  BY Calling
<1>2. Len(c.es) \in Nat /\ Len(c.es) > 0
  BY <1>1 DEF RunFrom
<1>3. \A k \in 1 .. Len(c.es) : c.es[k] \in Entry
  BY <1>1
<1>4. \A k \in 1 .. Len(c.es) : c.es[k].slot = at + k - 1
  BY DEF RunFrom
<1>5. Abstract!RunFrom(c.es, at) /\ at + Len(c.es) - 1 < MaxSlot
  BY DEF RunFrom, Abstract!RunFrom
<1> QED BY <1>2, <1>3, <1>4, <1>5

\* A step that answers a call with entries es from slot at on.
LEMMA Wrote ==
    ASSUME IInv, NEW low \in Nat, NEW at \in Nat, NEW es,
           Len(es) \in Nat, Len(es) > 0,
           low < at => low = first_slot /\ at <= accepted + 1,
           first_slot' = low, accepted' = at + Len(es) - 1,
           \A s \in Nat : low <= s /\ s < at + Len(es) =>
               Get(s)' = IF s < at THEN Get(s) ELSE es[s - at + 1]
    PROVE  Abstract!Write(low, at, es)
<1>1. accepted \in Nat
  BY DEF IInv, Frontier
<1>2. \A s \in low .. at + Len(es) - 1 : s < at => Content[s] = Get(s)
  BY <1>1 DEF Content
<1>3. Content' = [s \in low .. at + Len(es) - 1 |-> Get(s)']
  BY DEF Content
<1>4. Content' = [s \in low .. at + Len(es) - 1 |->
                     IF s < at THEN Content[s] ELSE es[s - at + 1]]
  <2> DEFINE h == at + Len(es) - 1
  <2>1. \A s \in low .. h : Get(s)' = IF s < at THEN Content[s] ELSE es[s - at + 1]
    <3> SUFFICES ASSUME NEW s \in low .. h
                 PROVE  Get(s)' = IF s < at THEN Content[s] ELSE es[s - at + 1]
      OBVIOUS
    <3>1. s \in Nat /\ low <= s /\ s < at + Len(es)
      OBVIOUS
    <3> HIDE DEF Content
    <3>2. s < at => Content[s] = Get(s)
      BY <1>2
    <3> QED BY <3>1, <3>2
  <2> HIDE DEF h
  <2>2. Content' = [s \in low .. h |-> Get(s)']
    BY <1>3 DEF h
  <2>3. Content' = [s \in low .. h |->
                       IF s < at THEN Content[s] ELSE es[s - at + 1]]
    BY <2>1, <2>2
  <2> QED BY <2>3 DEF h
<1> QED BY <1>4 DEF Abstract!Write, Content

\* Where accept goes on: a journal that never held an entry starts at slot 1.
LEMMA AcceptPoint ==
    ASSUME IInv
    PROVE  AcceptAt = accepted + 1 /\ Abstract!AcceptAt = accepted + 1
  BY DEF IInv, Frontier, AcceptAt, Abstract!AcceptAt, NoSlot, Abstract!NoSlot,
         VOID_SLOT

\* A call that is answered leaves nothing in progress.
LEMMA Done == ASSUME Answered PROVE Pushing'
  BY DEF Answered, Pushing

-----------------------------------------------------------------------------
(***************************************************************************)
(* One lemma per action: it keeps the invariant, and is a step of Journal  *)
(* or leaves the journal as it is.                                         *)
(***************************************************************************)

Same == UNCHANGED <<first_slot, accepted, Content, call>>

\* A step that changes no field changes no content.
LEMMA SameContent == ASSUME UNCHANGED logVars PROVE UNCHANGED <<first_slot, accepted, Content>>
  BY DEF logVars, Content, Get

\* A caller makes a call.
LEMMA AskStep ==
    ASSUME IInv, NEW c \in Call, Ask(c)
    PROVE  IInv' /\ Abstract!Next
<1>1. UNCHANGED <<slabs, boundaries, tail, first_slot, accepted, pushed>>
      /\ call = {} /\ call' = {c}
  BY DEF Ask, logVars
<1>2. pushed = 0
  <2>1. ~(pushed > 0) /\ pushed \in Nat
    BY <1>1 DEF IInv, Pushing, Frontier
  <2> QED BY <2>1
<1>3. Sound(slabs, boundaries, tail, first_slot)'
  BY <1>1 DEF IInv
<1>4. Frontier'
  BY <1>1 DEF IInv, Frontier
<1>5. Pushing'
  BY <1>1, <1>2 DEF Pushing
<1>6. IInv'
  BY <1>3, <1>4, <1>5 DEF IInv
<1>7. c \in call' /\ c \in Abstract!Call
  BY <1>1, CallTyped
<1>8. UNCHANGED <<first_slot, accepted, Content>>
  BY <1>1, SameContent DEF logVars
<1> QED BY <1>1, <1>6, <1>7, <1>8 DEF Abstract!Next, Abstract!Ask, Content

\* An error return of accept or install_suffix.
LEMMA RefuseStep ==
    ASSUME IInv, NEW c \in call, Refuse(c)
    PROVE  IInv' /\ Abstract!Next
<1>1. /\ UNCHANGED logVars /\ Answered /\ ~Accepts(c) /\ ~Installs(c)
      /\ c.kind \in {"accept", "install"}
  BY DEF Refuse
<1>2. pushed = 0
  <2>1. ~(pushed > 0) /\ pushed \in Nat
    BY <1>1, Calling DEF IInv, Frontier
  <2> QED BY <2>1
<1>3. Sound(slabs, boundaries, tail, first_slot)'
  BY <1>1 DEF IInv, logVars
<1>4. Frontier'
  BY <1>1, <1>2 DEF IInv, Frontier, logVars, Answered
<1>5. IInv'
  BY <1>1, <1>3, <1>4, Done DEF IInv
<1>6. UNCHANGED <<first_slot, accepted, Content>>
  BY <1>1, SameContent
<1>7. \/ c.kind = "accept" /\ ~Abstract!RunFrom(c.es, Abstract!AcceptAt)
      \/ c.kind = "install" /\ ~Abstract!Installs(c)
  BY <1>1, AcceptPoint DEF Accepts, Installs, Abstract!Installs, RunFrom,
     Abstract!RunFrom, InstallAt, Abstract!InstallAt, NoSlot, Abstract!NoSlot
<1>8. Abstract!Refuse(c)
  BY <1>6, <1>7 DEF Abstract!Refuse, Content
<1> QED BY <1>1, <1>5, <1>8 DEF Abstract!Next, Abstract!Answer, Answered

\* accept of a batch that becomes a slab.
LEMMA AcceptSlabStep ==
    ASSUME IInv, NEW c \in call, AcceptSlab(c)
    PROVE  IInv' /\ Abstract!Next
<1> DEFINE es == c.es
           n == TailStart(boundaries, first_slot)
<1>1. /\ Accepts(c) /\ tail = <<>> /\ Answered
      /\ slabs' = Append(slabs, es)
      /\ boundaries' = Append(boundaries, BoundaryOf(es))
      /\ accepted' = es[Len(es)].slot
      /\ tail' = tail /\ first_slot' = first_slot
  BY DEF AcceptSlab, AsSlab
<1>2. pushed = 0
  <2>1. ~(pushed > 0) /\ pushed \in Nat
    BY <1>1, Calling DEF IInv, Frontier
  <2> QED BY <2>1
<1>3. /\ accepted \in Nat /\ first_slot \in Nat /\ n = accepted + 1
      /\ 1 <= first_slot /\ first_slot <= accepted + 1
  <2>1. n \in Nat
    BY BelowTail DEF IInv
  <2> QED BY <2>1, <1>1, <1>2 DEF IInv, Sound, Typed, Frontier, EndOf
<1>4. RunFrom(es, n) /\ c.kind = "accept"
  BY <1>1, <1>3, AcceptPoint DEF Accepts
<1>5. /\ es \in Seq(Entry) /\ Len(es) \in Nat /\ Len(es) > 0 /\ es # <<>>
      /\ \A k \in 1 .. Len(es) : es[k].slot = n + k - 1
      /\ es[Len(es)].slot = n + Len(es) - 1
      /\ n + Len(es) - 1 < MaxSlot
      /\ Abstract!RunFrom(es, n)
  <2>1. n \in Nat
    BY <1>3
  <2>2. es # <<>>
    BY <1>4 DEF RunFrom
  <2> QED BY <2>1, <2>2, <1>4, Running, Calling
<1> HIDE DEF es, n
<1>6. /\ Sound(slabs', boundaries', tail', first_slot')
      /\ EndOf(boundaries', tail', first_slot') = n + Len(es)
      /\ \A s \in Nat : first_slot <= s /\ s < n + Len(es) =>
             Get(s)' = IF s < n THEN Get(s) ELSE es[s - n + 1]
  <2>1. Sound(slabs, boundaries, tail, first_slot)
    BY DEF IInv
  <2>2. /\ Sound(slabs', boundaries', tail, first_slot)
        /\ EndOf(boundaries', tail, first_slot) = n + Len(es)
        /\ \A s \in Nat : first_slot <= s /\ s < n + Len(es) =>
              EntryAt(slabs', boundaries', tail, first_slot, s)
                = IF s < n THEN EntryAt(slabs, boundaries, tail, first_slot, s)
                  ELSE es[s - n + 1]
    <3>1. /\ tail = <<>> /\ es \in Seq(Entry) /\ es # <<>>
          /\ slabs' = Append(slabs, es)
          /\ boundaries' = Append(boundaries, BoundaryOf(es))
      BY <1>1, <1>5
    <3>2. \A k \in 1 .. Len(es) :
              es[k].slot = TailStart(boundaries, first_slot) + k - 1
      BY <1>5 DEF n
    <3>3. SlabPushed(slabs, boundaries, tail, first_slot, es, slabs', boundaries')
      BY <3>1, <3>2 DEF SlabPushed
    <3> QED BY ONLY <2>1, <3>3, PushSlab DEF n
  <2> QED BY <2>2, <1>1 DEF Get
<1>7. IInv'
  <2>1. Frontier'
    BY <1>1, <1>3, <1>5, <1>6 DEF Frontier, Answered, NoSlot
  <2> QED BY <1>1, <1>6, <2>1, Done DEF IInv
<1>8. Abstract!Write(first_slot, n, es)
  <2>1. \A s \in Nat : first_slot <= s /\ s < n + Len(es) =>
             Get(s)' = IF s < n THEN Get(s) ELSE es[s - n + 1]
    BY <1>6
  <2>2. /\ first_slot \in Nat /\ n \in Nat /\ n <= accepted + 1
        /\ first_slot' = first_slot /\ accepted' = n + Len(es) - 1
    BY <1>1, <1>3, <1>5
  <2> QED BY <2>1, <2>2, <1>5, Wrote
<1>9. Abstract!Accept(c)
  BY <1>3, <1>4, <1>5, <1>8, AcceptPoint DEF Abstract!Accept, es
<1> QED BY <1>1, <1>7, <1>9 DEF Abstract!Next, Abstract!Answer, Answered

\* One iteration of accept's loop; the last one answers the call.
LEMMA PushStep ==
    ASSUME IInv, NEW c \in call, Push(c)
    PROVE  IInv' /\ (Abstract!Next \/ Same)
<1> DEFINE es == c.es
<1>0. PICK e, n, a : e = es[pushed + 1] /\ n = accepted + 1 + pushed /\ a = accepted
  OBVIOUS
<1>1. /\ Accepts(c) /\ first_slot' = first_slot
      /\ tail' = IF Len(tail) >= Capacity THEN <<e>> ELSE Append(tail, e)
      /\ slabs' = IF Len(tail) >= Capacity THEN Append(slabs, tail) ELSE slabs
      /\ boundaries' = IF Len(tail) >= Capacity
                       THEN Append(boundaries, BoundaryOf(tail)) ELSE boundaries
      /\ IF pushed + 1 = Len(es)
         THEN accepted' = e.slot /\ Answered
         ELSE pushed' = pushed + 1 /\ UNCHANGED <<accepted, call>>
  BY <1>0 DEF Push, Full
<1>2. /\ accepted \in Nat /\ first_slot \in Nat /\ pushed \in Nat
      /\ accepted < MaxSlot /\ EndOf(boundaries, tail, first_slot) = n
      /\ 1 <= first_slot /\ first_slot <= accepted + 1
      /\ accepted = NoSlot => first_slot = VOID_SLOT
  BY <1>0 DEF IInv, Sound, Typed, Frontier
<1>3. RunFrom(es, accepted + 1) /\ c.kind = "accept"
  BY <1>1, AcceptPoint DEF Accepts
<1>4. /\ es \in Seq(Entry) /\ Len(es) \in Nat /\ Len(es) > 0
      /\ \A k \in 1 .. Len(es) : es[k] \in Entry /\ es[k].slot = accepted + k
      /\ accepted + Len(es) < MaxSlot
      /\ Abstract!RunFrom(es, accepted + 1)
  <2>1. accepted + 1 \in Nat
    BY <1>2
  <2>2. es \in Seq(Entry) /\ Len(es) \in Nat
    BY Calling
  <2>3. /\ Len(es) > 0
        /\ \A k \in 1 .. Len(es) : es[k] \in Entry /\ es[k].slot = accepted + 1 + k - 1
        /\ accepted + 1 + Len(es) - 1 < MaxSlot
        /\ Abstract!RunFrom(es, accepted + 1)
    BY <2>1, <1>3, Running
  <2> HIDE DEF es
  <2>4. \A k \in 1 .. Len(es) : accepted + 1 + k - 1 = accepted + k
    BY <2>2, <1>2
  <2>5. ASSUME NEW m \in Nat, NEW j \in Nat PROVE j + 1 + m - 1 = j + m
    OBVIOUS
  <2> QED BY <2>2, <2>3, <2>4, <2>5, <1>2
<1>5. /\ call = {c} /\ pushed < Len(es)
      /\ \A k \in 1 .. pushed : Get(accepted + k) = es[k]
  <2>1. CASE pushed > 0
    BY <2>1, Calling
  <2>2. CASE ~(pushed > 0)
    <3>1. pushed = 0
      BY <2>2, <1>2
    <3> QED BY <3>1, <1>4, Calling
  <2> QED BY <2>1, <2>2
<1>6. e \in Entry /\ e.slot = n
  <2>1. pushed + 1 \in 1 .. Len(es)
    BY <1>2, <1>4, <1>5
  <2>2. es[pushed + 1] \in Entry /\ es[pushed + 1].slot = accepted + (pushed + 1)
    BY <2>1, <1>4
  <2> QED BY <2>2, <1>0, <1>2
<1> HIDE DEF es
<1>7. /\ Sound(slabs', boundaries', tail', first_slot')
      /\ tail' # <<>>
      /\ EndOf(boundaries', tail', first_slot') = n + 1
      /\ Get(n)' = e
      /\ \A s \in Nat : first_slot <= s /\ s < n => Get(s)' = Get(s)
  <2>1. Sound(slabs, boundaries, tail, first_slot)
    BY DEF IInv
  <2>2. OnePushed(slabs, boundaries, tail, first_slot, e, slabs', boundaries', tail')
    BY <1>1, <1>2, <1>6 DEF OnePushed
  <2>3. /\ Sound(slabs', boundaries', tail', first_slot)
        /\ tail' # <<>>
        /\ EndOf(boundaries', tail', first_slot)
               = EndOf(boundaries, tail, first_slot) + 1
        /\ EntryAt(slabs', boundaries', tail', first_slot,
                   EndOf(boundaries, tail, first_slot)) = e
        /\ \A s \in Nat :
              first_slot <= s /\ s < EndOf(boundaries, tail, first_slot) =>
                  EntryAt(slabs', boundaries', tail', first_slot, s)
                      = EntryAt(slabs, boundaries, tail, first_slot, s)
    BY ONLY <2>1, <2>2, PushOne
  <2>4. first_slot' = first_slot /\ EndOf(boundaries, tail, first_slot) = n
    BY <1>1, <1>2
  <2> QED BY <2>3, <2>4 DEF Get
<1>8. CASE pushed + 1 # Len(es)
  <2>1. pushed' = pushed + 1 /\ accepted' = accepted /\ call' = call
    BY <1>1, <1>8
  <2>2. Frontier'
    BY <2>1, <1>1, <1>2, <1>7, <1>0 DEF Frontier, NoSlot, VOID_SLOT
  <2>3. Accepts(c)'
    BY <2>1, <1>1 DEF Accepts, AcceptAt, RunFrom
  <2>4. \A k \in 1 .. pushed' : Get(accepted + k)' = es[k]
    <3> SUFFICES ASSUME NEW k \in 1 .. pushed + 1
                 PROVE  Get(a + k)' = es[k]
      BY <2>1, <1>0 DEF Get
    <3>1. CASE k = pushed + 1
      <4>1. a + k = n /\ es[k] = e
        BY <3>1, <1>0, <1>2
      <4> QED BY <4>1, <1>7
    <3>2. CASE k # pushed + 1
      <4>1. k \in 1 .. pushed /\ a + k \in Nat
            /\ first_slot <= a + k /\ a + k < n
        BY <3>2, <1>0, <1>2
      <4>2. Get(a + k) = es[k]
        BY <4>1, <1>0, <1>5
      <4>3. \A s \in Nat : first_slot <= s /\ s < n => Get(s)' = Get(s)
        BY <1>7
      <4> QED BY <4>1, <4>2, <4>3
    <3> QED BY <3>1, <3>2
  <2>5. Pushing'
    <3>1. pushed' < Len(es)
      BY <2>1, <1>2, <1>4, <1>5, <1>8
    <3>2. call' \in SUBSET Call /\ \A x, y \in call' : x = y
      BY <2>1 DEF IInv, Pushing
    <3>3. c \in call' /\ tail' # <<>>
      BY <2>1, <1>7
    <3> QED BY <2>3, <2>4, <3>1, <3>2, <3>3 DEF Pushing, es
  <2>6. IInv'
    BY <2>2, <2>5, <1>7 DEF IInv
  <2>7. \A s \in first_slot .. accepted : Get(s)' = Get(s)
    BY <1>0, <1>2, <1>7
  <2>8. Content' = Content
    BY <2>1, <2>7, <1>1 DEF Content
  <2> QED BY <2>1, <2>6, <2>8, <1>1 DEF Same
<1>9. CASE pushed + 1 = Len(es)
  <2>1. accepted' = accepted + 1 + Len(es) - 1 /\ Answered
    <3>1. accepted' = e.slot /\ Answered
      BY <1>1, <1>9
    <3>2. e.slot = accepted + 1 + pushed /\ pushed = Len(es) - 1
      BY <1>0, <1>2, <1>4, <1>6, <1>9
    <3> QED BY <3>1, <3>2, <1>2, <1>4
  <2>2. Frontier'
    <3>1. /\ pushed' = 0 /\ first_slot' = first_slot
          /\ accepted' = accepted + 1 + Len(es) - 1
          /\ accepted + Len(es) < MaxSlot /\ n = accepted + Len(es)
          /\ EndOf(boundaries', tail', first_slot') = n + 1
      <4>1. /\ pushed' = 0 /\ first_slot' = first_slot
            /\ accepted' = accepted + 1 + Len(es) - 1
        BY <2>1, <1>1 DEF Answered
      <4>2. accepted + Len(es) < MaxSlot /\ EndOf(boundaries', tail', first_slot') = n + 1
        BY <1>4, <1>7
      <4>3. n = accepted + Len(es)
        BY <1>0, <1>2, <1>4, <1>9
      <4> QED BY ONLY <4>1, <4>2, <4>3
    <3> QED BY <3>1, <1>2, <1>4 DEF Frontier, NoSlot
  <2>3. IInv'
    BY <2>1, <2>2, <1>7, Done DEF IInv
  <2>4. ASSUME NEW s \in Nat, first_slot <= s, s < accepted + 1 + Len(es)
        PROVE  Get(s)' = IF s < accepted + 1 THEN Get(s) ELSE es[s - (accepted + 1) + 1]
    <3>1. CASE s < accepted + 1
      BY <3>1, <2>4, <1>0, <1>2, <1>7
    <3>2. CASE s >= accepted + 1 /\ s < n
      <4>1. s - accepted \in 1 .. pushed /\ s = accepted + (s - accepted)
            /\ s - (accepted + 1) + 1 = s - accepted
        BY <3>2, <1>0, <1>2
      <4>2. Get(s) = es[s - accepted]
        BY <4>1, <1>5
      <4>3. Get(s)' = Get(s)
        BY <3>2, <2>4, <1>7
      <4> QED BY <3>2, <4>1, <4>2, <4>3, <1>2
    <3>3. CASE s = n
      <4>1. s - (accepted + 1) + 1 = pushed + 1 /\ ~(s < accepted + 1)
        BY <3>3, <1>0, <1>2
      <4>2. Get(s)' = e
        BY <3>3, <1>7
      <4> QED BY <4>1, <4>2, <1>0
    <3>4. s < accepted + 1 \/ (s >= accepted + 1 /\ s < n) \/ s = n
      BY <2>4, <1>0, <1>2, <1>4, <1>9
    <3> QED BY <3>1, <3>2, <3>3, <3>4
  <2>5. Abstract!Write(first_slot, accepted + 1, es)
    <3>1. /\ accepted + 1 \in Nat /\ accepted + 1 <= accepted + 1
          /\ first_slot \in Nat /\ first_slot' = first_slot
      BY <1>1, <1>2
    <3> QED BY <3>1, <2>1, <2>4, <1>4, Wrote
  <2>6. Abstract!Accept(c)
    BY <2>5, <1>3, <1>4, AcceptPoint DEF Abstract!Accept, es
  <2> QED BY <2>1, <2>3, <2>6 DEF Abstract!Next, Abstract!Answer, Answered
<1> QED BY <1>8, <1>9

\* A call of reclaim_through.
LEMMA ReclaimStep ==
    ASSUME IInv, NEW c \in call, Reclaim(c)
    PROVE  IInv' /\ Abstract!Next
<1> DEFINE seal == accepted # NoSlot /\ accepted <= c.slot /\ tail # <<>>
<1>0. PICK ss, bs, t, f :
         /\ ss = IF seal THEN Append(slabs, tail) ELSE slabs
         /\ bs = IF seal THEN Append(boundaries, BoundaryOf(tail)) ELSE boundaries
         /\ t = IF seal THEN <<>> ELSE tail
         /\ f = first_slot
  OBVIOUS
<1>1. PICK d \in 0 .. Len(bs) :
         /\ \A i \in 1 .. d : LastOf(bs[i]) <= c.slot
         /\ boundaries' = SubSeq(bs, d + 1, Len(bs))
         /\ slabs' = SubSeq(ss, d + 1, Len(ss))
         /\ first_slot' = IF d < Len(bs) THEN bs[d + 1].first
                          ELSE IF t # <<>> THEN t[1].slot
                          ELSE IF accepted # NoSlot THEN accepted + 1
                          ELSE first_slot
  BY <1>0 DEF Reclaim, Reclaimable
<1>2. c.kind = "reclaim" /\ tail' = t /\ Answered /\ accepted' = accepted
  BY <1>0 DEF Reclaim
<1> HIDE DEF seal
<1>3. pushed = 0 /\ c.slot \in Nat
  <2>1. ~(pushed > 0) /\ pushed \in Nat /\ c.slot \in Nat
    BY <1>2, Calling DEF IInv, Frontier, Accepts
  <2> QED BY <2>1
<1>4. /\ accepted \in Nat /\ f \in Nat /\ accepted < MaxSlot
      /\ EndOf(boundaries, tail, first_slot) = accepted + 1
      /\ 1 <= f /\ f <= accepted + 1
      /\ accepted = NoSlot => f = VOID_SLOT
  BY <1>0, <1>3 DEF IInv, Sound, Typed, Frontier
<1>5. /\ Sound(ss, bs, t, f)
      /\ EndOf(bs, t, f) = accepted + 1
      /\ \A s \in Nat : f <= s /\ s < accepted + 1 =>
            EntryAt(ss, bs, t, f, s) = Get(s)
  <2>1. Sound(slabs, boundaries, tail, first_slot)
    BY DEF IInv
  <2>2. CASE seal
    <3>1. tail # <<>> /\ t = <<>>
      BY <2>2, <1>0 DEF seal
    <3>2. ss = Append(slabs, tail) /\ bs = Append(boundaries, BoundaryOf(tail))
      BY <2>2, <1>0
    <3>3. /\ Sound(ss, bs, t, first_slot)
          /\ EndOf(bs, t, first_slot) = EndOf(boundaries, tail, first_slot)
          /\ \A s \in Nat : first_slot <= s /\ s < EndOf(boundaries, tail, first_slot)
                => EntryAt(ss, bs, t, first_slot, s)
                       = EntryAt(slabs, boundaries, tail, first_slot, s)
      <4> DEFINE st == Append(slabs, tail)
                 bt == Append(boundaries, BoundaryOf(tail))
      <4>1. /\ Sound(st, bt, <<>>, first_slot)
            /\ EndOf(bt, <<>>, first_slot) = EndOf(boundaries, tail, first_slot)
            /\ \A s \in Nat :
                  first_slot <= s /\ s < EndOf(boundaries, tail, first_slot) =>
                      EntryAt(st, bt, <<>>, first_slot, s)
                         = EntryAt(slabs, boundaries, tail, first_slot, s)
        BY ONLY <2>1, <3>1, Seal
      <4> HIDE DEF st, bt
      <4>2. ss = st /\ bs = bt /\ t = <<>>
        BY <3>1, <3>2 DEF st, bt
      <4> QED BY ONLY <4>1, <4>2
    <3> QED BY <3>3, <1>0, <1>4 DEF Get
  <2>3. CASE ~seal
    <3>1. ss = slabs /\ bs = boundaries /\ t = tail
      BY <2>3, <1>0
    <3> QED BY <3>1, <2>1, <1>0, <1>4 DEF Get
  <2> QED BY <2>2, <2>3
<1>6. /\ TailStart(bs, f) \in Nat /\ Len(t) \in Nat /\ t \in Seq(Entry)
      /\ TailStart(bs, f) + Len(t) = accepted + 1
      /\ t # <<>> => Len(t) >= 1 /\ t[1].slot = TailStart(bs, f)
  <2>1. TailStart(bs, f) \in Nat /\ t \in Seq(Entry)
    BY <1>5, BelowTail DEF Sound, Typed
  <2>2. TailStart(bs, f) + Len(t) = accepted + 1
    BY <1>5 DEF EndOf
  <2>3. \A k \in 1 .. Len(t) : t[k].slot = TailStart(bs, f) + k - 1
    BY <1>5 DEF Sound
  <2>4. t # <<>> => 1 \in 1 .. Len(t)
    BY <2>1
  <2> QED BY <2>1, <2>2, <2>3, <2>4
<1>7. Dropped(ss, bs, f, d, first_slot', slabs', boundaries')
  <2>1. d < Len(bs) \/ d = Len(bs)
    <3>1. Len(bs) \in Nat
      BY <1>5 DEF Sound, Typed
    <3> QED BY <3>1
  <2>2. ASSUME ~(d < Len(bs)) PROVE first_slot' = TailStart(bs, f)
    <3>1. CASE t # <<>>
      BY <2>2, <3>1, <1>1, <1>6
    <3>2. CASE t = <<>>
      <4>1. TailStart(bs, f) = accepted + 1
        BY <3>2, <1>4, <1>6
      <4> QED BY <4>1, <2>2, <3>2, <1>0, <1>1, <1>4 DEF NoSlot, VOID_SLOT
    <3> QED BY <3>1, <3>2
  <2> QED BY <2>2, <1>1 DEF Dropped
<1>8. /\ Sound(slabs', boundaries', t, first_slot')
      /\ TailStart(boundaries', first_slot') = TailStart(bs, f)
      /\ first_slot' \in Nat /\ f <= first_slot' /\ first_slot' <= TailStart(bs, f)
      /\ \A s \in Nat : first_slot' <= s =>
            EntryAt(slabs', boundaries', t, first_slot', s) = EntryAt(ss, bs, t, f, s)
  BY ONLY <1>5, <1>7, DropFront
<1>9. first_slot' = f \/ first_slot' <= c.slot + 1
  <2>1. c.slot \in Nat /\ (\A i \in 1 .. d : LastOf(bs[i]) <= c.slot)
        /\ Sound(ss, bs, t, f)
    BY <1>1, <1>3, <1>5
  <2> QED BY ONLY <2>1, <1>7, DropBound
<1>10. IInv'
  <2>1. EndOf(boundaries', tail', first_slot') = accepted + 1
    BY <1>2, <1>6, <1>8 DEF EndOf
  <2>2. accepted = NoSlot => first_slot' = VOID_SLOT
    BY <1>4, <1>6, <1>8 DEF NoSlot, VOID_SLOT
  <2>3. Frontier'
    BY <2>1, <2>2, <1>2, <1>4, <1>6, <1>8 DEF Frontier, Answered, NoSlot, VOID_SLOT
  <2> QED BY <2>3, <1>2, <1>8, Done DEF IInv
<1>11. Content' = [s \in first_slot' .. accepted |-> Content[s]]
  <2>1. \A s \in first_slot' .. accepted : Get(s)' = Content[s]
    <3> SUFFICES ASSUME NEW s \in first_slot' .. accepted
                 PROVE  Get(s)' = Content[s]
      OBVIOUS
    <3>1. s \in Nat /\ f <= s /\ s < accepted + 1 /\ first_slot' <= s
          /\ s \in first_slot .. accepted
      BY <1>0, <1>4, <1>8
    <3>2. Get(s)' = Get(s)
      BY <3>1, <1>2, <1>5, <1>8 DEF Get
    <3> QED BY <3>1, <3>2 DEF Content
  <2> HIDE DEF Get
  <2> QED BY <2>1, <1>2 DEF Content
<1>12. Abstract!Reclaim(c)
  <2>1. first_slot' <= accepted + 1
    BY <1>4, <1>6, <1>8
  <2>2. first_slot' = first_slot \/ first_slot' \in first_slot .. c.slot + 1
    BY <1>0, <1>3, <1>4, <1>8, <1>9
  <2> QED BY <2>1, <2>2, <1>2, <1>11 DEF Abstract!Reclaim, Content
<1> QED BY <1>2, <1>10, <1>12 DEF Abstract!Next, Abstract!Answer, Answered

\* The first suffix of an empty journal may start anywhere.
LEMMA InstallFirst ==
    ASSUME IInv, NEW c \in call, Install(c), accepted = NoSlot
    PROVE  /\ Sound(slabs', boundaries', tail', c.slot)
           /\ EndOf(boundaries', tail', c.slot) = c.slot + Len(c.es)
           /\ \A s \in Nat : c.slot <= s => Get(s)' = c.es[s - c.slot + 1]
<1>1. pushed = 0
  <2>1. ~(pushed > 0) /\ pushed \in Nat
    BY Calling DEF IInv, Frontier, Install, Installs, Accepts
  <2> QED BY <2>1
<1>2. /\ first_slot = 1 /\ EndOf(boundaries, tail, first_slot) = 1
      /\ Sound(slabs, boundaries, tail, first_slot)
  BY <1>1 DEF IInv, Frontier, NoSlot, VOID_SLOT
<1>3. Len(boundaries) = 0
  <2>1. /\ TailStart(boundaries, first_slot) \in Nat /\ Len(boundaries) \in Nat
        /\ \A i \in 1 .. Len(boundaries) :
              /\ LastOf(boundaries[i]) < TailStart(boundaries, first_slot)
              /\ boundaries[i].first <= LastOf(boundaries[i])
              /\ LastOf(boundaries[i]) \in Nat /\ boundaries[i].first \in Nat
    BY ONLY <1>2, BelowTail
  <2>2. \A i \in 1 .. Len(boundaries) : 1 <= boundaries[i].first
    BY <1>2 DEF Sound
  <2>3. Len(tail) \in Nat
    BY <1>2 DEF Sound, Typed
  <2>4. TailStart(boundaries, first_slot) <= 1
    BY <2>1, <2>3, <1>2 DEF EndOf
  <2>5. ~(1 \in 1 .. Len(boundaries))
    BY <2>1, <2>2, <2>4
  <2> QED BY <2>1, <2>5
<1>4. boundaries = <<>> /\ slabs = <<>> /\ tail = <<>>
  <2>1. boundaries \in Seq(Boundary) /\ slabs \in Seq(Seq(Entry))
        /\ tail \in Seq(Entry) /\ Len(slabs) = Len(boundaries)
    BY <1>2 DEF Sound, Typed
  <2>2. boundaries = <<>> /\ slabs = <<>>
    BY <2>1, <1>3
  <2>3. TailStart(boundaries, first_slot) = 1
    BY <2>2, <1>2 DEF TailStart
  <2>4. Len(tail) = 0
    BY <2>1, <2>3, <1>2 DEF EndOf
  <2> QED BY <2>1, <2>2, <2>4
<1>5. /\ c.es \in Seq(Entry) /\ c.slot \in Nat /\ Len(c.es) \in Nat
      /\ \A k \in 1 .. Len(c.es) : c.es[k].slot = c.slot + k - 1
  <2>1. InstallAt(c.slot) = c.slot
    BY DEF InstallAt
  <2>2. RunFrom(c.es, c.slot)
    BY <2>1 DEF Install, Installs
  <2> QED BY <2>2, Calling DEF RunFrom
<1>6. boundaries' = <<>> /\ slabs' = <<>> /\ tail' = c.es
  <2>1. PICK kept \in 0 .. Len(boundaries), keptTail \in 0 .. Len(tail) :
           /\ ~(kept > 0) => /\ boundaries' = SubSeq(boundaries, 1, kept)
                             /\ slabs' = SubSeq(slabs, 1, kept)
           /\ tail' = SubSeq(tail, 1, keptTail) \o c.es
    BY DEF Install
  <2>2. kept = 0 /\ keptTail = 0
    BY <1>4
  <2>3. SubSeq(boundaries, 1, 0) = <<>> /\ SubSeq(slabs, 1, 0) = <<>>
        /\ SubSeq(tail, 1, 0) = <<>>
    BY <1>4
  <2>4. <<>> \o c.es = c.es
    BY <1>5
  <2>5. ~(kept > 0)
    BY <2>2
  <2>6. /\ boundaries' = SubSeq(boundaries, 1, 0) /\ slabs' = SubSeq(slabs, 1, 0)
        /\ tail' = SubSeq(tail, 1, 0) \o c.es
    BY <2>1, <2>2, <2>5, Zenon
  <2> QED BY <2>3, <2>4, <2>6, Zenon
<1>7. TailStart(boundaries', c.slot) = c.slot
  BY <1>6 DEF TailStart
<1>8. Sound(slabs', boundaries', tail', c.slot)
  <2>1. Typed(slabs', boundaries', tail', c.slot)
    BY <1>5, <1>6 DEF Typed
  <2>2. Len(boundaries') = 0 /\ Len(slabs') = 0
    BY <1>6
  <2>3. \A k \in 1 .. Len(tail') : tail'[k].slot = TailStart(boundaries', c.slot) + k - 1
    BY <1>5, <1>6, <1>7
  <2>4. Covered(boundaries', c.slot)
    BY <1>5, <1>7 DEF Covered
  <2> QED BY <2>1, <2>2, <2>3, <2>4 DEF Sound, Sorted
<1>9. EndOf(boundaries', tail', c.slot) = c.slot + Len(c.es)
  BY <1>6, <1>7 DEF EndOf
<1>10. first_slot' = c.slot
  BY DEF Install
<1>11. \A s \in Nat : c.slot <= s => Get(s)' = c.es[s - c.slot + 1]
  <2> SUFFICES ASSUME NEW s \in Nat, c.slot <= s
               PROVE  Get(s)' = c.es[s - c.slot + 1]
    OBVIOUS
  <2>1. EntryAt(slabs', boundaries', tail', c.slot, s)
            = tail'[s - TailStart(boundaries', c.slot) + 1]
    <3>1. TailStart(boundaries', c.slot) <= s
      BY <1>7
    <3> QED BY ONLY <3>1, <1>8, s \in Nat, ReadTail
  <2> QED BY <2>1, <1>6, <1>7, <1>10 DEF Get
<1> QED BY <1>8, <1>9, <1>11

\* A suffix replaces what the journal holds from its slot on.
LEMMA InstallOver ==
    ASSUME IInv, NEW c \in call, Install(c), accepted # NoSlot,
           NEW at \in Nat, at = InstallAt(c.slot)
    PROVE  /\ Sound(slabs', boundaries', tail', first_slot)
           /\ EndOf(boundaries', tail', first_slot) = at + Len(c.es)
           /\ \A s \in Nat : first_slot <= s /\ s < at + Len(c.es) =>
                  Get(s)' = IF s < at THEN Get(s) ELSE c.es[s - at + 1]
           /\ at <= accepted + 1 /\ first_slot <= at
<1>1. pushed = 0
  <2>1. ~(pushed > 0) /\ pushed \in Nat
    BY Calling DEF IInv, Frontier, Install, Installs, Accepts
  <2> QED BY <2>1
<1>2. /\ accepted \in Nat /\ first_slot \in Nat /\ first_slot <= accepted + 1
      /\ EndOf(boundaries, tail, first_slot) = accepted + 1
      /\ Sound(slabs, boundaries, tail, first_slot)
  BY <1>1 DEF IInv, Frontier, Sound, Typed
<1>3. /\ c.es \in Seq(Entry) /\ c.slot \in Nat /\ Len(c.es) \in Nat
      /\ c.slot >= first_slot
      /\ \A k \in 1 .. Len(c.es) : c.es[k].slot = at + k - 1
      /\ first_slot' = first_slot
  BY Calling DEF Install, Installs, RunFrom
<1>4. /\ at = IF c.slot > accepted THEN accepted + 1 ELSE c.slot
      /\ at <= accepted + 1 /\ first_slot <= at
      /\ at = c.slot \/ (at = EndOf(boundaries, tail, first_slot) /\ at <= c.slot)
  BY <1>2, <1>3 DEF InstallAt
<1>5. PICK kept, keptTail, tc :
         /\ Cuts(slabs, boundaries, tail, c.slot, kept, keptTail,
                 slabs', boundaries', tc)
         /\ tail' = tc \o c.es
  <2> DEFINE Q(k, m) == Cuts(slabs, boundaries, tail, c.slot, k, m,
                             slabs', boundaries', SubSeq(tail, 1, m))
                        /\ tail' = SubSeq(tail, 1, m) \o c.es
  <2>1. \E k, m : Q(k, m)
    BY DEF Install, Cuts, Kept
  <2>2. PICK k, m : Q(k, m)
    BY <2>1
  <2> QED BY <2>2
<1>6. CutAt(slabs, boundaries, tail, at, slabs', boundaries', tc)
  <2>1. /\ c.slot \in Nat /\ at \in Nat
        /\ at = c.slot \/ (at = EndOf(boundaries, tail, first_slot) /\ at <= c.slot)
        /\ Sound(slabs, boundaries, tail, first_slot)
        /\ Cuts(slabs, boundaries, tail, c.slot, kept, keptTail,
                slabs', boundaries', tc)
    BY <1>2, <1>3, <1>4, <1>5
  <2> QED BY ONLY <2>1, CutBy
<1>7. /\ Sound(slabs', boundaries', tc, first_slot)
      /\ EndOf(boundaries', tc, first_slot) = at
      /\ \A s \in Nat : first_slot <= s /\ s < at =>
             EntryAt(slabs', boundaries', tc, first_slot, s)
                 = EntryAt(slabs, boundaries, tail, first_slot, s)
  <2>1. /\ at \in Nat /\ first_slot <= at
        /\ at <= EndOf(boundaries, tail, first_slot)
        /\ Sound(slabs, boundaries, tail, first_slot)
    BY <1>2, <1>4
  <2> QED BY ONLY <2>1, <1>6, Cut
<1>8. /\ Sound(slabs', boundaries', tc \o c.es, first_slot)
      /\ EndOf(boundaries', tc \o c.es, first_slot)
             = EndOf(boundaries', tc, first_slot) + Len(c.es)
      /\ \A s \in Nat :
            first_slot <= s /\ s < EndOf(boundaries', tc, first_slot) + Len(c.es) =>
                EntryAt(slabs', boundaries', tc \o c.es, first_slot, s) =
                    IF s < EndOf(boundaries', tc, first_slot)
                    THEN EntryAt(slabs', boundaries', tc, first_slot, s)
                    ELSE c.es[s - EndOf(boundaries', tc, first_slot) + 1]
  <2>1. \A k \in 1 .. Len(c.es) :
            c.es[k].slot = EndOf(boundaries', tc, first_slot) + k - 1
    BY <1>3, <1>7
  <2>2. c.es \in Seq(Entry) /\ Sound(slabs', boundaries', tc, first_slot)
    BY <1>3, <1>7
  <2> QED BY ONLY <2>1, <2>2, ExtendTail
<1>9. ASSUME NEW s \in Nat, first_slot <= s, s < at + Len(c.es)
      PROVE  Get(s)' = IF s < at THEN Get(s) ELSE c.es[s - at + 1]
  <2>1. Get(s)' = EntryAt(slabs', boundaries', tc \o c.es, first_slot, s)
    BY <1>3, <1>5 DEF Get
  <2>2. Get(s) = EntryAt(slabs, boundaries, tail, first_slot, s)
    BY DEF Get
  <2> HIDE DEF Get
  <2>3. CASE s < at
    BY <2>1, <2>2, <2>3, <1>7, <1>8, <1>9
  <2>4. CASE ~(s < at)
    BY <2>1, <2>4, <1>7, <1>8, <1>9
  <2> QED BY <2>3, <2>4
<1> QED BY <1>4, <1>5, <1>7, <1>8, <1>9

\* A call of install_suffix that is let through.
LEMMA InstallStep ==
    ASSUME IInv, NEW c \in call, Install(c)
    PROVE  IInv' /\ Abstract!Next
<1> DEFINE es == c.es
<1>0. PICK low, at : /\ low = IF accepted = NoSlot THEN c.slot ELSE first_slot
                     /\ at = InstallAt(c.slot)
  OBVIOUS
<1>1. /\ Installs(c) /\ Answered /\ c.kind = "install"
      /\ first_slot' = low /\ accepted' = es[Len(es)].slot
  BY <1>0 DEF Install, Installs
<1>2. /\ accepted \in Nat /\ first_slot \in Nat /\ c.slot \in Nat
      /\ 1 <= first_slot /\ c.slot >= first_slot
      /\ at \in Nat /\ low \in Nat /\ 1 <= low
      /\ RunFrom(es, at)
  <2>1. accepted \in Nat /\ first_slot \in Nat /\ c.slot \in Nat /\ 1 <= first_slot
    BY Calling DEF IInv, Frontier, Sound, Typed
  <2>2. c.slot >= first_slot /\ RunFrom(es, at)
    BY <1>0, <1>1 DEF Installs
  <2>3. at \in Nat
    BY <2>1, <1>0 DEF InstallAt
  <2> QED BY <2>1, <2>2, <2>3, <1>0
<1>3. /\ es \in Seq(Entry) /\ Len(es) \in Nat /\ Len(es) > 0
      /\ es[Len(es)].slot = at + Len(es) - 1
      /\ at + Len(es) - 1 < MaxSlot
      /\ Abstract!RunFrom(es, at)
  BY <1>2, Running, Calling
<1> HIDE DEF es
<1>4. /\ Sound(slabs', boundaries', tail', low)
      /\ EndOf(boundaries', tail', low) = at + Len(es)
      /\ \A s \in Nat : low <= s /\ s < at + Len(es) =>
             Get(s)' = IF s < at THEN Get(s) ELSE es[s - at + 1]
      /\ low <= at
      /\ low < at => low = first_slot /\ at <= accepted + 1
  <2>1. CASE accepted = NoSlot
    <3>1. at = c.slot /\ low = c.slot
      BY <2>1, <1>0 DEF InstallAt
    <3>2. /\ Sound(slabs', boundaries', tail', c.slot)
          /\ EndOf(boundaries', tail', c.slot) = c.slot + Len(c.es)
          /\ \A s \in Nat : c.slot <= s => Get(s)' = c.es[s - c.slot + 1]
      BY <2>1, InstallFirst
    <3> QED BY <3>1, <3>2, <1>2, <1>3 DEF es
  <2>2. CASE accepted # NoSlot
    <3>1. low = first_slot
      BY <2>2, <1>0
    <3>2. /\ Sound(slabs', boundaries', tail', first_slot)
          /\ EndOf(boundaries', tail', first_slot) = at + Len(c.es)
          /\ \A s \in Nat : first_slot <= s /\ s < at + Len(c.es) =>
                 Get(s)' = IF s < at THEN Get(s) ELSE c.es[s - at + 1]
          /\ at <= accepted + 1 /\ first_slot <= at
      BY <2>2, <1>0, <1>2, InstallOver
    <3> QED BY <3>1, <3>2 DEF es
  <2> QED BY <2>1, <2>2
<1>5. IInv'
  <2>1. /\ accepted' = at + Len(es) - 1 /\ first_slot' = low /\ pushed' = 0
    BY <1>1, <1>3 DEF Answered
  <2>2. Frontier'
    BY <2>1, <1>2, <1>3, <1>4 DEF Frontier, NoSlot
  <2>3. Sound(slabs', boundaries', tail', first_slot')
    BY <2>1, <1>4
  <2> QED BY <2>2, <2>3, <1>1, Done DEF IInv
<1>6. Abstract!Write(low, at, es)
  <2>1. first_slot' = low /\ accepted' = at + Len(es) - 1
    BY <1>1, <1>3
  <2>2. \A s \in Nat : low <= s /\ s < at + Len(es) =>
            Get(s)' = IF s < at THEN Get(s) ELSE es[s - at + 1]
    BY <1>4
  <2>3. low < at => low = first_slot /\ at <= accepted + 1
    BY <1>4
  <2> QED BY <2>1, <2>2, <2>3, <1>2, <1>3, Wrote
<1>7. Abstract!Install(c)
  <2>1. at = Abstract!InstallAt(c.slot)
    BY <1>0 DEF InstallAt, Abstract!InstallAt, NoSlot, Abstract!NoSlot
  <2>2. low = IF accepted = Abstract!NoSlot THEN c.slot ELSE first_slot
    BY <1>0 DEF NoSlot, Abstract!NoSlot
  <2>3. Abstract!Installs(c)
    BY <2>1, <1>2, <1>3 DEF Abstract!Installs, es
  <2> QED BY <2>1, <2>2, <2>3, <1>1, <1>6 DEF Abstract!Install, es
<1> QED BY <1>1, <1>5, <1>7 DEF Abstract!Next, Abstract!Answer, Answered

-----------------------------------------------------------------------------
(***************************************************************************)
(* The theorems.                                                           *)
(***************************************************************************)

\* Every step keeps the invariant and is a step of Journal or none.
LEMMA StepIInv ==
    ASSUME IInv, [Next]_vars
    PROVE  IInv' /\ (Abstract!Next \/ Same)
<1>1. CASE \E c \in Call : Ask(c)
  BY <1>1, AskStep
<1>2. ASSUME NEW c \in call, Refuse(c) PROVE IInv' /\ (Abstract!Next \/ Same)
  BY <1>2, RefuseStep
<1>3. ASSUME NEW c \in call, AcceptSlab(c) PROVE IInv' /\ (Abstract!Next \/ Same)
  BY <1>3, AcceptSlabStep
<1>4. ASSUME NEW c \in call, Push(c) PROVE IInv' /\ (Abstract!Next \/ Same)
  BY <1>4, PushStep
<1>5. ASSUME NEW c \in call, Install(c) PROVE IInv' /\ (Abstract!Next \/ Same)
  BY <1>5, InstallStep
<1>6. ASSUME NEW c \in call, Reclaim(c) PROVE IInv' /\ (Abstract!Next \/ Same)
  BY <1>6, ReclaimStep
<1>7. CASE UNCHANGED vars
  <2>1. IInv'
    BY <1>7 DEF vars, logVars, IInv, Frontier, Pushing, Accepts, RunFrom,
       AcceptAt, Get
  <2>2. Same
    BY <1>7, SameContent DEF vars, logVars, Same
  <2> QED BY <2>1, <2>2
<1> QED BY <1>1, <1>2, <1>3, <1>4, <1>5, <1>6, <1>7 DEF Next

-----------------------------------------------------------------------------
(***************************************************************************)
(* What copy_out answers.                                                  *)
(***************************************************************************)

\* An entry is read where its slot is.
LEMMA ReadsSlot ==
    ASSUME NEW ss, NEW bs, NEW t, NEW f, Sound(ss, bs, t, f),
           NEW s \in Nat, f <= s, s < EndOf(bs, t, f)
    PROVE  EntryAt(ss, bs, t, f, s).slot = s
<1>1. CASE TailStart(bs, f) <= s
  <2> DEFINE k == s - TailStart(bs, f) + 1
  <2>1. TailStart(bs, f) \in Nat /\ Len(t) \in Nat
    BY SMTT(30), BelowTail DEF Sound, Typed
  <2>2. k \in 1 .. Len(t) /\ TailStart(bs, f) + k - 1 = s
    BY <1>1, <2>1 DEF EndOf
  <2>3. EntryAt(ss, bs, t, f, s) = t[k]
    BY <1>1, ReadTail
  <2> HIDE DEF k
  <2>4. t[k].slot = TailStart(bs, f) + k - 1
    BY <2>2 DEF Sound
  <2> QED BY <2>2, <2>3, <2>4
<1>2. ASSUME NEW i \in 1 .. Len(bs), Holds(bs[i], s)
      PROVE  EntryAt(ss, bs, t, f, s).slot = s
  <2> DEFINE k == s - bs[i].first + 1
  <2>1. /\ bs[i].first \in Nat /\ bs[i].len \in Nat /\ bs[i].len = Len(ss[i])
        /\ bs[i].first <= s /\ s <= LastOf(bs[i])
    BY <1>2, BelowTail DEF Holds, Sound, SlabOk
  <2>2. k \in 1 .. Len(ss[i]) /\ bs[i].first + k - 1 = s
    <3> DEFINE first == bs[i].first
               n == Len(ss[i])
    <3>1. first \in Nat /\ n \in Nat /\ first <= s /\ s <= first + n - 1
      BY <2>1 DEF LastOf
    <3>2. k = s - first + 1
      OBVIOUS
    <3> HIDE DEF k, first, n
    <3>3. k \in 1 .. n /\ first + k - 1 = s
      BY <3>1, <3>2
    <3> QED BY <3>3 DEF first, n
  <2>3. EntryAt(ss, bs, t, f, s) = ss[i][k]
    BY <1>2, ReadSlab
  <2> HIDE DEF k
  <2>4. ss[i][k].slot = bs[i].first + k - 1
    BY <2>2 DEF Sound, SlabOk
  <2> QED BY <2>2, <2>3, <2>4
<1> QED BY <1>1, <1>2, SlabOrTail

\* The length of a sequence is the end of its domain.
LEMMA SequenceLength ==
    ASSUME NEW m \in Nat, NEW S, NEW q \in [1 .. m -> S]
    PROVE  Len(q) = m
OBVIOUS

\* An interval that ends below one gives the empty sequence.
LEMMA IntervalLength ==
    ASSUME NEW n \in Int, NEW q, q = [k \in 1 .. n |-> q[k]]
    PROVE  /\ n \in Nat => Len(q) = n
           /\ n \notin Nat => Len(q) = 0
<1> DEFINE S == {q[k] : k \in 1 .. n}
<1>1. q \in [1 .. n -> S]
  OBVIOUS
<1>2. n \notin Nat => 1 .. n = 1 .. 0
  OBVIOUS
<1> HIDE DEF S
<1> QED BY <1>1, <1>2, SequenceLength

\* copy_out says what it copied, whatever the bounds of the copy: complete
\* answers hold the slots asked for, short ones those up to the frontier.
LEMMA CopyAnswers ==
    ASSUME IInv, call = {}, NEW from \in Slot, NEW to \in Slot,
           NEW a, a = CopyOut(from, to)
    PROVE  LET end == IF a.outcome = "Short" THEN accepted ELSE to
           IN  /\ a.outcome \in {"Complete", "Short"} /\ from <= end =>
                     Len(a.es) = end - from + 1
               /\ \A k \in 1 .. Len(a.es) : a.es[k].slot = from + k - 1
<1> DEFINE end == IF to > accepted THEN accepted ELSE to
           n == end - from + 1
           copied == [k \in 1 .. n |-> Get(from + k - 1)]
<1>1. /\ accepted \in Nat /\ first_slot \in Nat /\ from \in Nat /\ to \in Nat
      /\ EndOf(boundaries, tail, first_slot) = accepted + 1
      /\ Sound(slabs, boundaries, tail, first_slot)
  <2>1. pushed = 0 /\ accepted \in Nat
    BY DEF IInv, Pushing, Frontier
  <2> QED BY <2>1 DEF IInv, Frontier, Sound, Typed, Slot
<1>2. CASE from < first_slot
  <2>1. a = [outcome |-> "BelowRetention", es |-> <<>>]
    BY <1>1, <1>2 DEF CopyOut
  <2> QED BY <2>1
<1>3. CASE from >= first_slot /\ accepted = NoSlot
  <2>1. a = [outcome |-> "Empty", es |-> <<>>]
    BY <1>1, <1>3 DEF CopyOut
  <2> QED BY <2>1
<1>4. CASE from >= first_slot /\ accepted # NoSlot /\ to < from
  <2>1. a = [outcome |-> "Complete", es |-> <<>>]
    BY <1>1, <1>4 DEF CopyOut
  <2> QED BY <1>1, <1>4, <2>1
<1>5. CASE from >= first_slot /\ accepted # NoSlot /\ ~(to < from)
  <2>1. a = [outcome |-> IF to > accepted THEN "Short" ELSE "Complete",
             es |-> copied]
    BY <1>1, <1>5 DEF CopyOut
  <2>2. n \in Int
    BY <1>1
  <2>3. \A k \in 1 .. n : copied[k].slot = from + k - 1
    <3> SUFFICES ASSUME NEW k \in 1 .. n
                 PROVE  Get(from + k - 1).slot = from + k - 1
      OBVIOUS
    <3>1. /\ from + k - 1 \in Nat /\ first_slot <= from + k - 1
          /\ from + k - 1 < EndOf(boundaries, tail, first_slot)
      BY <1>1, <1>5
    <3> QED BY <1>1, <3>1, ReadsSlot DEF Get
  <2>4. copied = [k \in 1 .. n |-> copied[k]]
    OBVIOUS
  <2>5. a.es = copied /\ a.outcome = IF to > accepted THEN "Short" ELSE "Complete"
    BY <2>1
  <2>6. /\ n \in Nat => Len(copied) = n
        /\ n \notin Nat => Len(copied) = 0
    <3> HIDE DEF n, copied
    <3> QED BY <2>2, <2>4, IntervalLength
  <2>7. end = IF a.outcome = "Short" THEN accepted ELSE to
    BY <2>5
  <2>8. from <= end => n \in Nat
    BY <1>1
  <2>9. n = end - from + 1
    OBVIOUS
  <2> HIDE DEF n, copied, end
  <2> QED BY <2>2, <2>3, <2>5, <2>6, <2>7, <2>8, <2>9
<1> QED BY <1>1, <1>2, <1>3, <1>4, <1>5

\* Whatever the calls, the slabs, their index and the tail stay what they are
\* said to hold, and no slot number leaves its range.
THEOREM JournalTypes == Spec => []TypeOK
<1>1. Init => IInv
  BY InitIInv
<1>2. IInv /\ [Next]_vars => IInv'
  BY StepIInv
<1>3. IInv => TypeOK
  <2> SUFFICES ASSUME IInv PROVE TypeOK
    OBVIOUS
  <2>1. Typed(slabs, boundaries, tail, first_slot)
    BY DEF IInv, Sound
  <2>2. /\ accepted \in Nat /\ accepted < MaxSlot /\ pushed \in Nat
        /\ 1 <= first_slot /\ first_slot <= accepted + 1
    BY DEF IInv, Frontier
  <2>3. first_slot \in Slot /\ accepted \in Slot
    BY <2>1, <2>2 DEF Typed, Slot
  <2>4. call \in SUBSET Call
    BY DEF IInv, Pushing
  <2> QED BY <2>1, <2>2, <2>3, <2>4 DEF Typed, TypeOK
<1> QED BY <1>1, <1>2, <1>3, PTL DEF Spec

\* The journal of slabs implements the trait's run of entries: accept extends
\* it, install_suffix replaces it from a slot on, and reclaim_through drops
\* nothing above the checkpoint, whatever the capacity of a slab.
THEOREM SegmentedImplementsJournal == Spec => ImplementsJournal
<1>1. Init => IInv /\ Abstract!Init
  BY InitIInv
<1>2. IInv /\ [Next]_vars => IInv'
  BY StepIInv
<1>3. IInv /\ [Next]_vars
        => [Abstract!Next]_<<first_slot, accepted, Content, call>>
  BY StepIInv DEF Same
<1> QED BY <1>1, <1>2, <1>3, PTL DEF Spec, ImplementsJournal, Abstract!Spec, Content

\* Between two calls, whatever came before, copy_out answers every request
\* with exactly the slots its outcome names.
THEOREM CopiesAreTold == Spec => []CopiesTold
<1>1. Init => IInv
  BY InitIInv
<1>2. IInv /\ [Next]_vars => IInv'
  BY StepIInv
<1>3. IInv => CopiesTold
  <2> SUFFICES ASSUME IInv, call = {}, NEW from \in Slot, NEW to \in Slot
               PROVE  LET a == CopyOut(from, to)
                          end == IF a.outcome = "Short" THEN accepted ELSE to
                      IN  /\ a.outcome \in {"Complete", "Short"} /\ from <= end =>
                                Len(a.es) = end - from + 1
                          /\ \A k \in 1 .. Len(a.es) : a.es[k].slot = from + k - 1
    BY DEF CopiesTold
  <2> DEFINE a == CopyOut(from, to)
  <2>1. a = CopyOut(from, to)
    OBVIOUS
  <2> HIDE DEF a
  <2> QED BY <2>1, CopyAnswers
<1> QED BY <1>1, <1>2, <1>3, PTL DEF Spec
===============================================================================
