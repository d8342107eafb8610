---------------------------- MODULE ReplicaProofs ----------------------------
(***************************************************************************)
(* What the replica core keeps, for every cluster, quorum system, budget   *)
(* and bound: types, the order of the frontiers and of the two views, and  *)
(* the committed part of every journal.                                    *)
(*                                                                         *)
(* The invariant IInv adds two facts to TypeOK and ProgressOK.  FirstOK:   *)
(* the retained start is a slot.  EvidenceShaped: the histories collected  *)
(* and selected in a view change end at the frontier they state, so that   *)
(* an installed one reaches the frontier the candidate publishes.  The     *)
(* committed part of a journal survives an installation because            *)
(* check_suffix refuses a history that differs at a committed slot         *)
(* (CheckSuffixRules) and the journal keeps what lies below the slot it is *)
(* written from (InstalledRules).                                          *)
(*                                                                         *)
(* A section is about the journal's own end, which the accepted frontier   *)
(* names as long as no chunk of two entries or more arrives. The rest is   *)
(* the argument of view change, that the replicas agree.                   *)
(***************************************************************************)
EXTENDS Replica, FiniteSetTheorems, TLAPS

-----------------------------------------------------------------------------
(***************************************************************************)
(* Helpers.                                                                *)
(***************************************************************************)

\* A non-empty set of naturals has a least element.
LEMMA NatMin ==
    ASSUME NEW S, S \subseteq Nat, S # {}
    PROVE  \E x \in S : \A y \in S : x <= y
<1> DEFINE T == {0 .. x : x \in S}
<1>1. T \subseteq FiniteSubsetsOf(Nat)
  <2>1. \A x \in S : IsFiniteSet(0 .. x)
    BY FS_Interval
  <2>2. \A x \in S : 0 .. x \in SUBSET Nat
    OBVIOUS
  <2> QED BY <2>1, <2>2 DEF FiniteSubsetsOf
<1>2. T # {}
  OBVIOUS
<1>3. \E t \in T : \A u \in T : ~(<<u, t>> \in StrictSubsetOrdering(Nat))
  <2> HIDE DEF T
  <2> QED BY <1>1, <1>2, WFMin, FS_StrictSubsetOrderingWellFounded
<1>4. PICK x \in S : \A y \in S : ~(<<0 .. y, 0 .. x>> \in StrictSubsetOrdering(Nat))
  BY <1>3
<1>5. ASSUME NEW y \in S, y < x
      PROVE  FALSE
  <2>1. 0 .. y \subseteq 0 .. x /\ 0 .. y # 0 .. x
    <3>1. x \in 0 .. x /\ x \notin 0 .. y
      BY <1>5
    <3> QED BY <1>5, <3>1
  <2>2. 0 .. y \in SUBSET Nat /\ 0 .. x \in SUBSET Nat
    BY <1>5
  <2> QED BY <1>4, <2>1, <2>2 DEF StrictSubsetOrdering
<1> QED BY <1>5

\* The community modules' Min is that element.
LEMMA MinOf ==
    ASSUME NEW S, S \subseteq Nat, S # {}
    PROVE  Min(S) \in S /\ \A y \in S : Min(S) <= y
  BY NatMin DEF Min

\* A function on 1 .. n with natural values is a sequence of length n.
LEMMA FcnSeq ==
    ASSUME NEW S, NEW n \in Nat, NEW f \in [1 .. n -> S]
    PROVE  f \in Seq(S) /\ Len(f) = n
  OBVIOUS

\* A sequence of naturals has a natural at every index.
LEMMA SeqAt ==
    ASSUME NEW e \in Seq(Nat), NEW j \in 1 .. Len(e)
    PROVE  e[j] \in Nat
  OBVIOUS

\* The run of a log is well formed and ends where it was asked to end.
LEMMA RunOfType ==
    ASSUME NEW l \in Seq(Nat), NEW low \in Int, low >= 1, NEW high \in Nat, 
           low > high \/ high <= Len(l)
    PROVE  /\ RunOf(l, low, high) \in Suffix
           /\ ShapeOk(RunOf(l, low, high), high)
<1>1. CASE low > high
  <2>1. RunOf(l, low, high) = [from |-> high + 1, ents |-> <<>>]
    BY <1>1 DEF RunOf
  <2>2. high + 1 \in Nat /\ high + 1 >= 1
    OBVIOUS
  <2> QED BY <2>1, <2>2 DEF Suffix, ShapeOk
<1>2. CASE low <= high
  <2> DEFINE f == [i \in 1 .. high - low + 1 |-> l[low + i - 1]]
  <2>1. high - low + 1 \in Nat
    BY <1>2
  <2>2. f \in [1 .. high - low + 1 -> Nat]
    BY <1>2
  <2>3. f \in Seq(Nat) /\ Len(f) = high - low + 1
    BY <2>1, <2>2, FcnSeq
  <2>4. RunOf(l, low, high) = [from |-> low, ents |-> f]
    BY <1>2 DEF RunOf
  <2> HIDE DEF f
  <2>5. RunOf(l, low, high) \in Suffix
    BY <1>2, <2>3, <2>4 DEF Suffix
  <2>6. /\ RunOf(l, low, high).from = low
        /\ RunOf(l, low, high).ents = f
    BY <2>4
  <2>7. LastSlot(RunOf(l, low, high)) = high
    BY <1>2, <2>3, <2>6 DEF LastSlot
  <2> QED BY <1>2, <2>5, <2>6, <2>7 DEF ShapeOk
<1> QED BY <1>1, <1>2

\* A ruling on the run sfx, with slots up to d discharged.
RulingOk(r, sfx, d, c) ==
    /\ c.slot \in Nat
    /\ c.kind \in {"Gap", "Conflict", "Keep", "Install"}
    /\ Installable(c) /\ sfx.ents # <<>> => sfx.from <= accepted[r] + 1
    /\ c.kind = "Install" =>
         /\ sfx.ents # <<>>
         /\ sfx.from <= c.slot /\ c.slot <= LastSlot(sfx)
         /\ c.slot <= accepted[r] + 1
         /\ c.slot >= first[r] \/ d = 0 =>
              \A s \in 1 .. committed[r] :
                 c.slot <= s /\ s <= LastSlot(sfx) =>
                     log[r][s] = EntryAt(sfx, s)

\* What check_suffix may rule: an installation starts inside the run, at a slot
\* the journal can continue from, and leaves the committed slots as they are.
LEMMA CheckSuffixRules ==
    ASSUME TypeOK, NEW r \in Node, NEW sfx \in Suffix, NEW acc \in Nat,
           NEW com \in Nat, NEW d \in Nat, accepted[r] = Len(log[r]),
           committed[r] <= accepted[r],
           NEW c, c = CheckSuffix(r, sfx, acc, com, d)
    PROVE  RulingOk(r, sfx, d, c)
<1> DEFINE shared == {s \in sfx.from .. LastSlot(sfx) : s <= accepted[r]}
           letGo == {s \in shared : s < first[r] /\ s > d}
           differs == {s \in shared : s >= first[r]
                                      /\ log[r][s] # EntryAt(sfx, s)}
           stop == Min(letGo \cup differs)
<1>1. /\ accepted[r] \in Nat /\ first[r] \in Nat /\ committed[r] \in Nat
      /\ sfx.from \in Nat /\ sfx.ents \in Seq(Nat)
      /\ LastSlot(sfx) \in Int
      /\ sfx.ents # <<>> => LastSlot(sfx) >= sfx.from
  BY DEF TypeOK, Suffix, LastSlot
<1>2. c = IF sfx.ents = <<>>
          THEN IF acc = accepted[r] /\ com = accepted[r]
               THEN Keep ELSE Gap(accepted[r] + 1)
          ELSE IF sfx.from > accepted[r] + 1 THEN Gap(accepted[r] + 1)
          ELSE IF letGo \cup differs # {}
          THEN IF stop \in letGo THEN Gap(stop)
               ELSE IF stop <= committed[r] THEN Conflict
               ELSE InstallFrom(stop)
          ELSE IF LastSlot(sfx) > accepted[r] THEN InstallFrom(accepted[r] + 1)
          ELSE IF acc < accepted[r] THEN InstallFrom(sfx.from)
          ELSE Keep
  BY DEF CheckSuffix
<1>3. letGo \cup differs \subseteq
        {s \in Nat : sfx.from <= s /\ s <= LastSlot(sfx) /\ s <= accepted[r]}
  BY <1>1
<1>4. letGo \cup differs # {} =>
        /\ stop \in letGo \cup differs
        /\ stop \in Nat /\ sfx.from <= stop /\ stop <= LastSlot(sfx)
        /\ stop <= accepted[r]
  <2> DEFINE S == letGo \cup differs
  <2>1. S \subseteq Nat
    BY <1>3
  <2> HIDE DEF letGo, differs
  <2> HIDE DEF S
  <2>2. S # {} => Min(S) \in S
    BY <2>1, MinOf
  <2> QED BY <1>3, <2>2 DEF S
<1>5. ASSUME letGo \cup differs = {}, NEW s \in 1 .. committed[r],
             sfx.from <= s, s <= LastSlot(sfx)
      PROVE  /\ s > d => s >= first[r]
             /\ s >= first[r] => log[r][s] = EntryAt(sfx, s)
  <2>1. s \in sfx.from .. LastSlot(sfx) /\ s <= accepted[r]
    BY <1>1, <1>5
  <2>2. s \in shared
    BY <2>1
  <2>3. s \notin letGo /\ s \notin differs
    BY <1>5
  <2> HIDE DEF shared
  <2>4. ~(s < first[r] /\ s > d)
    BY <2>2, <2>3
  <2>5. ~(s >= first[r] /\ log[r][s] # EntryAt(sfx, s))
    BY <2>2, <2>3
  <2>6. s > d => s >= first[r]
    BY <1>1, <2>4
  <2> QED BY <2>5, <2>6
<1> DEFINE AgreesFrom(slot) ==
             \A s \in 1 .. committed[r] :
                slot <= s /\ s <= LastSlot(sfx) => log[r][s] = EntryAt(sfx, s)
<1>6. CASE c = Keep \/ c = Conflict \/ \E s \in Nat : c = Gap(s)
  <2>1. Installable(c) /\ sfx.ents # <<>> => sfx.from <= accepted[r] + 1
    <3>1. CASE sfx.from <= accepted[r] + 1
      BY <3>1
    <3>2. CASE sfx.from > accepted[r] + 1 /\ sfx.ents # <<>>
      BY <1>2, <3>2 DEF Gap, Installable
    <3> QED BY <1>1, <3>1, <3>2
  <2> QED BY <1>6, <2>1 DEF RulingOk, Keep, Gap, Conflict
<1>7. CASE /\ sfx.ents # <<>> /\ sfx.from <= accepted[r] + 1
           /\ letGo \cup differs # {}
           /\ stop > committed[r]
           /\ c = InstallFrom(stop)
  <2>1. AgreesFrom(stop)
    BY <1>1, <1>4, <1>7
  <2> HIDE DEF stop, AgreesFrom, letGo, differs
  <2>2. c.kind = "Install" /\ c.slot = stop
    BY <1>7 DEF InstallFrom
  <2>3. AgreesFrom(c.slot)
    BY <2>1, <2>2
  <2> QED BY <1>1, <1>4, <1>7, <2>2, <2>3 DEF RulingOk, AgreesFrom
<1>8. CASE /\ sfx.ents # <<>> /\ sfx.from <= accepted[r] + 1
           /\ LastSlot(sfx) > accepted[r]
           /\ c = InstallFrom(accepted[r] + 1)
  <2>1. AgreesFrom(accepted[r] + 1)
    BY <1>1, <1>8
  <2> HIDE DEF AgreesFrom
  <2>2. c.kind = "Install" /\ c.slot = accepted[r] + 1
    BY <1>8 DEF InstallFrom
  <2>3. AgreesFrom(c.slot)
    BY <2>1, <2>2
  <2> QED BY <1>1, <1>8, <2>2, <2>3 DEF RulingOk, AgreesFrom
<1>9. CASE /\ sfx.ents # <<>> /\ sfx.from <= accepted[r] + 1
           /\ letGo \cup differs = {}
           /\ c = InstallFrom(sfx.from)
  <2>1. c.kind = "Install" /\ c.slot = sfx.from
    BY <1>9 DEF InstallFrom
  <2>2. c.slot >= first[r] \/ d = 0 => AgreesFrom(c.slot)
    <3> HIDE DEF letGo, differs
    <3> QED BY <1>1, <1>5, <1>9, <2>1
  <2> HIDE DEF AgreesFrom
  <2> QED BY <1>1, <1>9, <2>1, <2>2 DEF RulingOk, AgreesFrom
<1> HIDE DEF letGo, differs, stop, AgreesFrom
<1>10. CASE sfx.ents = <<>>
  BY <1>1, <1>2, <1>6, <1>10
<1>11. CASE sfx.ents # <<>> /\ sfx.from > accepted[r] + 1
  BY <1>1, <1>2, <1>6, <1>11
<1>12. CASE /\ sfx.ents # <<>> /\ sfx.from <= accepted[r] + 1
            /\ letGo \cup differs # {}
  <2>1. c = Conflict \/ c = Gap(stop) \/ (stop > committed[r] /\ c = InstallFrom(stop))
    BY <1>1, <1>2, <1>4, <1>12
  <2> QED BY <1>4, <1>6, <1>7, <1>12, <2>1
<1>13. CASE /\ sfx.ents # <<>> /\ sfx.from <= accepted[r] + 1
            /\ letGo \cup differs = {}
  <2>1. \/ c = Keep
        \/ LastSlot(sfx) > accepted[r] /\ c = InstallFrom(accepted[r] + 1)
        \/ c = InstallFrom(sfx.from)
    BY <1>1, <1>2, <1>13
  <2> QED BY <1>6, <1>8, <1>9, <1>13, <2>1
<1> QED BY <1>1, <1>10, <1>11, <1>12, <1>13

\* Writing a run over a log from a slot the log can continue from.
LEMMA SpliceRules ==
    ASSUME NEW l \in Seq(Nat), NEW sfx \in Suffix, NEW k \in Nat, NEW n \in Nat,
           sfx.ents # <<>>, sfx.from <= k, k <= LastSlot(sfx), k <= Len(l) + 1,
           n <= Len(l), n <= LastSlot(sfx),
           \A s \in 1 .. n : k <= s => l[s] = EntryAt(sfx, s)
    PROVE  /\ Splice(l, sfx, k) \in Seq(Nat)
           /\ Len(Splice(l, sfx, k)) = LastSlot(sfx)
           /\ \A s \in 1 .. n : Splice(l, sfx, k)[s] = l[s]
<1> DEFINE m == LastSlot(sfx)
           new == [i \in 1 .. m |-> IF i < k THEN l[i] ELSE EntryAt(sfx, i)]
<1>1. /\ sfx.from \in Nat /\ sfx.ents \in Seq(Nat) /\ Len(sfx.ents) \in Nat
      /\ m = sfx.from + Len(sfx.ents) - 1
      /\ Len(l) \in Nat
  BY DEF Suffix, LastSlot
<1>2. m \in Nat
  BY <1>1
<1>3. Splice(l, sfx, k) = new
  BY DEF Splice
<1> HIDE DEF m
<1>4. ASSUME NEW i \in 1 .. m, i >= k
      PROVE  EntryAt(sfx, i) \in Nat
  <2>1. i - sfx.from + 1 \in 1 .. Len(sfx.ents)
    BY <1>1, <1>2, <1>4, SMTT(30)
  <2>2. sfx.ents[i - sfx.from + 1] \in Nat
    BY <1>1, <2>1, SeqAt
  <2> QED BY <2>2 DEF EntryAt
<1>5. ASSUME NEW i \in 1 .. m, i < k
      PROVE  l[i] \in Nat
  <2>1. i \in 1 .. Len(l)
    BY <1>1, <1>2, <1>5
  <2> QED BY <2>1
<1>6. new \in [1 .. m -> Nat]
  BY <1>2, <1>4, <1>5
<1>7. new \in Seq(Nat) /\ Len(new) = m
  BY <1>2, <1>6, FcnSeq
<1>8. n <= m
  BY DEF m
<1>9. \A s \in 1 .. n : new[s] = l[s]
  BY <1>2, <1>8
<1> QED BY <1>3, <1>7, <1>9 DEF m

\* An installation yields a log that ends where the run ends and agrees with
\* the old one below the commit frontier.
LEMMA InstalledRules ==
    ASSUME TypeOK, NEW r \in Node, NEW sfx \in Suffix, NEW d \in Nat,
           accepted[r] = Len(log[r]), committed[r] <= accepted[r],
           NEW c, RulingOk(r, sfx, d, c),
           c.kind = "Install" =>
                /\ c.slot >= first[r] \/ d = 0
                /\ committed[r] <= LastSlot(sfx)
    PROVE  /\ Installed(r, sfx, c) \in Seq(Nat)
           /\ \A s \in 1 .. committed[r] : Installed(r, sfx, c)[s] = log[r][s]
<1>1. CASE c.kind # "Install"
  BY <1>1 DEF Installed, TypeOK
<1>2. CASE c.kind = "Install"
  <2> DEFINE k == c.slot
             n == committed[r]
             l == log[r]
  <2>1. /\ k \in Nat /\ sfx.ents # <<>> /\ sfx.from <= k
        /\ k <= LastSlot(sfx) /\ k <= Len(l) + 1
        /\ n <= LastSlot(sfx) /\ n <= Len(l) /\ n \in Nat /\ l \in Seq(Nat)
        /\ sfx.from \in Nat /\ LastSlot(sfx) \in Int
    <3>1. /\ k \in Nat /\ sfx.ents # <<>> /\ sfx.from <= k
          /\ k <= LastSlot(sfx) /\ k <= accepted[r] + 1
          /\ n <= LastSlot(sfx)
      BY <1>2 DEF RulingOk
    <3>2. k <= Len(l) + 1 /\ n <= Len(l) /\ n \in Nat /\ l \in Seq(Nat)
      BY <3>1 DEF TypeOK
    <3>3. sfx.from \in Nat /\ LastSlot(sfx) \in Int
      BY DEF Suffix, LastSlot
    <3> QED BY <3>1, <3>2, <3>3
  <2>2. \A s \in 1 .. n : k <= s => l[s] = EntryAt(sfx, s)
    <3>1. \A s \in 1 .. n : k <= s /\ s <= LastSlot(sfx) => l[s] = EntryAt(sfx, s)
      BY <1>2 DEF RulingOk
    <3> HIDE DEF k, n, l
    <3> QED BY <2>1, <3>1
  <2>3. Installed(r, sfx, c) = Splice(l, sfx, k)
    BY <1>2 DEF Installed
  <2> HIDE DEF k, n, l
  <2>4. /\ Splice(l, sfx, k) \in Seq(Nat)
        /\ \A s \in 1 .. n : Splice(l, sfx, k)[s] = l[s]
    BY <2>1, <2>2, SpliceRules
  <2> QED BY <2>3, <2>4 DEF l, n
<1> QED BY <1>1, <1>2

-----------------------------------------------------------------------------
(***************************************************************************)
(* The inductive invariant.  TypeOK needs more than types: a suffix is cut *)
(* from the journal at a retained slot, so retained slots start at one,    *)
(* and a new primary reads its journal below the selected suffix, so what  *)
(* it collected has the shape it checked on arrival.                       *)
(***************************************************************************)

FirstOK == \A r \in Node : first[r] >= 1

Shaped(evs) == \A e \in evs : ShapeOk(e.suffix, e.accepted)
EvidenceShaped == \A r \in Node : Shaped(evidence[r]) /\ Shaped(selected[r])

IInv == TypeOK /\ ProgressOK /\ FirstOK /\ EvidenceShaped

\* What CommittedStable says of one step.
Stable ==
    \A r \in Node :
        /\ committed[r] <= committed'[r]
        /\ \A s \in 1 .. committed[r] : log'[r][s] = log[r][s]

\* provision starts every replica in a state of the invariant.
LEMMA InitIInv == Init => IInv
<1> SUFFICES ASSUME Init PROVE IInv
  OBVIOUS
<1>1. GenesisLog \in Seq(Nat)
  BY DEF GenesisLog, GenesisEntry
<1>2. TypeOK
  BY <1>1 DEF Init, TypeOK, Status, INIT_SLOT, VOID_SLOT
<1>3. ProgressOK /\ FirstOK /\ EvidenceShaped
  BY DEF Init, ProgressOK, FirstOK, EvidenceShaped, Shaped, INIT_SLOT, VOID_SLOT
<1> QED BY <1>2, <1>3 DEF IInv

\* Raising a fault (fault_node) leaves everything else alone.
LEMMA RaiseStep ==
    ASSUME IInv, NEW r \in Node, Raise(r)
    PROVE  IInv' /\ Stable
<1> USE DEF Raise, progressVars, journalVars, proposalVars, attemptVars, fetchVars
<1>1. TypeOK'
  BY DEF IInv, TypeOK
<1>2. ProgressOK' /\ FirstOK'
  BY DEF IInv, ProgressOK, FirstOK
<1>3. EvidenceShaped'
  BY DEF IInv, EvidenceShaped
<1>4. Stable
  BY DEF IInv, TypeOK, Stable
<1> QED BY <1>1, <1>2, <1>3, <1>4 DEF IInv

\* continue_view_change: recording an attempt moves no frontier.
LEMMA AttemptStep ==
    ASSUME IInv, NEW r \in Node, NEW v \in Nat, view[r] <= v,
           NEW fs \in SUBSET Node, NEW evs \in SUBSET Evidence, Shaped(evs),
           NEW sel \in SUBSET Evidence, Shaped(sel),
           NEW sent \in SUBSET Message, NEW fetched \in SUBSET Fetch,
           Attempt(r, v, fs, evs, sel, sent, fetched)
    PROVE  IInv' /\ Stable
<1> USE DEF Attempt, journalVars, proposalVars
<1>1. TypeOK'
  BY DEF IInv, TypeOK, Status, Send
<1>2. ProgressOK' /\ FirstOK'
  BY DEF IInv, TypeOK, ProgressOK, FirstOK
<1>3. EvidenceShaped'
  <2>1. \A q \in Node : Shaped(evidence'[q]) /\ Shaped(selected'[q])
    BY DEF IInv, TypeOK, EvidenceShaped
  <2> QED BY <2>1 DEF EvidenceShaped, Shaped
<1>4. Stable
  BY DEF IInv, TypeOK, Stable
<1> QED BY <1>1, <1>2, <1>3, <1>4 DEF IInv

\* A replica's own evidence has the shape its collector checks.
LEMMA OwnEvidenceOk ==
    ASSUME IInv, NEW r \in Node, Live(r)
    PROVE  OwnEvidence(r) \in Evidence /\ Shaped({OwnEvidence(r)})
<1> DEFINE low == AtLeast(first[r], accepted[r] - Budget + 1)
<1>1. /\ log[r] \in Seq(Nat) /\ accepted[r] \in Nat /\ retained[r] \in Nat
      /\ committed[r] \in Nat /\ accepted[r] = Len(log[r])
  BY DEF IInv, TypeOK, Live
<1>2. low \in Int /\ low >= 1
  BY BoundsAssumption DEF IInv, TypeOK, FirstOK, AtLeast
<1>3. /\ RunOf(log[r], low, accepted[r]) \in Suffix
      /\ ShapeOk(RunOf(log[r], low, accepted[r]), accepted[r])
  <2> HIDE DEF low
  <2> QED BY <1>1, <1>2, RunOfType
<1>4. BoundedSuffix(r) \in Suffix /\ ShapeOk(BoundedSuffix(r), accepted[r])
  BY <1>3 DEF BoundedSuffix
<1>5. OwnEvidence(r) \in Evidence
  BY <1>1, <1>4 DEF OwnEvidence, Evidence
<1>6. OwnEvidence(r).suffix = BoundedSuffix(r) /\ OwnEvidence(r).accepted = accepted[r]
  BY DEF OwnEvidence
<1> QED BY <1>4, <1>5, <1>6 DEF Shaped

\* The suffix a new primary sends is cut from the history it installs.
LEMMA OverlaySuffixOk ==
    ASSUME IInv, NEW r \in Node, NEW e \in Evidence, Live(r),
           ShapeOk(e.suffix, e.accepted),
           e.suffix.ents # <<>> => e.suffix.from <= accepted[r] + 1
    PROVE  BoundedOverlaySuffix(r, e.accepted, e.suffix) \in Suffix
<1> DEFINE ov == e.suffix
           f == e.accepted
           l == log[r]
           oldest == AtLeast(first[r], f - Budget + 1)
           low == IF Budget < Len(ov.ents) THEN f - Budget + 1
                  ELSE AtMost(ov.from, oldest)
           new == Splice(l, ov, ov.from)
<1>1. /\ l \in Seq(Nat) /\ accepted[r] = Len(l) /\ f \in Nat /\ ov \in Suffix
      /\ ov.from \in Nat /\ ov.ents \in Seq(Nat) /\ Len(ov.ents) \in Nat
      /\ Len(l) \in Nat
  <2>1. l \in Seq(Nat) /\ accepted[r] = Len(l)
    BY DEF IInv, TypeOK, Live
  <2>2. f \in Nat /\ ov \in Suffix
    BY DEF Evidence
  <2> HIDE DEF l, ov
  <2>3. ov.from \in Nat /\ ov.ents \in Seq(Nat)
    BY <2>2 DEF Suffix
  <2> QED BY <2>1, <2>2, <2>3
<1>2. oldest \in Int /\ oldest >= 1
  BY <1>1, BoundsAssumption DEF IInv, TypeOK, FirstOK, AtLeast
<1>3. CASE ov.ents = <<>> /\ f > Len(l)
  <2>1. RunOf(l, f + 1, f) \in Suffix
    <3> HIDE DEF l, f
    <3>1. f + 1 \in Int /\ f + 1 >= 1 /\ f + 1 > f
      BY <1>1
    <3> QED BY <1>1, <3>1, RunOfType
  <2> QED BY <1>3, <2>1 DEF BoundedOverlaySuffix
<1>4. CASE ov.ents = <<>> /\ f <= Len(l)
  <2> HIDE DEF l, oldest, f
  <2>1. RunOf(l, oldest, f) \in Suffix
    BY <1>1, <1>2, <1>4, RunOfType
  <2>2. ~(f > Len(l))
    BY <1>1, <1>4
  <2> QED BY <1>4, <2>1, <2>2 DEF BoundedOverlaySuffix, l, oldest, f
<1>5. CASE ov.ents # <<>>
  <2>1. /\ LastSlot(ov) = f /\ ov.from >= 1 /\ ov.from <= Len(l) + 1
        /\ f = ov.from + Len(ov.ents) - 1 /\ Len(ov.ents) > 0
    BY <1>1, <1>5 DEF ShapeOk, LastSlot
  <2>2. low \in Int /\ low >= 1
    <3>1. Budget < Len(ov.ents) => f - Budget + 1 \in Int /\ f - Budget + 1 >= 1
      <4>1. Budget \in Nat
        BY BoundsAssumption
      <4> HIDE DEF f, ov
      <4> QED BY <1>1, <2>1, <4>1, SMTT(30)
    <3>2. AtMost(ov.from, oldest) \in Int /\ AtMost(ov.from, oldest) >= 1
      <4> HIDE DEF oldest, ov
      <4> QED BY <1>1, <1>2, <2>1 DEF AtMost
    <3> QED BY <3>1, <3>2
  <2>3. new \in Seq(Nat) /\ Len(new) = f
    <3> DEFINE n == 0
    <3>1. \A s \in 1 .. n : ov.from <= s => l[s] = EntryAt(ov, s)
      OBVIOUS
    <3>2. ov.from <= LastSlot(ov) /\ n \in Nat /\ n <= Len(l) /\ n <= LastSlot(ov)
      BY <1>1, <2>1
    <3> DEFINE k == ov.from
    <3>3. /\ k \in Nat /\ ov.from <= k /\ k <= LastSlot(ov) /\ k <= Len(l) + 1
          /\ \A s \in 1 .. n : k <= s => l[s] = EntryAt(ov, s)
      BY <1>1, <2>1, <3>1, <3>2
    <3> HIDE DEF n, l, ov, f, k
    <3>4. /\ Splice(l, ov, ov.from) \in Seq(Nat)
          /\ Len(Splice(l, ov, ov.from)) = LastSlot(ov)
      <4>1. /\ Splice(l, ov, k) \in Seq(Nat)
            /\ Len(Splice(l, ov, k)) = LastSlot(ov)
        BY <1>1, <1>5, <3>2, <3>3, SpliceRules
      <4> QED BY <4>1 DEF k
    <3> QED BY <2>1, <3>4
  <2> HIDE DEF low, new, f
  <2>4. RunOf(new, low, f) \in Suffix
    BY <1>1, <2>2, <2>3, RunOfType
  <2> QED BY <1>5, <2>4 DEF BoundedOverlaySuffix, low, new, f
<1> QED BY <1>1, <1>3, <1>4, <1>5

\* A history that passed check_suffix, as the journal takes it.
LEMMA AdoptedLog ==
    ASSUME IInv, NEW r \in Node, Live(r), NEW sfx \in Suffix, NEW acc \in Nat,
           NEW d \in Nat, ShapeOk(sfx, acc), committed[r] <= acc,
           NEW c, RulingOk(r, sfx, d, c), ~JournalRefuses(r, c)
    PROVE  /\ Installed(r, sfx, c) \in Seq(Nat)
           /\ \A s \in 1 .. committed[r] : Installed(r, sfx, c)[s] = log[r][s]
<1>1. TypeOK /\ accepted[r] = Len(log[r]) /\ committed[r] <= accepted[r]
  BY DEF IInv, Live, ProgressOK
<1>2. ASSUME c.kind = "Install"
      PROVE  c.slot >= first[r] /\ committed[r] <= LastSlot(sfx)
  <2>1. c.slot \in Nat /\ first[r] \in Nat /\ sfx.ents # <<>>
    BY <1>1, <1>2 DEF RulingOk, TypeOK
  <2>2. c.slot >= first[r]
    BY <1>2, <2>1 DEF JournalRefuses
  <2>3. LastSlot(sfx) = acc
    BY <2>1 DEF ShapeOk
  <2> QED BY <2>2, <2>3
<1> QED BY <1>1, <1>2, InstalledRules

\* The same for a chunk, where no slot counts as discharged.
LEMMA ChunkLog ==
    ASSUME IInv, NEW r \in Node, Live(r), NEW sfx \in Suffix,
           committed[r] <= LastSlot(sfx), NEW c, RulingOk(r, sfx, 0, c)
    PROVE  /\ Installed(r, sfx, c) \in Seq(Nat)
           /\ \A s \in 1 .. committed[r] : Installed(r, sfx, c)[s] = log[r][s]
<1>1. TypeOK /\ accepted[r] = Len(log[r]) /\ committed[r] <= accepted[r]
  BY DEF IInv, Live, ProgressOK
<1> QED BY <1>1, InstalledRules

\* A step that moves one replica's frontier and log.
LEMMA StableAt ==
    ASSUME TypeOK, NEW r \in Node, NEW c \in Nat, NEW new,
           committed[r] <= c, committed' = [committed EXCEPT ![r] = c],
           log' = [log EXCEPT ![r] = new],
           \A s \in 1 .. committed[r] : new[s] = log[r][s]
    PROVE  Stable
<1>1. committed'[r] = c /\ log'[r] = new
  BY DEF TypeOK
<1>2. \A q \in Node \ {r} : committed'[q] = committed[q] /\ log'[q] = log[q]
  BY DEF TypeOK
<1>3. \A q \in Node : committed[q] \in Nat
  BY DEF TypeOK
<1> QED BY <1>1, <1>2, <1>3 DEF Stable

\* plan_win_view: the new primary installs the selected history, which
\* leaves its committed slots as they are, and opens the view.
LEMMA WinStep ==
    ASSUME IInv, NEW r \in Node, Live(r), NEW v \in Nat, view[r] <= v,
           NEW e \in Evidence, ShapeOk(e.suffix, e.accepted),
           NEW c \in Nat, committed[r] <= c, c <= e.accepted,
           NEW sent \in SUBSET Message, NEW forced \in SUBSET Fetch,
           NEW ruling,
           ruling = CheckSuffix(r, e.suffix, e.accepted, c, checkpoint[r]),
           Installable(ruling), ~JournalRefuses(r, ruling),
           Win(r, v, e, c, sent, forced)
    PROVE  IInv' /\ Stable
<1> DEFINE new == Installed(r, e.suffix, ruling)
<1>1. /\ e.suffix \in Suffix /\ e.accepted \in Nat /\ checkpoint[r] \in Nat
      /\ committed[r] \in Nat
  BY DEF Evidence, IInv, TypeOK
<1>2. committed[r] <= e.accepted
  BY <1>1
<1>3. /\ RulingOk(r, e.suffix, checkpoint[r], ruling)
      /\ new \in Seq(Nat)
      /\ \A s \in 1 .. committed[r] : new[s] = log[r][s]
  <2> DEFINE sfx == e.suffix
             acc == e.accepted
             d == checkpoint[r]
  <2>1. /\ sfx \in Suffix /\ acc \in Nat /\ d \in Nat /\ ShapeOk(sfx, acc)
        /\ committed[r] <= acc /\ ruling = CheckSuffix(r, sfx, acc, c, d)
    BY <1>1, <1>2
  <2> HIDE DEF sfx, acc, d
  <2>2. TypeOK /\ accepted[r] = Len(log[r]) /\ committed[r] <= accepted[r]
    BY DEF IInv, Live, ProgressOK
  <2>3. RulingOk(r, sfx, d, ruling)
    BY <2>1, <2>2, CheckSuffixRules
  <2>4. /\ Installed(r, sfx, ruling) \in Seq(Nat)
        /\ \A s \in 1 .. committed[r] : Installed(r, sfx, ruling)[s] = log[r][s]
    BY <2>1, <2>3, AdoptedLog
  <2> QED BY <2>3, <2>4 DEF sfx, d
<1>4. e.suffix.ents # <<>> => e.suffix.from <= accepted[r] + 1
  BY <1>3 DEF RulingOk
<1>5. StartView(r, v, e, c) \in Message
  <2>1. BoundedOverlaySuffix(r, e.accepted, e.suffix) \in Suffix
    BY <1>4, OverlaySuffixOk
  <2> QED BY <1>1, <2>1 DEF StartView, StartViewMsg, Message
<1>6. log' = [log EXCEPT ![r] = new]
  BY DEF Win
<1> HIDE DEF new
<1>7. TypeOK'
  <2>1. /\ status' \in [Node -> Status] /\ view' \in [Node -> Nat]
        /\ retained' \in [Node -> Nat] /\ accepted' \in [Node -> Nat]
        /\ committed' \in [Node -> Nat] /\ applied' \in [Node -> Nat]
        /\ checkpoint' \in [Node -> Nat] /\ fault' \in [Node -> BOOLEAN]
    BY <1>1 DEF Win, IInv, TypeOK, Status
  <2>2. log' \in [Node -> Seq(Nat)] /\ first' \in [Node -> Nat]
    BY <1>3, <1>6 DEF Win, IInv, TypeOK
  <2>3. open' \in [Node -> SUBSET Nat] /\ oks' \in [Node -> SUBSET (Nat \X Node)]
    BY <1>1 DEF Win, IInv, TypeOK
  <2>4. /\ fences' \in [Node -> SUBSET Node]
        /\ evidence' \in [Node -> SUBSET Evidence]
        /\ selected' \in [Node -> SUBSET Evidence]
        /\ transfer' \in [Node -> SUBSET Fetch]
        /\ stalled' \in [Node -> SUBSET StartViewMsg]
        /\ restarts' \in Nat
    BY DEF Win, IInv, TypeOK
  <2>5. msgs' \subseteq Message
    BY <1>5 DEF Win, Send, IInv, TypeOK
  <2> QED BY <2>1, <2>2, <2>3, <2>4, <2>5 DEF TypeOK
<1>8. ProgressOK' /\ FirstOK'
  BY <1>1 DEF Win, IInv, TypeOK, ProgressOK, FirstOK
<1>9. EvidenceShaped'
  <2>1. \A q \in Node : Shaped(evidence'[q]) /\ Shaped(selected'[q])
    BY DEF Win, IInv, TypeOK, EvidenceShaped, Shaped
  <2> QED BY <2>1 DEF EvidenceShaped, Shaped
<1>10. Stable
  BY <1>3, <1>6, StableAt DEF Win, IInv
<1> QED BY <1>7, <1>8, <1>9, <1>10 DEF IInv

\* The fetches a higher-view signal forces are asked for in messages.
LEMMA AsksOk ==
    ASSUME NEW r \in Node, NEW fs \in SUBSET Fetch
    PROVE  Asks(r, fs) \in SUBSET Message
  BY DEF Asks, GetState, Fetch, GetStateMsg, Message

\* plan_win_view: install, fault on a conflict, or fetch what is missing.
LEMMA WinOrWaitStep ==
    ASSUME IInv, NEW r \in Node, Live(r), NEW v \in Nat, view[r] <= v,
           NEW fs \in SUBSET Node,
           NEW evs \in SUBSET Evidence, Shaped(evs),
           NEW e \in Evidence, Shaped({e}),
           NEW sent \in SUBSET Message, NEW forced \in SUBSET Fetch,
           WinOrWait(r, v, fs, evs, e, sent, forced)
    PROVE  IInv' /\ Stable
<1>1. PICK c \in {committed[r]} \cup {f.committed : f \in evs} :
        LET ruling == CheckSuffix(r, e.suffix, e.accepted, c, checkpoint[r])
            missing == IF c > e.accepted THEN e.accepted + 1 ELSE ruling.slot
            asked == IF transfer[r] = {}
                     THEN {[view |-> v, to |-> e.from, next |-> missing]}
                     ELSE {}
            fetched == IF forced = {} THEN asked ELSE forced
        IN  /\ committed[r] <= c
            /\ \A f \in evs : f.committed <= c
            /\ \/ /\ c > e.accepted \/ ruling.kind = "Gap"
                  /\ Attempt(r, v, fs, evs, {e},
                             sent \cup Asks(r, asked \cup forced), fetched)
               \/ /\ c <= e.accepted
                  /\ ruling.kind = "Conflict" \/ JournalRefuses(r, ruling)
                  /\ Raise(r)
               \/ /\ c <= e.accepted
                  /\ Installable(ruling) /\ ~JournalRefuses(r, ruling)
                  /\ Win(r, v, e, c, sent \cup Asks(r, forced), forced)
  BY DEF WinOrWait
<1> DEFINE ruling == CheckSuffix(r, e.suffix, e.accepted, c, checkpoint[r])
           missing == IF c > e.accepted THEN e.accepted + 1 ELSE ruling.slot
           asked == IF transfer[r] = {}
                    THEN {[view |-> v, to |-> e.from, next |-> missing]}
                    ELSE {}
           fetched == IF forced = {} THEN asked ELSE forced
<1>2. /\ c \in Nat /\ committed[r] <= c /\ e.suffix \in Suffix
      /\ e.accepted \in Nat /\ e.from \in Node /\ checkpoint[r] \in Nat
      /\ accepted[r] = Len(log[r]) /\ committed[r] <= accepted[r]
      /\ ShapeOk(e.suffix, e.accepted)
  <2>1. committed[r] <= c /\ c \in {committed[r]} \cup {f.committed : f \in evs}
    BY <1>1
  <2>2. committed[r] \in Nat /\ checkpoint[r] \in Nat
    BY DEF IInv, TypeOK
  <2>3. c \in Nat
    BY <2>1, <2>2 DEF Evidence
  <2>4. accepted[r] = Len(log[r]) /\ committed[r] <= accepted[r]
    BY DEF IInv, Live, ProgressOK
  <2>5. e.suffix \in Suffix /\ e.accepted \in Nat /\ e.from \in Node
    BY DEF Evidence
  <2>6. ShapeOk(e.suffix, e.accepted)
    BY DEF Shaped
  <2> QED BY <2>1, <2>2, <2>3, <2>4, <2>5, <2>6
<1>3. ruling.slot \in Nat
  <2> HIDE DEF ruling
  <2>1. RulingOk(r, e.suffix, checkpoint[r], ruling)
    BY <1>2, CheckSuffixRules DEF IInv, ruling
  <2> QED BY <2>1 DEF RulingOk
<1>4. CASE Attempt(r, v, fs, evs, {e},
                   sent \cup Asks(r, asked \cup forced), fetched)
  <2> HIDE DEF ruling
  <2>1. asked \in SUBSET Fetch
    BY <1>2, <1>3 DEF Fetch
  <2> HIDE DEF asked
  <2>2. Asks(r, asked \cup forced) \in SUBSET Message
    BY <2>1, AsksOk
  <2>3. fetched \in SUBSET Fetch
    BY <2>1
  <2>4. {e} \in SUBSET Evidence /\ sent \cup Asks(r, asked \cup forced) \in SUBSET Message
    BY <2>2
  <2> HIDE DEF fetched
  <2> QED BY <1>4, <2>3, <2>4, AttemptStep
<1>5. CASE Raise(r)
  BY <1>5, RaiseStep
<1>6. CASE /\ c <= e.accepted
           /\ Installable(ruling) /\ ~JournalRefuses(r, ruling)
           /\ Win(r, v, e, c, sent \cup Asks(r, forced), forced)
  <2>1. sent \cup Asks(r, forced) \in SUBSET Message
    BY AsksOk
  <2> QED BY <1>2, <1>6, <2>1, WinStep
<1> QED BY <1>1, <1>4, <1>5, <1>6

\* continue_view_change: fence, report, and win with a quorum of evidence.
LEMMA ContinueStep ==
    ASSUME IInv, NEW r \in Node, Live(r), NEW v \in Nat, view[r] <= v,
           NEW fs \in SUBSET Node,
           NEW evs \in SUBSET Evidence, Shaped(evs),
           NEW sel \in SUBSET Evidence, Shaped(sel),
           NEW sent \in SUBSET Message, NEW forced \in SUBSET Fetch,
           ContinueViewChange(r, v, fs, evs, sel, sent, forced)
    PROVE  IInv' /\ Stable
<1> DEFINE reports == r \notin Reporters(evs) /\ FenceQuorum(fs)
           all == IF reports THEN evs \cup {OwnEvidence(r)} ELSE evs
           report == IF reports /\ Primary(v) # r
                     THEN {[tag |-> "DoViewChange", to |-> Primary(v),
                            view |-> v, ev |-> OwnEvidence(r)]}
                     ELSE {}
           leads == Primary(v) = r /\ r \in Reporters(all)
           chosen == IF leads /\ sel = {} /\ EvidenceQuorum(all)
                     THEN SelectHistory(all) ELSE sel
<1>1. OwnEvidence(r) \in Evidence /\ Shaped({OwnEvidence(r)})
  BY OwnEvidenceOk
<1>2. all \in SUBSET Evidence /\ Shaped(all)
  BY <1>1 DEF Shaped
<1>3. Primary(v) \in Node
  <2>1. (v % Len(Order)) + 1 \in 1 .. Len(Order)
    BY OrderAssumption
  <2> QED BY <2>1, OrderAssumption DEF Primary
<1>4. report \in SUBSET Message
  BY <1>1, <1>3 DEF DoViewChangeMsg, Message
<1>5. chosen \in SUBSET Evidence /\ Shaped(chosen)
  <2> HIDE DEF all, leads
  <2> QED BY <1>2 DEF SelectHistory, Shaped
<1>6. Asks(r, forced) \in SUBSET Message
  BY AsksOk
<1>7. \/ Attempt(r, v, fs, all, chosen, sent \cup report \cup Asks(r, forced), forced)
      \/ \E e \in chosen : WinOrWait(r, v, fs, all, e, sent, forced)
  BY DEF ContinueViewChange
<1> HIDE DEF reports, all, report, leads, chosen
<1>8. CASE Attempt(r, v, fs, all, chosen, sent \cup report \cup Asks(r, forced), forced)
  <2>1. sent \cup report \cup Asks(r, forced) \in SUBSET Message
    BY <1>4, <1>6
  <2> QED BY <1>2, <1>5, <1>8, <2>1, AttemptStep
<1>9. ASSUME NEW e \in chosen, WinOrWait(r, v, fs, all, e, sent, forced)
      PROVE  IInv' /\ Stable
  <2>1. e \in Evidence /\ Shaped({e})
    BY <1>5 DEF Shaped
  <2> QED BY <1>2, <1>9, <2>1, WinOrWaitStep
<1> QED BY <1>7, <1>8, <1>9

\* enter_view_change: the attempt is opened in a higher view.
LEMMA EnterStep ==
    ASSUME IInv, NEW r \in Node, Live(r), NEW v \in Nat, view[r] <= v,
           NEW heard \in SUBSET Node, NEW forced \in SUBSET Fetch,
           EnterViewChange(r, v, heard, forced)
    PROVE  IInv' /\ Stable
<1> DEFINE sent == {[tag |-> "StartViewChange", from |-> r, view |-> v]}
           fs == {r} \cup heard
           none == {}
<1>1. sent \in SUBSET Message
  BY DEF Message, StartViewChangeMsg
<1>2. fs \in SUBSET Node /\ none \in SUBSET Evidence /\ Shaped(none)
  BY DEF Shaped
<1>3. ContinueViewChange(r, v, fs, none, none, sent, forced)
  BY DEF EnterViewChange
<1> HIDE DEF sent, fs, none
<1> QED BY <1>1, <1>2, <1>3, ContinueStep

\* A message of a tag has the fields of that tag.
LEMMA MessageFields ==
    ASSUME NEW m \in Message
    PROVE  /\ m.tag = "Prepare" => m \in PrepareMsg
           /\ m.tag = "PrepareOk" => m \in PrepareOkMsg
           /\ m.tag = "Commit" => m \in CommitMsg
           /\ m.tag = "StartViewChange" => m \in StartViewChangeMsg
           /\ m.tag = "DoViewChange" => m \in DoViewChangeMsg
           /\ m.tag = "StartView" => m \in StartViewMsg
           /\ m.tag = "GetState" => m \in GetStateMsg
           /\ m.tag = "NewState" => m \in NewStateMsg
  BY DEF Message, PrepareMsg, PrepareOkMsg, CommitMsg, StartViewChangeMsg,
         DoViewChangeMsg, StartViewMsg, GetStateMsg, NewStateMsg

-----------------------------------------------------------------------------
(***************************************************************************)
(* The actions of a replica's own, one lemma each.                         *)
(***************************************************************************)

\* plan_tick: the genesis primary's promotion.
LEMMA TickPromoteStep ==
    ASSUME IInv, NEW r \in Node, TickPromote(r)
    PROVE  IInv' /\ Stable
<1> USE DEF TickPromote, journalVars, proposalVars, attemptVars, fetchVars
<1>1. Commit(r, committed[r]) \in Message
  BY DEF IInv, TypeOK, Commit, CommitMsg, Message
<1>2. TypeOK'
  BY <1>1 DEF IInv, TypeOK, Status, Send
<1>3. ProgressOK' /\ FirstOK'
  BY DEF IInv, TypeOK, ProgressOK, FirstOK, BootFenced
<1>4. EvidenceShaped'
  BY DEF IInv, EvidenceShaped
<1>5. Stable
  BY DEF IInv, TypeOK, Stable
<1> QED BY <1>2, <1>3, <1>4, <1>5 DEF IInv

\* plan_applied: the applied frontier follows the committed one.
LEMMA AppliedStep ==
    ASSUME IInv, NEW r \in Node, Applied(r)
    PROVE  IInv' /\ Stable
<1> USE DEF Applied, journalVars, attemptVars, fetchVars
<1>1. TypeOK'
  <2>1. applied' \in [Node -> Nat]
    BY DEF IInv, TypeOK
  <2>2. open' \in [Node -> SUBSET Nat]
    BY DEF IInv, TypeOK
  <2>3. oks' \in [Node -> SUBSET (Nat \X Node)]
    <3> DEFINE kept == {v \in oks[r] : v[1] # applied[r] + 1}
    <3>1. kept \in SUBSET (Nat \X Node)
      BY DEF IInv, TypeOK
    <3>2. oks' = [oks EXCEPT ![r] = kept]
      BY DEF IInv, TypeOK
    <3> HIDE DEF kept
    <3> QED BY <3>1, <3>2 DEF IInv, TypeOK
  <2> QED BY <2>1, <2>2, <2>3 DEF IInv, TypeOK
<1>2. ProgressOK' /\ FirstOK'
  BY DEF IInv, TypeOK, ProgressOK, FirstOK
<1>3. EvidenceShaped'
  BY DEF IInv, EvidenceShaped
<1>4. Stable
  BY DEF IInv, TypeOK, Stable
<1> QED BY <1>1, <1>2, <1>3, <1>4 DEF IInv

\* plan_checkpointed: the checkpoint follows the applied frontier.
LEMMA CheckpointedStep ==
    ASSUME IInv, NEW r \in Node, NEW t \in Nat, Checkpointed(r, t)
    PROVE  IInv' /\ Stable
<1> USE DEF Checkpointed, journalVars, proposalVars, attemptVars, fetchVars
<1>1. TypeOK'
  BY DEF IInv, TypeOK
<1>2. ProgressOK' /\ FirstOK'
  BY DEF IInv, TypeOK, ProgressOK, FirstOK
<1>3. EvidenceShaped'
  BY DEF IInv, EvidenceShaped
<1>4. Stable
  BY DEF IInv, TypeOK, Stable
<1> QED BY <1>1, <1>2, <1>3, <1>4 DEF IInv

\* reclaim_journal: only slots at or below the checkpoint go.
LEMMA ReclaimStep ==
    ASSUME IInv, NEW r \in Node, NEW s \in Nat, Reclaim(r, s)
    PROVE  IInv' /\ Stable
<1> USE DEF Reclaim, progressVars, proposalVars, attemptVars, fetchVars
<1>1. TypeOK'
  BY DEF IInv, TypeOK
<1>2. ProgressOK'
  BY DEF IInv, TypeOK, ProgressOK
<1>3. FirstOK'
  BY DEF IInv, TypeOK, FirstOK, AtLeast, INIT_SLOT
<1>4. EvidenceShaped'
  BY DEF IInv, EvidenceShaped
<1>5. Stable
  BY DEF IInv, TypeOK, Stable
<1> QED BY <1>1, <1>2, <1>3, <1>4, <1>5 DEF IInv

\* resume: a clean restart keeps the frontiers and the journal.
LEMMA ResumeStep ==
    ASSUME IInv, NEW r \in Node, Resume(r)
    PROVE  IInv' /\ Stable
<1> USE DEF Resume, journalVars
<1>1. TypeOK'
  BY DEF IInv, TypeOK, Status
<1>2. ProgressOK' /\ FirstOK'
  BY DEF IInv, TypeOK, ProgressOK, FirstOK
<1>3. EvidenceShaped'
  <2>1. \A q \in Node : Shaped(evidence'[q]) /\ Shaped(selected'[q])
    BY DEF IInv, TypeOK, EvidenceShaped, Shaped
  <2> QED BY <2>1 DEF EvidenceShaped, Shaped
<1>4. Stable
  BY DEF IInv, TypeOK, Stable
<1> QED BY <1>1, <1>2, <1>3, <1>4 DEF IInv

\* plan_propose: the primary appends one slot past its frontier.
LEMMA ProposeStep ==
    ASSUME IInv, NEW r \in Node, Propose(r)
    PROVE  IInv' /\ Stable
<1> DEFINE new == Append(log[r], Operation(view[r]))
<1> USE DEF Propose, attemptVars, fetchVars
<1>1. /\ view[r] \in Nat /\ accepted[r] \in Nat /\ committed[r] \in Nat
      /\ log[r] \in Seq(Nat) /\ Operation(view[r]) \in Nat
      /\ committed[r] <= Len(log[r])
  BY DEF IInv, TypeOK, Operation, ProgressOK, Live
<1>2. /\ new \in Seq(Nat)
      /\ \A s \in 1 .. committed[r] : new[s] = log[r][s]
  BY <1>1
<1>3. msgs' \subseteq Message
  BY <1>1 DEF IInv, TypeOK, Send, Message, PrepareMsg
<1>4. log' = [log EXCEPT ![r] = new]
  BY DEF IInv, TypeOK
<1> HIDE DEF new
<1>5. TypeOK'
  <2>1. accepted' \in [Node -> Nat] /\ log' \in [Node -> Seq(Nat)]
    BY <1>1, <1>2, <1>4, SMTT(30) DEF IInv, TypeOK
  <2>2. open' \in [Node -> SUBSET Nat]
    BY <1>1 DEF IInv, TypeOK
  <2>3. oks' \in [Node -> SUBSET (Nat \X Node)]
    <3> DEFINE kept == {v \in oks[r] : v[1] # accepted[r] + 1}
    <3>1. kept \in SUBSET (Nat \X Node)
      BY DEF IInv, TypeOK
    <3>2. oks' = [oks EXCEPT ![r] = kept]
      BY DEF IInv, TypeOK
    <3> HIDE DEF kept
    <3> QED BY <3>1, <3>2, SMTT(30) DEF IInv, TypeOK
  <2> QED BY <1>3, <2>1, <2>2, <2>3 DEF IInv, TypeOK
<1>6. ProgressOK' /\ FirstOK'
  BY DEF IInv, TypeOK, ProgressOK, FirstOK
<1>7. EvidenceShaped'
  BY DEF IInv, EvidenceShaped
<1>8. committed' = [committed EXCEPT ![r] = committed[r]]
  BY DEF IInv, TypeOK
<1>9. Stable
  <2> DEFINE c == committed[r]
  <2> HIDE DEF Propose
  <2>1. TypeOK
    BY DEF IInv
  <2>2. c \in Nat /\ committed[r] <= c
    BY <1>1
  <2>3. committed' = [committed EXCEPT ![r] = c]
    BY <1>8
  <2> HIDE DEF c
  <2> QED BY <1>2, <1>4, <2>1, <2>2, <2>3, StableAt
<1> QED BY <1>5, <1>6, <1>7, <1>9 DEF IInv

\* plan_tick: suspicion opens the next view.
LEMMA TickSuspectStep ==
    ASSUME IInv, NEW r \in Node, TickSuspect(r)
    PROVE  IInv' /\ Stable
<1> DEFINE v == view[r] + 1
           none == {}
<1>1. v \in Nat /\ view[r] <= v /\ none \in SUBSET Node /\ none \in SUBSET Fetch
  BY DEF IInv, TypeOK
<1>2. Live(r) /\ EnterViewChange(r, v, none, none)
  BY DEF TickSuspect
<1> HIDE DEF v, none
<1> QED BY <1>1, <1>2, EnterStep

\* plan_admin_force_view: the same for an administrator's view.
LEMMA AdminForceViewStep ==
    ASSUME IInv, NEW r \in Node, NEW v \in Nat, AdminForceView(r, v)
    PROVE  IInv' /\ Stable
<1> DEFINE none == {}
<1>1. view[r] <= v /\ none \in SUBSET Node /\ none \in SUBSET Fetch
  BY DEF IInv, TypeOK, AdminForceView
<1>2. Live(r) /\ EnterViewChange(r, v, none, none)
  BY DEF AdminForceView
<1> HIDE DEF none
<1> QED BY <1>1, <1>2, EnterStep

\* plan_tick: a selected history is tried again.
LEMMA TickSelectedStep ==
    ASSUME IInv, NEW r \in Node, TickSelected(r)
    PROVE  IInv' /\ Stable
<1> DEFINE v == view[r]
           fs == fences[r]
           evs == evidence[r]
           sel == selected[r]
           none == {}
<1>1. /\ v \in Nat /\ view[r] <= v /\ fs \in SUBSET Node
      /\ evs \in SUBSET Evidence /\ Shaped(evs)
      /\ sel \in SUBSET Evidence /\ Shaped(sel)
      /\ none \in SUBSET Message /\ none \in SUBSET Fetch
  <2>1. v \in Nat /\ fs \in SUBSET Node /\ sel \in SUBSET Evidence
        /\ evs \in SUBSET Evidence
    BY DEF IInv, TypeOK
  <2>2. Shaped(sel) /\ Shaped(evs)
    BY DEF IInv, EvidenceShaped
  <2> QED BY <2>1, <2>2
<1>2. Live(r) /\ ContinueViewChange(r, v, fs, evs, sel, none, none)
  BY DEF TickSelected
<1> HIDE DEF v, fs, evs, sel, none
<1> QED BY <1>1, <1>2, ContinueStep

\* A StartView that reached the primary's check: adopted, stalled or faulted.
LEMMA AdoptStartViewStep ==
    ASSUME IInv, NEW r \in Node, Live(r), NEW m \in StartViewMsg,
           AdoptStartView(r, m)
    PROVE  IInv' /\ Stable
<1> DEFINE sfx == m.suffix
           acc == m.accepted
           com == m.committed
           d == checkpoint[r]
           ruling == CheckSuffix(r, sfx, acc, com, d)
           new == Installed(r, sfx, ruling)
<1>1. /\ sfx \in Suffix /\ acc \in Nat /\ com \in Nat /\ d \in Nat
      /\ m.view \in Nat /\ m.from \in Node /\ ShapeOk(sfx, acc)
      /\ view[r] \in Nat /\ view[r] <= m.view
      /\ committed[r] \in Nat /\ committed[r] <= com /\ committed[r] <= acc
      /\ com <= acc
  <2>1. /\ com <= acc /\ ShapeOk(sfx, acc)
        /\ m.view > view[r] \/ m.view = view[r]
        /\ NotBehind(r, m)
    BY DEF AdoptStartView
  <2>2. /\ sfx \in Suffix /\ acc \in Nat /\ com \in Nat
        /\ m.view \in Nat /\ m.from \in Node
    BY DEF StartViewMsg
  <2>3. d \in Nat /\ view[r] \in Nat /\ committed[r] \in Nat
    BY DEF IInv, TypeOK
  <2>4. committed[r] <= com /\ committed[r] <= acc
    BY <2>1, <2>2, <2>3 DEF NotBehind
  <2> QED BY <2>1, <2>2, <2>3, <2>4
<1>2. RulingOk(r, sfx, d, ruling)
  <2> HIDE DEF sfx, acc, com, d
  <2>1. /\ TypeOK /\ accepted[r] = Len(log[r]) /\ committed[r] <= accepted[r]
    BY DEF IInv, Live, ProgressOK
  <2> QED BY <1>1, <2>1, CheckSuffixRules
<1>3. CASE Raise(r)
  BY <1>3, RaiseStep
<1>4. CASE /\ ~JournalRefuses(r, ruling)
           /\ status' = [status EXCEPT ![r] = "Normal"]
           /\ view' = [view EXCEPT ![r] = m.view]
           /\ retained' = [retained EXCEPT ![r] = m.view]
           /\ accepted' = [accepted EXCEPT ![r] = acc]
           /\ committed' = [committed EXCEPT ![r] = com]
           /\ log' = [log EXCEPT ![r] = new]
           /\ open' = [open EXCEPT ![r] = {}]
           /\ oks' = [oks EXCEPT ![r] = {}]
           /\ fences' = [fences EXCEPT ![r] = {}]
           /\ evidence' = [evidence EXCEPT ![r] = {}]
           /\ selected' = [selected EXCEPT ![r] = {}]
           /\ stalled' = [stalled EXCEPT ![r] = {}]
           /\ UNCHANGED <<applied, checkpoint, fault, first, transfer,
                          restarts, msgs>>
  <2>1. /\ new \in Seq(Nat)
        /\ \A s \in 1 .. committed[r] : new[s] = log[r][s]
    <3> HIDE DEF sfx, acc, com, d, ruling
    <3>1. ~JournalRefuses(r, ruling)
      BY <1>4
    <3>2. /\ Installed(r, sfx, ruling) \in Seq(Nat)
          /\ \A s \in 1 .. committed[r] : Installed(r, sfx, ruling)[s] = log[r][s]
      <4> HIDE DEF new
      <4>1. /\ sfx \in Suffix /\ acc \in Nat /\ d \in Nat
            /\ ShapeOk(sfx, acc) /\ committed[r] <= acc
        BY <1>1
      <4> QED BY <1>2, <3>1, <4>1, AdoptedLog
    <3> QED BY <3>2
  <2> HIDE DEF ruling, new
  <2>2. TypeOK'
    BY <1>1, <1>4, <2>1 DEF IInv, TypeOK, Status
  <2>3. ProgressOK' /\ FirstOK'
    <3> HIDE DEF sfx, acc, com, d
    <3>1. ASSUME NEW q \in Node \ {r}
          PROVE  /\ checkpoint'[q] = checkpoint[q] /\ applied'[q] = applied[q]
                 /\ committed'[q] = committed[q] /\ accepted'[q] = accepted[q]
                 /\ retained'[q] = retained[q] /\ view'[q] = view[q]
                 /\ status'[q] = status[q]
      BY <1>4 DEF IInv, TypeOK
    <3>2. /\ checkpoint'[r] = checkpoint[r] /\ applied'[r] = applied[r]
          /\ committed'[r] = com /\ accepted'[r] = acc
          /\ retained'[r] = m.view /\ view'[r] = m.view
      BY <1>4 DEF IInv, TypeOK
    <3>3. /\ checkpoint[r] <= applied[r] /\ applied[r] <= committed[r]
          /\ applied[r] \in Nat /\ checkpoint[r] \in Nat
      BY DEF IInv, ProgressOK, TypeOK
    <3>4. ProgressOK'
      BY <1>1, <3>1, <3>2, <3>3 DEF IInv, ProgressOK
    <3> QED BY <1>4, <3>4 DEF IInv, FirstOK
  <2>4. EvidenceShaped'
    <3>1. \A q \in Node : Shaped(evidence'[q]) /\ Shaped(selected'[q])
      BY <1>4 DEF IInv, TypeOK, EvidenceShaped, Shaped
    <3> QED BY <3>1 DEF EvidenceShaped, Shaped
  <2>5. Stable
    <3> HIDE DEF com, acc
    <3>1. TypeOK /\ committed' = [committed EXCEPT ![r] = com]
      BY <1>4 DEF IInv
    <3>2. log' = [log EXCEPT ![r] = new]
      BY <1>4
    <3>3. committed[r] <= com
      BY <1>1
    <3> QED BY <1>1, <2>1, <3>1, <3>2, <3>3, StableAt
  <2> QED BY <2>2, <2>3, <2>4, <2>5 DEF IInv
<1>5. CASE /\ OpenFetch(r, m.view, m.from, ruling.slot)
           /\ stalled' = [stalled EXCEPT ![r] = {m}]
           /\ Send({GetState(r, m.view, m.from, ruling.slot)})
           /\ UNCHANGED <<progressVars, journalVars, proposalVars,
                          attemptVars, restarts>>
  <2>1. ruling.slot \in Nat
    BY <1>2 DEF RulingOk
  <2> HIDE DEF ruling
  <2> USE DEF progressVars, journalVars, proposalVars, attemptVars
  <2>2. GetState(r, m.view, m.from, ruling.slot) \in Message
    BY <1>1, <2>1 DEF GetState, GetStateMsg, Message
  <2>3. [view |-> m.view, to |-> m.from, next |-> ruling.slot] \in Fetch
    BY <1>1, <2>1 DEF Fetch
  <2>4. TypeOK'
    BY <1>5, <2>2, <2>3 DEF IInv, TypeOK, OpenFetch, Send
  <2>5. ProgressOK' /\ FirstOK'
    BY <1>5 DEF IInv, ProgressOK, FirstOK
  <2>6. EvidenceShaped'
    BY <1>5 DEF IInv, EvidenceShaped
  <2>7. Stable
    BY <1>5 DEF IInv, TypeOK, Stable
  <2> QED BY <2>4, <2>5, <2>6, <2>7 DEF IInv
<1> QED BY <1>3, <1>4, <1>5 DEF AdoptStartView

\* plan_tick: a retained StartView is tried again.
LEMMA TickStalledStep ==
    ASSUME IInv, NEW r \in Node, TickStalled(r)
    PROVE  IInv' /\ Stable
<1>1. PICK m \in stalled[r] : AdoptStartView(r, m)
  BY DEF TickStalled
<1>2. m \in StartViewMsg /\ Live(r)
  BY DEF IInv, TypeOK, TickStalled
<1> QED BY <1>1, <1>2, AdoptStartViewStep

-----------------------------------------------------------------------------
(***************************************************************************)
(* The message handlers, one lemma each.                                   *)
(***************************************************************************)

\* plan_start_view, from the message to the ruling on its history.
LEMMA ReceiveStartViewStep ==
    ASSUME IInv, NEW r \in Node, NEW m \in msgs, ReceiveStartView(r, m)
    PROVE  IInv' /\ Stable
<1>1. m \in Message /\ m.tag = "StartView" /\ Live(r) /\ AdoptStartView(r, m)
  BY DEF IInv, TypeOK, ReceiveStartView
<1>2. m \in StartViewMsg
  BY <1>1, MessageFields
<1> QED BY <1>1, <1>2, AdoptStartViewStep

\* plan_start_view_change: joining or recording a fence.
LEMMA ReceiveStartViewChangeStep ==
    ASSUME IInv, NEW r \in Node, NEW m \in msgs, ReceiveStartViewChange(r, m)
    PROVE  IInv' /\ Stable
<1> DEFINE v == m.view
           heard == {m.from}
           none == {}
<1>1. m \in Message /\ m.tag = "StartViewChange" /\ Live(r)
  BY DEF IInv, TypeOK, ReceiveStartViewChange
<1>2. m \in StartViewChangeMsg
  BY <1>1, MessageFields
<1>3. v \in Nat /\ m.from \in Node /\ view[r] \in Nat /\ none \in SUBSET Fetch
  BY <1>2 DEF StartViewChangeMsg, IInv, TypeOK
<1>4. CASE m.view > view[r] /\ EnterViewChange(r, m.view, {m.from}, {})
  <2>1. heard \in SUBSET Node /\ view[r] <= v
    BY <1>3, <1>4
  <2>2. EnterViewChange(r, v, heard, none)
    BY <1>4
  <2> HIDE DEF v, heard, none
  <2> QED BY <1>1, <1>3, <2>1, <2>2, EnterStep
<1>5. CASE ContinueViewChange(r, view[r], fences[r] \cup {m.from},
                              evidence[r], selected[r], {}, {})
  <2> DEFINE w == view[r]
             fs == fences[r] \cup {m.from}
             evs == evidence[r]
             sel == selected[r]
  <2>1. /\ w \in Nat /\ view[r] <= w /\ fs \in SUBSET Node
        /\ evs \in SUBSET Evidence /\ Shaped(evs)
        /\ sel \in SUBSET Evidence /\ Shaped(sel)
        /\ none \in SUBSET Message
    <3>1. fs \in SUBSET Node /\ evs \in SUBSET Evidence /\ sel \in SUBSET Evidence
      BY <1>3 DEF IInv, TypeOK
    <3>2. Shaped(evs) /\ Shaped(sel)
      BY DEF IInv, EvidenceShaped
    <3> QED BY <1>3, <3>1, <3>2
  <2>2. ContinueViewChange(r, w, fs, evs, sel, none, none)
    BY <1>5
  <2> HIDE DEF w, fs, evs, sel, none
  <2> QED BY <1>1, <1>3, <2>1, <2>2, ContinueStep
<1> QED BY <1>4, <1>5 DEF ReceiveStartViewChange

\* plan_do_view_change: recording a report, perhaps winning with it.
LEMMA ReceiveDoViewChangeStep ==
    ASSUME IInv, NEW r \in Node, NEW m \in msgs, ReceiveDoViewChange(r, m)
    PROVE  IInv' /\ Stable
<1> DEFINE v == view[r]
           fs == fences[r]
           evs == IF m.ev.from \in Reporters(evidence[r]) THEN evidence[r]
                  ELSE evidence[r] \cup {m.ev}
           sel == selected[r]
           none == {}
<1>1. m \in Message /\ m.tag = "DoViewChange" /\ Live(r)
  BY DEF IInv, TypeOK, ReceiveDoViewChange
<1>2. m \in DoViewChangeMsg
  BY <1>1, MessageFields
<1>3. m.ev \in Evidence /\ ShapeOk(m.ev.suffix, m.ev.accepted)
  BY <1>2 DEF DoViewChangeMsg, ReceiveDoViewChange
<1>4. evs \in SUBSET Evidence /\ Shaped(evs)
  BY <1>3 DEF IInv, TypeOK, EvidenceShaped, Shaped
<1>5. /\ v \in Nat /\ view[r] <= v /\ fs \in SUBSET Node
      /\ sel \in SUBSET Evidence /\ Shaped(sel)
      /\ none \in SUBSET Message /\ none \in SUBSET Fetch
  <2>1. v \in Nat /\ fs \in SUBSET Node /\ sel \in SUBSET Evidence
    BY DEF IInv, TypeOK
  <2>2. Shaped(sel)
    BY DEF IInv, EvidenceShaped
  <2> QED BY <2>1, <2>2
<1>6. ContinueViewChange(r, v, fs, evs, sel, none, none)
  BY DEF ReceiveDoViewChange
<1> HIDE DEF v, fs, evs, sel, none
<1> QED BY <1>1, <1>4, <1>5, <1>6, ContinueStep

\* plan_higher_view_signal: a fetch from the sender, nothing else.
LEMMA HigherViewSignalStep ==
    ASSUME IInv, NEW r \in Node, Live(r), NEW m, m.view \in Nat, m.from \in Node,
           HigherViewSignal(r, m)
    PROVE  IInv' /\ Stable
<1> DEFINE v == m.view
           none == {}
           forced == {[view |-> m.view, to |-> m.from, next |-> accepted[r] + 1]}
<1>1. /\ v \in Nat /\ view[r] <= v /\ none \in SUBSET Node
      /\ forced \in SUBSET Fetch
  <2>1. m.view > view[r] /\ view[r] \in Nat /\ accepted[r] + 1 \in Nat
    BY SMTT(30) DEF HigherViewSignal, IInv, TypeOK
  <2>2. forced \in SUBSET Fetch
    BY <2>1 DEF Fetch
  <2> QED BY <2>1, <2>2
<1>2. EnterViewChange(r, v, none, forced)
  BY DEF HigherViewSignal
<1> HIDE DEF v, none, forced
<1> QED BY <1>1, <1>2, EnterStep

\* A learned frontier never goes back and never passes the accepted one.
LEMMA FollowRange ==
    ASSUME NEW r \in Node, committed[r] \in Nat, NEW c \in Nat, NEW acc \in Nat,
           committed[r] <= acc
    PROVE  /\ Follow(r, c, acc) \in Nat
           /\ committed[r] <= Follow(r, c, acc) /\ Follow(r, c, acc) <= acc
  BY DEF Follow, AtLeast, AtMost

\* A step that serves the current view moves only the frontiers, the log and
\* the messages of one replica.
LEMMA ServeStep ==
    ASSUME IInv, NEW r \in Node, NEW acc \in Nat, NEW com \in Nat,
           NEW new \in Seq(Nat), NEW sent \in SUBSET Message,
           committed[r] <= com, com <= acc,
           \A s \in 1 .. committed[r] : new[s] = log[r][s],
           status' = [status EXCEPT ![r] = "Normal"] \/ status' = status,
           status'[r] = "Normal" => view[r] = retained[r],
           accepted' = [accepted EXCEPT ![r] = acc],
           committed' = [committed EXCEPT ![r] = com],
           log' = [log EXCEPT ![r] = new],
           Send(sent),
           fault' \in [Node -> BOOLEAN],
           transfer' \in [Node -> SUBSET Fetch],
           oks' \in [Node -> SUBSET (Nat \X Node)],
           UNCHANGED <<view, retained, applied, checkpoint, first, open,
                       attemptVars, stalled, restarts>>
    PROVE  IInv' /\ Stable
<1> USE DEF attemptVars
<1>1. status' \in [Node -> Status]
  BY DEF IInv, TypeOK, Status
<1>2. TypeOK'
  BY <1>1 DEF IInv, TypeOK, Send
<1>3. ProgressOK'
  <2>1. /\ checkpoint[r] <= applied[r] /\ applied[r] <= com
        /\ committed'[r] = com /\ accepted'[r] = acc
    BY DEF IInv, ProgressOK, TypeOK
  <2>2. \A q \in Node \ {r} :
          /\ committed'[q] = committed[q] /\ accepted'[q] = accepted[q]
          /\ status'[q] = status[q]
    BY DEF IInv, TypeOK
  <2> QED BY <2>1, <2>2 DEF IInv, ProgressOK
<1>4. FirstOK' /\ EvidenceShaped'
  BY DEF IInv, FirstOK, EvidenceShaped
<1>5. Stable
  BY StableAt DEF IInv
<1> QED BY <1>2, <1>3, <1>4, <1>5 DEF IInv

\* plan_commit: the frontier learned is clamped to what was accepted.
LEMMA ReceiveCommitStep ==
    ASSUME IInv, NEW r \in Node, NEW m \in msgs, ReceiveCommit(r, m)
    PROVE  IInv' /\ Stable
<1>1. m \in Message /\ m.tag = "Commit" /\ Live(r)
  BY DEF IInv, TypeOK, ReceiveCommit
<1>2. m \in CommitMsg
  BY <1>1, MessageFields
<1>3. /\ m.view \in Nat /\ m.from \in Node /\ m.committed \in Nat
      /\ committed[r] \in Nat /\ accepted[r] \in Nat /\ log[r] \in Seq(Nat)
      /\ committed[r] <= accepted[r]
  BY <1>2 DEF CommitMsg, IInv, TypeOK, ProgressOK
<1>4. CASE HigherViewSignal(r, m)
  BY <1>1, <1>3, <1>4, HigherViewSignalStep
<1>5. CASE ~HigherViewSignal(r, m)
  <2> DEFINE com == Follow(r, m.committed, accepted[r])
             acc == accepted[r]
             new == log[r]
             sent == {}
  <2>1. com \in Nat /\ committed[r] <= com /\ com <= acc
    BY <1>3, FollowRange
  <2>2. /\ InView(r, m)
        /\ status' = [status EXCEPT ![r] = "Normal"]
        /\ committed' = [committed EXCEPT ![r] = com]
        /\ UNCHANGED <<view, retained, accepted, applied, checkpoint, fault,
                       journalVars, proposalVars, attemptVars, fetchVars,
                       restarts, msgs>>
    BY <1>5 DEF ReceiveCommit
  <2> HIDE DEF com
  <2>3. /\ accepted' = [accepted EXCEPT ![r] = acc]
        /\ log' = [log EXCEPT ![r] = new]
        /\ Send(sent)
        /\ fault' \in [Node -> BOOLEAN] /\ transfer' \in [Node -> SUBSET Fetch]
        /\ oks' \in [Node -> SUBSET (Nat \X Node)]
        /\ UNCHANGED <<view, retained, applied, checkpoint, first, open,
                       attemptVars, stalled, restarts>>
    BY <2>2 DEF IInv, TypeOK, Send, journalVars, proposalVars, fetchVars
  <2>4. view[r] = retained[r]
    BY <2>2 DEF InView, BootFenced, IInv, ProgressOK
  <2>5. acc \in Nat /\ new \in Seq(Nat) /\ sent \in SUBSET Message
        /\ \A s \in 1 .. committed[r] : new[s] = log[r][s]
    BY <1>3
  <2> HIDE DEF acc, new, sent
  <2> QED BY <2>1, <2>2, <2>3, <2>4, <2>5, ServeStep
<1> QED BY <1>4, <1>5

\* plan_prepare: one slot past the frontier, or a fetch.
LEMMA ReceivePrepareStep ==
    ASSUME IInv, NEW r \in Node, NEW m \in msgs, ReceivePrepare(r, m)
    PROVE  IInv' /\ Stable
<1>1. m \in Message /\ m.tag = "Prepare" /\ Live(r)
  BY DEF IInv, TypeOK, ReceivePrepare
<1>2. m \in PrepareMsg
  BY <1>1, MessageFields
<1>3. /\ m.view \in Nat /\ m.from \in Node /\ m.committed \in Nat
      /\ m.slot \in Nat /\ m.entry \in Nat
      /\ committed[r] \in Nat /\ accepted[r] \in Nat /\ log[r] \in Seq(Nat)
      /\ committed[r] <= accepted[r] /\ view[r] \in Nat
      /\ accepted[r] = Len(log[r])
  BY <1>1, <1>2 DEF PrepareMsg, IInv, TypeOK, ProgressOK, Live
<1>4. PrepareOk(r, m) \in Message
  BY <1>3 DEF PrepareOk, PrepareOkMsg, Message
<1>5. InView(r, m) => view[r] = retained[r]
  BY DEF InView, BootFenced, IInv, ProgressOK
<1> DEFINE sent == {PrepareOk(r, m)}
<1>6. CASE HigherViewSignal(r, m)
  BY <1>1, <1>3, <1>6, HigherViewSignalStep
<1>7. CASE /\ InView(r, m)
           /\ status' = [status EXCEPT ![r] = "Normal"]
           /\ committed' = [committed EXCEPT ![r] =
                                Follow(r, m.committed, accepted[r])]
           /\ Send({PrepareOk(r, m)})
           /\ UNCHANGED <<view, retained, accepted, applied, checkpoint, fault,
                          journalVars, proposalVars, attemptVars, fetchVars,
                          restarts>>
  <2> DEFINE com == Follow(r, m.committed, accepted[r])
             acc == accepted[r]
             new == log[r]
  <2>1. com \in Nat /\ committed[r] <= com /\ com <= acc
    BY <1>3, FollowRange
  <2>2. /\ status' = [status EXCEPT ![r] = "Normal"]
        /\ committed' = [committed EXCEPT ![r] = com]
        /\ Send(sent)
    BY <1>7
  <2> HIDE DEF com
  <2>3. /\ accepted' = [accepted EXCEPT ![r] = acc]
        /\ log' = [log EXCEPT ![r] = new]
        /\ fault' \in [Node -> BOOLEAN] /\ transfer' \in [Node -> SUBSET Fetch]
        /\ oks' \in [Node -> SUBSET (Nat \X Node)]
        /\ UNCHANGED <<view, retained, applied, checkpoint, first, open,
                       attemptVars, stalled, restarts>>
    BY <1>7 DEF IInv, TypeOK, journalVars, proposalVars, fetchVars
  <2>4. view[r] = retained[r]
    BY <1>5, <1>7
  <2>5. acc \in Nat /\ new \in Seq(Nat) /\ sent \in SUBSET Message
        /\ \A s \in 1 .. committed[r] : new[s] = log[r][s]
    BY <1>3, <1>4
  <2> HIDE DEF acc, new, sent
  <2> QED BY <2>1, <2>2, <2>3, <2>4, <2>5, ServeStep
<1>8. CASE /\ InView(r, m)
           /\ m.slot = accepted[r] + 1
           /\ status' = [status EXCEPT ![r] = "Normal"]
           /\ accepted' = [accepted EXCEPT ![r] = m.slot]
           /\ committed' = [committed EXCEPT ![r] =
                                Follow(r, m.committed, m.slot)]
           /\ log' = [log EXCEPT ![r] = Append(@, m.entry)]
           /\ Send({PrepareOk(r, m)})
           /\ UNCHANGED <<view, retained, applied, checkpoint, fault, first,
                          proposalVars, attemptVars, fetchVars, restarts>>
  <2> DEFINE com == Follow(r, m.committed, m.slot)
             acc == m.slot
             new == Append(log[r], m.entry)
  <2>1. com \in Nat /\ committed[r] <= com /\ com <= acc
    <3>1. acc \in Nat /\ committed[r] <= acc
      BY <1>3, <1>8
    <3> HIDE DEF acc
    <3> QED BY <1>3, <3>1, FollowRange DEF acc
  <2>2. /\ status' = [status EXCEPT ![r] = "Normal"]
        /\ accepted' = [accepted EXCEPT ![r] = acc]
        /\ committed' = [committed EXCEPT ![r] = com]
        /\ Send(sent)
    BY <1>8
  <2>3. log' = [log EXCEPT ![r] = new]
    BY <1>8 DEF IInv, TypeOK
  <2> HIDE DEF com
  <2>4. /\ fault' \in [Node -> BOOLEAN] /\ transfer' \in [Node -> SUBSET Fetch]
        /\ oks' \in [Node -> SUBSET (Nat \X Node)]
        /\ UNCHANGED <<view, retained, applied, checkpoint, first, open,
                       attemptVars, stalled, restarts>>
    BY <1>8 DEF IInv, TypeOK, proposalVars, fetchVars
  <2>5. view[r] = retained[r]
    BY <1>5, <1>8
  <2>6. acc \in Nat /\ new \in Seq(Nat) /\ sent \in SUBSET Message
        /\ \A s \in 1 .. committed[r] : new[s] = log[r][s]
    BY <1>3, <1>4
  <2> HIDE DEF acc, new, sent
  <2> QED BY <2>1, <2>2, <2>3, <2>4, <2>5, <2>6, ServeStep
<1>9. CASE /\ OpenFetch(r, view[r], m.from, accepted[r] + 1)
           /\ Send({GetState(r, view[r], m.from, accepted[r] + 1)})
           /\ UNCHANGED <<progressVars, journalVars, proposalVars,
                          attemptVars, stalled, restarts>>
  <2> USE DEF progressVars, journalVars, proposalVars, attemptVars
  <2>1. GetState(r, view[r], m.from, accepted[r] + 1) \in Message
    BY <1>3 DEF GetState, GetStateMsg, Message
  <2>2. [view |-> view[r], to |-> m.from, next |-> accepted[r] + 1] \in Fetch
    BY <1>3 DEF Fetch
  <2>3. TypeOK'
    BY <1>9, <2>1, <2>2 DEF IInv, TypeOK, OpenFetch, Send
  <2>4. ProgressOK' /\ FirstOK'
    BY <1>9 DEF IInv, ProgressOK, FirstOK
  <2>5. EvidenceShaped'
    BY <1>9 DEF IInv, EvidenceShaped
  <2>6. Stable
    BY <1>9 DEF IInv, TypeOK, Stable
  <2> QED BY <2>3, <2>4, <2>5, <2>6 DEF IInv
<1> QED BY <1>6, <1>7, <1>8, <1>9 DEF ReceivePrepare

\* plan_prepare_ok: the cascade commits accepted slots only.
LEMMA ReceivePrepareOkStep ==
    ASSUME IInv, NEW r \in Node, NEW m \in msgs, ReceivePrepareOk(r, m)
    PROVE  IInv' /\ Stable
<1>1. m \in Message /\ m.tag = "PrepareOk" /\ Live(r) /\ IsPrimary(r)
  BY DEF IInv, TypeOK, ReceivePrepareOk
<1>2. m \in PrepareOkMsg
  BY <1>1, MessageFields
<1>3. /\ m.from \in Node /\ m.slot \in Nat /\ view[r] \in Nat
      /\ committed[r] \in Nat /\ accepted[r] \in Nat /\ log[r] \in Seq(Nat)
      /\ committed[r] <= accepted[r] /\ view[r] = retained[r]
  BY <1>1, <1>2 DEF PrepareOkMsg, IInv, TypeOK, ProgressOK, IsPrimary
<1>4. PICK c \in committed[r] .. accepted[r] :
        /\ committed' = [committed EXCEPT ![r] = c]
        /\ Send(IF c > committed[r] THEN {Commit(r, c)} ELSE {})
  BY DEF ReceivePrepareOk
<1>5. c \in Nat /\ committed[r] <= c /\ c <= accepted[r]
  BY <1>3, <1>4
<1>6. oks' \in [Node -> SUBSET (Nat \X Node)]
  <2> DEFINE votes == {<<s, m.from>> : s \in open[r] \cap (committed[r] + 1 .. m.slot)}
             all == oks[r] \cup votes
  <2>1. votes \in SUBSET (Nat \X Node)
    BY <1>3 DEF IInv, TypeOK
  <2>2. all \in SUBSET (Nat \X Node)
    BY <2>1 DEF IInv, TypeOK
  <2>3. oks' = [oks EXCEPT ![r] = all]
    BY DEF ReceivePrepareOk, IInv, TypeOK
  <2> HIDE DEF all
  <2> QED BY <2>2, <2>3 DEF IInv, TypeOK
<1> DEFINE acc == accepted[r]
           new == log[r]
           sent == IF c > committed[r] THEN {Commit(r, c)} ELSE {}
<1>7. sent \in SUBSET Message
  BY <1>3, <1>5 DEF Commit, CommitMsg, Message
<1>8. /\ acc \in Nat /\ c <= acc /\ new \in Seq(Nat)
      /\ \A s \in 1 .. committed[r] : new[s] = log[r][s]
      /\ Send(sent)
  BY <1>3, <1>4, <1>5
<1>9. /\ status' = status
      /\ UNCHANGED <<view, retained, accepted, applied, checkpoint, fault,
                     journalVars, open, attemptVars, fetchVars, restarts>>
  BY DEF ReceivePrepareOk
<1>10. /\ accepted' = [accepted EXCEPT ![r] = acc]
       /\ log' = [log EXCEPT ![r] = new]
       /\ fault' \in [Node -> BOOLEAN] /\ transfer' \in [Node -> SUBSET Fetch]
       /\ UNCHANGED <<view, retained, applied, checkpoint, first, open,
                      attemptVars, stalled, restarts>>
  BY <1>9 DEF IInv, TypeOK, journalVars, fetchVars
<1> HIDE DEF acc, new, sent
<1> QED BY <1>3, <1>4, <1>5, <1>6, <1>7, <1>8, <1>9, <1>10, ServeStep

\* plan_get_state: the answer is cut from the responder's log.
LEMMA ReceiveGetStateStep ==
    ASSUME IInv, NEW r \in Node, NEW m \in msgs, ReceiveGetState(r, m)
    PROVE  IInv' /\ Stable
<1> DEFINE through == AtMost(accepted[r], m.next + Budget - 1)
           run == RunOf(log[r], m.next, through)
           answer == [tag |-> "NewState", from |-> r, to |-> m.from,
                      view |-> m.view, suffix |-> run,
                      committed |-> committed[r],
                      more |-> through < accepted[r]]
<1>1. m \in Message /\ m.tag = "GetState" /\ Live(r)
  BY DEF IInv, TypeOK, ReceiveGetState
<1>2. m \in GetStateMsg
  BY <1>1, MessageFields
<1>3. /\ m.view \in Nat /\ m.from \in Node /\ m.next \in Nat
      /\ committed[r] \in Nat /\ accepted[r] \in Nat /\ log[r] \in Seq(Nat)
      /\ accepted[r] = Len(log[r]) /\ first[r] \in Nat /\ first[r] >= 1
  BY <1>1, <1>2 DEF GetStateMsg, IInv, TypeOK, FirstOK, Live
<1>4. /\ first[r] <= m.next /\ Budget > 0 /\ Send({answer})
      /\ UNCHANGED <<progressVars, journalVars, proposalVars, attemptVars,
                     fetchVars, restarts>>
  BY DEF ReceiveGetState
<1>5. through \in Nat /\ through <= Len(log[r]) /\ m.next >= 1
  BY <1>3, <1>4, BoundsAssumption DEF AtMost
<1>6. run \in Suffix
  <2> HIDE DEF through
  <2> QED BY <1>3, <1>5, RunOfType
<1>7. answer \in Message
  <2> HIDE DEF run, through
  <2>1. (through < accepted[r]) \in BOOLEAN
    OBVIOUS
  <2> QED BY <1>3, <1>6, <2>1 DEF NewStateMsg, Message
<1> HIDE DEF answer
<1> USE DEF progressVars, journalVars, proposalVars, attemptVars, fetchVars
<1>8. TypeOK'
  BY <1>4, <1>7 DEF IInv, TypeOK, Send
<1>9. ProgressOK' /\ FirstOK'
  BY <1>4 DEF IInv, ProgressOK, FirstOK
<1>10. EvidenceShaped'
  BY <1>4 DEF IInv, EvidenceShaped
<1>11. Stable
  BY <1>4 DEF IInv, TypeOK, Stable
<1> QED BY <1>8, <1>9, <1>10, <1>11 DEF IInv

\* A sequence cut at a natural index is a sequence of naturals.
LEMMA PrefixOf ==
    ASSUME NEW e \in Seq(Nat), NEW n \in Int, n <= Len(e)
    PROVE  /\ SubSeq(e, 1, n) \in Seq(Nat)
           /\ Len(SubSeq(e, 1, n)) = IF n >= 1 THEN n ELSE 0
  OBVIOUS

\* The fetch that follows a chunk is typed.
LEMMA NextFetchOk ==
    ASSUME IInv, NEW r \in Node, NEW m \in NewStateMsg, NEW goOn, NEW next \in Nat,
           NextFetch(r, m, goOn, next)
    PROVE  /\ transfer' \in [Node -> SUBSET Fetch]
           /\ \E sent \in SUBSET Message : Send(sent)
<1>1. m.view \in Nat /\ m.from \in Node
  BY DEF NewStateMsg
<1>2. [view |-> m.view, to |-> m.from, next |-> next] \in Fetch
  BY <1>1 DEF Fetch
<1>3. transfer' \in [Node -> SUBSET Fetch]
  BY <1>2 DEF NextFetch, IInv, TypeOK
<1> DEFINE sent == IF goOn THEN {GetState(r, m.view, m.from, next)} ELSE {}
<1>4. sent \in SUBSET Message
  BY <1>1 DEF GetState, GetStateMsg, Message
<1>5. Send(sent)
  BY DEF NextFetch
<1> HIDE DEF sent
<1> QED BY <1>3, <1>4, <1>5

\* plan_new_state: a chunk that extends the journal in the current view.
LEMMA InstallChunkStep ==
    ASSUME IInv, NEW r \in Node, Live(r), NEW m \in NewStateMsg,
           NEW through, through = LastSlot(m.suffix), through > accepted[r],
           NEW ruling,
           ruling = CheckSuffix(r, m.suffix, through, m.committed, 0),
           InstallChunk(r, m, through, ruling),
           UNCHANGED <<status, view, retained, applied, checkpoint, fault, first,
                       proposalVars, attemptVars, stalled, restarts>>
    PROVE  IInv' /\ Stable
<1> DEFINE sfx == m.suffix
           mc == m.committed
           current == m.view = view[r] /\ status[r] = "Normal"
           com == IF current THEN Follow(r, m.committed, through) ELSE committed[r]
           new == Installed(r, m.suffix, ruling)
<1>1. /\ sfx \in Suffix /\ mc \in Nat /\ committed[r] \in Nat /\ accepted[r] \in Nat
      /\ accepted[r] = Len(log[r]) /\ committed[r] <= accepted[r] /\ TypeOK
  BY DEF NewStateMsg, IInv, TypeOK, ProgressOK, Live
<1>2. through \in Nat /\ committed[r] <= through
  <2>1. LastSlot(sfx) \in Int
    BY <1>1 DEF Suffix, LastSlot
  <2> QED BY <1>1, <2>1
<1>3. /\ new \in Seq(Nat)
      /\ \A s \in 1 .. committed[r] : new[s] = log[r][s]
  <2>1. /\ ruling = CheckSuffix(r, sfx, through, mc, 0)
        /\ committed[r] <= LastSlot(sfx)
    BY <1>2
  <2> HIDE DEF sfx, mc, new
  <2>2. /\ Installed(r, sfx, ruling) \in Seq(Nat)
        /\ \A s \in 1 .. committed[r] : Installed(r, sfx, ruling)[s] = log[r][s]
    <3>1. RulingOk(r, sfx, 0, ruling)
      BY <1>1, <1>2, <2>1, CheckSuffixRules
    <3> QED BY <1>1, <2>1, <3>1, ChunkLog
  <2> QED BY <2>2 DEF new, sfx
<1>4. com \in Nat /\ committed[r] <= com /\ com <= through
  <2>1. /\ Follow(r, mc, through) \in Nat
        /\ committed[r] <= Follow(r, mc, through) /\ Follow(r, mc, through) <= through
    <3> HIDE DEF mc
    <3> QED BY <1>1, <1>2, FollowRange
  <2> QED BY <1>1, <1>2, <2>1
<1>5. /\ accepted' = [accepted EXCEPT ![r] = through]
      /\ committed' = [committed EXCEPT ![r] = com]
      /\ log' = [log EXCEPT ![r] = new]
      /\ NextFetch(r, m, m.more, through + 1)
  BY DEF InstallChunk, IInv, TypeOK
<1>6. transfer' \in [Node -> SUBSET Fetch] /\ \E sent \in SUBSET Message : Send(sent)
  <2>1. through + 1 \in Nat
    BY <1>2
  <2> QED BY <1>5, <2>1, NextFetchOk
<1>7. PICK sent \in SUBSET Message : Send(sent)
  BY <1>6
<1>8. /\ status'[r] = "Normal" => view[r] = retained[r]
      /\ fault' \in [Node -> BOOLEAN] /\ oks' \in [Node -> SUBSET (Nat \X Node)]
      /\ status' = status
      /\ UNCHANGED <<view, retained, applied, checkpoint, first, open,
                     attemptVars, stalled, restarts>>
  BY DEF IInv, TypeOK, ProgressOK, proposalVars
<1> HIDE DEF com, new, sfx, mc
<1> QED BY <1>2, <1>3, <1>4, <1>5, <1>6, <1>7, <1>8, ServeStep

\* plan_new_state: a chunk taken during boot or a view change.
LEMMA AcquireChunkStep ==
    ASSUME IInv, NEW r \in Node, Live(r), NEW m \in NewStateMsg,
           NEW through, through = LastSlot(m.suffix), through > accepted[r],
           Installable(CheckSuffix(r, m.suffix, through, m.committed, 0)),
           AcquireChunk(r, m, through),
           UNCHANGED <<status, view, retained, applied, checkpoint, first,
                       proposalVars, attemptVars, stalled, restarts>>
    PROVE  IInv' /\ Stable
<1> DEFINE from == m.suffix.from
           ents == m.suffix.ents
           mc == m.committed
           take == IF stalled[r] = {} THEN m.committed
                   ELSE Min({m.committed} \cup {o.committed : o \in stalled[r]})
           com == Follow(r, take, through)
           acc == AtLeast(accepted[r], com)
           covered == [m.suffix EXCEPT !.ents = SubSeq(@, 1, com - m.suffix.from + 1)]
           ruling == CheckSuffix(r, covered, com, m.committed, 0)
<1>1. /\ m.suffix \in Suffix /\ mc \in Nat /\ committed[r] \in Nat
      /\ accepted[r] \in Nat /\ log[r] \in Seq(Nat)
      /\ accepted[r] = Len(log[r]) /\ committed[r] <= accepted[r] /\ TypeOK
  BY DEF NewStateMsg, IInv, TypeOK, ProgressOK, Live
<1>2. /\ from \in Nat /\ ents \in Seq(Nat)
      /\ m.suffix = [from |-> from, ents |-> ents]
  BY <1>1 DEF Suffix
<1>3. /\ through = from + Len(ents) - 1
      /\ through \in Nat /\ committed[r] <= through
  <2>1. through = from + Len(ents) - 1
    BY DEF LastSlot
  <2> HIDE DEF from, ents
  <2>2. Len(ents) \in Int /\ from \in Int
    BY <1>2
  <2>3. through \in Int
    BY ONLY <2>1, <2>2
  <2>4. committed[r] \in Nat /\ accepted[r] \in Nat /\ committed[r] <= accepted[r]
    BY <1>1
  <2>5. through \in Nat /\ committed[r] <= through
    BY ONLY <2>3, <2>4, through > accepted[r]
  <2> QED BY <2>1, <2>5
<1>4. take \in Nat
  <2> DEFINE S == {m.committed} \cup {o.committed : o \in stalled[r]}
  <2>1. S \subseteq Nat
    BY <1>1 DEF TypeOK, StartViewMsg
  <2>2. S # {}
    OBVIOUS
  <2> HIDE DEF S
  <2>3. Min(S) \in S
    BY <2>1, <2>2, MinOf
  <2> QED BY <1>1, <2>1, <2>3 DEF S
<1>5. com \in Nat /\ committed[r] <= com /\ com <= through
  <2> HIDE DEF take
  <2> QED BY <1>1, <1>3, <1>4, FollowRange
<1>6. acc \in Nat /\ com <= acc /\ (com <= accepted[r] => acc = accepted[r])
  <2> HIDE DEF com
  <2> QED BY <1>1, <1>5 DEF AtLeast
<1>7. from <= accepted[r] + 1
  <2> DEFINE outer == CheckSuffix(r, m.suffix, through, m.committed, 0)
  <2>1. CASE ents = <<>>
    <3>1. outer = Gap(accepted[r] + 1)
      BY <2>1, <1>1, <1>3 DEF CheckSuffix
    <3> QED BY <3>1 DEF Installable, Gap
  <2>2. CASE ents # <<>>
    <3> DEFINE sfx == m.suffix
    <3>1. sfx \in Suffix /\ outer = CheckSuffix(r, sfx, through, mc, 0) /\ 0 \in Nat
      BY <1>1
    <3> HIDE DEF outer, sfx, mc
    <3>2. RulingOk(r, sfx, 0, outer)
      BY <1>1, <1>3, <3>1, CheckSuffixRules
    <3> QED BY <2>2, <3>2 DEF RulingOk, outer, sfx
  <2> QED BY <2>1, <2>2
<1>8. /\ covered.from = from /\ covered.ents = SubSeq(ents, 1, com - from + 1)
      /\ covered \in Suffix
      /\ Len(covered.ents) = IF com - from + 1 >= 1 THEN com - from + 1 ELSE 0
  <2> HIDE DEF com
  <2> DEFINE pre == SubSeq(ents, 1, com - from + 1)
  <2>1. pre \in Seq(Nat) /\ Len(pre) = IF com - from + 1 >= 1 THEN com - from + 1 ELSE 0
    <3> HIDE DEF from, ents
    <3>1. com - from + 1 \in Int /\ com - from + 1 <= Len(ents)
      BY <1>2, <1>3, <1>5
    <3> QED BY <1>2, <3>1, PrefixOf
  <2>2. covered = [m.suffix EXCEPT !.ents = pre]
    OBVIOUS
  <2> HIDE DEF pre, covered
  <2>3. covered \in Suffix /\ covered.from = from /\ covered.ents = pre
    BY <1>1, <2>1, <2>2 DEF Suffix
  <2> QED BY <2>1, <2>3 DEF pre
<1>9. /\ covered \in Suffix
      /\ covered.ents = <<>> => com <= accepted[r]
      /\ covered.ents # <<>> => LastSlot(covered) = com
  <2> DEFINE n == com - from + 1
             pre == covered.ents
  <2> HIDE DEF com, from, covered, ents, pre
  <2>1. /\ covered \in Suffix /\ covered.from = from /\ pre \in Seq(Nat)
        /\ Len(pre) = IF n >= 1 THEN n ELSE 0
    BY <1>8 DEF pre, Suffix
  <2>2. pre = <<>> => com <= accepted[r]
    <3> HAVE pre = <<>>
    <3>1. Len(pre) = 0
      BY ONLY pre = <<>>
    <3>2. com \in Int /\ from \in Int /\ accepted[r] \in Int
      BY <1>1, <1>2, <1>5
    <3>3. ~(n >= 1)
      BY ONLY <2>1, <3>1, <3>2 DEF n
    <3> QED BY ONLY <1>7, <3>2, <3>3 DEF n
  <2>3. pre # <<>> => Len(pre) = n
    BY <2>1
  <2>4. pre # <<>> => from + Len(pre) - 1 = com
    <3> HAVE pre # <<>>
    <3>1. from \in Int /\ com \in Int
      BY <1>2, <1>5
    <3>2. from + n - 1 = com
      BY ONLY <3>1 DEF n
    <3> HIDE DEF n
    <3> QED BY ONLY <2>3, <3>2, pre # <<>>
  <2> QED BY <2>1, <2>2, <2>4 DEF LastSlot, pre
<1>10. /\ status'[r] = "Normal" => view[r] = retained[r]
       /\ oks' \in [Node -> SUBSET (Nat \X Node)]
       /\ status' = status
       /\ UNCHANGED <<view, retained, applied, checkpoint, first, open,
                      attemptVars, stalled, restarts>>
  BY DEF IInv, TypeOK, ProgressOK, proposalVars
<1>11. acc + 1 \in Nat
  BY <1>6
<1>12. CASE /\ covered.ents = <<>>
            /\ committed' = [committed EXCEPT ![r] = com]
            /\ NextFetch(r, m, m.more, acc + 1)
            /\ UNCHANGED <<accepted, fault, log>>
  <2> DEFINE old == log[r]
             a == accepted[r]
             goOn == m.more
             next == acc + 1
  <2>1. /\ accepted' = [accepted EXCEPT ![r] = a]
        /\ log' = [log EXCEPT ![r] = old]
        /\ fault' \in [Node -> BOOLEAN]
    BY <1>12 DEF IInv, TypeOK
  <2>2. com <= a /\ a \in Nat /\ old \in Seq(Nat)
        /\ \A s \in 1 .. committed[r] : old[s] = log[r][s]
    BY <1>1, <1>9, <1>12
  <2>3. NextFetch(r, m, goOn, next) /\ next \in Nat
    BY <1>11, <1>12
  <2>4. committed' = [committed EXCEPT ![r] = com]
    BY <1>12
  <2> HIDE DEF old, a, goOn, next, com, covered, acc
  <2>5. transfer' \in [Node -> SUBSET Fetch] /\ \E sent \in SUBSET Message : Send(sent)
    BY <2>3, NextFetchOk
  <2>6. PICK sent \in SUBSET Message : Send(sent)
    BY <2>5
  <2> QED BY <1>5, <1>10, <2>1, <2>2, <2>4, <2>5, <2>6, ServeStep
<1>13. CASE /\ covered.ents # <<>>
            /\ accepted' = [accepted EXCEPT ![r] = acc]
            /\ committed' = [committed EXCEPT ![r] = com]
            /\ log' = [log EXCEPT ![r] = Installed(r, covered, ruling)]
            /\ NextFetch(r, m, m.more \/ (com < through /\ acc > accepted[r]),
                         acc + 1)
            /\ UNCHANGED fault
  <2> DEFINE new == Installed(r, covered, ruling)
             goOn == m.more \/ (com < through /\ acc > accepted[r])
             next == acc + 1
  <2>1. /\ new \in Seq(Nat)
        /\ \A s \in 1 .. committed[r] : new[s] = log[r][s]
    <3> HIDE DEF com, covered, new, mc
    <3>1. /\ ruling = CheckSuffix(r, covered, com, mc, 0)
          /\ committed[r] <= LastSlot(covered) /\ covered \in Suffix
      BY <1>5, <1>9, <1>13 DEF mc
    <3> HIDE DEF ruling
    <3>2. /\ Installed(r, covered, ruling) \in Seq(Nat)
          /\ \A s \in 1 .. committed[r] : Installed(r, covered, ruling)[s] = log[r][s]
      <4>1. RulingOk(r, covered, 0, ruling)
        BY <1>1, <1>5, <3>1, CheckSuffixRules
      <4> QED BY <3>1, <4>1, ChunkLog
    <3> QED BY <3>2 DEF new
  <2>2. /\ accepted' = [accepted EXCEPT ![r] = acc]
        /\ committed' = [committed EXCEPT ![r] = com]
        /\ log' = [log EXCEPT ![r] = new]
    BY <1>13
  <2>3. NextFetch(r, m, goOn, next) /\ next \in Nat
    BY <1>11, <1>13
  <2>4. fault' \in [Node -> BOOLEAN]
    BY <1>13 DEF IInv, TypeOK
  <2> HIDE DEF new, goOn, next, com, covered, acc
  <2>5. transfer' \in [Node -> SUBSET Fetch] /\ \E sent \in SUBSET Message : Send(sent)
    BY <2>3, NextFetchOk
  <2>6. PICK sent \in SUBSET Message : Send(sent)
    BY <2>5
  <2> QED BY <1>5, <1>6, <1>10, <2>1, <2>2, <2>4, <2>5, <2>6, ServeStep
<1> QED BY <1>12, <1>13 DEF AcquireChunk

\* plan_new_state, from the message to the kind of acquisition.
LEMMA ReceiveNewStateStep ==
    ASSUME IInv, NEW r \in Node, NEW m \in msgs, ReceiveNewState(r, m)
    PROVE  IInv' /\ Stable
<1> DEFINE through == LastSlot(m.suffix)
           ruling == CheckSuffix(r, m.suffix, through, m.committed, 0)
<1>1. m \in Message /\ m.tag = "NewState" /\ Live(r)
  BY DEF IInv, TypeOK, ReceiveNewState
<1>2. m \in NewStateMsg
  BY <1>1, MessageFields
<1>3. /\ UNCHANGED <<status, view, retained, applied, checkpoint, first,
                     proposalVars, attemptVars, stalled, restarts>>
      /\ \/ /\ transfer' = [transfer EXCEPT ![r] = {}]
            /\ UNCHANGED <<accepted, committed, fault, log, msgs>>
         \/ /\ fault' = [fault EXCEPT ![r] = TRUE]
            /\ UNCHANGED <<accepted, committed, log, transfer, msgs>>
         \/ /\ through > accepted[r]
            /\ Installable(ruling)
            /\ \/ AcquireChunk(r, m, through)
               \/ InstallChunk(r, m, through, ruling) /\ UNCHANGED fault
  BY DEF ReceiveNewState
<1>4. CASE \/ /\ transfer' = [transfer EXCEPT ![r] = {}]
              /\ UNCHANGED <<accepted, committed, fault, log, msgs>>
           \/ /\ fault' = [fault EXCEPT ![r] = TRUE]
              /\ UNCHANGED <<accepted, committed, log, transfer, msgs>>
  <2> HIDE DEF through, ruling
  <2> USE DEF proposalVars, attemptVars
  <2>1. TypeOK'
    BY <1>3, <1>4 DEF IInv, TypeOK
  <2>2. ProgressOK' /\ FirstOK'
    BY <1>3, <1>4 DEF IInv, ProgressOK, FirstOK
  <2>3. EvidenceShaped'
    BY <1>3, <1>4 DEF IInv, EvidenceShaped
  <2>4. Stable
    <3>1. committed' = committed /\ log' = log
      BY <1>4
    <3>2. \A q \in Node : committed[q] \in Nat
      BY DEF IInv, TypeOK
    <3> QED BY <3>1, <3>2 DEF Stable
  <2> QED BY <2>1, <2>2, <2>3, <2>4 DEF IInv
<1>5. CASE through > accepted[r] /\ Installable(ruling) /\ AcquireChunk(r, m, through)
  BY <1>1, <1>2, <1>3, <1>5, AcquireChunkStep
<1>6. CASE /\ through > accepted[r]
           /\ InstallChunk(r, m, through, ruling) /\ UNCHANGED fault
  <2>1. UNCHANGED <<status, view, retained, applied, checkpoint, fault, first,
                    proposalVars, attemptVars, stalled, restarts>>
    BY <1>3, <1>6
  <2> QED BY <1>1, <1>2, <1>6, <2>1, InstallChunkStep
<1> QED BY <1>3, <1>4, <1>5, <1>6

-----------------------------------------------------------------------------
(***************************************************************************)
(* The theorems.                                                           *)
(***************************************************************************)

\* Every step of the specification keeps the invariant and the committed
\* history.
LEMMA NextStep == IInv /\ [Next]_vars => IInv' /\ [Stable]_vars
<1> SUFFICES ASSUME IInv, [Next]_vars PROVE IInv' /\ [Stable]_vars
  OBVIOUS
<1>1. CASE UNCHANGED vars
  <2> USE DEF vars, progressVars, journalVars, proposalVars, attemptVars, fetchVars
  <2>1. TypeOK'
    BY <1>1 DEF IInv, TypeOK
  <2>2. ProgressOK' /\ FirstOK' /\ EvidenceShaped'
    BY <1>1 DEF IInv, ProgressOK, FirstOK, EvidenceShaped
  <2> QED BY <1>1, <2>1, <2>2 DEF IInv
<1>2. ASSUME NEW r \in Node, Step(r)
      PROVE  IInv' /\ Stable
  <2>1. \A t \in 1 .. MaxApply : t \in Nat
    OBVIOUS
  <2>2. \A s \in 1 .. MaxApply + 1 : s \in Nat
    OBVIOUS
  <2>3. \A v \in 1 .. MaxView : v \in Nat
    OBVIOUS
  <2> QED
    BY <1>2, <2>1, <2>2, <2>3, TickPromoteStep, TickSuspectStep, TickStalledStep,
       TickSelectedStep, ProposeStep, AppliedStep, CheckpointedStep,
       ReclaimStep, AdminForceViewStep, ResumeStep DEF Step
<1>3. ASSUME NEW r \in Node, NEW m \in msgs, Receive(r, m)
      PROVE  IInv' /\ Stable
  BY <1>3, ReceivePrepareStep, ReceivePrepareOkStep, ReceiveCommitStep,
     ReceiveStartViewChangeStep, ReceiveDoViewChangeStep,
     ReceiveStartViewStep, ReceiveGetStateStep, ReceiveNewStateStep DEF Receive
<1> QED BY <1>1, <1>2, <1>3 DEF Next

\* The inductive invariant holds throughout.
THEOREM Invariance == Spec => []IInv
<1>1. Init => IInv
  BY InitIInv
<1>2. IInv /\ [Next]_vars => IInv'
  BY NextStep
<1> QED BY <1>1, <1>2, PTL DEF Spec

\* Replica state and messages keep their types, for any cluster and bounds.
THEOREM TypeCorrect == Spec => []TypeOK
<1>1. IInv => TypeOK
  BY DEF IInv
<1> QED BY <1>1, Invariance, PTL

\* Progress.check never refuses a candidate: the frontiers and the two views
\* stay ordered under every interleaving, loss, duplication and restart.
THEOREM ProgressOrdered == Spec => []ProgressOK
<1>1. IInv => ProgressOK
  BY DEF IInv
<1> QED BY <1>1, Invariance, PTL

\* No input ever rewrites a slot a replica has committed or takes its commit
\* frontier back, whatever its peers send and the network delivers.
THEOREM CommittedHistoryStable == Spec => CommittedStable
<1>1. IInv /\ [Next]_vars => [Stable]_vars
  BY NextStep
<1>2. [Stable]_vars =>
        [\A r \in Node :
           /\ committed[r] <= committed'[r]
           /\ \A s \in 1 .. committed[r] : log'[r][s] = log[r][s]]_vars
  BY DEF Stable
<1> QED BY <1>1, <1>2, Invariance, PTL DEF Spec, CommittedStable

-----------------------------------------------------------------------------
(***************************************************************************)
(* The journal ends where progress says it does.  The only step that does  *)
(* not see to it is the boot acquisition of a chunk that reaches past what *)
(* its sender had committed (AcquireChunk): it cuts the journal to the     *)
(* committed part and leaves accepted where it was.  A chunk of one entry  *)
(* cannot be cut.                                                          *)
(***************************************************************************)

\* A step of r leaves its journal and frontier as they were, or makes them
\* agree, and sends no NewState.
Ends(r) ==
    /\ \/ accepted'[r] = accepted[r] /\ log'[r] = log[r]
       \/ accepted'[r] = Len(log'[r])
    /\ \A q \in Node \ {r} : accepted'[q] = accepted[q] /\ log'[q] = log[q]
    /\ \A q \in Node : fault[q] => fault'[q]
    /\ \A m \in msgs' : m.tag = "NewState" => m \in msgs

NoChunk(ms) == \A m \in ms : m.tag # "NewState"

ShortChunks ==
    Budget <= 1 => \A m \in msgs :
                      m.tag = "NewState" => Len(m.suffix.ents) <= 1

JInv == JournalMatchesProgress /\ ShortChunks

\* Such a step keeps the invariant.
LEMMA EndsKeeps ==
    ASSUME JInv, NEW r \in Node, Ends(r)
    PROVE  JInv'
<1>1. JournalMatchesProgress'
  BY DEF JInv, JournalMatchesProgress, Ends
<1>2. ShortChunks'
  BY DEF JInv, ShortChunks, Ends
<1> QED BY <1>1, <1>2 DEF JInv

\* An installation that check_suffix allows ends where the offer says.
LEMMA InstalledEnds ==
    ASSUME TypeOK, NEW r \in Node, NEW sfx \in Suffix, NEW acc \in Nat,
           NEW com \in Nat, NEW d \in Nat, accepted[r] = Len(log[r]),
           committed[r] <= accepted[r], ShapeOk(sfx, acc),
           NEW c, c = CheckSuffix(r, sfx, acc, com, d), Installable(c)
    PROVE  Len(Installed(r, sfx, c)) = acc
<1>1. /\ RulingOk(r, sfx, d, c) /\ accepted[r] \in Nat /\ log[r] \in Seq(Nat)
      /\ LastSlot(sfx) \in Int /\ sfx.from \in Nat
  <2>1. RulingOk(r, sfx, d, c)
    BY CheckSuffixRules
  <2>2. sfx.from \in Nat /\ sfx.ents \in Seq(Nat)
    BY DEF Suffix
  <2> QED BY <2>1, <2>2, SMTT(30) DEF TypeOK, LastSlot
<1>2. CASE c.kind = "Install"
  <2> DEFINE k == c.slot
             l == log[r]
  <2>1. /\ sfx.ents # <<>> /\ k \in Nat /\ sfx.from <= k /\ k <= LastSlot(sfx)
        /\ k <= Len(l) + 1 /\ 0 <= Len(l) /\ 0 <= LastSlot(sfx)
    BY <1>1, <1>2 DEF RulingOk
  <2>2. LastSlot(sfx) = acc
    BY <2>1 DEF ShapeOk
  <2>3. Installed(r, sfx, c) = Splice(l, sfx, k)
    BY <1>2 DEF Installed
  <2>4. l \in Seq(Nat) /\ 0 \in Nat /\ \A s \in 1 .. 0 : FALSE
    BY <1>1
  <2> HIDE DEF k, l
  <2>5. Len(Splice(l, sfx, k)) = LastSlot(sfx)
    BY <2>1, <2>4, SpliceRules
  <2> QED BY <2>2, <2>3, <2>5
<1>3. CASE c.kind # "Install"
  <2>1. c.kind = "Keep"
    BY <1>3 DEF Installable
  <2>2. acc = accepted[r]
    <3>1. CASE sfx.ents = <<>>
      BY <2>1, <3>1 DEF CheckSuffix, Keep, Gap
    <3>2. CASE sfx.ents # <<>>
      <4>1. ~(LastSlot(sfx) > accepted[r]) /\ ~(acc < accepted[r])
        BY <2>1, <3>2 DEF CheckSuffix, Gap, Conflict, InstallFrom
      <4>2. LastSlot(sfx) = acc
        BY <3>2 DEF ShapeOk
      <4> QED BY <1>1, <4>1, <4>2
    <3> QED BY <3>1, <3>2
  <2> QED BY <1>3, <2>2 DEF Installed
<1> QED BY <1>2, <1>3

\* A view change under way touches no journal.
LEMMA AttemptEnds ==
    ASSUME TypeOK, NEW r \in Node, NEW v, NEW fs, NEW evs, NEW sel, NEW sent,
           NEW fetched, NoChunk(sent), Attempt(r, v, fs, evs, sel, sent, fetched)
    PROVE  Ends(r)
  BY DEF Attempt, Ends, Send, NoChunk, journalVars

\* A fault is for good.
LEMMA RaiseEnds ==
    ASSUME TypeOK, NEW r \in Node, Raise(r)
    PROVE  Ends(r)
  BY DEF Raise, Ends, TypeOK, journalVars

\* plan_win_view publishes the frontier at which the selected history ends.
LEMMA WinOrWaitEnds ==
    ASSUME IInv, NEW r \in Node, Live(r), NEW v \in Nat,
           NEW fs, NEW evs \in SUBSET Evidence, NEW e \in Evidence, Shaped({e}),
           NEW sent, NoChunk(sent), NEW forced, WinOrWait(r, v, fs, evs, e, sent, forced)
    PROVE  Ends(r)
<1>1. PICK c \in {committed[r]} \cup {f.committed : f \in evs} :
        LET ruling == CheckSuffix(r, e.suffix, e.accepted, c, checkpoint[r])
            missing == IF c > e.accepted THEN e.accepted + 1 ELSE ruling.slot
            asked == IF transfer[r] = {}
                     THEN {[view |-> v, to |-> e.from, next |-> missing]}
                     ELSE {}
            fetched == IF forced = {} THEN asked ELSE forced
        IN  \/ Attempt(r, v, fs, evs, {e},
                       sent \cup Asks(r, asked \cup forced), fetched)
            \/ Raise(r)
            \/ /\ Installable(ruling)
               /\ Win(r, v, e, c, sent \cup Asks(r, forced), forced)
  BY DEF WinOrWait
<1> DEFINE ruling == CheckSuffix(r, e.suffix, e.accepted, c, checkpoint[r])
           missing == IF c > e.accepted THEN e.accepted + 1 ELSE ruling.slot
           asked == IF transfer[r] = {}
                    THEN {[view |-> v, to |-> e.from, next |-> missing]}
                    ELSE {}
           fetched == IF forced = {} THEN asked ELSE forced
<1>2. /\ c \in Nat /\ e.suffix \in Suffix /\ e.accepted \in Nat
      /\ checkpoint[r] \in Nat /\ TypeOK /\ accepted[r] = Len(log[r])
      /\ committed[r] <= accepted[r] /\ ShapeOk(e.suffix, e.accepted)
  <2>1. /\ TypeOK /\ accepted[r] = Len(log[r]) /\ committed[r] <= accepted[r]
    BY DEF IInv, Live, ProgressOK
  <2>2. committed[r] \in Nat /\ checkpoint[r] \in Nat
    BY <2>1 DEF TypeOK
  <2>3. c \in Nat /\ e.suffix \in Suffix /\ e.accepted \in Nat
    BY <2>2 DEF Evidence
  <2> QED BY <2>1, <2>2, <2>3 DEF Shaped
<1>3. \A xs : NoChunk(Asks(r, xs))
  BY DEF NoChunk, Asks, GetState
<1>4. CASE Attempt(r, v, fs, evs, {e}, sent \cup Asks(r, asked \cup forced), fetched)
  <2> HIDE DEF asked, fetched
  <2>1. NoChunk(sent \cup Asks(r, asked \cup forced))
    BY <1>3 DEF NoChunk
  <2> QED BY <1>2, <1>4, <2>1, AttemptEnds
<1>5. CASE Installable(ruling) /\ Win(r, v, e, c, sent \cup Asks(r, forced), forced)
  <2> HIDE DEF ruling
  <2>1. Len(Installed(r, e.suffix, ruling)) = e.accepted
    BY <1>2, <1>5, InstalledEnds DEF ruling
  <2>2. /\ accepted' = [accepted EXCEPT ![r] = e.accepted]
        /\ log' = [log EXCEPT ![r] = Installed(r, e.suffix, ruling)]
        /\ fault' = fault
        /\ Send(sent \cup Asks(r, forced) \cup {StartView(r, v, e, c)})
    BY <1>5 DEF Win, ruling
  <2>3. NoChunk(sent \cup Asks(r, forced) \cup {StartView(r, v, e, c)})
    BY <1>3 DEF NoChunk, StartView
  <2>4. /\ accepted'[r] = e.accepted /\ log'[r] = Installed(r, e.suffix, ruling)
        /\ \A q \in Node \ {r} : accepted'[q] = accepted[q] /\ log'[q] = log[q]
    BY <1>2, <2>2 DEF TypeOK
  <2> QED BY <2>1, <2>2, <2>3, <2>4 DEF Ends, NoChunk, Send
<1> QED BY <1>1, <1>2, <1>4, <1>5, RaiseEnds

\* continue_view_change.
LEMMA ContinueEnds ==
    ASSUME IInv, NEW r \in Node, Live(r), NEW v \in Nat,
           NEW fs, NEW evs \in SUBSET Evidence, Shaped(evs),
           NEW sel \in SUBSET Evidence, Shaped(sel),
           NEW sent, NoChunk(sent), NEW forced,
           ContinueViewChange(r, v, fs, evs, sel, sent, forced)
    PROVE  Ends(r)
<1> DEFINE reports == r \notin Reporters(evs) /\ FenceQuorum(fs)
           all == IF reports THEN evs \cup {OwnEvidence(r)} ELSE evs
           report == IF reports /\ Primary(v) # r
                     THEN {[tag |-> "DoViewChange", to |-> Primary(v),
                            view |-> v, ev |-> OwnEvidence(r)]}
                     ELSE {}
           leads == Primary(v) = r /\ r \in Reporters(all)
           chosen == IF leads /\ sel = {} /\ EvidenceQuorum(all)
                     THEN SelectHistory(all) ELSE sel
<1>1. OwnEvidence(r) \in Evidence /\ Shaped({OwnEvidence(r)})
  BY OwnEvidenceOk
<1>2. all \in SUBSET Evidence /\ Shaped(all)
  BY <1>1 DEF Shaped
<1>3. chosen \in SUBSET Evidence /\ Shaped(chosen)
  BY <1>2 DEF SelectHistory, Shaped
<1>4. NoChunk(sent \cup report \cup Asks(r, forced))
  BY DEF NoChunk, Asks, GetState
<1>5. \/ Attempt(r, v, fs, all, chosen, sent \cup report \cup Asks(r, forced), forced)
      \/ \E e \in chosen : WinOrWait(r, v, fs, all, e, sent, forced)
  BY DEF ContinueViewChange
<1> HIDE DEF all, chosen, report
<1>6. ASSUME NEW e \in chosen, WinOrWait(r, v, fs, all, e, sent, forced)
      PROVE  Ends(r)
  BY <1>2, <1>3, <1>6, WinOrWaitEnds DEF Shaped
<1> QED BY <1>4, <1>5, <1>6, AttemptEnds DEF IInv

\* enter_view_change.
LEMMA EnterEnds ==
    ASSUME IInv, NEW r \in Node, Live(r), NEW v \in Nat, NEW heard, NEW forced,
           EnterViewChange(r, v, heard, forced)
    PROVE  Ends(r)
<1>1. /\ {} \in SUBSET Evidence /\ Shaped({})
      /\ NoChunk({[tag |-> "StartViewChange", from |-> r, view |-> v]})
  BY DEF Shaped, NoChunk
<1> QED BY <1>1, ContinueEnds DEF EnterViewChange

\* The attempt a replica is in holds shaped reports.
LEMMA AttemptShaped ==
    ASSUME IInv, NEW r \in Node
    PROVE  /\ evidence[r] \in SUBSET Evidence /\ Shaped(evidence[r])
           /\ selected[r] \in SUBSET Evidence /\ Shaped(selected[r])
           /\ view[r] \in Nat /\ NoChunk({})
  BY DEF IInv, TypeOK, EvidenceShaped, NoChunk

\* plan_start_view publishes the frontier at which the offer ends.
LEMMA AdoptEnds ==
    ASSUME IInv, NEW r \in Node, Live(r), NEW m \in StartViewMsg,
           AdoptStartView(r, m)
    PROVE  Ends(r)
<1> DEFINE ruling == CheckSuffix(r, m.suffix, m.accepted, m.committed,
                                 checkpoint[r])
<1>1. /\ m.suffix \in Suffix /\ m.accepted \in Nat /\ m.committed \in Nat
      /\ checkpoint[r] \in Nat /\ TypeOK /\ accepted[r] = Len(log[r])
      /\ committed[r] <= accepted[r] /\ ShapeOk(m.suffix, m.accepted)
  BY DEF StartViewMsg, IInv, TypeOK, Live, ProgressOK, AdoptStartView
<1>2. \/ /\ Installable(ruling)
         /\ accepted' = [accepted EXCEPT ![r] = m.accepted]
         /\ log' = [log EXCEPT ![r] = Installed(r, m.suffix, ruling)]
         /\ fault' = fault /\ msgs' = msgs
      \/ /\ accepted' = accepted /\ log' = log /\ fault' = fault
         /\ Send({GetState(r, m.view, m.from, ruling.slot)})
      \/ Raise(r)
  BY DEF AdoptStartView, progressVars, journalVars
<1> HIDE DEF ruling
<1>3. CASE /\ Installable(ruling)
           /\ accepted' = [accepted EXCEPT ![r] = m.accepted]
           /\ log' = [log EXCEPT ![r] = Installed(r, m.suffix, ruling)]
           /\ fault' = fault /\ msgs' = msgs
  <2>1. Len(Installed(r, m.suffix, ruling)) = m.accepted
    BY <1>1, <1>3, InstalledEnds DEF ruling
  <2>2. /\ accepted'[r] = m.accepted /\ log'[r] = Installed(r, m.suffix, ruling)
        /\ \A q \in Node \ {r} : accepted'[q] = accepted[q] /\ log'[q] = log[q]
    BY <1>1, <1>3 DEF TypeOK
  <2> QED BY <1>3, <2>1, <2>2 DEF Ends
<1>4. CASE /\ accepted' = accepted /\ log' = log /\ fault' = fault
           /\ Send({GetState(r, m.view, m.from, ruling.slot)})
  BY <1>4 DEF Ends, Send, GetState
<1> QED BY <1>1, <1>2, <1>3, <1>4, RaiseEnds

\* plan_tick, plan_propose, and what the host and the administrator ask for.
LEMMA StepEnds ==
    ASSUME IInv, NEW r \in Node, Step(r)
    PROVE  Ends(r)
<1> USE DEF progressVars, journalVars, proposalVars, attemptVars, fetchVars
<1>1. /\ TypeOK /\ \A v \in 1 .. MaxView : v \in Nat
      /\ view[r] + 1 \in Nat
  <2>1. \A v \in 1 .. MaxView : v \in Nat
    OBVIOUS
  <2>2. TypeOK /\ view[r] + 1 \in Nat
    BY AttemptShaped DEF IInv
  <2> QED BY <2>1, <2>2
<1>2. CASE \/ TickPromote(r)
           \/ Applied(r)
           \/ \E t \in 1 .. MaxApply : Checkpointed(r, t)
           \/ \E s \in 1 .. MaxApply + 1 : Reclaim(r, s)
           \/ Resume(r)
  BY <1>2 DEF TickPromote, Applied, Checkpointed, Reclaim, Resume, Ends, Send,
              Commit
<1>3. CASE TickSuspect(r) \/ \E v \in 1 .. MaxView : AdminForceView(r, v)
  BY <1>1, <1>3, EnterEnds DEF TickSuspect, AdminForceView
<1>4. CASE TickStalled(r)
  <2>1. PICK m \in stalled[r] : AdoptStartView(r, m)
    BY <1>4 DEF TickStalled
  <2>2. m \in StartViewMsg
    BY <1>1, <2>1 DEF TypeOK
  <2> QED BY <1>4, <2>1, <2>2, AdoptEnds DEF TickStalled
<1>5. CASE TickSelected(r)
  BY <1>5, AttemptShaped, ContinueEnds DEF TickSelected
<1>6. CASE Propose(r)
  <2>1. /\ accepted' = [accepted EXCEPT ![r] = @ + 1]
        /\ log' = [log EXCEPT ![r] = Append(@, Operation(view[r]))]
        /\ accepted[r] = Len(log[r]) /\ fault' = fault
        /\ msgs' = msgs \cup
             {[tag |-> "Prepare", from |-> r, view |-> view[r],
               slot |-> accepted[r] + 1, entry |-> Operation(view[r]),
               committed |-> committed[r]]}
    BY <1>6 DEF Propose, Live, Send
  <2>2. /\ accepted'[r] = accepted[r] + 1
        /\ log'[r] = Append(log[r], Operation(view[r])) /\ log[r] \in Seq(Nat)
        /\ Operation(view[r]) \in Nat
        /\ \A q \in Node \ {r} : accepted'[q] = accepted[q] /\ log'[q] = log[q]
    BY <1>1, <2>1 DEF TypeOK, Operation
  <2>3. accepted'[r] = Len(log'[r])
    BY <2>1, <2>2
  <2> QED BY <2>1, <2>2, <2>3 DEF Ends
<1> QED BY <1>2, <1>3, <1>4, <1>5, <1>6 DEF Step

\* plan_higher_view_signal.
LEMMA HigherViewSignalEnds ==
    ASSUME IInv, NEW r \in Node, Live(r), NEW m, m.view \in Nat,
           HigherViewSignal(r, m)
    PROVE  Ends(r)
  BY EnterEnds DEF HigherViewSignal

\* Messages of normal operation and of the view change.
LEMMA ReceiveEnds ==
    ASSUME IInv, NEW r \in Node, NEW m \in msgs, Receive(r, m),
           m.tag \notin {"GetState", "NewState"}
    PROVE  Ends(r)
<1> USE DEF progressVars, journalVars, proposalVars, attemptVars, fetchVars
<1>1. m \in Message /\ TypeOK
  BY DEF IInv, TypeOK
<1>2. CASE ReceivePrepare(r, m)
  <2>1. /\ m \in PrepareMsg /\ Live(r)
        /\ m.view \in Nat /\ m.slot \in Nat /\ m.entry \in Nat
    BY <1>1, <1>2, MessageFields DEF ReceivePrepare, PrepareMsg
  <2>2. CASE HigherViewSignal(r, m)
    BY <2>1, <2>2, HigherViewSignalEnds
  <2>3. CASE /\ UNCHANGED <<accepted, log, fault>>
             /\ Send({PrepareOk(r, m)})
                \/ Send({GetState(r, view[r], m.from, accepted[r] + 1)})
    BY <2>3 DEF Ends, Send, PrepareOk, GetState
  <2>4. CASE /\ m.slot = accepted[r] + 1
             /\ accepted' = [accepted EXCEPT ![r] = m.slot]
             /\ log' = [log EXCEPT ![r] = Append(@, m.entry)]
             /\ fault' = fault /\ Send({PrepareOk(r, m)})
    <3>1. /\ accepted'[r] = m.slot /\ log'[r] = Append(log[r], m.entry)
          /\ log[r] \in Seq(Nat) /\ accepted[r] = Len(log[r])
          /\ \A q \in Node \ {r} : accepted'[q] = accepted[q] /\ log'[q] = log[q]
      BY <1>1, <2>1, <2>4 DEF TypeOK, Live
    <3>2. accepted'[r] = Len(log'[r])
      BY <2>1, <2>4, <3>1
    <3> QED BY <2>4, <3>1, <3>2 DEF Ends, Send, PrepareOk
  <2> QED BY <1>2, <2>2, <2>3, <2>4 DEF ReceivePrepare
<1>3. CASE ReceivePrepareOk(r, m)
  BY <1>3 DEF ReceivePrepareOk, Ends, Send, Commit
<1>4. CASE ReceiveCommit(r, m)
  <2>1. Live(r) /\ m.view \in Nat
    BY <1>1, <1>4, MessageFields DEF ReceiveCommit, CommitMsg
  <2>2. CASE HigherViewSignal(r, m)
    BY <2>1, <2>2, HigherViewSignalEnds
  <2>3. CASE UNCHANGED <<accepted, log, fault, msgs>>
    BY <2>3 DEF Ends
  <2> QED BY <1>4, <2>2, <2>3 DEF ReceiveCommit
<1>5. CASE ReceiveStartViewChange(r, m)
  <2>1. Live(r) /\ m.view \in Nat
    BY <1>1, <1>5, MessageFields DEF ReceiveStartViewChange, StartViewChangeMsg
  <2>2. CASE EnterViewChange(r, m.view, {m.from}, {})
    BY <2>1, <2>2, EnterEnds
  <2>3. CASE ContinueViewChange(r, view[r], fences[r] \cup {m.from},
                                evidence[r], selected[r], {}, {})
    BY <2>1, <2>3, AttemptShaped, ContinueEnds
  <2> QED BY <1>5, <2>2, <2>3 DEF ReceiveStartViewChange
<1>6. CASE ReceiveDoViewChange(r, m)
  <2>1. /\ Live(r) /\ m.ev \in Evidence /\ ShapeOk(m.ev.suffix, m.ev.accepted)
    BY <1>1, <1>6, MessageFields DEF ReceiveDoViewChange, DoViewChangeMsg
  <2> DEFINE evs == IF m.ev.from \in Reporters(evidence[r]) THEN evidence[r]
                    ELSE evidence[r] \cup {m.ev}
  <2>2. evs \in SUBSET Evidence /\ Shaped(evs)
    BY <2>1, AttemptShaped DEF Shaped
  <2>3. ContinueViewChange(r, view[r], fences[r], evs, selected[r], {}, {})
    BY <1>6 DEF ReceiveDoViewChange
  <2> HIDE DEF evs
  <2> QED BY <2>1, <2>2, <2>3, AttemptShaped, ContinueEnds
<1>7. CASE ReceiveStartView(r, m)
  <2>1. Live(r) /\ m \in StartViewMsg /\ AdoptStartView(r, m)
    BY <1>1, <1>7, MessageFields DEF ReceiveStartView
  <2> QED BY <2>1, AdoptEnds
<1> QED
  BY <1>2, <1>3, <1>4, <1>5, <1>6, <1>7
     DEF Receive, ReceiveGetState, ReceiveNewState

\* plan_get_state: within a budget of one, a chunk carries one entry.
LEMMA ReceiveGetStateJInv ==
    ASSUME IInv, JInv, NEW r \in Node, NEW m \in msgs, ReceiveGetState(r, m)
    PROVE  JInv'
<1>1. m \in GetStateMsg /\ m.next \in Nat /\ accepted[r] \in Nat
  <2>1. m \in Message /\ m.tag = "GetState"
    BY DEF IInv, TypeOK, ReceiveGetState
  <2> QED BY <2>1, MessageFields DEF IInv, TypeOK, GetStateMsg
<1> DEFINE through == AtMost(accepted[r], m.next + Budget - 1)
           run == RunOf(log[r], m.next, through)
<1>2. /\ msgs' = msgs \cup
           {[tag |-> "NewState", from |-> r, to |-> m.from, view |-> m.view,
             suffix |-> run, committed |-> committed[r],
             more |-> through < accepted[r]]}
      /\ accepted' = accepted /\ log' = log /\ fault' = fault
  BY DEF ReceiveGetState, Send, progressVars, journalVars
<1>3. ASSUME Budget <= 1
      PROVE  Len(run.ents) <= 1
  <2>1. Budget \in Nat
    BY BoundsAssumption
  <2>2. through \in Int
    BY <1>1, <2>1 DEF AtMost
  <2>3. CASE m.next > through
    BY <2>3 DEF RunOf
  <2>4. CASE m.next <= through
    <3>1. through - m.next + 1 <= 1 /\ through - m.next + 1 \in Nat
      BY <1>1, <1>3, <2>1, <2>4 DEF AtMost
    <3> HIDE DEF through
    <3>2. Len(run.ents) = through - m.next + 1
      <4> DEFINE n == through - m.next + 1
                 f == [i \in 1 .. n |-> log[r][m.next + i - 1]]
                 S == {log[r][m.next + i - 1] : i \in 1 .. n}
      <4>1. run.ents = f
        BY <1>1, <2>4, <2>2 DEF RunOf
      <4>2. n \in Nat
        BY <3>1
      <4> HIDE DEF n
      <4>3. f \in [1 .. n -> S]
        OBVIOUS
      <4> HIDE DEF f, S
      <4> QED BY <4>1, <4>2, <4>3, FcnSeq DEF n
    <3> QED BY <3>1, <3>2
  <2> QED BY <1>1, <2>3, <2>4, <2>2
<1> HIDE DEF run, through
<1>4. ShortChunks'
  BY <1>2, <1>3 DEF JInv, ShortChunks
<1>5. JournalMatchesProgress'
  BY <1>2 DEF JInv, JournalMatchesProgress
<1> QED BY <1>4, <1>5 DEF JInv

\* plan_new_state: a chunk is journalled whole unless it is cut, which one
\* entry never is.
LEMMA ReceiveNewStateJInv ==
    ASSUME IInv, JInv, Budget <= 1, NEW r \in Node, NEW m \in msgs,
           ReceiveNewState(r, m)
    PROVE  JInv'
<1> DEFINE sfx == m.suffix
           mc == m.committed
           through == LastSlot(m.suffix)
           ruling == CheckSuffix(r, m.suffix, through, m.committed, 0)
<1>1. /\ m \in NewStateMsg /\ sfx \in Suffix /\ mc \in Nat /\ through \in Int
      /\ sfx.from \in Nat /\ sfx.ents \in Seq(Nat) /\ Len(sfx.ents) <= 1
      /\ through = sfx.from + Len(sfx.ents) - 1
  <2>1. m \in Message /\ m.tag = "NewState"
    BY DEF IInv, TypeOK, ReceiveNewState
  <2>2. m \in NewStateMsg
    BY <2>1, MessageFields
  <2>3. sfx \in Suffix /\ mc \in Nat
    BY <2>2 DEF NewStateMsg
  <2>4. sfx.from \in Nat /\ sfx.ents \in Seq(Nat)
    BY <2>3 DEF Suffix
  <2>5. Len(sfx.ents) <= 1
    BY <2>1 DEF JInv, ShortChunks
  <2> QED BY <2>2, <2>3, <2>4, <2>5 DEF LastSlot
<1>2. /\ TypeOK /\ Live(r) /\ accepted[r] = Len(log[r]) /\ accepted[r] \in Nat
      /\ committed[r] <= accepted[r] /\ committed[r] \in Nat
  BY DEF ReceiveNewState, Live, IInv, TypeOK, ProgressOK
<1>3. \A goOn, next : NextFetch(r, m, goOn, next) =>
           \A x \in msgs' : x.tag = "NewState" => x \in msgs
  BY DEF NextFetch, Send, GetState
<1>4. CASE \/ UNCHANGED <<accepted, log, fault, msgs>>
           \/ /\ fault' = [fault EXCEPT ![r] = TRUE]
              /\ UNCHANGED <<accepted, log, msgs>>
  <2>1. Ends(r)
    BY <1>2, <1>4 DEF Ends, TypeOK
  <2> QED BY <2>1, EndsKeeps
<1>5. CASE /\ through > accepted[r] /\ Installable(ruling)
           /\ InstallChunk(r, m, through, ruling) /\ UNCHANGED fault
  <2>1. through \in Nat /\ ShapeOk(sfx, through)
    <3>1. through \in Nat
      BY <1>1, <1>2, <1>5
    <3>2. sfx.from >= 1
      BY <1>1, <1>2, <1>5
    <3> QED BY <3>1, <3>2 DEF ShapeOk
  <2>2. /\ accepted' = [accepted EXCEPT ![r] = through]
        /\ log' = [log EXCEPT ![r] = Installed(r, sfx, ruling)]
        /\ NextFetch(r, m, m.more, through + 1)
    BY <1>5 DEF InstallChunk
  <2>3. Len(Installed(r, sfx, ruling)) = through
    <3>1. ruling = CheckSuffix(r, sfx, through, mc, 0)
      OBVIOUS
    <3> HIDE DEF ruling, sfx, mc, through
    <3> QED BY <1>1, <1>2, <1>5, <2>1, <3>1, InstalledEnds
  <2> HIDE DEF ruling, sfx, mc, through
  <2>4. /\ accepted'[r] = through /\ log'[r] = Installed(r, sfx, ruling)
        /\ \A q \in Node \ {r} : accepted'[q] = accepted[q] /\ log'[q] = log[q]
    BY <1>2, <2>2 DEF TypeOK
  <2>5. Ends(r)
    BY <1>3, <1>5, <2>2, <2>3, <2>4 DEF Ends
  <2> QED BY <2>5, EndsKeeps
<1>6. CASE through > accepted[r] /\ AcquireChunk(r, m, through)
  <2> DEFINE take == IF stalled[r] = {} THEN m.committed
                     ELSE Min({m.committed} \cup {o.committed : o \in stalled[r]})
             com == Follow(r, take, through)
             acc == AtLeast(accepted[r], com)
             covered == [m.suffix EXCEPT
                            !.ents = SubSeq(@, 1, com - m.suffix.from + 1)]
             cut == CheckSuffix(r, covered, com, m.committed, 0)
  <2>1. \/ UNCHANGED <<accepted, fault, log>>
           /\ NextFetch(r, m, m.more, acc + 1)
        \/ /\ covered.ents # <<>> /\ Installable(cut)
           /\ accepted' = [accepted EXCEPT ![r] = acc]
           /\ log' = [log EXCEPT ![r] = Installed(r, covered, cut)]
           /\ fault' = fault
           /\ \E goOn : NextFetch(r, m, goOn, acc + 1)
    BY <1>6 DEF AcquireChunk
  <2>2. CASE UNCHANGED <<accepted, fault, log>> /\ NextFetch(r, m, m.more, acc + 1)
    <3>1. Ends(r)
      <4> HIDE DEF acc
      <4> QED BY <1>3, <2>2 DEF Ends
    <3> QED BY <3>1, EndsKeeps
  <2>3. CASE /\ covered.ents # <<>> /\ Installable(cut)
             /\ accepted' = [accepted EXCEPT ![r] = acc]
             /\ log' = [log EXCEPT ![r] = Installed(r, covered, cut)]
             /\ fault' = fault
             /\ \E goOn : NextFetch(r, m, goOn, acc + 1)
    <3>1. take \in Nat
      <4>1. CASE stalled[r] = {}
        BY <1>1, <4>1
      <4>2. CASE stalled[r] # {}
        <5> DEFINE S == {m.committed} \cup {o.committed : o \in stalled[r]}
        <5>1. stalled[r] \subseteq StartViewMsg
          BY <1>2 DEF TypeOK
        <5>2. S \subseteq Nat /\ S # {}
          BY <1>1, <5>1 DEF StartViewMsg
        <5>3. take = Min(S)
          BY <4>2
        <5> HIDE DEF S, take
        <5>4. Min(S) \in S
          BY <5>2, MinOf
        <5> QED BY <5>2, <5>3, <5>4
      <4> QED BY <4>1, <4>2
    <3> HIDE DEF take
    <3>2. com \in Nat /\ com <= through
      BY <1>1, <1>2, <1>6, <3>1 DEF Follow, AtLeast, AtMost
    <3> HIDE DEF com
    <3>3. com - sfx.from + 1 >= 1
      <4>1. covered.ents = SubSeq(sfx.ents, 1, com - sfx.from + 1)
        BY <1>1 DEF Suffix
      <4> HIDE DEF covered, sfx
      <4> QED BY <1>1, <2>3, <3>2, <4>1
    <3>4. com = through /\ Len(sfx.ents) = 1 /\ acc = through
      <4> HIDE DEF sfx, through
      <4>1. /\ Len(sfx.ents) \in Nat /\ Len(sfx.ents) <= 1 /\ sfx.from \in Nat
            /\ through = sfx.from + Len(sfx.ents) - 1
        BY <1>1
      <4>2. com = through /\ Len(sfx.ents) = 1
        <5> DEFINE n == Len(sfx.ents)
                   b == sfx.from
        <5>1. /\ n \in Nat /\ n <= 1 /\ b \in Nat /\ through = b + n - 1
              /\ com \in Nat /\ com <= through /\ com - b + 1 >= 1
          BY <3>2, <3>3, <4>1
        <5> HIDE DEF n, b
        <5>2. com = through /\ n = 1
          BY <5>1
        <5> QED BY <5>2 DEF n
      <4> QED BY <1>1, <1>2, <1>6, <4>2 DEF AtLeast
    <3>5. covered = sfx
      <4>1. SubSeq(sfx.ents, 1, com - sfx.from + 1) = sfx.ents
        <5> HIDE DEF sfx, through
        <5>1. com - sfx.from + 1 = Len(sfx.ents)
          BY <1>1, <3>4
        <5>2. \A e \in Seq(Nat) : SubSeq(e, 1, Len(e)) = e
          OBVIOUS
        <5> QED BY <1>1, <5>1, <5>2
      <4> QED BY <1>1, <4>1 DEF Suffix
    <3>6. cut = CheckSuffix(r, sfx, through, mc, 0)
      BY <3>4, <3>5
    <3>7. through \in Nat /\ ShapeOk(sfx, through)
      <4>1. sfx.from >= 1
        BY <1>1, <1>2, <1>6, <3>4
      <4> QED BY <3>2, <3>4, <4>1 DEF ShapeOk
    <3> HIDE DEF covered, cut, acc, sfx, mc, through
    <3>8. Len(Installed(r, sfx, cut)) = through
      BY <1>1, <1>2, <2>3, <3>6, <3>7, InstalledEnds
    <3>9. /\ accepted'[r] = through /\ log'[r] = Installed(r, sfx, cut)
          /\ \A q \in Node \ {r} : accepted'[q] = accepted[q] /\ log'[q] = log[q]
      BY <1>2, <2>3, <3>4, <3>5 DEF TypeOK
    <3>10. Ends(r)
      BY <1>3, <2>3, <3>8, <3>9 DEF Ends
    <3> QED BY <3>10, EndsKeeps
  <2> QED BY <2>1, <2>2, <2>3
<1> QED BY <1>4, <1>5, <1>6 DEF ReceiveNewState

\* Every step keeps the invariant.
LEMMA NextJInv ==
    ASSUME Budget <= 1 \/ "NewState" \notin Delivered
    PROVE  JInv /\ IInv /\ [Next]_vars => JInv'
<1> SUFFICES ASSUME JInv, IInv, [Next]_vars
             PROVE  JInv'
  OBVIOUS
<1>1. CASE UNCHANGED vars
  BY <1>1 DEF vars, progressVars, journalVars, JInv, JournalMatchesProgress,
              ShortChunks
<1>2. ASSUME NEW r \in Node, Step(r)
      PROVE  JInv'
  BY <1>2, StepEnds, EndsKeeps
<1>3. ASSUME NEW r \in Node, NEW m \in msgs, m.tag \in Delivered, Receive(r, m)
      PROVE  JInv'
  <2>1. CASE m.tag = "GetState"
    <3>1. ReceiveGetState(r, m)
      BY <1>3, <2>1 DEF Receive, ReceivePrepare, ReceivePrepareOk, ReceiveCommit,
         ReceiveStartViewChange, ReceiveDoViewChange, ReceiveStartView,
         ReceiveNewState
    <3> QED BY <3>1, ReceiveGetStateJInv
  <2>2. CASE m.tag = "NewState"
    <3>1. ReceiveNewState(r, m)
      BY <1>3, <2>2 DEF Receive, ReceivePrepare, ReceivePrepareOk, ReceiveCommit,
         ReceiveStartViewChange, ReceiveDoViewChange, ReceiveStartView,
         ReceiveGetState
    <3> QED BY <1>3, <2>2, <3>1, ReceiveNewStateJInv
  <2>3. CASE m.tag \notin {"GetState", "NewState"}
    BY <1>3, <2>3, ReceiveEnds, EndsKeeps
  <2> QED BY <2>1, <2>2, <2>3
<1> QED BY <1>1, <1>2, <1>3 DEF Next

\* plan never refuses an input for a journal that does not end at accepted,
\* in a cluster whose chunks carry one entry or which transfers no state.
THEOREM JournalAndProgressAgree ==
    ASSUME Budget <= 1 \/ "NewState" \notin Delivered
    PROVE  Spec => []JournalMatchesProgress
<1>1. Init => JInv
  <2> SUFFICES ASSUME Init PROVE JInv
    OBVIOUS
  <2>1. \A r \in Node : Len(log[r]) = accepted[r]
    BY DEF Init, INIT_SLOT, GenesisLog
  <2>2. msgs = {}
    BY DEF Init
  <2> QED BY <2>1, <2>2 DEF JInv, JournalMatchesProgress, ShortChunks
<1>2. JInv /\ IInv /\ [Next]_vars => JInv'
  BY NextJInv
<1>3. JInv => JournalMatchesProgress
  BY DEF JInv
<1>4. Spec => []IInv
  BY Invariance
<1> QED BY <1>1, <1>2, <1>3, <1>4, PTL DEF Spec

-----------------------------------------------------------------------------
(***************************************************************************)
(* Why the replicas agree: the argument of view change, for every cluster, *)
(* quorum system, number of views and slots, under loss, duplication,      *)
(* reordering and clean restarts.                                          *)
(*                                                                         *)
(* Two conditions are needed, and Replica has counterexamples without      *)
(* either.  WholeHistories: the journals were never reclaimed and the      *)
(* budget never cut a suffix, since check_suffix compares only the slots   *)
(* an offer carries.  No NewState is delivered: a chunk may answer the     *)
(* fetch of a view that is over.                                           *)
(*                                                                         *)
(* Every entry a view orders is its own, so the histories of one view are  *)
(* the prefixes of one: the base its StartView carries, then the view's    *)
(* operations.  A slot acknowledged in a view by a quorum is chosen.  The  *)
(* invariant AInv says that every history of a later view holds what may   *)
(* have been chosen in an earlier one, that evidence does not forget what  *)
(* its reporter acknowledged, and that every commit frontier is chosen.    *)
(*                                                                         *)
(* ViewChangeIsSafe replaces the condition on behaviours by one on the     *)
(* bounds: nothing is applied, and the budget holds every slot.            *)
(***************************************************************************)

\* No journal was reclaimed, and every journal fits the transport budget.
WholeHistories ==
    \A r \in Node : first[r] = VOID_SLOT /\ accepted[r] <= Budget

-----------------------------------------------------------------------------
(***************************************************************************)
(* What a view orders and what a quorum acknowledged.                      *)
(***************************************************************************)

\* The histories view v starts from: the genesis pair, or the suffix of its
\* StartView.
Bases(v) ==
    (IF v = 0 THEN {GenesisLog} ELSE {})
    \cup {m.suffix.ents : m \in {x \in msgs : x.tag = "StartView" /\ x.view = v}}

\* Slot i of a view that starts from base B.
Ordered(B, v, i) == IF i <= Len(B) THEN B[i] ELSE Operation(v)

\* Log l is a history of view v.
History(v, l) ==
    \E B \in Bases(v) :
        /\ Len(B) <= Len(l)
        /\ \A i \in 1 .. Len(l) : l[i] = Ordered(B, v, i)

\* Log l holds what view v orders in the slots up to s.
Holds(l, v, s) ==
    /\ s <= Len(l)
    /\ \E B \in Bases(v) : \A i \in 1 .. s : l[i] = Ordered(B, v, i)

\* A message by which its sender acknowledges the slots up to AckSlot in its
\* view; a primary acknowledges what it starts from and what it orders.
IsAck(m) == m.tag \in {"Prepare", "PrepareOk", "StartView"}
AckSlot(m) == IF m.tag = "StartView" THEN m.accepted ELSE m.slot
Acked(n, v, s) ==
    \E m \in msgs : IsAck(m) /\ m.from = n /\ m.view = v /\ s <= AckSlot(m)

\* Slot s is chosen in view v, or may still become so.
Given(v, s) == v = 0 /\ s <= INIT_SLOT
Chosen(v, s) == Given(v, s) \/ \E Q \in Quorum : \A n \in Q : Acked(n, v, s)
Choosable(v, s) ==
    Given(v, s) \/ \E Q \in Quorum : \A n \in Q : Acked(n, v, s) \/ view[n] <= v

\* Commit frontier c was chosen in a view up to u.
Backed(u, c) == \E v \in 0 .. u : Chosen(v, c)

-----------------------------------------------------------------------------
(***************************************************************************)
(* The invariant.                                                          *)
(***************************************************************************)

\* Evidence e for view w: what its reporter acknowledged in earlier views is
\* in the history it reports, and the reporter has reached w.
Reported(w, e) ==
    /\ e.retained < w
    /\ e.suffix.from = 1 /\ Len(e.suffix.ents) = e.accepted
    /\ History(e.retained, e.suffix.ents)
    /\ Backed(e.retained, e.committed)
    /\ \A m \in msgs : IsAck(m) /\ m.from = e.from /\ m.view < w =>
          \/ m.view < e.retained
          \/ m.view = e.retained /\ AckSlot(m) <= e.accepted
ReportOk(w, e) == w <= view[e.from] /\ Reported(w, e)

ReplicaOk(r) ==
    /\ ~fault[r] /\ selected[r] = {} /\ stalled[r] = {}
    /\ accepted[r] = Len(log[r])
    /\ fences[r] # {} \/ status[r] = "ViewChange" => retained[r] < view[r]
    /\ History(retained[r], log[r])
    /\ Backed(retained[r], committed[r])
    /\ \A e \in evidence[r] : ReportOk(view[r], e)
    /\ \A x \in oks[r] : Acked(x[2], retained[r], x[1])
    /\ r = Primary(retained[r]) =>
          Given(retained[r], accepted[r]) \/ Acked(r, retained[r], accepted[r])

\* The history a view starts from holds whatever an earlier view may choose.
StartOk(m) ==
    /\ m.from = Primary(m.view) /\ m.view > 0
    /\ m.suffix.from = 1 /\ Len(m.suffix.ents) = m.accepted
    /\ m.committed <= m.accepted /\ Backed(m.view, m.committed)
    /\ \A v \in 0 .. m.view - 1 : \A s \in Nat :
          Choosable(v, s) => Holds(m.suffix.ents, v, s)

\* An acknowledgement lasts until its sender serves a later view.
AckKept(m) ==
    /\ m.view <= retained[m.from]
    /\ m.view = retained[m.from] => AckSlot(m) <= accepted[m.from]

MessageOk(m) ==
    /\ IsAck(m) => AckKept(m)
    /\ m.tag = "Prepare" =>
          /\ m.from = Primary(m.view) /\ m.entry = Operation(m.view)
          /\ Backed(m.view, m.committed)
    /\ m.tag = "PrepareOk" => Acked(Primary(m.view), m.view, m.slot)
    /\ m.tag = "Commit" => Backed(m.view, m.committed)
    /\ m.tag = "DoViewChange" => ReportOk(m.view, m.ev)
    /\ m.tag = "StartView" => StartOk(m)

OneStart ==
    \A a, b \in msgs :
        a.tag = "StartView" /\ b.tag = "StartView" /\ a.view = b.view =>
            a.suffix = b.suffix

AInv == /\ \A r \in Node : ReplicaOk(r)
        /\ \A m \in msgs : MessageOk(m)
        /\ OneStart

-----------------------------------------------------------------------------
(***************************************************************************)
(* Messages are never unsent, so what they establish stays established.    *)
(***************************************************************************)

LEMMA Lasting ==
    ASSUME msgs \subseteq msgs'
    PROVE  /\ \A v : Bases(v) \subseteq Bases(v)'
           /\ \A v, l : History(v, l) => History(v, l)'
           /\ \A l, v, s : Holds(l, v, s) => Holds(l, v, s)'
           /\ \A n, v, s : Acked(n, v, s) => Acked(n, v, s)'
           /\ \A v, s : Chosen(v, s) => Chosen(v, s)'
           /\ \A u, c : Backed(u, c) => Backed(u, c)'
<1>1. \A v : Bases(v) \subseteq Bases(v)'
  BY DEF Bases
<1>2. \A v, l : History(v, l) => History(v, l)'
  BY <1>1 DEF History
<1>3. \A l, v, s : Holds(l, v, s) => Holds(l, v, s)'
  BY <1>1 DEF Holds
<1>4. \A n, v, s : Acked(n, v, s) => Acked(n, v, s)'
  BY DEF Acked
<1>5. \A v, s : Chosen(v, s) => Chosen(v, s)'
  BY <1>4 DEF Chosen
<1>6. \A u, c : Backed(u, c) => Backed(u, c)'
  BY <1>5 DEF Backed
<1> QED BY <1>1, <1>2, <1>3, <1>4, <1>5, <1>6

\* A step of replica r that sends the messages sent: nobody else moves, r
\* goes back in no view, and acknowledges in no view it has left.
Local(r, sent) ==
    /\ msgs' = msgs \cup sent
    /\ \A q \in Node \ {r} :
        /\ status'[q] = status[q] /\ view'[q] = view[q]
        /\ retained'[q] = retained[q] /\ accepted'[q] = accepted[q]
        /\ committed'[q] = committed[q] /\ fault'[q] = fault[q]
        /\ log'[q] = log[q] /\ oks'[q] = oks[q] /\ fences'[q] = fences[q]
        /\ evidence'[q] = evidence[q] /\ selected'[q] = selected[q]
        /\ stalled'[q] = stalled[q]
    /\ view[r] <= view'[r]
    /\ \/ retained[r] < retained'[r]
       \/ retained[r] = retained'[r] /\ accepted[r] <= accepted'[r]
    /\ \A m \in sent : IsAck(m) => m.from = r /\ view[r] <= m.view

\* An acknowledging message has the fields of one.
LEMMA AckFields ==
    ASSUME NEW m \in Message, IsAck(m)
    PROVE  m.from \in Node /\ m.view \in Nat /\ AckSlot(m) \in Nat
  BY MessageFields DEF IsAck, AckSlot, PrepareMsg, PrepareOkMsg, StartViewMsg

\* What can be chosen after a step could be chosen before it.
LEMMA ChoosableBack ==
    ASSUME TypeOK, TypeOK', NEW r \in Node, NEW sent \in SUBSET Message,
           Local(r, sent), NEW v \in Nat, NEW s, Choosable(v, s)'
    PROVE  Choosable(v, s)
<1>1. CASE Given(v, s)
  BY <1>1 DEF Choosable
<1>2. ASSUME NEW Q \in Quorum, \A n \in Q : Acked(n, v, s)' \/ view'[n] <= v
      PROVE  Choosable(v, s)
  <2>1. ASSUME NEW n \in Q
        PROVE  Acked(n, v, s) \/ view[n] <= v
    <3>1. n \in Node
      BY QuorumAssumption
    <3>2. view[n] \in Nat /\ view'[n] \in Nat /\ view[r] \in Nat
      BY <3>1 DEF TypeOK
    <3>3. view[n] <= view'[n]
      BY <3>1, <3>2 DEF Local
    <3>4. CASE view'[n] <= v
      BY <3>2, <3>3, <3>4
    <3>5. CASE Acked(n, v, s)'
      <4>1. PICK m \in msgs' : IsAck(m) /\ m.from = n /\ m.view = v /\ s <= AckSlot(m)
        BY <3>5 DEF Acked, IsAck, AckSlot
      <4>2. CASE m \in msgs
        BY <4>1, <4>2 DEF Acked
      <4>3. CASE m \in sent
        BY <4>1, <4>3 DEF Local
      <4> QED BY <4>2, <4>3 DEF Local
    <3> QED BY <1>2, <3>4, <3>5
  <2> QED BY <2>1 DEF Choosable
<1> QED BY <1>1, <1>2 DEF Choosable, Given

\* Evidence stays sound: its reporter acknowledges nothing more in a view
\* below the one it reported for.
LEMMA ReportLasts ==
    ASSUME TypeOK, TypeOK', NEW r \in Node, NEW sent \in SUBSET Message,
           Local(r, sent), NEW w \in Nat, NEW e \in Evidence, ReportOk(w, e)
    PROVE  ReportOk(w, e)'
<1>1. e.from \in Node /\ view[e.from] \in Nat /\ view'[e.from] \in Nat
      /\ view[r] \in Nat
  BY DEF Evidence, TypeOK
<1>2. w <= view'[e.from]
  <2>1. view[e.from] <= view'[e.from]
    BY <1>1 DEF Local
  <2> QED BY <1>1, <2>1 DEF ReportOk
<1>3. msgs \subseteq msgs'
  BY DEF Local
<1>4. History(e.retained, e.suffix.ents)' /\ Backed(e.retained, e.committed)'
  BY <1>3, Lasting DEF ReportOk, Reported
<1>5. ASSUME NEW m \in msgs', IsAck(m), m.from = e.from, m.view < w
      PROVE  \/ m.view < e.retained
             \/ m.view = e.retained /\ AckSlot(m) <= e.accepted
  <2>1. CASE m \in msgs
    BY <1>5, <2>1 DEF ReportOk, Reported
  <2>2. CASE m \in sent
    <3>1. m.from = r /\ view[r] <= m.view
      BY <1>5, <2>2 DEF Local
    <3>2. m.view \in Nat
      BY <1>5, <2>2, AckFields
    <3>3. w <= view[r]
      BY <1>5, <3>1 DEF ReportOk
    <3> QED BY <1>1, <1>5, <3>1, <3>2, <3>3
  <2> QED BY <2>1, <2>2 DEF Local
<1> QED BY <1>2, <1>4, <1>5 DEF ReportOk, Reported, IsAck, AckSlot

\* ReplicaOk after a step, from the values the replica then has.
LEMMA ReplicaOkAfter ==
    ASSUME NEW q, NEW v, NEW w, NEW a, NEW c, NEW l,
           retained'[q] = v, view'[q] = w, accepted'[q] = a, committed'[q] = c,
           log'[q] = l,
           ~fault'[q], selected'[q] = {}, stalled'[q] = {}, a = Len(l),
           fences'[q] # {} \/ status'[q] = "ViewChange" => v < w,
           History(v, l)', Backed(v, c)',
           \A e \in evidence'[q] : ReportOk(w, e)',
           \A x \in oks'[q] : Acked(x[2], v, x[1])',
           q = Primary(v) => Given(v, a) \/ Acked(q, v, a)'
    PROVE  ReplicaOk(q)'
<1>1. History(retained[q], log[q])'
  BY DEF History, Bases
<1>2. Backed(retained[q], committed[q])'
  BY DEF Backed, Chosen, Given, Acked, IsAck, AckSlot
<1>3. (\A e \in evidence[q] : ReportOk(view[q], e))'
  BY DEF ReportOk, Reported, IsAck, AckSlot
<1>4. (\A x \in oks[q] : Acked(x[2], retained[q], x[1]))'
  BY DEF Acked, IsAck, AckSlot
<1>5. (q = Primary(retained[q]) =>
         Given(retained[q], accepted[q]) \/ Acked(q, retained[q], accepted[q]))'
  BY DEF Acked, IsAck, AckSlot, Given, Primary
<1> QED BY <1>1, <1>2, <1>3, <1>4, <1>5 DEF ReplicaOk

\* A replica that does not move stays sound.
LEMMA OthersLast ==
    ASSUME TypeOK, TypeOK', AInv, NEW r \in Node, NEW sent \in SUBSET Message,
           Local(r, sent), NEW q \in Node, q # r
    PROVE  ReplicaOk(q)'
<1>1. /\ status'[q] = status[q] /\ view'[q] = view[q]
      /\ retained'[q] = retained[q] /\ accepted'[q] = accepted[q]
      /\ committed'[q] = committed[q] /\ fault'[q] = fault[q]
      /\ log'[q] = log[q] /\ oks'[q] = oks[q] /\ fences'[q] = fences[q]
      /\ evidence'[q] = evidence[q] /\ selected'[q] = selected[q]
      /\ stalled'[q] = stalled[q] /\ msgs \subseteq msgs'
  BY DEF Local
<1>2. ReplicaOk(q)
  BY DEF AInv
<1>3. PICK v, w, a, c, l : /\ v = retained[q] /\ w = view[q] /\ a = accepted[q]
                           /\ c = committed[q] /\ l = log[q]
  OBVIOUS
<1>4. History(v, l)' /\ Backed(v, c)'
  BY <1>1, <1>2, <1>3, Lasting DEF ReplicaOk
<1>5. \A e \in evidence'[q] : ReportOk(w, e)'
  <2>1. ASSUME NEW e \in evidence[q]
        PROVE  ReportOk(w, e)'
    <3>1. e \in Evidence /\ w \in Nat /\ ReportOk(w, e)
      BY <1>2, <1>3 DEF TypeOK, ReplicaOk
    <3> QED BY <3>1, ReportLasts
  <2> QED BY <1>1, <2>1
<1>6. \A x \in oks'[q] : Acked(x[2], v, x[1])'
  BY <1>1, <1>2, <1>3, Lasting DEF ReplicaOk
<1>7. q = Primary(v) => Given(v, a) \/ Acked(q, v, a)'
  BY <1>1, <1>2, <1>3, Lasting DEF ReplicaOk
<1>8. /\ ~fault'[q] /\ selected'[q] = {} /\ stalled'[q] = {} /\ a = Len(l)
      /\ fences'[q] # {} \/ status'[q] = "ViewChange" => v < w
      /\ retained'[q] = v /\ view'[q] = w /\ accepted'[q] = a
      /\ committed'[q] = c /\ log'[q] = l
  BY <1>1, <1>2, <1>3 DEF ReplicaOk
<1> QED BY <1>4, <1>5, <1>6, <1>7, <1>8, ReplicaOkAfter

\* A message that was sound stays sound.
LEMMA MessagesLast ==
    ASSUME TypeOK, TypeOK', AInv, NEW r \in Node, NEW sent \in SUBSET Message,
           Local(r, sent), NEW m \in msgs
    PROVE  MessageOk(m)'
<1>1. m \in Message /\ MessageOk(m) /\ msgs \subseteq msgs'
  BY DEF TypeOK, AInv, Local
<1>2. IsAck(m) => AckKept(m)'
  <2> SUFFICES ASSUME IsAck(m) PROVE AckKept(m)'
    OBVIOUS
  <2>1. m.from \in Node /\ m.view \in Nat /\ AckSlot(m) \in Nat
    BY <1>1, AckFields
  <2>2. AckKept(m)
    BY <1>1 DEF MessageOk
  <2>3. CASE m.from # r
    <3>1. retained'[m.from] = retained[m.from] /\ accepted'[m.from] = accepted[m.from]
      BY <2>1, <2>3 DEF Local
    <3> QED BY <2>2, <3>1 DEF AckKept, AckSlot
  <2>4. CASE m.from = r
    <3>1. /\ retained[r] \in Nat /\ retained'[r] \in Nat
          /\ accepted[r] \in Nat /\ accepted'[r] \in Nat
      BY DEF TypeOK
    <3>2. \/ retained[r] < retained'[r]
          \/ retained[r] = retained'[r] /\ accepted[r] <= accepted'[r]
      BY DEF Local
    <3>3. /\ m.view <= retained[r]
          /\ m.view = retained[r] => AckSlot(m) <= accepted[r]
      BY <2>2, <2>4 DEF AckKept
    <3>4. /\ m.view <= retained'[r]
          /\ m.view = retained'[r] => AckSlot(m) <= accepted'[r]
      BY <2>1, <3>1, <3>2, <3>3
    <3> QED BY <2>4, <3>4 DEF AckKept, AckSlot
  <2> QED BY <2>3, <2>4
<1>3. m.tag = "Prepare" =>
        /\ m.from = Primary(m.view) /\ m.entry = Operation(m.view)
        /\ Backed(m.view, m.committed)'
  BY <1>1, Lasting DEF MessageOk
<1>4. m.tag = "PrepareOk" => Acked(Primary(m.view), m.view, m.slot)'
  BY <1>1, Lasting DEF MessageOk
<1>5. m.tag = "Commit" => Backed(m.view, m.committed)'
  BY <1>1, Lasting DEF MessageOk
<1>6. m.tag = "DoViewChange" => ReportOk(m.view, m.ev)'
  <2> SUFFICES ASSUME m.tag = "DoViewChange" PROVE ReportOk(m.view, m.ev)'
    OBVIOUS
  <2>1. m.view \in Nat /\ m.ev \in Evidence
    BY <1>1, MessageFields DEF DoViewChangeMsg
  <2>2. ReportOk(m.view, m.ev)
    BY <1>1 DEF MessageOk
  <2>3. PICK w \in Nat, e \in Evidence : w = m.view /\ e = m.ev
    BY <2>1
  <2>4. ReportOk(w, e)'
    BY <2>2, <2>3, ReportLasts
  <2> QED BY <2>3, <2>4
<1>7. m.tag = "StartView" => StartOk(m)'
  <2> SUFFICES ASSUME m.tag = "StartView" PROVE StartOk(m)'
    OBVIOUS
  <2>1. StartOk(m) /\ m.view \in Nat
    BY <1>1, MessageFields DEF MessageOk, StartViewMsg
  <2>2. Backed(m.view, m.committed)'
    BY <1>1, <2>1, Lasting DEF StartOk
  <2>3. ASSUME NEW v \in 0 .. m.view - 1, NEW s \in Nat, Choosable(v, s)'
        PROVE  Holds(m.suffix.ents, v, s)'
    <3>1. v \in Nat
      OBVIOUS
    <3>2. Choosable(v, s)
      BY <2>3, <3>1, ChoosableBack
    <3>3. Holds(m.suffix.ents, v, s)
      BY <2>1, <3>2 DEF StartOk
    <3> QED BY <1>1, <3>3, Lasting
  <2> QED BY <2>1, <2>2, <2>3 DEF StartOk
<1> QED BY <1>2, <1>3, <1>4, <1>5, <1>6, <1>7 DEF MessageOk, IsAck

\* A step keeps the invariant when the replica that takes it and the messages
\* it sends are sound.
LEMMA FrameStep ==
    ASSUME TypeOK, TypeOK', AInv, NEW r \in Node, NEW sent \in SUBSET Message,
           Local(r, sent), ReplicaOk(r)', \A m \in sent : MessageOk(m)',
           OneStart'
    PROVE  AInv'
<1>1. \A q \in Node : ReplicaOk(q)'
  BY OthersLast
<1>2. \A m \in msgs' : MessageOk(m)'
  BY MessagesLast DEF Local
<1> QED BY <1>1, <1>2 DEF AInv

\* The same for a step that opens no view.
LEMMA QuietStep ==
    ASSUME TypeOK, TypeOK', AInv, NEW r \in Node, NEW sent \in SUBSET Message,
           Local(r, sent), ReplicaOk(r)',
           \A m \in sent : MessageOk(m)' /\ m.tag # "StartView"
    PROVE  AInv'
<1>1. OneStart'
  BY DEF AInv, OneStart, Local
<1> QED BY <1>1, FrameStep

-----------------------------------------------------------------------------
(***************************************************************************)
(* Histories.                                                              *)
(***************************************************************************)

\* A view starts from one history.
LEMMA OneBase ==
    ASSUME AInv, NEW v, NEW B \in Bases(v), NEW C \in Bases(v)
    PROVE  B = C
<1>1. \A m \in msgs : m.tag = "StartView" => m.view # 0
  BY DEF AInv, MessageOk, StartOk
<1>2. CASE v = 0
  BY <1>1, <1>2 DEF Bases
<1>3. CASE v # 0
  <2>1. PICK a \in msgs : a.tag = "StartView" /\ a.view = v /\ B = a.suffix.ents
    BY <1>3 DEF Bases
  <2>2. PICK b \in msgs : b.tag = "StartView" /\ b.view = v /\ C = b.suffix.ents
    BY <1>3 DEF Bases
  <2> QED BY <2>1, <2>2 DEF AInv, OneStart
<1> QED BY <1>2, <1>3

\* Two logs that hold what a view orders agree.
LEMMA HoldsAgree ==
    ASSUME AInv, NEW v, NEW s, NEW l, NEW k, Holds(l, v, s), Holds(k, v, s)
    PROVE  s <= Len(l) /\ s <= Len(k) /\ \A i \in 1 .. s : l[i] = k[i]
  BY OneBase DEF Holds

\* A history of a view holds all it has of it.
LEMMA HistoryHolds ==
    ASSUME NEW v, NEW l \in Seq(Nat), NEW s \in Nat, History(v, l), s <= Len(l)
    PROVE  Holds(l, v, s)
  BY DEF History, Holds

\* A base is a log, and holds the genesis pair.
LEMMA BaseType ==
    ASSUME TypeOK, AInv, NEW v \in Nat, NEW B \in Bases(v)
    PROVE  B \in Seq(Nat) /\ INIT_SLOT <= Len(B)
<1>1. CASE v = 0 /\ B = GenesisLog
  BY <1>1 DEF GenesisLog, GenesisEntry, INIT_SLOT
<1>2. ASSUME NEW m \in msgs, m.tag = "StartView", m.view = v, B = m.suffix.ents
      PROVE  B \in Seq(Nat) /\ INIT_SLOT <= Len(B)
  <2>1. m \in StartViewMsg /\ StartOk(m)
    BY <1>2, MessageFields DEF TypeOK, AInv, MessageOk
  <2>2. B \in Seq(Nat)
    BY <1>2, <2>1 DEF StartViewMsg, Suffix
  <2>3. Choosable(0, INIT_SLOT)
    BY DEF Choosable, Given, INIT_SLOT
  <2>4. 0 \in 0 .. m.view - 1 /\ INIT_SLOT \in Nat
    BY <1>2, <2>1 DEF StartOk, INIT_SLOT
  <2>5. Holds(B, 0, INIT_SLOT)
    BY <1>2, <2>1, <2>3, <2>4 DEF StartOk
  <2> QED BY <2>2, <2>5 DEF Holds
<1> QED BY <1>1, <1>2 DEF Bases

LEMMA ChosenChoosable ==
    ASSUME NEW v, NEW s, Chosen(v, s)
    PROVE  Choosable(v, s)
  BY DEF Chosen, Choosable

\* A history of view u holds what an earlier view may have chosen, and what u
\* itself ordered as far as it reaches.
LEMMA Inherit ==
    ASSUME TypeOK, AInv, NEW u \in Nat, NEW l \in Seq(Nat), History(u, l),
           NEW v \in 0 .. u, NEW s \in Nat, Choosable(v, s), v < u \/ s <= Len(l)
    PROVE  Holds(l, v, s)
<1>1. CASE v = u
  BY <1>1, HistoryHolds
<1>2. CASE v < u
  <2>1. PICK B \in Bases(u) :
          Len(B) <= Len(l) /\ \A i \in 1 .. Len(l) : l[i] = Ordered(B, u, i)
    BY DEF History
  <2>2. PICK m \in msgs : m.tag = "StartView" /\ m.view = u /\ B = m.suffix.ents
    BY <1>2 DEF Bases
  <2>3. v \in 0 .. m.view - 1
    BY <1>2, <2>2
  <2>4. Holds(B, v, s)
    BY <2>2, <2>3 DEF AInv, MessageOk, StartOk
  <2>5. B \in Seq(Nat)
    BY BaseType
  <2>6. s <= Len(l)
    BY <2>1, <2>4, <2>5 DEF Holds
  <2>7. ASSUME NEW i \in 1 .. s
        PROVE  l[i] = B[i]
    <3>1. i \in 1 .. Len(l) /\ i <= Len(B)
      BY <2>1, <2>4, <2>5 DEF Holds
    <3> QED BY <2>1, <3>1 DEF Ordered
  <2> QED BY <2>4, <2>6, <2>7 DEF Holds
<1> QED BY <1>1, <1>2

\* What a replica committed was chosen in a view it has served, and its log
\* holds it.
LEMMA CommittedHeld ==
    ASSUME TypeOK, ProgressOK, AInv, NEW r \in Node
    PROVE  \E v \in 0 .. retained[r] :
             Chosen(v, committed[r]) /\ Holds(log[r], v, committed[r])
<1>1. ReplicaOk(r)
  BY DEF AInv
<1>2. PICK v \in 0 .. retained[r] : Chosen(v, committed[r])
  BY <1>1 DEF ReplicaOk, Backed
<1>3. /\ retained[r] \in Nat /\ log[r] \in Seq(Nat) /\ committed[r] \in Nat
      /\ committed[r] <= Len(log[r]) /\ History(retained[r], log[r])
  BY <1>1 DEF TypeOK, ProgressOK, ReplicaOk
<1>4. Holds(log[r], v, committed[r])
  BY <1>2, <1>3, ChosenChoosable, Inherit
<1> QED BY <1>2, <1>4

-----------------------------------------------------------------------------
(***************************************************************************)
(* What the invariant says of the replicas.                                *)
(***************************************************************************)

\* A log that holds a view's history through t holds it through less.
LEMMA HoldsLess ==
    ASSUME NEW l \in Seq(Nat), NEW v, NEW t \in Nat, NEW s \in Nat, s <= t,
           Holds(l, v, t)
    PROVE  Holds(l, v, s)
<1>1. s <= Len(l)
  BY DEF Holds
<1>2. \A i \in 1 .. s : i \in 1 .. t
  OBVIOUS
<1> QED BY <1>1, <1>2 DEF Holds

\* Of two commit frontiers, the one chosen in the later view rests on a
\* history that holds the other.
LEMMA AgreementHolds ==
    ASSUME TypeOK, ProgressOK, AInv
    PROVE  Agreement
<1>1. ASSUME NEW r \in Node, NEW q \in Node, NEW v \in 0 .. retained[r],
             NEW u \in 0 .. retained[q], v <= u,
             Chosen(v, committed[r]), Holds(log[r], v, committed[r]),
             Chosen(u, committed[q]), Holds(log[q], u, committed[q])
      PROVE  \A s \in 1 .. AtMost(committed[r], committed[q]) :
                log[r][s] = log[q][s]
  <2>1. /\ committed[r] \in Nat /\ committed[q] \in Nat
        /\ retained[r] \in Nat /\ retained[q] \in Nat
    BY DEF TypeOK
  <2>2. CASE v = u
    <3>1. PICK s \in Nat : s = AtMost(committed[r], committed[q])
      BY <2>1 DEF AtMost
    <3>2. s <= committed[r] /\ s <= committed[q]
      BY <2>1, <3>1 DEF AtMost
    <3>3. log[r] \in Seq(Nat) /\ log[q] \in Seq(Nat)
      BY DEF TypeOK
    <3>4. Holds(log[r], v, s) /\ Holds(log[q], v, s)
      BY <1>1, <2>1, <2>2, <3>2, <3>3, HoldsLess
    <3> QED BY <3>1, <3>4, HoldsAgree
  <2>3. CASE v < u
    <3>1. log[q] \in Seq(Nat) /\ History(retained[q], log[q])
      BY DEF TypeOK, AInv, ReplicaOk
    <3>2. v \in 0 .. retained[q] /\ v < retained[q]
      BY <2>1, <2>3
    <3>3. Holds(log[q], v, committed[r])
      BY <1>1, <2>1, <3>1, <3>2, ChosenChoosable, Inherit
    <3>4. \A s \in 1 .. committed[r] : log[r][s] = log[q][s]
      BY <1>1, <3>3, HoldsAgree
    <3>5. \A s \in 1 .. AtMost(committed[r], committed[q]) : s \in 1 .. committed[r]
      BY <2>1 DEF AtMost
    <3> QED BY <3>4, <3>5
  <2>4. v = u \/ v < u
    BY <1>1, <2>1
  <2> QED BY <2>2, <2>3, <2>4
<1>2. ASSUME NEW r \in Node, NEW q \in Node
      PROVE  \A s \in 1 .. AtMost(committed[r], committed[q]) :
                log[r][s] = log[q][s]
  <2>1. PICK v \in 0 .. retained[r] :
          Chosen(v, committed[r]) /\ Holds(log[r], v, committed[r])
    BY CommittedHeld
  <2>2. PICK u \in 0 .. retained[q] :
          Chosen(u, committed[q]) /\ Holds(log[q], u, committed[q])
    BY CommittedHeld
  <2>3. CASE v <= u
    BY <1>1, <2>1, <2>2, <2>3
  <2>4. CASE u <= v
    <3>1. \A s \in 1 .. AtMost(committed[q], committed[r]) : log[q][s] = log[r][s]
      BY <1>1, <2>1, <2>2, <2>4
    <3>2. committed[q] \in Nat /\ committed[r] \in Nat
      BY DEF TypeOK
    <3>3. AtMost(committed[q], committed[r]) = AtMost(committed[r], committed[q])
      BY <3>2 DEF AtMost
    <3> QED BY <3>1, <3>3
  <2>5. v <= u \/ u <= v
    BY DEF TypeOK
  <2> QED BY <2>3, <2>4, <2>5
<1> QED BY <1>2 DEF Agreement

\* A quorum's acknowledgements in a view include one of its primary.
LEMMA ChosenByPrimary ==
    ASSUME TypeOK, AInv, NEW v \in Nat, NEW s \in Nat, Chosen(v, s), ~Given(v, s)
    PROVE  Acked(Primary(v), v, s)
<1>1. PICK Q \in Quorum : \A n \in Q : Acked(n, v, s)
  BY DEF Chosen
<1>2. PICK n \in Q : TRUE
  BY QuorumAssumption
<1>3. PICK m \in msgs : IsAck(m) /\ m.from = n /\ m.view = v /\ s <= AckSlot(m)
  BY <1>1, <1>2 DEF Acked
<1>4. m \in Message /\ MessageOk(m) /\ AckSlot(m) \in Nat
  BY <1>3, AckFields DEF TypeOK, AInv
<1>5. CASE m.tag \in {"Prepare", "StartView"}
  BY <1>3, <1>4, <1>5 DEF MessageOk, StartOk, Acked
<1>6. CASE m.tag = "PrepareOk"
  <2>1. Acked(Primary(v), v, m.slot)
    BY <1>3, <1>4, <1>6 DEF MessageOk
  <2>2. s <= m.slot /\ m.slot \in Nat
    BY <1>3, <1>4, <1>6 DEF AckSlot
  <2>3. PICK a \in msgs :
          IsAck(a) /\ a.from = Primary(v) /\ a.view = v /\ m.slot <= AckSlot(a)
    BY <2>1 DEF Acked
  <2>4. AckSlot(a) \in Nat
    BY <2>3, AckFields DEF TypeOK
  <2> QED BY <2>2, <2>3, <2>4 DEF Acked
<1> QED BY <1>3, <1>5, <1>6 DEF IsAck

\* What a replica committed is in the log of every primary not behind it.
LEMMA PrimaryHolds ==
    ASSUME TypeOK, ProgressOK, AInv
    PROVE  PrimaryComplete
<1> SUFFICES ASSUME NEW p \in Node, NEW r \in Node, IsPrimary(p), view[r] <= view[p]
             PROVE  /\ committed[r] <= accepted[p]
                    /\ \A s \in 1 .. committed[r] : log[r][s] = log[p][s]
  BY DEF PrimaryComplete
<1>1. /\ committed[r] \in Nat /\ retained[r] \in Nat /\ retained[p] \in Nat
      /\ view[r] \in Nat /\ log[p] \in Seq(Nat) /\ accepted[p] \in Nat
  BY DEF TypeOK
<1>2. view[p] = retained[p] /\ retained[r] <= retained[p] /\ Primary(retained[p]) = p
  BY <1>1 DEF ProgressOK, IsPrimary
<1>3. ReplicaOk(p)
  BY DEF AInv
<1>4. PICK v \in 0 .. retained[r] :
        Chosen(v, committed[r]) /\ Holds(log[r], v, committed[r])
  BY CommittedHeld
<1>5. v \in 0 .. retained[p]
  BY <1>1, <1>2
<1>6. v < retained[p] \/ committed[r] <= Len(log[p])
  <2> SUFFICES ASSUME v = retained[p] PROVE committed[r] <= Len(log[p])
    BY <1>1, <1>5
  <2>1. CASE Given(v, committed[r])
    <3>1. PICK B \in Bases(retained[p]) : Len(B) <= Len(log[p])
      BY <1>3 DEF ReplicaOk, History
    <3>2. B \in Seq(Nat) /\ INIT_SLOT <= Len(B)
      BY <1>1, <3>1, BaseType
    <3> QED BY <1>1, <2>1, <3>1, <3>2 DEF Given, INIT_SLOT
  <2>2. CASE ~Given(v, committed[r])
    <3>1. Acked(p, v, committed[r])
      BY <1>1, <1>2, <1>4, <2>2, ChosenByPrimary
    <3>2. PICK m \in msgs :
            IsAck(m) /\ m.from = p /\ m.view = v /\ committed[r] <= AckSlot(m)
      BY <3>1 DEF Acked
    <3>3. AckSlot(m) <= accepted[p] /\ AckSlot(m) \in Nat
      BY <3>2, AckFields DEF TypeOK, AInv, MessageOk, AckKept
    <3> QED BY <1>1, <1>3, <3>2, <3>3 DEF ReplicaOk
  <2> QED BY <2>1, <2>2
<1>7. Holds(log[p], v, committed[r])
  BY <1>1, <1>3, <1>4, <1>5, <1>6, ChosenChoosable, Inherit DEF ReplicaOk
<1>8. committed[r] <= accepted[p]
  BY <1>3, <1>7 DEF Holds, ReplicaOk
<1> QED BY <1>4, <1>7, <1>8, HoldsAgree

\* Replicas that serve one view hold prefixes of its history.
LEMMA ViewHolds ==
    ASSUME TypeOK, ProgressOK, AInv
    PROVE  ViewHistory
<1> SUFFICES ASSUME NEW r \in Node, NEW q \in Node, retained[r] = retained[q]
             PROVE  \A s \in 1 .. AtMost(accepted[r], accepted[q]) :
                       log[r][s] = log[q][s]
  BY DEF ViewHistory, ProgressOK
<1>1. /\ ReplicaOk(r) /\ ReplicaOk(q) /\ log[r] \in Seq(Nat) /\ log[q] \in Seq(Nat)
      /\ accepted[r] \in Nat /\ accepted[q] \in Nat
  BY DEF AInv, TypeOK
<1>2. PICK s \in Nat : s = AtMost(accepted[r], accepted[q])
  BY <1>1 DEF AtMost
<1>3. s <= Len(log[r]) /\ s <= Len(log[q])
  BY <1>1, <1>2 DEF AtMost, ReplicaOk
<1>4. Holds(log[r], retained[r], s) /\ Holds(log[q], retained[r], s)
  BY <1>1, <1>3, HistoryHolds DEF ReplicaOk
<1> QED BY <1>2, <1>4, HoldsAgree

-----------------------------------------------------------------------------
(***************************************************************************)
(* Suffixes that carry a whole history: check_suffix compares every slot,  *)
(* and an installation yields exactly the history that was offered.        *)
(***************************************************************************)

LEMMA SeqEq ==
    ASSUME NEW a \in Seq(Nat), NEW b \in Seq(Nat), Len(a) = Len(b),
           \A i \in 1 .. Len(a) : a[i] = b[i]
    PROVE  a = b
<1>1. a = [i \in 1 .. Len(a) |-> a[i]] /\ b = [i \in 1 .. Len(b) |-> b[i]]
  OBVIOUS
<1>2. [i \in 1 .. Len(a) |-> a[i]] = [i \in 1 .. Len(a) |-> b[i]]
  OBVIOUS
<1> QED BY <1>1, <1>2

\* The run of a whole log is the log.
LEMMA RunOfAll ==
    ASSUME NEW l \in Seq(Nat), NEW n \in Nat, n >= 1, Len(l) = n
    PROVE  RunOf(l, 1, n) = [from |-> 1, ents |-> l]
<1>1. [i \in 1 .. n - 1 + 1 |-> l[1 + i - 1]] = l
  OBVIOUS
<1>2. ~(1 > n)
  OBVIOUS
<1> QED BY <1>1, <1>2, Zenon DEF RunOf

\* A whole history written over a log that agrees with it below slot k.
LEMMA SpliceWhole ==
    ASSUME NEW l \in Seq(Nat), NEW sfx \in Suffix, sfx.from = 1, NEW k \in Nat,
           \A i \in 1 .. Len(sfx.ents) : i < k => l[i] = sfx.ents[i]
    PROVE  Splice(l, sfx, k) = sfx.ents
<1>1. sfx.ents \in Seq(Nat) /\ Len(sfx.ents) \in Nat /\ LastSlot(sfx) = Len(sfx.ents)
  BY DEF Suffix, LastSlot
<1>2. Splice(l, sfx, k) =
        [i \in 1 .. Len(sfx.ents) |-> IF i < k THEN l[i] ELSE EntryAt(sfx, i)]
  BY <1>1 DEF Splice
<1>3. \A i \in 1 .. Len(sfx.ents) : EntryAt(sfx, i) = sfx.ents[i]
  BY <1>1 DEF EntryAt
<1>4. Splice(l, sfx, k) = [i \in 1 .. Len(sfx.ents) |-> sfx.ents[i]]
  BY <1>2, <1>3
<1> QED BY <1>1, <1>4

\* The ruling on a whole history that keeps what the replica committed.
LEMMA WholeInstall ==
    ASSUME TypeOK, NEW r \in Node, first[r] = VOID_SLOT,
           accepted[r] = Len(log[r]), committed[r] <= accepted[r],
           NEW sfx \in Suffix, NEW acc \in Nat, acc >= 1, sfx.from = 1,
           Len(sfx.ents) = acc, NEW com, NEW d,
           \A s \in 1 .. committed[r] : s <= acc => log[r][s] = sfx.ents[s],
           NEW c, c = CheckSuffix(r, sfx, acc, com, d)
    PROVE  /\ c.kind \in {"Keep", "Install"} /\ ~JournalRefuses(r, c)
           /\ Installed(r, sfx, c) = sfx.ents
<1> DEFINE shared == {s \in sfx.from .. LastSlot(sfx) : s <= accepted[r]}
           letGo == {s \in shared : s < first[r] /\ s > d}
           differs == {s \in shared : s >= first[r]
                                      /\ log[r][s] # EntryAt(sfx, s)}
           stop == Min(letGo \cup differs)
<1>1. /\ sfx.ents \in Seq(Nat) /\ sfx.ents # <<>> /\ LastSlot(sfx) = acc
      /\ log[r] \in Seq(Nat) /\ accepted[r] \in Nat /\ committed[r] \in Nat
      /\ first[r] = 1
  BY DEF Suffix, LastSlot, TypeOK, VOID_SLOT
<1>2. shared = {s \in 1 .. acc : s <= accepted[r]} /\ letGo = {}
  BY <1>1
<1>3. \A s \in 1 .. acc : EntryAt(sfx, s) = sfx.ents[s]
  BY DEF EntryAt
<1>4. differs = {s \in 1 .. acc : s <= accepted[r] /\ log[r][s] # sfx.ents[s]}
  BY <1>1, <1>2, <1>3
<1>5. c = IF letGo \cup differs # {}
          THEN IF stop \in letGo THEN Gap(stop)
               ELSE IF stop <= committed[r] THEN Conflict
               ELSE InstallFrom(stop)
          ELSE IF acc > accepted[r] THEN InstallFrom(accepted[r] + 1)
          ELSE IF acc < accepted[r] THEN InstallFrom(1)
          ELSE Keep
  BY <1>1 DEF CheckSuffix
<1> HIDE DEF shared, letGo, differs, stop
<1>6. ASSUME NEW k \in Nat, k >= 1, c = InstallFrom(k),
             \A i \in 1 .. acc : i < k => log[r][i] = sfx.ents[i]
      PROVE  /\ c.kind \in {"Keep", "Install"} /\ ~JournalRefuses(r, c)
             /\ Installed(r, sfx, c) = sfx.ents
  <2>1. c.kind = "Install" /\ c.slot = k
    BY <1>6 DEF InstallFrom
  <2>2. Splice(log[r], sfx, k) = sfx.ents
    BY <1>1, <1>6, SpliceWhole
  <2> QED BY <1>1, <1>6, <2>1, <2>2 DEF JournalRefuses, Installed
<1>7. CASE differs # {}
  <2>1. letGo \cup differs = differs /\ differs \subseteq Nat
    BY <1>2, <1>4
  <2>2. stop \in differs /\ \A y \in differs : stop <= y
    BY <1>7, <2>1, MinOf DEF stop
  <2>3. stop \in 1 .. acc /\ stop <= accepted[r] /\ log[r][stop] # sfx.ents[stop]
    BY <1>4, <2>2
  <2>4. stop > committed[r]
    BY <1>1, <2>3
  <2>5. c = InstallFrom(stop)
    BY <1>1, <1>2, <1>5, <1>7, <2>1, <2>3, <2>4
  <2>6. ASSUME NEW i \in 1 .. acc, i < stop
        PROVE  log[r][i] = sfx.ents[i]
    <3>1. stop \in Nat /\ i <= accepted[r]
      BY <1>1, <2>3, <2>6
    <3>2. i \notin differs
      BY <2>2, <2>6, <3>1
    <3> QED BY <1>4, <3>1, <3>2
  <2> QED BY <1>6, <2>3, <2>5, <2>6
<1>8. CASE differs = {}
  <2>1. ASSUME NEW i \in 1 .. acc, i <= accepted[r]
        PROVE  log[r][i] = sfx.ents[i]
    BY <1>4, <1>8, <2>1
  <2>2. CASE acc > accepted[r]
    <3>1. c = InstallFrom(accepted[r] + 1)
      BY <1>2, <1>5, <1>8, <2>2
    <3> QED BY <1>1, <1>6, <2>1, <3>1
  <2>3. CASE acc < accepted[r]
    <3>1. c = InstallFrom(1)
      BY <1>1, <1>2, <1>5, <1>8, <2>3
    <3> QED BY <1>6, <3>1
  <2>4. CASE acc = accepted[r]
    <3>1. c = Keep
      BY <1>1, <1>2, <1>5, <1>8, <2>4
    <3>2. log[r] = sfx.ents
      <4>1. \A i \in 1 .. acc : log[r][i] = sfx.ents[i]
        BY <1>1, <2>1, <2>4
      <4> QED BY <1>1, <2>4, <4>1, SeqEq
    <3> QED BY <3>1, <3>2 DEF Keep, JournalRefuses, Installed
  <2> QED BY <1>1, <2>2, <2>3, <2>4
<1> QED BY <1>7, <1>8

\* A journal that fits the budget is reported whole.
LEMMA WholeSuffix ==
    ASSUME TypeOK, NEW r \in Node, first[r] = VOID_SLOT,
           accepted[r] = Len(log[r]), accepted[r] >= 1, accepted[r] <= Budget
    PROVE  BoundedSuffix(r) = [from |-> 1, ents |-> log[r]]
<1>1. /\ accepted[r] \in Nat /\ Budget \in Nat /\ log[r] \in Seq(Nat)
      /\ Len(log[r]) = accepted[r] /\ first[r] = 1
  BY BoundsAssumption DEF TypeOK, VOID_SLOT
<1>2. AtLeast(first[r], accepted[r] - Budget + 1) = 1
  BY <1>1 DEF AtLeast
<1>3. BoundedSuffix(r) = RunOf(log[r], 1, accepted[r])
  BY <1>2 DEF BoundedSuffix
<1> QED BY <1>1, <1>3, RunOfAll

\* A new primary sends the whole history it installs.
LEMMA WholeOverlay ==
    ASSUME TypeOK, NEW r \in Node, first[r] = VOID_SLOT,
           NEW sfx \in Suffix, NEW acc \in Nat, acc >= 1, acc <= Budget,
           sfx.from = 1, Len(sfx.ents) = acc
    PROVE  BoundedOverlaySuffix(r, acc, sfx) = sfx
<1>1. /\ Budget \in Nat /\ log[r] \in Seq(Nat) /\ first[r] = 1
      /\ sfx.ents \in Seq(Nat) /\ sfx.ents # <<>>
      /\ sfx = [from |-> 1, ents |-> sfx.ents]
  BY BoundsAssumption DEF TypeOK, VOID_SLOT, Suffix
<1>2. AtMost(sfx.from, AtLeast(first[r], acc - Budget + 1)) = 1
  BY <1>1 DEF AtLeast, AtMost
<1>3. Splice(log[r], sfx, 1) = sfx.ents
  <2>1. \A i \in 1 .. Len(sfx.ents) : i < 1 => log[r][i] = sfx.ents[i]
    OBVIOUS
  <2> QED BY <1>1, <2>1, SpliceWhole
<1>4. BoundedOverlaySuffix(r, acc, sfx) = RunOf(sfx.ents, 1, acc)
  BY <1>1, <1>2, <1>3 DEF BoundedOverlaySuffix
<1> QED BY <1>1, <1>4, RunOfAll

-----------------------------------------------------------------------------
(***************************************************************************)
(* Selection: the history that select_history prefers among a quorum's     *)
(* evidence holds whatever an earlier view may have chosen.                *)
(***************************************************************************)

\* Every history holds the genesis pair.
LEMMA HistoryLong ==
    ASSUME TypeOK, AInv, NEW u \in Nat, NEW l \in Seq(Nat), History(u, l)
    PROVE  INIT_SLOT <= Len(l)
<1>1. PICK B \in Bases(u) : Len(B) <= Len(l)
  BY DEF History
<1>2. B \in Seq(Nat) /\ INIT_SLOT <= Len(B)
  BY BaseType
<1> QED BY <1>1, <1>2 DEF INIT_SLOT

LEMMA SelectionHolds ==
    ASSUME TypeOK, AInv, NEW w \in Nat, NEW evs \in SUBSET Evidence,
           \A f \in evs : Reported(w, f), Reporters(evs) \in Quorum,
           NEW e \in SelectHistory(evs), NEW v \in 0 .. w - 1, NEW s \in Nat,
           Choosable(v, s),
           \/ Given(v, s)
           \/ \E Q \in Quorum : \A n \in Q \cap Reporters(evs) : Acked(n, v, s)
    PROVE  Holds(e.suffix.ents, v, s)
<1>1. /\ e \in evs /\ e \in Evidence /\ \A f \in evs : Preferred(e, f)
      /\ Reported(w, e)
  BY DEF SelectHistory
<1>2. /\ e.retained \in Nat /\ e.accepted \in Nat /\ e.suffix.ents \in Seq(Nat)
      /\ Len(e.suffix.ents) = e.accepted /\ History(e.retained, e.suffix.ents)
  BY <1>1 DEF Evidence, Suffix, Reported
<1>3. v <= e.retained /\ (v < e.retained \/ s <= Len(e.suffix.ents))
  <2>1. CASE Given(v, s)
    <3>1. INIT_SLOT <= Len(e.suffix.ents)
      BY <1>2, HistoryLong
    <3> QED BY <1>2, <2>1, <3>1 DEF Given, INIT_SLOT
  <2>2. ASSUME NEW Q \in Quorum, \A n \in Q \cap Reporters(evs) : Acked(n, v, s)
        PROVE  v <= e.retained /\ (v < e.retained \/ s <= Len(e.suffix.ents))
    <3>1. PICK n \in Q \cap Reporters(evs) : Acked(n, v, s)
      BY <2>2, QuorumAssumption
    <3>2. PICK f \in evs : f.from = n
      BY DEF Reporters
    <3>3. PICK m \in msgs : IsAck(m) /\ m.from = n /\ m.view = v /\ s <= AckSlot(m)
      BY <3>1 DEF Acked
    <3>4. AckSlot(m) \in Nat /\ f.retained \in Nat /\ f.accepted \in Nat
      BY <3>3, AckFields DEF TypeOK, Evidence
    <3>5. v < f.retained \/ (v = f.retained /\ AckSlot(m) <= f.accepted)
      BY <3>2, <3>3 DEF Reported
    <3>6. \/ e.retained > f.retained
          \/ e.retained = f.retained /\ e.accepted >= f.accepted
      BY <1>1, <1>2, <3>4 DEF Preferred
    <3>7. v < e.retained \/ (v = e.retained /\ s <= e.accepted)
      <4>1. s <= AckSlot(m) /\ v \in Nat /\ e.retained \in Nat /\ e.accepted \in Nat
        BY <1>2, <3>3
      <4> QED BY <3>4, <3>5, <3>6, <4>1
    <3> QED BY <1>2, <3>7
  <2> QED BY <2>1, <2>2
<1>4. v \in 0 .. e.retained
  BY <1>2, <1>3
<1> QED BY <1>2, <1>3, <1>4, Inherit

\* In particular what an earlier view has chosen.
LEMMA SelectionChosen ==
    ASSUME TypeOK, AInv, NEW w \in Nat, NEW evs \in SUBSET Evidence,
           \A f \in evs : Reported(w, f), Reporters(evs) \in Quorum,
           NEW e \in SelectHistory(evs), NEW v \in 0 .. w - 1, NEW s \in Nat,
           Chosen(v, s)
    PROVE  Holds(e.suffix.ents, v, s)
<1>1. Choosable(v, s)
  BY ChosenChoosable
<1>2. \/ Given(v, s)
      \/ \E Q \in Quorum : \A n \in Q \cap Reporters(evs) : Acked(n, v, s)
  BY DEF Chosen
<1> QED BY <1>1, <1>2, SelectionHolds

-----------------------------------------------------------------------------
(***************************************************************************)
(* View change, one lemma for each part of continue_view_change.           *)
(***************************************************************************)

\* Replica r holds evidence f for view v, or is about to report it by
\* entering v.
Told(r, v, f) == Reported(v, f) /\ (f.from = r \/ v <= view[f.from])

\* continue_view_change: recording an attempt acknowledges nothing.
LEMMA AttemptKeeps ==
    ASSUME IInv, IInv', AInv, NEW r \in Node, NEW v \in Nat, view[r] <= v,
           retained[r] < v, NEW fs \in SUBSET Node, NEW evs \in SUBSET Evidence,
           \A f \in evs : Told(r, v, f),
           NEW sent \in SUBSET Message,
           \A m \in sent : /\ ~IsAck(m) /\ m.tag # "Commit"
                           /\ m.tag = "DoViewChange" => m.view = v /\ m.ev \in evs,
           NEW fetched, Attempt(r, v, fs, evs, {}, sent, fetched)
    PROVE  AInv'
<1>1. TypeOK /\ TypeOK'
  BY DEF IInv
<1>2. /\ msgs' = msgs \cup sent /\ view'[r] = v /\ evidence'[r] = evs
      /\ selected'[r] = {} /\ fences'[r] = fs
      /\ retained' = retained /\ accepted' = accepted /\ committed' = committed
      /\ fault' = fault /\ log' = log /\ oks' = oks /\ stalled' = stalled
      /\ \A q \in Node \ {r} :
            /\ status'[q] = status[q] /\ view'[q] = view[q]
            /\ fences'[q] = fences[q] /\ evidence'[q] = evidence[q]
            /\ selected'[q] = selected[q]
  BY <1>1 DEF Attempt, Send, TypeOK, journalVars, proposalVars
<1>3. Local(r, sent)
  <2>1. accepted[r] <= accepted'[r] /\ view[r] <= view'[r]
    BY <1>1, <1>2 DEF TypeOK
  <2> QED BY <1>2, <2>1 DEF Local
<1>4. \A f \in evs : ReportOk(v, f)'
  <2>1. ASSUME NEW f \in evs
        PROVE  ReportOk(v, f)'
    <3>1. f \in Evidence /\ f.from \in Node /\ Told(r, v, f)
      BY DEF Evidence
    <3>2. v <= view'[f.from]
      BY <1>2, <3>1 DEF Told
    <3>3. History(f.retained, f.suffix.ents)' /\ Backed(f.retained, f.committed)'
      BY <1>2, <3>1, Lasting DEF Told, Reported
    <3>4. ASSUME NEW m \in msgs', IsAck(m), m.from = f.from, m.view < v
          PROVE  \/ m.view < f.retained
                 \/ m.view = f.retained /\ AckSlot(m) <= f.accepted
      BY <1>2, <3>1, <3>4 DEF Told, Reported
    <3> QED BY <3>1, <3>2, <3>3, <3>4 DEF ReportOk, Reported, Told, IsAck, AckSlot
  <2> QED BY <2>1
<1>5. ReplicaOk(r)'
  <2>1. ReplicaOk(r) /\ msgs \subseteq msgs'
    BY <1>2 DEF AInv
  <2>2. PICK u, a, c, l : /\ u = retained[r] /\ a = accepted[r]
                          /\ c = committed[r] /\ l = log[r]
    OBVIOUS
  <2>3. History(u, l)' /\ Backed(u, c)'
    BY <2>1, <2>2, Lasting DEF ReplicaOk
  <2>4. \A x \in oks'[r] : Acked(x[2], u, x[1])'
    BY <1>2, <2>1, <2>2, Lasting DEF ReplicaOk
  <2>5. r = Primary(u) => Given(u, a) \/ Acked(r, u, a)'
    BY <2>1, <2>2, Lasting DEF ReplicaOk
  <2>6. /\ retained'[r] = u /\ view'[r] = v /\ accepted'[r] = a
        /\ committed'[r] = c /\ log'[r] = l /\ ~fault'[r] /\ selected'[r] = {}
        /\ stalled'[r] = {} /\ a = Len(l) /\ u < v
    BY <1>2, <2>1, <2>2 DEF ReplicaOk
  <2>7. \A f \in evidence'[r] : ReportOk(v, f)'
    BY <1>2, <1>4
  <2> QED BY <2>3, <2>4, <2>5, <2>6, <2>7, ReplicaOkAfter
<1>6. ASSUME NEW m \in sent
      PROVE  MessageOk(m)' /\ m.tag # "StartView"
  <2>1. m.tag = "DoViewChange" => ReportOk(m.view, m.ev)'
    <3> SUFFICES ASSUME m.tag = "DoViewChange" PROVE ReportOk(m.view, m.ev)'
      OBVIOUS
    <3>1. PICK w \in Nat, f \in evs : w = m.view /\ f = m.ev /\ w = v
      OBVIOUS
    <3> QED BY <1>4, <3>1
  <2> QED BY <2>1 DEF MessageOk, IsAck
<1> QED BY <1>1, <1>3, <1>5, <1>6, QuietStep

\* The ruling on evidence e installs its history as it is.
Fits(r, e, ruling) ==
    /\ ruling.kind \in {"Keep", "Install"} /\ ~JournalRefuses(r, ruling)
    /\ Installed(r, e.suffix, ruling) = e.suffix.ents

\* The selected history reaches whatever was chosen in an earlier view, and
\* check_suffix takes it whole: it differs at no slot the candidate committed.
LEMMA SelectedFits ==
    ASSUME TypeOK, ProgressOK, AInv, WholeHistories, NEW r \in Node, Live(r),
           NEW v \in Nat, retained[r] < v,
           NEW evs \in SUBSET Evidence, \A f \in evs : Told(r, v, f),
           Reporters(evs) \in Quorum, NEW e \in SelectHistory(evs)
    PROVE  /\ e \in evs /\ e \in Evidence /\ e.suffix \in Suffix
           /\ e.suffix.ents \in Seq(Nat) /\ e.accepted \in Nat
           /\ e.accepted >= 1 /\ e.suffix.from = 1
           /\ Len(e.suffix.ents) = e.accepted
           /\ \A u \in 0 .. v - 1 : \A c \in Nat : Chosen(u, c) => c <= e.accepted
           /\ \A c, d : Fits(r, e, CheckSuffix(r, e.suffix, e.accepted, c, d))
<1> DEFINE ents == e.suffix.ents
<1>1. ReplicaOk(r) /\ retained[r] \in Nat
  BY DEF TypeOK, AInv
<1>2. /\ e \in evs /\ e \in Evidence /\ e.suffix \in Suffix /\ ents \in Seq(Nat)
      /\ e.accepted \in Nat /\ e.suffix.from = 1 /\ Len(ents) = e.accepted
      /\ e.retained \in Nat /\ History(e.retained, ents)
  BY DEF SelectHistory, Evidence, Suffix, Told, Reported
<1>3. e.accepted >= 1
  BY <1>2, HistoryLong DEF INIT_SLOT
<1>4. \A u \in 0 .. v - 1 : \A s \in Nat : Chosen(u, s) => Holds(ents, u, s)
  BY SelectionChosen DEF Told
<1>5. \A u \in 0 .. v - 1 : \A c \in Nat : Chosen(u, c) => c <= e.accepted
  BY <1>2, <1>4 DEF Holds
<1>6. \A s \in 1 .. committed[r] : log[r][s] = ents[s]
  <2>1. PICK u \in 0 .. retained[r] :
          Chosen(u, committed[r]) /\ Holds(log[r], u, committed[r])
    BY CommittedHeld
  <2>2. u \in 0 .. v - 1 /\ committed[r] \in Nat
    BY <1>1 DEF TypeOK
  <2>3. Holds(ents, u, committed[r])
    BY <1>4, <2>1, <2>2
  <2> QED BY <2>1, <2>3, HoldsAgree
<1>7. ASSUME NEW c, NEW d, NEW ruling,
             ruling = CheckSuffix(r, e.suffix, e.accepted, c, d)
      PROVE  Fits(r, e, ruling)
  <2>1. first[r] = VOID_SLOT /\ accepted[r] = Len(log[r]) /\ committed[r] <= accepted[r]
    BY DEF WholeHistories, Live, ProgressOK
  <2>2. PICK sfx \in Suffix, acc \in Nat : sfx = e.suffix /\ acc = e.accepted
    BY <1>2
  <2>3. /\ acc >= 1 /\ sfx.from = 1 /\ Len(sfx.ents) = acc
        /\ \A s \in 1 .. committed[r] : s <= acc => log[r][s] = sfx.ents[s]
        /\ ruling = CheckSuffix(r, sfx, acc, c, d)
    BY <1>2, <1>3, <1>6, <1>7, <2>2
  <2>4. /\ ruling.kind \in {"Keep", "Install"} /\ ~JournalRefuses(r, ruling)
        /\ Installed(r, sfx, ruling) = sfx.ents
    BY <2>1, <2>3, WholeInstall
  <2> QED BY <2>2, <2>4 DEF Fits
<1> HIDE DEF ents
<1> QED BY <1>2, <1>3, <1>5, <1>7 DEF ents

\* plan_win_view: the selected history is installed as it is, holds whatever
\* an earlier view may have chosen, and starts the view for the only time.
LEMMA WinKeeps ==
    ASSUME IInv, IInv', AInv, WholeHistories, WholeHistories', NEW r \in Node,
           Live(r), NEW v \in Nat, view[r] <= v, retained[r] < v, Primary(v) = r,
           NEW evs \in SUBSET Evidence, \A f \in evs : Told(r, v, f),
           Reporters(evs) \in Quorum, NEW e \in SelectHistory(evs),
           NEW c \in Nat, \E u \in 0 .. v - 1 : Chosen(u, c),
           NEW sent \in SUBSET Message,
           \A m \in sent : ~IsAck(m) /\ m.tag \notin {"Commit", "DoViewChange"},
           NEW forced, Win(r, v, e, c, sent, forced)
    PROVE  AInv'
<1> DEFINE ents == e.suffix.ents
           sv == [tag |-> "StartView", from |-> r, view |-> v,
                  accepted |-> e.accepted, committed |-> c, suffix |-> e.suffix]
<1>1. /\ TypeOK /\ TypeOK' /\ ProgressOK /\ ReplicaOk(r)
      /\ retained[r] \in Nat /\ view[r] \in Nat
  BY DEF IInv, TypeOK, AInv
<1>2. /\ e \in evs /\ e \in Evidence /\ e.suffix \in Suffix /\ ents \in Seq(Nat)
      /\ e.accepted \in Nat /\ e.suffix.from = 1 /\ Len(ents) = e.accepted
      /\ e.accepted >= 1
  BY <1>1, SelectedFits
<1>3. c <= e.accepted
  BY <1>1, SelectedFits
<1>4. Installed(r, e.suffix,
                CheckSuffix(r, e.suffix, e.accepted, c, checkpoint[r])) = ents
  <2>1. Fits(r, e, CheckSuffix(r, e.suffix, e.accepted, c, checkpoint[r]))
    BY <1>1, SelectedFits
  <2> QED BY <2>1 DEF Fits
<1>5. accepted'[r] = e.accepted /\ e.accepted <= Budget
  <2>1. accepted'[r] = e.accepted
    BY <1>1 DEF Win, TypeOK
  <2> QED BY <2>1 DEF WholeHistories
<1>6. StartView(r, v, e, c) = sv
  <2>1. BoundedOverlaySuffix(r, e.accepted, e.suffix) = e.suffix
    BY <1>1, <1>2, <1>5, WholeOverlay DEF WholeHistories
  <2> QED BY <2>1 DEF StartView
<1>7. sv \in Message
  BY <1>2 DEF StartViewMsg, Message
<1>8. /\ msgs' = msgs \cup (sent \cup {sv}) /\ view'[r] = v /\ retained'[r] = v
       /\ accepted'[r] = e.accepted /\ committed'[r] = c /\ log'[r] = ents
       /\ status'[r] = "Normal" /\ oks'[r] = {} /\ fences'[r] = {}
       /\ evidence'[r] = {} /\ selected'[r] = {}
       /\ fault' = fault /\ stalled' = stalled
       /\ \A q \in Node \ {r} :
            /\ status'[q] = status[q] /\ view'[q] = view[q]
            /\ retained'[q] = retained[q] /\ accepted'[q] = accepted[q]
            /\ committed'[q] = committed[q] /\ log'[q] = log[q]
            /\ oks'[q] = oks[q] /\ fences'[q] = fences[q]
            /\ evidence'[q] = evidence[q] /\ selected'[q] = selected[q]
  <2> HIDE DEF ents, sv
  <2>1. msgs' = msgs \cup (sent \cup {sv})
    BY <1>6 DEF Win, Send
  <2>2. log' = [log EXCEPT ![r] = ents]
    BY <1>4 DEF Win
  <2> QED BY <1>1, <2>1, <2>2 DEF Win, TypeOK
<1>9. /\ sv.tag = "StartView" /\ sv.from = r /\ sv.view = v /\ sv.accepted = e.accepted
       /\ sv.committed = c /\ sv.suffix = e.suffix
       /\ IsAck(sv) /\ AckSlot(sv) = e.accepted
  BY DEF IsAck, AckSlot
<1> HIDE DEF ents, sv
<1>10. Local(r, sent \cup {sv})
  <2>1. \A m \in sent \cup {sv} : IsAck(m) => m.from = r /\ view[r] <= m.view
    BY <1>9
  <2> QED BY <1>8, <2>1 DEF Local
<1>11. msgs \subseteq msgs' /\ sent \cup {sv} \in SUBSET Message
  BY <1>7, <1>8
<1>12. OneStart'
  <2>1. ASSUME NEW m \in msgs, m.tag = "StartView"
        PROVE  m.view # v
    <3>1. m.from = Primary(m.view) /\ m.view <= retained[m.from]
      BY <2>1 DEF AInv, MessageOk, StartOk, AckKept, IsAck
    <3> QED BY <1>1, <3>1
  <2>2. \A m \in sent : m.tag # "StartView"
    BY DEF IsAck
  <2>3. ASSUME NEW a \in msgs', NEW b \in msgs', a.tag = "StartView",
               b.tag = "StartView", a.view = b.view
        PROVE  a.suffix = b.suffix
    <3>1. (a \in msgs \/ a = sv) /\ (b \in msgs \/ b = sv)
      BY <1>8, <2>2, <2>3
    <3> QED BY <1>9, <2>1, <2>3, <3>1 DEF AInv, OneStart
  <2> QED BY <2>3 DEF OneStart
<1>13. Backed(v, c)'
  <2>1. PICK u \in 0 .. v - 1 : Chosen(u, c)
    OBVIOUS
  <2>2. u \in 0 .. v /\ Chosen(u, c)'
    BY <1>11, <2>1, Lasting
  <2> QED BY <2>2 DEF Backed
<1>14. ASSUME NEW u \in 0 .. v - 1, NEW s \in Nat, Choosable(u, s)'
       PROVE  Holds(ents, u, s)'
  <2>1. u \in Nat /\ u < v
    OBVIOUS
  <2>2. Choosable(u, s)
    BY <1>1, <1>10, <1>11, <1>14, <2>1, ChoosableBack
  <2>3. \/ Given(u, s)
        \/ \E Q \in Quorum : \A n \in Q \cap Reporters(evs) : Acked(n, u, s)
    <3>1. CASE Given(u, s)
      BY <3>1
    <3>2. ASSUME NEW Q \in Quorum, \A n \in Q : Acked(n, u, s)' \/ view'[n] <= u
          PROVE  \A n \in Q \cap Reporters(evs) : Acked(n, u, s)
      <4>1. ASSUME NEW n \in Q, NEW f \in evs, f.from = n
            PROVE  Acked(n, u, s)
        <5>1. n \in Node /\ view[n] \in Nat
          BY <1>1, QuorumAssumption DEF TypeOK
        <5>2. v <= view'[n]
          BY <1>1, <1>8, <4>1, <5>1 DEF Told
        <5>3. view'[n] \in Nat
          BY <1>1, <5>1 DEF TypeOK
        <5>4. Acked(n, u, s)'
          BY <2>1, <3>2, <5>2, <5>3
        <5>5. PICK m \in msgs' : IsAck(m) /\ m.from = n /\ m.view = u /\ s <= AckSlot(m)
          BY <5>4 DEF Acked, IsAck, AckSlot
        <5>6. m \in msgs
          BY <1>8, <1>9, <2>1, <5>5
        <5> QED BY <5>5, <5>6 DEF Acked
      <4> QED BY <4>1 DEF Reporters
    <3> QED BY <1>14, <3>1, <3>2 DEF Choosable, Given
  <2>4. Holds(ents, u, s)
    BY <1>1, <2>2, <2>3, SelectionHolds DEF Told, ents
  <2> QED BY <1>11, <2>4, Lasting
<1>15. MessageOk(sv)'
  <2>1. AckKept(sv)'
    BY <1>1, <1>2, <1>8, <1>9 DEF AckKept, AckSlot
  <2>2. StartOk(sv)'
    <3>1. /\ sv.from = Primary(sv.view) /\ sv.view > 0
          /\ sv.suffix.from = 1 /\ Len(sv.suffix.ents) = sv.accepted
          /\ sv.committed <= sv.accepted
      BY <1>1, <1>2, <1>3, <1>9 DEF ents
    <3>2. Backed(sv.view, sv.committed)'
      BY <1>9, <1>13
    <3>3. ASSUME NEW u \in 0 .. sv.view - 1, NEW s \in Nat, Choosable(u, s)'
          PROVE  Holds(sv.suffix.ents, u, s)'
      BY <1>9, <1>14, <3>3 DEF ents
    <3> QED BY <3>1, <3>2, <3>3 DEF StartOk
  <2> QED BY <1>9, <2>1, <2>2 DEF MessageOk
<1>16. \A m \in sent : MessageOk(m)'
  BY DEF MessageOk, IsAck
<1>17. ReplicaOk(r)'
  <2>1. History(v, ents)'
    <3>1. ents \in Bases(v)'
      BY <1>8, <1>9 DEF Bases, ents
    <3>2. \A i \in 1 .. Len(ents) : ents[i] = Ordered(ents, v, i)
      BY <1>2 DEF Ordered
    <3>3. Len(ents) <= Len(ents)
      BY <1>2
    <3> QED BY <3>1, <3>2, <3>3 DEF History, Ordered
  <2>2. Acked(r, v, e.accepted)'
    BY <1>2, <1>8, <1>9 DEF Acked, IsAck, AckSlot
  <2>3. PICK a, l : a = e.accepted /\ l = ents
    OBVIOUS
  <2>4. /\ retained'[r] = v /\ view'[r] = v /\ accepted'[r] = a /\ committed'[r] = c
        /\ log'[r] = l /\ ~fault'[r] /\ selected'[r] = {} /\ stalled'[r] = {}
        /\ a = Len(l) /\ ~(fences'[r] # {} \/ status'[r] = "ViewChange")
        /\ evidence'[r] = {} /\ oks'[r] = {}
    BY <1>1, <1>2, <1>8, <2>3 DEF ReplicaOk
  <2>5. History(v, l)' /\ Acked(r, v, a)'
    BY <2>1, <2>2, <2>3
  <2> QED BY <1>13, <2>4, <2>5, ReplicaOkAfter
<1> QED BY <1>1, <1>10, <1>11, <1>12, <1>15, <1>16, <1>17, FrameStep

\* Messages that acknowledge nothing and report nothing.
Plain(ms) ==
    \A m \in ms : ~IsAck(m) /\ m.tag \notin {"Commit", "DoViewChange"}

LEMMA AsksPlain ==
    ASSUME NEW r, NEW fs
    PROVE  Plain(Asks(r, fs))
  BY DEF Plain, Asks, GetState, IsAck

\* continue_view_change with a selection: nothing is missing and nothing
\* conflicts, so the candidate wins.
LEMMA WinOrWaitKeeps ==
    ASSUME IInv, IInv', AInv, WholeHistories, WholeHistories', NEW r \in Node,
           Live(r), NEW v \in Nat, view[r] <= v, retained[r] < v, Primary(v) = r,
           NEW fs, NEW evs \in SUBSET Evidence, \A f \in evs : Told(r, v, f),
           Reporters(evs) \in Quorum, NEW e \in SelectHistory(evs),
           NEW sent \in SUBSET Message, Plain(sent),
           NEW forced \in SUBSET Fetch, WinOrWait(r, v, fs, evs, e, sent, forced)
    PROVE  AInv'
<1>1. TypeOK /\ ProgressOK /\ ReplicaOk(r) /\ retained[r] \in Nat
  BY DEF IInv, TypeOK, AInv
<1>2. PICK c \in {committed[r]} \cup {f.committed : f \in evs} :
        LET ruling == CheckSuffix(r, e.suffix, e.accepted, c, checkpoint[r])
            missing == IF c > e.accepted THEN e.accepted + 1 ELSE ruling.slot
            asked == IF transfer[r] = {}
                     THEN {[view |-> v, to |-> e.from, next |-> missing]}
                     ELSE {}
            fetched == IF forced = {} THEN asked ELSE forced
        IN  \/ /\ c > e.accepted \/ ruling.kind = "Gap"
               /\ Attempt(r, v, fs, evs, {e},
                          sent \cup Asks(r, asked \cup forced), fetched)
            \/ /\ c <= e.accepted
               /\ ruling.kind = "Conflict" \/ JournalRefuses(r, ruling)
               /\ Raise(r)
            \/ /\ c <= e.accepted
               /\ Installable(ruling) /\ ~JournalRefuses(r, ruling)
               /\ Win(r, v, e, c, sent \cup Asks(r, forced), forced)
  BY DEF WinOrWait
<1> DEFINE ruling == CheckSuffix(r, e.suffix, e.accepted, c, checkpoint[r])
<1>3. c \in Nat /\ \E u \in 0 .. v - 1 : Chosen(u, c)
  <2>1. CASE c = committed[r]
    <3>1. PICK u \in 0 .. retained[r] : Chosen(u, c)
      BY <1>1, <2>1 DEF ReplicaOk, Backed
    <3>2. u \in 0 .. v - 1
      BY <1>1
    <3> QED BY <1>1, <2>1, <3>1, <3>2 DEF TypeOK
  <2>2. ASSUME NEW f \in evs, c = f.committed
        PROVE  c \in Nat /\ \E u \in 0 .. v - 1 : Chosen(u, c)
    <3>1. f.retained \in Nat /\ f.committed \in Nat /\ f.retained < v
      BY DEF Evidence, Told, Reported
    <3>2. PICK u \in 0 .. f.retained : Chosen(u, c)
      BY <2>2 DEF Told, Reported, Backed
    <3>3. u \in 0 .. v - 1
      BY <3>1
    <3> QED BY <2>2, <3>1, <3>2, <3>3
  <2> QED BY <2>1, <2>2
<1>4. c <= e.accepted /\ e.accepted \in Nat
  BY <1>1, <1>3, SelectedFits
<1>5. ruling.kind \in {"Keep", "Install"} /\ ~JournalRefuses(r, ruling)
  <2>1. Fits(r, e, ruling)
    BY <1>1, SelectedFits
  <2> QED BY <2>1 DEF Fits
<1> HIDE DEF ruling
<1>6. Win(r, v, e, c, sent \cup Asks(r, forced), forced)
  BY <1>2, <1>3, <1>4, <1>5 DEF ruling
<1>7. /\ sent \cup Asks(r, forced) \in SUBSET Message
      /\ \A m \in sent \cup Asks(r, forced) :
            ~IsAck(m) /\ m.tag \notin {"Commit", "DoViewChange"}
  BY AsksOk, AsksPlain DEF Plain
<1>8. PICK ms \in SUBSET Message : ms = sent \cup Asks(r, forced)
  BY <1>7
<1>9. Win(r, v, e, c, ms, forced)
  BY <1>6, <1>8
<1> QED BY <1>3, <1>7, <1>8, <1>9, WinKeeps

\* A replica that enters view v reports all it acknowledged before.
LEMMA OwnTold ==
    ASSUME IInv, AInv, WholeHistories, NEW r \in Node, Live(r), NEW v \in Nat,
           retained[r] < v
    PROVE  /\ OwnEvidence(r) \in Evidence /\ OwnEvidence(r).from = r
           /\ Told(r, v, OwnEvidence(r))
<1>1. /\ TypeOK /\ ReplicaOk(r) /\ retained[r] \in Nat /\ log[r] \in Seq(Nat)
      /\ accepted[r] \in Nat /\ accepted[r] = Len(log[r])
  BY DEF IInv, TypeOK, AInv, Live
<1>2. INIT_SLOT <= accepted[r]
  BY <1>1, HistoryLong DEF ReplicaOk
<1>3. BoundedSuffix(r) = [from |-> 1, ents |-> log[r]]
  BY <1>1, <1>2, WholeSuffix DEF WholeHistories, INIT_SLOT
<1>4. /\ OwnEvidence(r).from = r /\ OwnEvidence(r).retained = retained[r]
      /\ OwnEvidence(r).accepted = accepted[r]
      /\ OwnEvidence(r).committed = committed[r]
      /\ OwnEvidence(r).suffix.from = 1 /\ OwnEvidence(r).suffix.ents = log[r]
  BY <1>3 DEF OwnEvidence
<1>5. ASSUME NEW m \in msgs, IsAck(m), m.from = r
      PROVE  m.view < retained[r] \/ (m.view = retained[r] /\ AckSlot(m) <= accepted[r])
  <2>1. m.view \in Nat
    BY <1>1, <1>5, AckFields DEF TypeOK
  <2>2. AckKept(m)
    BY <1>5 DEF AInv, MessageOk
  <2> QED BY <1>1, <1>5, <2>1, <2>2 DEF AckKept
<1>6. Reported(v, OwnEvidence(r))
  <2> DEFINE own == OwnEvidence(r)
  <2> HIDE DEF own
  <2>1. /\ own.retained < v /\ own.suffix.from = 1
        /\ Len(own.suffix.ents) = own.accepted
        /\ History(own.retained, own.suffix.ents)
        /\ Backed(own.retained, own.committed)
    BY <1>1, <1>4 DEF ReplicaOk, own
  <2>2. \A m \in msgs : IsAck(m) /\ m.from = own.from /\ m.view < v =>
           \/ m.view < own.retained
           \/ m.view = own.retained /\ AckSlot(m) <= own.accepted
    BY <1>4, <1>5 DEF own
  <2>3. Reported(v, own)
    BY <2>1, <2>2 DEF Reported
  <2> QED BY <2>3 DEF own
<1> QED BY <1>4, <1>6, OwnEvidenceOk DEF Told

\* continue_view_change after an input.
LEMMA ContinueKeeps ==
    ASSUME IInv, IInv', AInv, WholeHistories, WholeHistories', NEW r \in Node,
           Live(r), NEW v \in Nat, view[r] <= v, retained[r] < v,
           NEW fs \in SUBSET Node, NEW evs \in SUBSET Evidence,
           \A f \in evs : Told(r, v, f), NEW sent \in SUBSET Message, Plain(sent),
           NEW forced \in SUBSET Fetch,
           ContinueViewChange(r, v, fs, evs, {}, sent, forced)
    PROVE  AInv'
<1> DEFINE reports == r \notin Reporters(evs) /\ FenceQuorum(fs)
           every == IF reports THEN evs \cup {OwnEvidence(r)} ELSE evs
           report == IF reports /\ Primary(v) # r
                     THEN {[tag |-> "DoViewChange", to |-> Primary(v),
                            view |-> v, ev |-> OwnEvidence(r)]}
                     ELSE {}
           leads == Primary(v) = r /\ r \in Reporters(every)
           chosen == IF leads /\ EvidenceQuorum(every)
                     THEN SelectHistory(every) ELSE {}
<1>1. \/ /\ ~(leads /\ chosen # {})
         /\ Attempt(r, v, fs, every, chosen,
                    sent \cup report \cup Asks(r, forced), forced)
      \/ /\ leads
         /\ \E e \in chosen : WinOrWait(r, v, fs, every, e, sent, forced)
  BY DEF ContinueViewChange
<1>2. every \in SUBSET Evidence /\ \A f \in every : Told(r, v, f)
  BY OwnTold
<1>3. report \in SUBSET Message
  <2>1. Primary(v) \in Node
    <3>1. (v % Len(Order)) + 1 \in 1 .. Len(Order)
      BY OrderAssumption
    <3> QED BY <3>1, OrderAssumption DEF Primary
  <2> QED BY <2>1, OwnTold DEF DoViewChangeMsg, Message
<1>4. \A m \in report : /\ m.tag = "DoViewChange" /\ m.view = v /\ m.ev \in every
                        /\ ~IsAck(m)
  BY DEF IsAck
<1>5. chosen # {} => leads /\ EvidenceQuorum(every) /\ chosen = SelectHistory(every)
  OBVIOUS
<1>6. PICK evs2 \in SUBSET Evidence, ms \in SUBSET Message :
        evs2 = every /\ ms = sent \cup report \cup Asks(r, forced)
  BY <1>2, <1>3, AsksOk
<1>7. Plain(Asks(r, forced))
  BY AsksPlain
<1>8. leads => Primary(v) = r
  OBVIOUS
<1> HIDE DEF reports, every, report, leads, chosen
<1>9. CASE /\ ~(leads /\ chosen # {})
           /\ Attempt(r, v, fs, every, chosen,
                      sent \cup report \cup Asks(r, forced), forced)
  <2>1. chosen = {}
    BY <1>5, <1>9
  <2>2. Attempt(r, v, fs, evs2, {}, ms, forced)
    BY <1>6, <1>9, <2>1
  <2>3. \A m \in ms : /\ ~IsAck(m) /\ m.tag # "Commit"
                      /\ m.tag = "DoViewChange" => m.view = v /\ m.ev \in evs2
    BY <1>4, <1>6, <1>7 DEF Plain
  <2>4. \A f \in evs2 : Told(r, v, f)
    BY <1>2, <1>6
  <2> QED BY <2>2, <2>3, <2>4, AttemptKeeps
<1>10. ASSUME leads, NEW e \in chosen, WinOrWait(r, v, fs, every, e, sent, forced)
       PROVE  AInv'
  <2>1. Reporters(evs2) \in Quorum /\ e \in SelectHistory(evs2) /\ Primary(v) = r
    BY <1>5, <1>6, <1>8, <1>10 DEF EvidenceQuorum
  <2>2. WinOrWait(r, v, fs, evs2, e, sent, forced) /\ \A f \in evs2 : Told(r, v, f)
    BY <1>2, <1>6, <1>10
  <2> QED BY <2>1, <2>2, WinOrWaitKeeps
<1> QED BY <1>1, <1>9, <1>10

\* enter_view_change: a later view starts without evidence.
LEMMA EnterKeeps ==
    ASSUME IInv, IInv', AInv, WholeHistories, WholeHistories', NEW r \in Node,
           Live(r), NEW v \in Nat, view[r] < v, NEW heard \in SUBSET Node,
           NEW forced \in SUBSET Fetch, EnterViewChange(r, v, heard, forced)
    PROVE  AInv'
<1> DEFINE sent == {[tag |-> "StartViewChange", from |-> r, view |-> v]}
           fs == {r} \cup heard
           none == {}
<1>1. sent \in SUBSET Message /\ Plain(sent)
  BY DEF Message, StartViewChangeMsg, Plain, IsAck
<1>2. fs \in SUBSET Node /\ none \in SUBSET Evidence /\ \A f \in none : Told(r, v, f)
  OBVIOUS
<1>3. view[r] <= v /\ retained[r] < v
  <2>1. view[r] \in Nat /\ retained[r] \in Nat /\ retained[r] <= view[r]
    BY DEF IInv, TypeOK, ProgressOK
  <2> QED BY <2>1
<1>4. ContinueViewChange(r, v, fs, none, {}, sent, forced)
  BY DEF EnterViewChange
<1> HIDE DEF sent, fs, none
<1> QED BY <1>1, <1>2, <1>3, <1>4, ContinueKeeps

-----------------------------------------------------------------------------
(***************************************************************************)
(* The ticks and messages that open or advance a view change.              *)
(***************************************************************************)

LEMMA TickSuspectKeeps ==
    ASSUME IInv, IInv', AInv, WholeHistories, WholeHistories', NEW r \in Node,
           TickSuspect(r)
    PROVE  AInv'
<1>1. view[r] \in Nat
  BY DEF IInv, TypeOK
<1>2. PICK v \in Nat : v = view[r] + 1
  BY <1>1
<1>3. view[r] < v
  BY <1>1, <1>2
<1>4. Live(r) /\ EnterViewChange(r, v, {}, {})
  BY <1>2 DEF TickSuspect
<1> QED BY <1>3, <1>4, EnterKeeps

LEMMA AdminForceViewKeeps ==
    ASSUME IInv, IInv', AInv, WholeHistories, WholeHistories', NEW r \in Node,
           NEW v \in Nat, AdminForceView(r, v)
    PROVE  AInv'
  BY EnterKeeps DEF AdminForceView

\* The attempt of the replica's current view.
LEMMA CurrentAttempt ==
    ASSUME IInv, AInv, NEW r \in Node, fences[r] # {}
    PROVE  /\ retained[r] < view[r] /\ selected[r] = {}
           /\ \A f \in evidence[r] : Told(r, view[r], f)
  BY DEF AInv, ReplicaOk, ReportOk, Told

LEMMA ReceiveStartViewChangeKeeps ==
    ASSUME IInv, IInv', AInv, WholeHistories, WholeHistories', NEW r \in Node,
           NEW m \in msgs, ReceiveStartViewChange(r, m)
    PROVE  AInv'
<1>1. m \in StartViewChangeMsg /\ Live(r)
  BY MessageFields DEF ReceiveStartViewChange, IInv, TypeOK
<1>2. m.from \in Node /\ m.view \in Nat
  BY <1>1 DEF StartViewChangeMsg
<1>3. CASE m.view > view[r] /\ EnterViewChange(r, m.view, {m.from}, {})
  <2>1. PICK v \in Nat, heard \in SUBSET Node : v = m.view /\ heard = {m.from}
    BY <1>2
  <2>2. view[r] < v /\ EnterViewChange(r, v, heard, {})
    BY <1>3, <2>1 DEF IInv, TypeOK
  <2> QED BY <1>1, <2>2, EnterKeeps
<1>4. CASE /\ m.view = view[r] /\ fences[r] # {}
           /\ ContinueViewChange(r, view[r], fences[r] \cup {m.from},
                                 evidence[r], selected[r], {}, {})
  <2>1. PICK v \in Nat, fs \in SUBSET Node, evs \in SUBSET Evidence :
          v = view[r] /\ fs = fences[r] \cup {m.from} /\ evs = evidence[r]
    BY <1>2 DEF IInv, TypeOK
  <2>2. /\ retained[r] < v /\ view[r] <= v /\ selected[r] = {}
        /\ \A f \in evs : Told(r, v, f)
    BY <1>4, <2>1, CurrentAttempt
  <2>3. ContinueViewChange(r, v, fs, evs, {}, {}, {})
    BY <1>4, <2>1, <2>2
  <2>4. Plain({})
    BY DEF Plain
  <2> QED BY <1>1, <2>2, <2>3, <2>4, ContinueKeeps
<1> QED BY <1>3, <1>4 DEF ReceiveStartViewChange

LEMMA ReceiveDoViewChangeKeeps ==
    ASSUME IInv, IInv', AInv, WholeHistories, WholeHistories', NEW r \in Node,
           NEW m \in msgs, ReceiveDoViewChange(r, m)
    PROVE  AInv'
<1>1. m \in DoViewChangeMsg /\ Live(r) /\ m.view = view[r] /\ fences[r] # {}
  BY MessageFields DEF ReceiveDoViewChange, IInv, TypeOK
<1>2. m.ev \in Evidence /\ ReportOk(view[r], m.ev)
  <2>1. m.tag = "DoViewChange" /\ m.ev \in Evidence
    BY <1>1 DEF DoViewChangeMsg
  <2> QED BY <1>1, <2>1 DEF AInv, MessageOk
<1>3. PICK v \in Nat, fs \in SUBSET Node, evs \in SUBSET Evidence :
        /\ v = view[r] /\ fs = fences[r]
        /\ evs = IF m.ev.from \in Reporters(evidence[r]) THEN evidence[r]
                 ELSE evidence[r] \cup {m.ev}
  BY <1>2 DEF IInv, TypeOK
<1>4. /\ retained[r] < v /\ view[r] <= v /\ selected[r] = {}
      /\ \A f \in evidence[r] : Told(r, v, f)
  BY <1>1, <1>3, CurrentAttempt
<1>5. \A f \in evs : Told(r, v, f)
  BY <1>2, <1>3, <1>4 DEF Told, ReportOk
<1>6. ContinueViewChange(r, v, fs, evs, {}, {}, {})
  BY <1>3, <1>4 DEF ReceiveDoViewChange
<1>7. Plain({})
  BY DEF Plain
<1> QED BY <1>1, <1>4, <1>5, <1>6, <1>7, ContinueKeeps

\* Nothing is ever selected and left waiting, and no offer is ever retained.
LEMMA NeverWaits ==
    ASSUME AInv, NEW r \in Node
    PROVE  ~TickSelected(r) /\ ~TickStalled(r)
  BY DEF AInv, ReplicaOk, TickSelected, TickStalled

LEMMA HigherViewSignalKeeps ==
    ASSUME IInv, IInv', AInv, WholeHistories, WholeHistories', NEW r \in Node,
           Live(r), NEW m \in msgs, m.from \in Node, m.view \in Nat,
           HigherViewSignal(r, m)
    PROVE  AInv'
<1>1. view[r] \in Nat /\ accepted[r] \in Nat
  BY DEF IInv, TypeOK
<1>2. {[view |-> m.view, to |-> m.from, next |-> accepted[r] + 1]} \in SUBSET Fetch
  BY <1>1 DEF Fetch
<1>3. PICK v \in Nat, forced \in SUBSET Fetch :
        /\ v = m.view
        /\ forced = {[view |-> m.view, to |-> m.from, next |-> accepted[r] + 1]}
  BY <1>2
<1>4. view[r] < v /\ EnterViewChange(r, v, {}, forced)
  BY <1>1, <1>3 DEF HigherViewSignal
<1> QED BY <1>4, EnterKeeps

\* plan_start_view: an offer holds what its receiver committed, so it is
\* installed as it is.
LEMMA AdoptStartViewKeeps ==
    ASSUME IInv, IInv', AInv, WholeHistories, NEW r \in Node, Live(r),
           NEW m \in msgs, m.tag = "StartView", m.from # r, AdoptStartView(r, m)
    PROVE  AInv'
<1> DEFINE ents == m.suffix.ents
           ruling == CheckSuffix(r, m.suffix, m.accepted, m.committed,
                                 checkpoint[r])
<1>1. /\ TypeOK /\ TypeOK' /\ ProgressOK /\ ReplicaOk(r) /\ StartOk(m)
      /\ m \in StartViewMsg
  BY MessageFields DEF IInv, TypeOK, AInv, MessageOk
<1>2. /\ m.suffix \in Suffix /\ ents \in Seq(Nat) /\ m.accepted \in Nat
      /\ m.view \in Nat /\ m.committed \in Nat
      /\ m.suffix.from = 1 /\ Len(ents) = m.accepted /\ m.from = Primary(m.view)
  BY <1>1 DEF StartViewMsg, Suffix, StartOk
<1>3. ents \in Bases(m.view)
  BY DEF Bases
<1>4. m.accepted >= 1
  BY <1>1, <1>2, <1>3, BaseType DEF INIT_SLOT
<1>5. view[r] \in Nat /\ retained[r] \in Nat /\ committed[r] \in Nat
  BY <1>1 DEF TypeOK
<1>6. view[r] <= m.view /\ retained[r] < m.view
  <2>1. retained[r] <= view[r]
    BY <1>1 DEF ProgressOK
  <2>2. status[r] = "ViewChange" => retained[r] < view[r]
    BY <1>1 DEF ReplicaOk
  <2>3. m.view > view[r] \/ (m.view = view[r] /\ status[r] = "ViewChange")
    BY DEF AdoptStartView
  <2> QED BY <1>2, <1>5, <2>1, <2>2, <2>3
<1>7. \A s \in 1 .. committed[r] : log[r][s] = ents[s]
  <2>1. PICK u \in 0 .. retained[r] :
          Chosen(u, committed[r]) /\ Holds(log[r], u, committed[r])
    BY <1>1, CommittedHeld
  <2>2. u \in 0 .. m.view - 1
    BY <1>2, <1>5, <1>6
  <2>3. Holds(ents, u, committed[r])
    BY <1>1, <1>5, <2>1, <2>2, ChosenChoosable DEF StartOk
  <2> QED BY <2>1, <2>3, HoldsAgree
<1>8. /\ ruling.kind \in {"Keep", "Install"} /\ ~JournalRefuses(r, ruling)
      /\ Installed(r, m.suffix, ruling) = ents
  <2>1. first[r] = VOID_SLOT /\ accepted[r] = Len(log[r]) /\ committed[r] <= accepted[r]
    BY <1>1 DEF WholeHistories, Live, ProgressOK
  <2>2. PICK sfx, acc, com, d, x :
          /\ sfx = m.suffix /\ acc = m.accepted /\ com = m.committed
          /\ d = checkpoint[r] /\ x = ruling
    OBVIOUS
  <2>3. /\ sfx \in Suffix /\ acc \in Nat
        /\ acc >= 1 /\ sfx.from = 1 /\ Len(sfx.ents) = acc
        /\ \A s \in 1 .. committed[r] : s <= acc => log[r][s] = sfx.ents[s]
        /\ x = CheckSuffix(r, sfx, acc, com, d)
    BY <1>2, <1>4, <1>7, <2>2
  <2> HIDE DEF ruling
  <2>4. /\ x.kind \in {"Keep", "Install"} /\ ~JournalRefuses(r, x)
        /\ Installed(r, sfx, x) = sfx.ents
    BY <1>1, <2>1, <2>3, WholeInstall
  <2> QED BY <2>2, <2>4
<1>9. /\ status' = [status EXCEPT ![r] = "Normal"]
      /\ view' = [view EXCEPT ![r] = m.view]
      /\ retained' = [retained EXCEPT ![r] = m.view]
      /\ accepted' = [accepted EXCEPT ![r] = m.accepted]
      /\ committed' = [committed EXCEPT ![r] = m.committed]
      /\ log' = [log EXCEPT ![r] = Installed(r, m.suffix, ruling)]
      /\ oks' = [oks EXCEPT ![r] = {}]
      /\ fences' = [fences EXCEPT ![r] = {}]
      /\ evidence' = [evidence EXCEPT ![r] = {}]
      /\ selected' = [selected EXCEPT ![r] = {}]
      /\ stalled' = [stalled EXCEPT ![r] = {}]
      /\ fault' = fault /\ msgs' = msgs
  BY <1>8 DEF AdoptStartView
<1>10. /\ msgs' = msgs \cup {} /\ view'[r] = m.view /\ retained'[r] = m.view
       /\ accepted'[r] = m.accepted /\ committed'[r] = m.committed
       /\ log'[r] = ents /\ status'[r] = "Normal" /\ oks'[r] = {}
       /\ fences'[r] = {} /\ evidence'[r] = {} /\ selected'[r] = {}
       /\ stalled'[r] = {} /\ fault' = fault
       /\ \A q \in Node \ {r} :
            /\ status'[q] = status[q] /\ view'[q] = view[q]
            /\ retained'[q] = retained[q] /\ accepted'[q] = accepted[q]
            /\ committed'[q] = committed[q] /\ log'[q] = log[q]
            /\ oks'[q] = oks[q] /\ fences'[q] = fences[q]
            /\ evidence'[q] = evidence[q] /\ selected'[q] = selected[q]
            /\ stalled'[q] = stalled[q]
  <2> HIDE DEF ents, ruling
  <2> QED BY <1>1, <1>8, <1>9 DEF TypeOK
<1> HIDE DEF ruling
<1>11. Local(r, {})
  BY <1>6, <1>10 DEF Local
<1>12. ReplicaOk(r)'
  <2>1. msgs \subseteq msgs'
    BY <1>10
  <2>2. History(m.view, ents)
    <3>1. \A i \in 1 .. Len(ents) : ents[i] = Ordered(ents, m.view, i)
      BY <1>2 DEF Ordered
    <3>2. Len(ents) <= Len(ents)
      BY <1>2
    <3> QED BY <1>3, <3>1, <3>2 DEF History
  <2>3. PICK u, a, c, l :
          u = m.view /\ a = m.accepted /\ c = m.committed /\ l = ents
    OBVIOUS
  <2>4. History(u, l)' /\ Backed(u, c)'
    BY <1>1, <2>1, <2>2, <2>3, Lasting DEF StartOk
  <2>5. /\ retained'[r] = u /\ view'[r] = u /\ accepted'[r] = a
        /\ committed'[r] = c /\ log'[r] = l /\ ~fault'[r] /\ selected'[r] = {}
        /\ stalled'[r] = {} /\ a = Len(l) /\ evidence'[r] = {} /\ oks'[r] = {}
        /\ ~(fences'[r] # {} \/ status'[r] = "ViewChange") /\ r # Primary(u)
    BY <1>1, <1>2, <1>10, <2>3 DEF ReplicaOk
  <2> QED BY <2>4, <2>5, ReplicaOkAfter
<1> QED BY <1>1, <1>11, <1>12, QuietStep

LEMMA ReceiveStartViewKeeps ==
    ASSUME IInv, IInv', AInv, WholeHistories, NEW r \in Node, NEW m \in msgs,
           ReceiveStartView(r, m)
    PROVE  AInv'
  BY AdoptStartViewKeeps DEF ReceiveStartView

-----------------------------------------------------------------------------
(***************************************************************************)
(* Steps that move neither a history nor a commit frontier.                *)
(***************************************************************************)

LEMMA SteadyStep ==
    ASSUME TypeOK, TypeOK', AInv, NEW r \in Node, NEW sent \in SUBSET Message,
           \A m \in sent : /\ ~IsAck(m) /\ m.tag # "DoViewChange"
                           /\ m.tag = "Commit" => Backed(m.view, m.committed),
           msgs' = msgs \cup sent,
           view' = view, retained' = retained, accepted' = accepted,
           committed' = committed, fault' = fault, log' = log,
           oks'[r] \subseteq oks[r], evidence'[r] \subseteq evidence[r],
           selected'[r] \subseteq selected[r], stalled'[r] \subseteq stalled[r],
           fences'[r] # {} => fences[r] # {},
           status'[r] = "ViewChange" => status[r] = "ViewChange",
           \A q \in Node \ {r} :
              /\ status'[q] = status[q] /\ oks'[q] = oks[q]
              /\ fences'[q] = fences[q] /\ evidence'[q] = evidence[q]
              /\ selected'[q] = selected[q] /\ stalled'[q] = stalled[q]
    PROVE  AInv'
<1>1. msgs \subseteq msgs' /\ ReplicaOk(r)
  BY DEF AInv
<1>2. Local(r, sent)
  <2>1. view[r] \in Nat /\ accepted[r] \in Nat
    BY DEF TypeOK
  <2>2. view[r] <= view'[r] /\ accepted[r] <= accepted'[r]
    BY <2>1
  <2> QED BY <2>2 DEF Local
<1>3. PICK u, w, a, c, l :
        /\ u = retained[r] /\ w = view[r] /\ a = accepted[r]
        /\ c = committed[r] /\ l = log[r]
  OBVIOUS
<1>4. History(u, l)' /\ Backed(u, c)'
  BY <1>1, <1>3, Lasting DEF ReplicaOk
<1>5. ASSUME NEW e \in evidence[r]
      PROVE  ReportOk(w, e)'
  <2>1. e \in Evidence /\ w \in Nat /\ ReportOk(w, e)
    BY <1>1, <1>3 DEF TypeOK, ReplicaOk
  <2> QED BY <1>2, <2>1, ReportLasts
<1>6. \A x \in oks'[r] : Acked(x[2], u, x[1])'
  BY <1>1, <1>3, Lasting DEF ReplicaOk
<1>7. r = Primary(u) => Given(u, a) \/ Acked(r, u, a)'
  BY <1>1, <1>3, Lasting DEF ReplicaOk
<1>8. /\ retained'[r] = u /\ view'[r] = w /\ accepted'[r] = a
      /\ committed'[r] = c /\ log'[r] = l /\ ~fault'[r] /\ selected'[r] = {}
      /\ stalled'[r] = {} /\ a = Len(l)
      /\ fences'[r] # {} \/ status'[r] = "ViewChange" => u < w
      /\ \A e \in evidence'[r] : ReportOk(w, e)'
  BY <1>1, <1>3, <1>5 DEF ReplicaOk
<1>9. ReplicaOk(r)'
  BY <1>4, <1>6, <1>7, <1>8, ReplicaOkAfter
<1>10. ASSUME NEW m \in sent
       PROVE  MessageOk(m)' /\ m.tag # "StartView"
  <2>1. m.tag = "Commit" => Backed(m.view, m.committed)'
    BY <1>1, Lasting
  <2> QED BY <2>1 DEF MessageOk, IsAck
<1> QED BY <1>2, <1>9, <1>10, QuietStep

\* The same for a step that sends nothing.
LEMMA SilentStep ==
    ASSUME TypeOK, TypeOK', AInv, NEW r \in Node,
           msgs' = msgs, view' = view, retained' = retained,
           accepted' = accepted, committed' = committed, fault' = fault,
           log' = log,
           oks'[r] \subseteq oks[r], evidence'[r] \subseteq evidence[r],
           selected'[r] \subseteq selected[r], stalled'[r] \subseteq stalled[r],
           fences'[r] # {} => fences[r] # {},
           status'[r] = "ViewChange" => status[r] = "ViewChange",
           \A q \in Node \ {r} :
              /\ status'[q] = status[q] /\ oks'[q] = oks[q]
              /\ fences'[q] = fences[q] /\ evidence'[q] = evidence[q]
              /\ selected'[q] = selected[q] /\ stalled'[q] = stalled[q]
    PROVE  AInv'
<1>1. PICK sent \in SUBSET Message : sent = {}
  OBVIOUS
<1>2. msgs' = msgs \cup sent
  BY <1>1
<1>3. \A m \in sent : /\ ~IsAck(m) /\ m.tag # "DoViewChange"
                      /\ m.tag = "Commit" => Backed(m.view, m.committed)
  BY <1>1
<1> QED BY <1>2, <1>3, SteadyStep

LEMMA TickPromoteKeeps ==
    ASSUME IInv, IInv', AInv, NEW r \in Node, TickPromote(r)
    PROVE  AInv'
<1>1. TypeOK /\ TypeOK' /\ ReplicaOk(r)
  BY DEF IInv, AInv
<1>2. PICK sent \in SUBSET Message : sent = {Commit(r, committed[r])}
  <2>1. view[r] \in Nat /\ committed[r] \in Nat
    BY <1>1 DEF TypeOK
  <2>2. Commit(r, committed[r]) \in Message
    BY <2>1 DEF Commit, CommitMsg, Message
  <2> QED BY <2>2
<1>3. \A m \in sent : /\ ~IsAck(m) /\ m.tag # "DoViewChange"
                      /\ m.tag = "Commit" => Backed(m.view, m.committed)
  <2>1. Backed(view[r], committed[r])
    BY <1>1 DEF ReplicaOk, TickPromote, BootFenced
  <2> QED BY <1>2, <2>1 DEF Commit, IsAck
<1>4. status' = [status EXCEPT ![r] = "Normal"]
  BY DEF TickPromote
<1>5. /\ status'[r] = "Normal" /\ \A q \in Node \ {r} : status'[q] = status[q]
  BY <1>1, <1>4 DEF TypeOK
<1>6. /\ msgs' = msgs \cup sent /\ view' = view /\ retained' = retained
      /\ accepted' = accepted /\ committed' = committed /\ fault' = fault
      /\ log' = log /\ oks' = oks /\ evidence' = evidence
      /\ selected' = selected /\ stalled' = stalled /\ fences' = fences
  BY <1>2 DEF TickPromote, Send, journalVars, proposalVars, attemptVars, fetchVars
<1> QED BY <1>1, <1>3, <1>5, <1>6, SteadyStep

LEMMA AppliedKeeps ==
    ASSUME IInv, IInv', AInv, NEW r \in Node, Applied(r)
    PROVE  AInv'
<1>1. TypeOK /\ TypeOK'
  BY DEF IInv
<1>2. /\ msgs' = msgs /\ view' = view /\ retained' = retained
      /\ accepted' = accepted /\ committed' = committed /\ fault' = fault
      /\ log' = log /\ evidence' = evidence /\ status' = status
      /\ selected' = selected /\ stalled' = stalled /\ fences' = fences
  BY DEF Applied, journalVars, attemptVars, fetchVars
<1>3. oks'[r] \subseteq oks[r] /\ \A q \in Node \ {r} : oks'[q] = oks[q]
  BY <1>1 DEF Applied, TypeOK
<1> QED BY <1>1, <1>2, <1>3, SilentStep

LEMMA CheckpointedKeeps ==
    ASSUME IInv, IInv', AInv, NEW r \in Node, NEW t, Checkpointed(r, t)
    PROVE  AInv'
<1>1. TypeOK /\ TypeOK'
  BY DEF IInv
<1>2. /\ msgs' = msgs /\ view' = view /\ retained' = retained
      /\ accepted' = accepted /\ committed' = committed /\ fault' = fault
      /\ log' = log /\ evidence' = evidence /\ status' = status /\ oks' = oks
      /\ selected' = selected /\ stalled' = stalled /\ fences' = fences
  BY DEF Checkpointed, journalVars, proposalVars, attemptVars, fetchVars
<1> QED BY <1>1, <1>2, SilentStep

LEMMA ReclaimKeeps ==
    ASSUME IInv, IInv', AInv, NEW r \in Node, NEW s, Reclaim(r, s)
    PROVE  AInv'
<1>1. TypeOK /\ TypeOK'
  BY DEF IInv
<1>2. /\ msgs' = msgs /\ view' = view /\ retained' = retained
      /\ accepted' = accepted /\ committed' = committed /\ fault' = fault
      /\ log' = log /\ evidence' = evidence /\ status' = status /\ oks' = oks
      /\ selected' = selected /\ stalled' = stalled /\ fences' = fences
  BY DEF Reclaim, progressVars, proposalVars, attemptVars, fetchVars
<1> QED BY <1>1, <1>2, SilentStep

LEMMA ResumeKeeps ==
    ASSUME IInv, IInv', AInv, NEW r \in Node, Resume(r)
    PROVE  AInv'
<1>1. TypeOK /\ TypeOK'
  BY DEF IInv
<1>2. /\ msgs' = msgs /\ view' = view /\ retained' = retained
      /\ accepted' = accepted /\ committed' = committed /\ fault' = fault
      /\ log' = log
  BY DEF Resume, journalVars
<1>3. /\ status'[r] = "Restarting" /\ oks'[r] = {} /\ fences'[r] = {}
      /\ evidence'[r] = {} /\ selected'[r] = {} /\ stalled'[r] = {}
      /\ \A q \in Node \ {r} :
            /\ status'[q] = status[q] /\ oks'[q] = oks[q]
            /\ fences'[q] = fences[q] /\ evidence'[q] = evidence[q]
            /\ selected'[q] = selected[q] /\ stalled'[q] = stalled[q]
  BY <1>1 DEF Resume, TypeOK
<1> QED BY <1>1, <1>2, <1>3, SilentStep

LEMMA ReceiveGetStateKeeps ==
    ASSUME IInv, IInv', AInv, NEW r \in Node, NEW m \in msgs, ReceiveGetState(r, m)
    PROVE  AInv'
<1>1. TypeOK /\ TypeOK'
  BY DEF IInv
<1>2. PICK x : x.tag = "NewState" /\ msgs' = msgs \cup {x}
  BY DEF ReceiveGetState, Send
<1>3. {x} \in SUBSET Message
  BY <1>1, <1>2 DEF TypeOK
<1>4. /\ view' = view /\ retained' = retained
      /\ accepted' = accepted /\ committed' = committed /\ fault' = fault
      /\ log' = log /\ evidence' = evidence /\ status' = status /\ oks' = oks
      /\ selected' = selected /\ stalled' = stalled /\ fences' = fences
  BY DEF ReceiveGetState, progressVars, journalVars, proposalVars,
         attemptVars, fetchVars
<1>5. PICK sent \in SUBSET Message : sent = {x}
  BY <1>3
<1>6. \A n \in sent : /\ ~IsAck(n) /\ n.tag # "DoViewChange"
                      /\ n.tag = "Commit" => Backed(n.view, n.committed)
  BY <1>2, <1>5 DEF IsAck
<1> QED BY <1>1, <1>2, <1>4, <1>5, <1>6, SteadyStep

-----------------------------------------------------------------------------
(***************************************************************************)
(* Normal operation.                                                       *)
(***************************************************************************)

\* The next operation of a view extends its history.
LEMMA HistoryAppend ==
    ASSUME TypeOK, AInv, NEW v \in Nat, NEW l \in Seq(Nat), History(v, l)
    PROVE  History(v, Append(l, Operation(v)))
<1> DEFINE new == Append(l, Operation(v))
<1>1. PICK B \in Bases(v) :
        Len(B) <= Len(l) /\ \A i \in 1 .. Len(l) : l[i] = Ordered(B, v, i)
  BY DEF History
<1>2. B \in Seq(Nat)
  BY BaseType
<1>3. Operation(v) \in Nat
  BY DEF Operation
<1>4. /\ Len(new) = Len(l) + 1 /\ new[Len(l) + 1] = Operation(v)
      /\ \A i \in 1 .. Len(l) : new[i] = l[i]
  BY <1>3
<1> HIDE DEF new
<1>5. ASSUME NEW i \in 1 .. Len(new)
      PROVE  new[i] = Ordered(B, v, i)
  <2>1. CASE i \in 1 .. Len(l)
    BY <1>1, <1>4, <2>1
  <2>2. CASE i = Len(l) + 1
    <3>1. ~(i <= Len(B))
      BY <1>1, <1>2, <2>2
    <3> QED BY <1>4, <2>2, <3>1 DEF Ordered
  <2>3. i \in 1 .. Len(l) \/ i = Len(l) + 1
    BY <1>4
  <2> QED BY <2>1, <2>2, <2>3
<1>6. Len(B) <= Len(new)
  BY <1>1, <1>2, <1>4
<1>7. History(v, new)
  BY <1>5, <1>6 DEF History
<1> QED BY <1>7 DEF new

\* A slot below a chosen one is chosen.
LEMMA ChosenBelow ==
    ASSUME TypeOK, NEW v, NEW s \in Nat, Chosen(v, s), NEW t \in Nat, t <= s
    PROVE  Chosen(v, t)
<1>1. CASE Given(v, s)
  BY <1>1 DEF Given, Chosen, INIT_SLOT
<1>2. ASSUME NEW Q \in Quorum, \A n \in Q : Acked(n, v, s)
      PROVE  Chosen(v, t)
  <2>1. ASSUME NEW n \in Q
        PROVE  Acked(n, v, t)
    <3>1. PICK m \in msgs : IsAck(m) /\ m.from = n /\ m.view = v /\ s <= AckSlot(m)
      BY <1>2 DEF Acked
    <3>2. AckSlot(m) \in Nat
      BY <3>1, AckFields DEF TypeOK
    <3>3. t <= AckSlot(m)
      BY <3>1, <3>2
    <3> QED BY <3>1, <3>3 DEF Acked
  <2> QED BY <2>1 DEF Chosen
<1> QED BY <1>1, <1>2 DEF Chosen

\* follow_commit: the frontier a replica takes over is still chosen.
LEMMA FollowBacked ==
    ASSUME TypeOK, NEW r \in Node, NEW u, Backed(u, committed[r]),
           NEW c \in Nat, Backed(u, c), NEW acc \in Nat
    PROVE  Backed(u, Follow(r, c, acc))
<1>1. committed[r] \in Nat
  BY DEF TypeOK
<1>2. Backed(u, AtMost(c, acc))
  <2>1. AtMost(c, acc) \in Nat /\ AtMost(c, acc) <= c
    BY DEF AtMost
  <2>2. PICK v \in 0 .. u : Chosen(v, c)
    BY DEF Backed
  <2>3. Chosen(v, AtMost(c, acc))
    BY <2>1, <2>2, ChosenBelow
  <2> QED BY <2>3 DEF Backed
<1> QED BY <1>2 DEF Follow, AtLeast

LEMMA ProposeKeeps ==
    ASSUME IInv, IInv', AInv, NEW r \in Node, Propose(r)
    PROVE  AInv'
<1>1. /\ TypeOK /\ TypeOK' /\ ReplicaOk(r) /\ view[r] \in Nat
      /\ accepted[r] \in Nat /\ log[r] \in Seq(Nat) /\ committed[r] \in Nat
  BY DEF IInv, TypeOK, AInv
<1>2. /\ status[r] = "Normal" /\ Primary(view[r]) = r /\ retained[r] = view[r]
  BY <1>1 DEF IInv, ProgressOK, Propose, IsPrimary
<1>3. PICK v \in Nat, a \in Nat, c \in Nat, l \in Seq(Nat) :
        /\ v = view[r] /\ a = accepted[r] + 1 /\ c = committed[r]
        /\ l = Append(log[r], Operation(view[r]))
  <2>1. Operation(view[r]) \in Nat
    BY <1>1 DEF Operation
  <2>2. Append(log[r], Operation(view[r])) \in Seq(Nat)
    BY <1>1, <2>1
  <2>3. accepted[r] + 1 \in Nat
    BY <1>1
  <2> QED BY <1>1, <2>2, <2>3, Zenon
<1> DEFINE p == [tag |-> "Prepare", from |-> r, view |-> v, slot |-> a,
                 entry |-> Operation(v), committed |-> c]
<1>4. /\ p.tag = "Prepare" /\ p.from = r /\ p.view = v /\ p.slot = a
      /\ p.entry = Operation(v) /\ p.committed = c /\ IsAck(p) /\ AckSlot(p) = a
  BY DEF IsAck, AckSlot
<1>5. p \in Message
  <2>1. Operation(v) \in Nat
    BY <1>3 DEF Operation
  <2> QED BY <2>1 DEF PrepareMsg, Message
<1>6. /\ msgs' = msgs \cup {p} /\ view' = view /\ retained' = retained
      /\ committed' = committed /\ fault' = fault /\ status' = status
      /\ fences' = fences /\ evidence' = evidence /\ selected' = selected
      /\ stalled' = stalled
      /\ accepted' = [accepted EXCEPT ![r] = a]
      /\ log' = [log EXCEPT ![r] = l]
      /\ oks' = [oks EXCEPT ![r] = {x \in oks[r] : x[1] # a}]
  BY <1>1, <1>3 DEF Propose, Send, attemptVars, fetchVars, TypeOK
<1> HIDE DEF p
<1>7. /\ accepted'[r] = a /\ log'[r] = l /\ oks'[r] \subseteq oks[r]
      /\ \A q \in Node \ {r} :
            /\ accepted'[q] = accepted[q] /\ log'[q] = log[q] /\ oks'[q] = oks[q]
  BY <1>1, <1>6 DEF TypeOK
<1>8. Local(r, {p})
  <2>1. view[r] <= view'[r] /\ accepted[r] <= accepted'[r]
    BY <1>1, <1>3, <1>6, <1>7
  <2>2. view[r] <= p.view /\ p.from = r
    BY <1>1, <1>3, <1>4
  <2> QED BY <1>6, <1>7, <2>1, <2>2 DEF Local
<1>9. msgs \subseteq msgs' /\ Backed(v, c)'
  <2>1. Backed(v, c)
    BY <1>1, <1>2, <1>3 DEF ReplicaOk
  <2> QED BY <1>6, <2>1, Lasting
<1>10. Acked(r, v, a)'
  <2>1. p \in msgs' /\ a <= AckSlot(p)
    BY <1>3, <1>4, <1>6
  <2> QED BY <1>4, <2>1 DEF Acked, IsAck, AckSlot
<1>11. MessageOk(p)'
  <2>1. AckKept(p)'
    BY <1>1, <1>2, <1>3, <1>4, <1>6, <1>7 DEF AckKept, AckSlot
  <2>2. p.from = Primary(p.view) /\ p.entry = Operation(p.view)
    BY <1>2, <1>3, <1>4
  <2>3. Backed(p.view, p.committed)'
    BY <1>4, <1>9
  <2> QED BY <1>4, <2>1, <2>2, <2>3 DEF MessageOk
<1>12. ReplicaOk(r)'
  <2>1. History(v, l)'
    <3>1. History(v, l)
      BY <1>1, <1>2, <1>3, HistoryAppend DEF ReplicaOk
    <3> QED BY <1>9, <3>1, Lasting
  <2>2. \A x \in oks'[r] : Acked(x[2], v, x[1])'
    BY <1>1, <1>2, <1>3, <1>7, <1>9, Lasting DEF ReplicaOk
  <2>3. a = Len(l)
    <3>1. Operation(view[r]) \in Nat
      BY <1>1 DEF Operation
    <3> QED BY <1>1, <1>3, <3>1 DEF ReplicaOk
  <2>4. \A e \in evidence'[r] : ReportOk(v, e)'
    <3>1. ASSUME NEW e \in evidence[r]
          PROVE  ReportOk(v, e)'
      <4>1. e \in Evidence /\ ReportOk(v, e) /\ {p} \in SUBSET Message
        BY <1>1, <1>3, <1>5 DEF TypeOK, ReplicaOk
      <4> QED BY <1>1, <1>8, <4>1, ReportLasts
    <3> QED BY <1>6, <3>1
  <2>5. /\ retained'[r] = v /\ view'[r] = v /\ accepted'[r] = a
        /\ committed'[r] = c /\ log'[r] = l /\ ~fault'[r] /\ selected'[r] = {}
        /\ stalled'[r] = {}
        /\ ~(fences'[r] # {} \/ status'[r] = "ViewChange")
    BY <1>1, <1>2, <1>3, <1>6, <1>7 DEF ReplicaOk
  <2> QED BY <1>9, <1>10, <2>1, <2>2, <2>3, <2>4, <2>5, ReplicaOkAfter
<1>13. {p} \in SUBSET Message /\ \A m \in {p} : MessageOk(m)' /\ m.tag # "StartView"
  BY <1>4, <1>5, <1>11
<1> QED BY <1>1, <1>8, <1>12, <1>13, QuietStep

\* Replica r serves its view with history l, a slots long, and commit
\* frontier c, and sends the acknowledgements sent.
Serves(r, a, c, l, sent) ==
    /\ msgs' = msgs \cup sent /\ view' = view /\ retained' = retained
    /\ fault' = fault /\ oks' = oks /\ fences' = fences /\ evidence' = evidence
    /\ selected' = selected /\ stalled' = stalled
    /\ status'[r] = "Normal" /\ accepted'[r] = a /\ committed'[r] = c
    /\ log'[r] = l
    /\ \A q \in Node \ {r} :
          /\ status'[q] = status[q] /\ accepted'[q] = accepted[q]
          /\ committed'[q] = committed[q] /\ log'[q] = log[q]

\* The acknowledgements sent cover slots up to a that the primary of the view
\* acknowledged.
Vouched(r, v, a, sent) ==
    \A x \in sent : /\ x.tag = "PrepareOk" /\ x.from = r
                    /\ x.view = v /\ x.slot <= a
                    /\ Acked(Primary(v), v, x.slot)

\* A replica that follows the primary of message m extends the history of the
\* view and acknowledges only what it holds.
LEMMA ServeKeeps ==
    ASSUME IInv, IInv', AInv, NEW r \in Node, NEW m \in msgs,
           m.view \in Nat, Primary(m.view) # r, InView(r, m),
           NEW a \in Nat, accepted[r] <= a, NEW c, Backed(m.view, c),
           NEW l, History(m.view, l), Len(l) = a, NEW sent \in SUBSET Message,
           Vouched(r, m.view, a, sent), Serves(r, a, c, l, sent)
    PROVE  AInv'
<1> USE DEF Vouched, Serves
<1>1. /\ TypeOK /\ TypeOK' /\ ReplicaOk(r) /\ view[r] \in Nat
      /\ msgs \subseteq msgs'
  BY DEF IInv, TypeOK, AInv
<1>2. view[r] = m.view /\ retained[r] = m.view
  BY DEF IInv, ProgressOK, InView, BootFenced
<1>3. PICK v \in Nat : v = m.view
  OBVIOUS
<1>4. \A x \in sent : IsAck(x) /\ AckSlot(x) = x.slot
  BY DEF IsAck, AckSlot
<1>5. Local(r, sent)
  BY <1>1, <1>2 DEF Local
<1>6. ReplicaOk(r)'
  <2>1. History(v, l)' /\ Backed(v, c)'
    BY <1>1, <1>3, Lasting
  <2>2. \A x \in oks'[r] : Acked(x[2], v, x[1])'
    BY <1>1, <1>2, <1>3, Lasting DEF ReplicaOk
  <2>3. \A e \in evidence'[r] : ReportOk(v, e)'
    <3>1. ASSUME NEW e \in evidence[r]
          PROVE  ReportOk(v, e)'
      <4>1. e \in Evidence /\ ReportOk(v, e)
        BY <1>1, <1>2, <1>3 DEF TypeOK, ReplicaOk
      <4> QED BY <1>1, <1>5, <4>1, ReportLasts
    <3> QED BY <3>1
  <2>4. /\ retained'[r] = v /\ view'[r] = v /\ ~fault'[r] /\ selected'[r] = {}
        /\ stalled'[r] = {} /\ a = Len(l) /\ r # Primary(v)
        /\ ~(fences'[r] # {} \/ status'[r] = "ViewChange")
    BY <1>1, <1>2, <1>3 DEF ReplicaOk
  <2> QED BY <2>1, <2>2, <2>3, <2>4, ReplicaOkAfter
<1>7. ASSUME NEW x \in sent
      PROVE  MessageOk(x)' /\ x.tag # "StartView"
  <2>1. Acked(Primary(x.view), x.view, x.slot)'
    BY <1>1, Lasting
  <2>2. AckKept(x)'
    BY <1>2, <1>4 DEF AckKept, AckSlot
  <2> QED BY <2>1, <2>2 DEF MessageOk
<1> QED BY <1>1, <1>5, <1>6, <1>7, QuietStep

LEMMA ReceiveCommitKeeps ==
    ASSUME IInv, IInv', AInv, WholeHistories, WholeHistories', NEW r \in Node,
           NEW m \in msgs, ReceiveCommit(r, m)
    PROVE  AInv'
<1>1. /\ TypeOK /\ TypeOK' /\ ReplicaOk(r) /\ Live(r) /\ m \in CommitMsg
      /\ accepted[r] \in Nat /\ log[r] \in Seq(Nat)
  BY MessageFields DEF ReceiveCommit, IInv, TypeOK, AInv
<1>2. /\ m.from \in Node /\ m.view \in Nat /\ m.committed \in Nat
      /\ Primary(m.view) # r /\ Backed(m.view, m.committed)
  BY <1>1 DEF CommitMsg, ReceiveCommit, AInv, MessageOk
<1>3. CASE HigherViewSignal(r, m)
  BY <1>1, <1>2, <1>3, HigherViewSignalKeeps
<1>4. CASE /\ InView(r, m)
           /\ status' = [status EXCEPT ![r] = "Normal"]
           /\ committed' = [committed EXCEPT ![r] =
                                Follow(r, m.committed, accepted[r])]
           /\ UNCHANGED <<view, retained, accepted, applied, checkpoint, fault,
                          journalVars, proposalVars, attemptVars, fetchVars,
                          restarts, msgs>>
  <2>1. view[r] = m.view /\ retained[r] = m.view
    BY <1>4 DEF IInv, ProgressOK, InView, BootFenced
  <2>2. PICK a, c, l, sent :
          /\ a = accepted[r] /\ c = Follow(r, m.committed, accepted[r])
          /\ l = log[r] /\ sent = {}
    OBVIOUS
  <2>3. Backed(m.view, c)
    BY <1>1, <1>2, <2>1, <2>2, FollowBacked DEF ReplicaOk
  <2>4. History(m.view, l) /\ Len(l) = a /\ a \in Nat /\ accepted[r] <= a
    BY <1>1, <2>1, <2>2 DEF ReplicaOk
  <2>5. Serves(r, a, c, l, sent)
    BY <1>1, <1>4, <2>2 DEF Serves, TypeOK, journalVars, proposalVars,
                            attemptVars, fetchVars
  <2>6. sent \in SUBSET Message /\ Vouched(r, m.view, a, sent)
    BY <2>2 DEF Vouched
  <2> QED BY <1>2, <1>4, <2>3, <2>4, <2>5, <2>6, ServeKeeps
<1> QED BY <1>3, <1>4 DEF ReceiveCommit

\* plan_prepare: an entry already held, the next entry, or a gap.
LEMMA ReceivePrepareKeeps ==
    ASSUME IInv, IInv', AInv, WholeHistories, WholeHistories', NEW r \in Node,
           NEW m \in msgs, ReceivePrepare(r, m)
    PROVE  AInv'
<1>1. /\ TypeOK /\ TypeOK' /\ ReplicaOk(r) /\ Live(r) /\ m \in PrepareMsg
      /\ accepted[r] \in Nat /\ log[r] \in Seq(Nat) /\ accepted[r] = Len(log[r])
      /\ m.tag = "Prepare" /\ m.from # r /\ Primary(m.view) = m.from
  BY MessageFields DEF ReceivePrepare, Live, IInv, TypeOK, AInv
<1>2. /\ m.from \in Node /\ m.view \in Nat /\ m.committed \in Nat /\ m.slot \in Nat
      /\ Primary(m.view) # r /\ Backed(m.view, m.committed)
      /\ m.entry = Operation(m.view)
  BY <1>1 DEF PrepareMsg, AInv, MessageOk
<1>3. Acked(Primary(m.view), m.view, m.slot)
  BY <1>1, <1>2 DEF Acked, IsAck, AckSlot
<1>4. InView(r, m) => view[r] = m.view /\ retained[r] = m.view
  BY DEF IInv, ProgressOK, InView, BootFenced
<1>5. PICK sent : sent = {PrepareOk(r, m)}
  OBVIOUS
<1>6. /\ sent \in SUBSET Message
      /\ \A x \in sent : /\ x.tag = "PrepareOk" /\ x.from = r
                         /\ x.view = m.view /\ x.slot = m.slot
  BY <1>2, <1>5 DEF PrepareOk, PrepareOkMsg, Message
<1>7. CASE HigherViewSignal(r, m)
  BY <1>1, <1>2, <1>7, HigherViewSignalKeeps
<1>8. CASE /\ InView(r, m)
           /\ m.slot <= accepted[r]
           /\ status' = [status EXCEPT ![r] = "Normal"]
           /\ committed' = [committed EXCEPT ![r] =
                                Follow(r, m.committed, accepted[r])]
           /\ Send({PrepareOk(r, m)})
           /\ UNCHANGED <<view, retained, accepted, applied, checkpoint, fault,
                          journalVars, proposalVars, attemptVars, fetchVars,
                          restarts>>
  <2>1. PICK a, c, l :
          /\ a = accepted[r] /\ c = Follow(r, m.committed, accepted[r])
          /\ l = log[r]
    OBVIOUS
  <2>2. Backed(m.view, c)
    BY <1>1, <1>2, <1>4, <1>8, <2>1, FollowBacked DEF ReplicaOk
  <2>3. History(m.view, l) /\ Len(l) = a /\ a \in Nat /\ accepted[r] <= a
    BY <1>1, <1>4, <1>8, <2>1 DEF ReplicaOk
  <2>4. Serves(r, a, c, l, sent)
    BY <1>1, <1>5, <1>8, <2>1 DEF Serves, Send, TypeOK, journalVars,
                                  proposalVars, attemptVars, fetchVars
  <2>5. Vouched(r, m.view, a, sent)
    BY <1>3, <1>6, <1>8, <2>1 DEF Vouched
  <2> QED BY <1>2, <1>6, <1>8, <2>2, <2>3, <2>4, <2>5, ServeKeeps
<1>9. CASE /\ InView(r, m)
           /\ m.slot = accepted[r] + 1
           /\ status' = [status EXCEPT ![r] = "Normal"]
           /\ accepted' = [accepted EXCEPT ![r] = m.slot]
           /\ committed' = [committed EXCEPT ![r] =
                                Follow(r, m.committed, m.slot)]
           /\ log' = [log EXCEPT ![r] = Append(@, m.entry)]
           /\ Send({PrepareOk(r, m)})
           /\ UNCHANGED <<view, retained, applied, checkpoint, fault, first,
                          proposalVars, attemptVars, fetchVars, restarts>>
  <2>1. PICK a, c, l :
          /\ a = m.slot /\ c = Follow(r, m.committed, m.slot)
          /\ l = Append(log[r], Operation(m.view))
    OBVIOUS
  <2>2. Backed(m.view, c)
    BY <1>1, <1>2, <1>4, <1>9, <2>1, FollowBacked DEF ReplicaOk
  <2>3. History(m.view, log[r])
    BY <1>1, <1>4, <1>9 DEF ReplicaOk
  <2>4. History(m.view, l)
    BY <1>1, <1>2, <2>1, <2>3, HistoryAppend
  <2>5. Len(l) = a /\ a \in Nat /\ accepted[r] <= a
    <3>1. Operation(m.view) \in Nat
      BY <1>2 DEF Operation
    <3> QED BY <1>1, <1>2, <1>9, <2>1, <3>1
  <2>6. Serves(r, a, c, l, sent)
    BY <1>1, <1>2, <1>5, <1>9, <2>1 DEF Serves, Send, TypeOK, proposalVars,
                                        attemptVars, fetchVars
  <2>7. Vouched(r, m.view, a, sent)
    BY <1>2, <1>3, <1>6, <2>1 DEF Vouched
  <2> QED BY <1>2, <1>6, <1>9, <2>2, <2>4, <2>5, <2>6, <2>7, ServeKeeps
<1>10. CASE /\ InView(r, m)
            /\ m.slot > accepted[r] + 1
            /\ OpenFetch(r, view[r], m.from, accepted[r] + 1)
            /\ Send({GetState(r, view[r], m.from, accepted[r] + 1)})
            /\ UNCHANGED <<progressVars, journalVars, proposalVars,
                           attemptVars, stalled, restarts>>
  <2>1. PICK ask : ask = {GetState(r, view[r], m.from, accepted[r] + 1)}
    OBVIOUS
  <2>2. /\ msgs' = msgs \cup ask /\ view' = view /\ retained' = retained
        /\ accepted' = accepted /\ committed' = committed /\ fault' = fault
        /\ log' = log /\ oks' = oks /\ fences' = fences /\ status' = status
        /\ evidence' = evidence /\ selected' = selected /\ stalled' = stalled
    BY <1>10, <2>1 DEF Send, progressVars, journalVars, proposalVars, attemptVars
  <2>3. ask \in SUBSET Message
    BY <1>1, <2>2 DEF TypeOK
  <2>4. \A x \in ask : /\ ~IsAck(x) /\ x.tag # "DoViewChange"
                       /\ x.tag = "Commit" => Backed(x.view, x.committed)
    BY <2>1 DEF GetState, IsAck
  <2> QED BY <1>1, <2>2, <2>3, <2>4, SteadyStep
<1> QED BY <1>7, <1>8, <1>9, <1>10 DEF ReceivePrepare

\* plan_prepare_ok: a quorum of votes for a slot is a quorum of
\* acknowledgements, the primary's own included.
LEMMA ReceivePrepareOkKeeps ==
    ASSUME IInv, IInv', AInv, NEW r \in Node, NEW m \in msgs,
           ReceivePrepareOk(r, m)
    PROVE  AInv'
<1>1. /\ TypeOK /\ TypeOK' /\ ReplicaOk(r) /\ m \in PrepareOkMsg
      /\ m.tag = "PrepareOk" /\ m.view = view[r] /\ IsPrimary(r)
      /\ view[r] \in Nat /\ accepted[r] \in Nat /\ committed[r] \in Nat
      /\ oks[r] \in SUBSET (Nat \X Node)
  BY MessageFields DEF ReceivePrepareOk, IInv, TypeOK, AInv
<1>2. m.from \in Node /\ m.view \in Nat /\ m.slot \in Nat
  BY <1>1 DEF PrepareOkMsg
<1>3. retained[r] = view[r] /\ status[r] = "Normal" /\ Primary(view[r]) = r
  BY <1>1 DEF IInv, ProgressOK, IsPrimary
<1>4. PICK c \in committed[r] .. accepted[r] :
        /\ \A s \in committed[r] + 1 .. c : Votes(r, m.from, m.slot, s) \in Quorum
        /\ committed' = [committed EXCEPT ![r] = c]
        /\ Send(IF c > committed[r] THEN {Commit(r, c)} ELSE {})
  BY DEF ReceivePrepareOk
<1>5. c \in Nat /\ committed[r] <= c /\ c <= accepted[r]
  BY <1>1, <1>4
<1>6. PICK v \in Nat : v = view[r]
  BY <1>1
<1>7. \A s \in Nat : s <= m.slot => Acked(m.from, v, s)
  BY <1>1, <1>2, <1>6 DEF Acked, IsAck, AckSlot
<1>8. Backed(v, c)
  <2>1. CASE c = committed[r]
    BY <1>1, <1>3, <1>6, <2>1 DEF ReplicaOk
  <2>2. CASE c > committed[r] /\ Given(v, accepted[r])
    <3>1. Given(v, c)
      BY <1>1, <1>5, <2>2 DEF Given, INIT_SLOT
    <3>2. v \in 0 .. v
      OBVIOUS
    <3> QED BY <3>1, <3>2 DEF Chosen, Backed
  <2>3. CASE c > committed[r] /\ ~Given(v, accepted[r])
    <3>1. Votes(r, m.from, m.slot, c) \in Quorum
      <4>1. c \in committed[r] + 1 .. c
        BY <1>1, <1>5, <2>3
      <4> QED BY <1>4, <4>1
    <3>2. Acked(r, v, c)
      <4>1. Acked(r, v, accepted[r])
        BY <1>1, <1>3, <1>6, <2>3 DEF ReplicaOk
      <4>2. PICK x \in msgs :
              IsAck(x) /\ x.from = r /\ x.view = v /\ accepted[r] <= AckSlot(x)
        BY <4>1 DEF Acked
      <4>3. AckSlot(x) \in Nat
        BY <1>1, <4>2, AckFields DEF TypeOK
      <4>4. c <= AckSlot(x)
        BY <1>1, <1>5, <4>2, <4>3
      <4> QED BY <4>2, <4>4 DEF Acked
    <3>3. ASSUME NEW n \in Votes(r, m.from, m.slot, c)
          PROVE  Acked(n, v, c)
      <4>1. CASE n = r
        BY <3>2, <4>1
      <4>2. CASE n = m.from /\ c <= m.slot
        BY <1>5, <1>7, <4>2
      <4>3. ASSUME NEW x \in oks[r], x[1] = c, x[2] = n
            PROVE  Acked(n, v, c)
        BY <1>1, <1>3, <1>6, <4>3 DEF ReplicaOk
      <4> QED BY <4>1, <4>2, <4>3 DEF Votes
    <3>4. Chosen(v, c)
      BY <3>1, <3>3 DEF Chosen
    <3>5. v \in 0 .. v
      OBVIOUS
    <3> QED BY <3>4, <3>5 DEF Backed
  <2> QED BY <1>1, <1>5, <2>1, <2>2, <2>3
<1>9. PICK sent : sent = IF c > committed[r] THEN {Commit(r, c)} ELSE {}
  OBVIOUS
<1>10. /\ sent \in SUBSET Message
       /\ \A x \in sent : x.tag = "Commit" /\ x.view = v /\ x.committed = c
  BY <1>1, <1>5, <1>6, <1>9 DEF Commit, CommitMsg, Message
<1>11. /\ msgs' = msgs \cup sent /\ view' = view /\ retained' = retained
       /\ accepted' = accepted /\ fault' = fault /\ log' = log
       /\ status' = status /\ fences' = fences /\ evidence' = evidence
       /\ selected' = selected /\ stalled' = stalled
       /\ oks' = [oks EXCEPT ![r] = @ \cup
                    {<<s, m.from>> : s \in open[r] \cap
                                          (committed[r] + 1 .. m.slot)}]
  BY <1>4, <1>9 DEF ReceivePrepareOk, Send, journalVars, attemptVars, fetchVars
<1>12. /\ committed'[r] = c
       /\ oks'[r] = oks[r] \cup {<<s, m.from>> : s \in open[r] \cap
                                                 (committed[r] + 1 .. m.slot)}
       /\ \A q \in Node \ {r} : committed'[q] = committed[q] /\ oks'[q] = oks[q]
  BY <1>1, <1>4, <1>11 DEF TypeOK
<1>13. Local(r, sent)
  <2>1. accepted[r] <= accepted'[r] /\ view[r] <= view'[r]
    BY <1>1, <1>11
  <2>2. \A x \in sent : ~IsAck(x)
    BY <1>10 DEF IsAck
  <2> QED BY <1>11, <1>12, <2>1, <2>2 DEF Local
<1>14. msgs \subseteq msgs' /\ Backed(v, c)'
  BY <1>8, <1>11, Lasting
<1>15. ReplicaOk(r)'
  <2>1. PICK a, l : a = accepted[r] /\ l = log[r]
    OBVIOUS
  <2>2. History(v, l)'
    BY <1>1, <1>3, <1>6, <1>14, <2>1, Lasting DEF ReplicaOk
  <2>3. ASSUME NEW x \in oks'[r]
        PROVE  Acked(x[2], v, x[1])'
    <3>1. CASE x \in oks[r]
      BY <1>1, <1>3, <1>6, <1>14, <3>1, Lasting DEF ReplicaOk
    <3>2. ASSUME NEW s \in open[r] \cap (committed[r] + 1 .. m.slot),
                 x = <<s, m.from>>
          PROVE  Acked(x[2], v, x[1])'
      <4>1. s \in Nat /\ s <= m.slot
        BY <1>1, <1>2
      <4>2. Acked(m.from, v, s)'
        BY <1>7, <1>14, <4>1, Lasting
      <4>3. x[2] = m.from /\ x[1] = s
        BY <3>2
      <4> QED BY <4>2, <4>3
    <3> QED BY <1>12, <3>1, <3>2
  <2>4. \A e \in evidence'[r] : ReportOk(v, e)'
    <3>1. ASSUME NEW e \in evidence[r]
          PROVE  ReportOk(v, e)'
      <4>1. e \in Evidence /\ ReportOk(v, e)
        BY <1>1, <1>6 DEF TypeOK, ReplicaOk
      <4> QED BY <1>1, <1>10, <1>13, <4>1, ReportLasts
    <3> QED BY <1>11, <3>1
  <2>5. r = Primary(v) => Given(v, a) \/ Acked(r, v, a)'
    BY <1>1, <1>3, <1>6, <1>14, <2>1, Lasting DEF ReplicaOk
  <2>6. /\ retained'[r] = v /\ view'[r] = v /\ accepted'[r] = a /\ log'[r] = l
        /\ committed'[r] = c /\ ~fault'[r] /\ selected'[r] = {}
        /\ stalled'[r] = {} /\ a = Len(l)
        /\ ~(fences'[r] # {} \/ status'[r] = "ViewChange")
    BY <1>1, <1>3, <1>6, <1>11, <1>12, <2>1 DEF ReplicaOk
  <2> QED BY <1>14, <2>2, <2>3, <2>4, <2>5, <2>6, ReplicaOkAfter
<1>16. ASSUME NEW x \in sent
       PROVE  MessageOk(x)' /\ x.tag # "StartView"
  <2>1. Backed(x.view, x.committed)'
    BY <1>10, <1>14
  <2> QED BY <1>10, <2>1 DEF MessageOk, IsAck
<1> QED BY <1>1, <1>10, <1>13, <1>15, <1>16, QuietStep

-----------------------------------------------------------------------------
(***************************************************************************)
(* The invariant of the specification, and what follows from it.           *)
(***************************************************************************)

\* provision starts every replica with the genesis pair and no message sent.
LEMMA InitAInv == Init => AInv
<1> SUFFICES ASSUME Init PROVE AInv
  OBVIOUS
<1>1. ASSUME NEW r \in Node
      PROVE  ReplicaOk(r)
  <2>1. /\ retained[r] = 0 /\ view[r] = 0 /\ accepted[r] = 2 /\ committed[r] = 2
        /\ log[r] = <<0, 0>> /\ status[r] = "Joining" /\ fences[r] = {}
        /\ evidence[r] = {} /\ oks[r] = {} /\ selected[r] = {} /\ stalled[r] = {}
        /\ fault[r] = FALSE
    BY DEF Init, INIT_SLOT, GenesisLog, GenesisEntry
  <2>2. History(0, log[r])
    <3>1. GenesisLog \in Bases(0) /\ GenesisLog = log[r]
      BY <2>1 DEF Bases, GenesisLog, GenesisEntry
    <3>2. Len(log[r]) = 2
      BY <2>1
    <3>3. \A i \in 1 .. Len(log[r]) : log[r][i] = Ordered(log[r], 0, i)
      BY <3>2 DEF Ordered
    <3>4. log[r] \in Bases(0) /\ Len(log[r]) <= Len(log[r])
      BY <3>1, <3>2
    <3> QED BY <3>3, <3>4 DEF History
  <2>3. Given(0, 2)
    BY DEF Given, INIT_SLOT
  <2>4. Backed(0, 2)
    BY <2>3 DEF Backed, Chosen
  <2> QED BY <2>1, <2>2, <2>3, <2>4 DEF ReplicaOk
<1>2. msgs = {}
  BY DEF Init
<1> QED BY <1>1, <1>2 DEF AInv, OneStart

\* Without a late NewState, every step keeps the invariant as long as the
\* histories stay whole.
LEMMA NextAInv ==
    ASSUME "NewState" \notin Delivered
    PROVE  AInv /\ IInv /\ IInv' /\ WholeHistories /\ WholeHistories' /\ [Next]_vars
              => AInv'
<1> SUFFICES ASSUME AInv, IInv, IInv', WholeHistories, WholeHistories', [Next]_vars
             PROVE  AInv'
  OBVIOUS
<1>1. CASE UNCHANGED vars
  <2> USE DEF vars, progressVars, journalVars, proposalVars, attemptVars, fetchVars
  <2>1. PICK r \in Node : r = Order[1]
    BY OrderAssumption
  <2> QED BY <1>1, <2>1, SilentStep DEF IInv
<1>2. ASSUME NEW r \in Node, Step(r)
      PROVE  AInv'
  <2>1. \A v \in 1 .. MaxView : v \in Nat
    OBVIOUS
  <2> QED
    BY <1>2, <2>1, TickPromoteKeeps, TickSuspectKeeps, NeverWaits, ProposeKeeps,
       AppliedKeeps, CheckpointedKeeps, ReclaimKeeps, AdminForceViewKeeps,
       ResumeKeeps DEF Step
<1>3. ASSUME NEW r \in Node, NEW m \in msgs, m.tag \in Delivered, Receive(r, m)
      PROVE  AInv'
  <2>1. ~ReceiveNewState(r, m)
    BY <1>3 DEF ReceiveNewState
  <2> QED
    BY <1>3, <2>1, ReceivePrepareKeeps, ReceivePrepareOkKeeps, ReceiveCommitKeeps,
       ReceiveStartViewChangeKeeps, ReceiveDoViewChangeKeeps,
       ReceiveStartViewKeeps, ReceiveGetStateKeeps DEF Receive
<1> QED BY <1>1, <1>2, <1>3 DEF Next

-----------------------------------------------------------------------------
(***************************************************************************)
(* Instances whose histories always travel whole.                          *)
(***************************************************************************)

\* A step of the view change drops nothing from a journal.
LEMMA AttemptsKeepFirst ==
    ASSUME NEW r, NEW v, NEW fs, NEW evs, NEW sel, NEW sent, NEW forced,
           ContinueViewChange(r, v, fs, evs, sel, sent, forced)
    PROVE  first' = first
<1>1. PICK all, chosen, out :
         \/ Attempt(r, v, fs, all, chosen, out, forced)
         \/ \E e \in chosen : WinOrWait(r, v, fs, all, e, sent, forced)
  BY DEF ContinueViewChange
<1>2. ASSUME NEW es, NEW ch, NEW ms, NEW fetched, Attempt(r, v, fs, es, ch, ms, fetched)
      PROVE  first' = first
  BY <1>2 DEF Attempt, journalVars
<1>3. ASSUME NEW e \in chosen, WinOrWait(r, v, fs, all, e, sent, forced)
      PROVE  first' = first
  <2>1. \/ Raise(r)
        \/ \E c, ms : Win(r, v, e, c, ms, forced)
        \/ \E ms, fetched : Attempt(r, v, fs, all, {e}, ms, fetched)
    BY <1>3 DEF WinOrWait
  <2> QED BY <1>2, <2>1 DEF Raise, Win, journalVars
<1> QED BY <1>1, <1>2, <1>3

\* Every step but a reclamation leaves the retained starts alone.
LEMMA StepsKeepFirst ==
    ASSUME [Next]_vars,
           \A r \in Node : \A s \in 1 .. MaxApply + 1 : ~Reclaim(r, s)
    PROVE  first' = first
<1> USE DEF progressVars, journalVars
<1>1. CASE UNCHANGED vars
  BY <1>1 DEF vars
<1>2. ASSUME NEW r \in Node, Step(r)
      PROVE  first' = first
  <2>1. CASE TickStalled(r)
    BY <2>1 DEF TickStalled, AdoptStartView, Raise
  <2>2. CASE TickSuspect(r) \/ TickSelected(r)
             \/ \E v \in 1 .. MaxView : AdminForceView(r, v)
    BY <2>2, AttemptsKeepFirst
       DEF TickSuspect, TickSelected, AdminForceView, EnterViewChange
  <2>3. CASE \/ TickPromote(r) \/ Propose(r) \/ Applied(r) \/ Resume(r)
             \/ \E t \in 1 .. MaxApply : Checkpointed(r, t)
    BY <2>3 DEF TickPromote, Propose, Applied, Resume, Checkpointed
  <2> QED BY <1>2, <2>1, <2>2, <2>3 DEF Step
<1>3. ASSUME NEW r \in Node, NEW m \in msgs, Receive(r, m)
      PROVE  first' = first
  <2>1. CASE ReceiveStartViewChange(r, m) \/ ReceiveDoViewChange(r, m)
    BY <2>1, AttemptsKeepFirst
       DEF ReceiveStartViewChange, ReceiveDoViewChange, EnterViewChange
  <2>2. CASE ReceivePrepare(r, m) \/ ReceiveCommit(r, m)
    BY <2>2, AttemptsKeepFirst
       DEF ReceivePrepare, ReceiveCommit, HigherViewSignal, EnterViewChange
  <2>3. CASE ReceiveStartView(r, m)
    BY <2>3 DEF ReceiveStartView, AdoptStartView, Raise
  <2>4. CASE ReceivePrepareOk(r, m) \/ ReceiveGetState(r, m) \/ ReceiveNewState(r, m)
    BY <2>4 DEF ReceivePrepareOk, ReceiveGetState, ReceiveNewState
  <2> QED BY <1>3, <2>1, <2>2, <2>3, <2>4 DEF Receive
<1> QED BY <1>1, <1>2, <1>3 DEF Next

\* No history in a replica or a message is longer than the slots there are.
Low(s) == s <= MaxSlot
LowReplica(r) ==
    /\ Low(accepted[r])
    /\ \A e \in evidence[r] \cup selected[r] : Low(e.accepted)
    /\ \A m \in stalled[r] : Low(m.accepted)
LowMessage(m) ==
    /\ m.tag = "Prepare" => Low(m.slot)
    /\ m.tag = "DoViewChange" => Low(m.ev.accepted)
    /\ m.tag = "StartView" => Low(m.accepted)
LowInv == /\ \A r \in Node : LowReplica(r)
          /\ \A m \in msgs : LowMessage(m)

\* A step of one replica keeps it when its own records and what it sends are
\* low.
LEMMA LowStep ==
    ASSUME LowInv, NEW r \in Node, LowReplica(r)',
           \A m \in msgs' : m \in msgs \/ LowMessage(m),
           \A n \in Node \ {r} : /\ accepted'[n] = accepted[n]
                                 /\ evidence'[n] = evidence[n]
                                 /\ selected'[n] = selected[n]
                                 /\ stalled'[n] = stalled[n]
    PROVE  LowInv'
<1>1. ASSUME NEW n \in Node PROVE LowReplica(n)'
  <2>1. CASE n # r
    BY <2>1 DEF LowInv, LowReplica
  <2> QED BY <2>1
<1>2. ASSUME NEW m \in msgs' PROVE LowMessage(m)'
  BY DEF LowInv, LowMessage
<1> QED BY <1>1, <1>2 DEF LowInv

\* A step of the view change reports, selects and installs what is low.
LEMMA AttemptLow ==
    ASSUME IInv, LowInv, NEW r \in Node, NEW v, NEW fs, NEW evs, NEW sel, NEW sent,
           NEW forced, \A e \in evs \cup sel : Low(e.accepted),
           \A m \in sent : LowMessage(m),
           ContinueViewChange(r, v, fs, evs, sel, sent, forced)
    PROVE  LowInv'
<1> DEFINE reports == r \notin Reporters(evs) /\ FenceQuorum(fs)
           all == IF reports THEN evs \cup {OwnEvidence(r)} ELSE evs
           report == IF reports /\ Primary(v) # r
                     THEN {[tag |-> "DoViewChange", to |-> Primary(v),
                            view |-> v, ev |-> OwnEvidence(r)]}
                     ELSE {}
           leads == Primary(v) = r /\ r \in Reporters(all)
           chosen == IF leads /\ sel = {} /\ EvidenceQuorum(all)
                     THEN SelectHistory(all) ELSE sel
<1>1. Low(OwnEvidence(r).accepted)
  BY DEF OwnEvidence, LowInv, LowReplica
<1>2. \A e \in all \cup chosen : Low(e.accepted)
  BY <1>1 DEF SelectHistory
<1>3. \A m \in sent \cup report : LowMessage(m)
  BY <1>1 DEF LowMessage
<1>4. \A fetches : \A m \in Asks(r, fetches) : LowMessage(m)
  BY DEF Asks, GetState, LowMessage
<1>5. \/ Attempt(r, v, fs, all, chosen, sent \cup report \cup Asks(r, forced), forced)
      \/ \E e \in chosen : WinOrWait(r, v, fs, all, e, sent, forced)
  BY DEF ContinueViewChange
<1> HIDE DEF reports, all, report, leads, chosen
<1>6. ASSUME NEW es, NEW sel2, NEW out, NEW fetched,
             \A e \in es \cup sel2 : Low(e.accepted), \A m \in out : LowMessage(m),
             Attempt(r, v, fs, es, sel2, out, fetched)
      PROVE  LowInv'
  <2>1. /\ msgs' = msgs \cup out /\ accepted' = accepted /\ stalled' = stalled
        /\ evidence' = [evidence EXCEPT ![r] = es]
        /\ selected' = [selected EXCEPT ![r] = sel2]
    BY <1>6 DEF Attempt, Send
  <2>2. evidence'[r] = es /\ selected'[r] = sel2
    BY <2>1 DEF IInv, TypeOK
  <2>3. LowReplica(r)'
    BY <1>6, <2>1, <2>2 DEF LowInv, LowReplica, Low
  <2> QED BY <1>6, <2>1, <2>3, LowStep
<1>7. ASSUME Raise(r) PROVE LowInv'
  BY <1>7 DEF Raise, LowInv, LowReplica, LowMessage, Low, progressVars,
     journalVars, proposalVars, attemptVars, fetchVars
<1>8. ASSUME NEW e, NEW c, Low(e.accepted),
             Win(r, v, e, c, sent \cup Asks(r, forced), forced)
      PROVE  LowInv'
  <2> DEFINE out == sent \cup Asks(r, forced) \cup {StartView(r, v, e, c)}
  <2>1. /\ msgs' = msgs \cup out /\ stalled' = stalled
        /\ accepted' = [accepted EXCEPT ![r] = e.accepted]
        /\ evidence' = [evidence EXCEPT ![r] = {}]
        /\ selected' = [selected EXCEPT ![r] = {}]
    BY <1>8 DEF Win, Send
  <2>2. evidence'[r] = {} /\ selected'[r] = {} /\ accepted'[r] = e.accepted
    BY <2>1 DEF IInv, TypeOK
  <2>3. LowReplica(r)'
    BY <1>8, <2>1, <2>2 DEF LowInv, LowReplica, Low
  <2>4. \A m \in out : LowMessage(m)
    BY <1>4, <1>8 DEF StartView, LowMessage
  <2> HIDE DEF out
  <2> QED BY <2>1, <2>3, <2>4, LowStep
<1>9. CASE Attempt(r, v, fs, all, chosen, sent \cup report \cup Asks(r, forced), forced)
  BY <1>2, <1>3, <1>4, <1>6, <1>9
<1>10. ASSUME NEW e \in chosen, WinOrWait(r, v, fs, all, e, sent, forced)
       PROVE  LowInv'
  <2>1. PICK c : \/ Raise(r)
                 \/ Win(r, v, e, c, sent \cup Asks(r, forced), forced)
                 \/ \E fetches, fetched : Attempt(r, v, fs, all, {e},
                        sent \cup Asks(r, fetches), fetched)
    BY <1>10 DEF WinOrWait
  <2>2. Low(e.accepted) /\ \A f \in all \cup {e} : Low(f.accepted)
    BY <1>2
  <2>3. ASSUME NEW fetches, NEW fetched,
               Attempt(r, v, fs, all, {e}, sent \cup Asks(r, fetches), fetched)
        PROVE  LowInv'
    <3>1. \A m \in sent \cup Asks(r, fetches) : LowMessage(m)
      BY <1>4
    <3> QED BY <1>6, <2>2, <2>3, <3>1
  <2> QED BY <1>7, <1>8, <2>1, <2>2, <2>3
<1> QED BY <1>5, <1>9, <1>10

\* A replica takes the length a StartView states.
LEMMA StartViewLow ==
    ASSUME IInv, LowInv, NEW r \in Node, NEW m, Low(m.accepted),
           AdoptStartView(r, m)
    PROVE  LowInv'
<1>1. CASE Raise(r)
  BY <1>1 DEF Raise, LowInv, LowReplica, LowMessage, Low, progressVars,
     journalVars, proposalVars, attemptVars, fetchVars
<1>2. CASE /\ accepted' = [accepted EXCEPT ![r] = m.accepted]
           /\ evidence' = [evidence EXCEPT ![r] = {}]
           /\ selected' = [selected EXCEPT ![r] = {}]
           /\ stalled' = [stalled EXCEPT ![r] = {}]
           /\ UNCHANGED msgs
  <2>1. /\ evidence'[r] = {} /\ selected'[r] = {} /\ stalled'[r] = {}
        /\ accepted'[r] = m.accepted
    BY <1>2 DEF IInv, TypeOK
  <2>2. LowReplica(r)'
    BY <2>1 DEF LowReplica, Low
  <2>3. msgs' = msgs \cup {}
    BY <1>2
  <2>4. \A n \in Node \ {r} : /\ accepted'[n] = accepted[n]
                              /\ evidence'[n] = evidence[n]
                              /\ selected'[n] = selected[n]
                              /\ stalled'[n] = stalled[n]
    BY <1>2 DEF IInv, TypeOK
  <2> QED BY <2>2, <2>3, <2>4, LowStep
<1>3. CASE /\ stalled' = [stalled EXCEPT ![r] = {m}]
           /\ \E out : /\ Send(out)
                       /\ \E s : out = {GetState(r, m.view, m.from, s)}
           /\ UNCHANGED <<accepted, evidence, selected>>
  <2>1. stalled'[r] = {m}
    BY <1>3 DEF IInv, TypeOK
  <2>2. LowReplica(r)'
    BY <1>3, <2>1 DEF LowInv, LowReplica, Low
  <2>3. \A s : LowMessage(GetState(r, m.view, m.from, s))
    BY DEF GetState, LowMessage
  <2>4. PICK out : msgs' = msgs \cup out /\ \A x \in out : LowMessage(x)
    BY <1>3, <2>3 DEF Send
  <2>5. \A n \in Node \ {r} : stalled'[n] = stalled[n]
    BY <1>3 DEF IInv, TypeOK
  <2> QED BY <1>3, <2>2, <2>4, <2>5, LowStep
<1> QED BY <1>1, <1>2, <1>3 DEF AdoptStartView, progressVars, attemptVars

\* A step of replica r that leaves the view change alone.
LEMMA QuietLow ==
    ASSUME LowInv, NEW r \in Node, NEW a, Low(a),
           accepted' = [accepted EXCEPT ![r] = a], accepted \in [Node -> Nat],
           UNCHANGED <<evidence, selected, stalled>>,
           \A m \in msgs' : m \in msgs \/ LowMessage(m)
    PROVE  LowInv'
<1>1. LowReplica(r)'
  BY DEF LowInv, LowReplica, Low
<1> QED BY <1>1, LowStep

\* Without chunks, only a proposal lengthens a history, and it has the bound.
LEMMA NextLow ==
    ASSUME "NewState" \notin Delivered
    PROVE  IInv /\ LowInv /\ [Next]_vars => LowInv'
<1> SUFFICES ASSUME IInv, LowInv, [Next]_vars PROVE LowInv'
  OBVIOUS
<1> USE DEF progressVars, journalVars, proposalVars, attemptVars, fetchVars
<1>1. accepted \in [Node -> Nat] /\ MaxSlot \in Nat
  BY BoundsAssumption DEF IInv, TypeOK
<1>2. \A r \in Node : [accepted EXCEPT ![r] = accepted[r]] = accepted
  BY <1>1
<1>3. ASSUME NEW r \in Node, UNCHANGED <<accepted, evidence, selected, stalled>>,
             \A m \in msgs' : m \in msgs \/ LowMessage(m)
      PROVE  LowInv'
  BY <1>1, <1>2, <1>3, QuietLow DEF LowInv, LowReplica
<1>4. CASE UNCHANGED vars
  BY <1>4 DEF vars, LowInv, LowReplica, LowMessage, Low
<1>5. ASSUME NEW r \in Node, NEW v, NEW heard, NEW forced,
             EnterViewChange(r, v, heard, forced)
      PROVE  LowInv'
  <2>1. LowMessage([tag |-> "StartViewChange", from |-> r, view |-> v])
    BY DEF LowMessage
  <2> QED BY <1>5, <2>1, AttemptLow DEF EnterViewChange
<1>6. ASSUME NEW r \in Node, Step(r)
      PROVE  LowInv'
  <2>1. CASE TickSuspect(r) \/ \E v \in 1 .. MaxView : AdminForceView(r, v)
    BY <1>5, <2>1 DEF TickSuspect, AdminForceView
  <2>2. CASE TickSelected(r)
    <3>1. \A e \in evidence[r] \cup selected[r] : Low(e.accepted)
      BY DEF LowInv, LowReplica
    <3> QED BY <2>2, <3>1, AttemptLow DEF TickSelected
  <2>3. CASE TickStalled(r)
    BY <2>3, StartViewLow DEF TickStalled, LowInv, LowReplica
  <2>4. CASE Propose(r)
    <3>1. Low(accepted[r] + 1)
      BY <1>1, <2>4 DEF Propose, Low
    <3> DEFINE m == [tag |-> "Prepare", from |-> r, view |-> view[r],
                     slot |-> accepted[r] + 1, entry |-> Operation(view[r]),
                     committed |-> committed[r]]
    <3>2. LowMessage(m)
      BY <3>1 DEF LowMessage
    <3>3. accepted' = [accepted EXCEPT ![r] = accepted[r] + 1]
          /\ msgs' = msgs \cup {m} /\ UNCHANGED <<evidence, selected, stalled>>
      BY <2>4 DEF Propose, Send
    <3> HIDE DEF m
    <3> QED BY <1>1, <3>1, <3>2, <3>3, QuietLow
  <2>5. CASE TickPromote(r)
    <3>1. LowMessage(Commit(r, committed[r]))
      BY DEF Commit, LowMessage
    <3>2. /\ msgs' = msgs \cup {Commit(r, committed[r])}
          /\ UNCHANGED <<accepted, evidence, selected, stalled>>
      BY <2>5 DEF TickPromote, Send
    <3> QED BY <1>3, <3>1, <3>2
  <2>6. CASE \/ Applied(r)
             \/ \E t \in 1 .. MaxApply : Checkpointed(r, t)
             \/ \E s \in 1 .. MaxApply + 1 : Reclaim(r, s)
    BY <2>6 DEF Applied, Checkpointed, Reclaim, LowInv, LowReplica, LowMessage, Low
  <2>7. CASE Resume(r)
    <3>1. /\ accepted' = accepted /\ msgs' = msgs \cup {}
          /\ evidence' = [evidence EXCEPT ![r] = {}]
          /\ selected' = [selected EXCEPT ![r] = {}]
          /\ stalled' = [stalled EXCEPT ![r] = {}]
      BY <2>7 DEF Resume
    <3>2. evidence'[r] = {} /\ selected'[r] = {} /\ stalled'[r] = {}
      BY <3>1 DEF IInv, TypeOK
    <3>3. LowReplica(r)'
      BY <3>1, <3>2 DEF LowInv, LowReplica, Low
    <3>4. \A n \in Node \ {r} : /\ accepted'[n] = accepted[n]
                                /\ evidence'[n] = evidence[n]
                                /\ selected'[n] = selected[n]
                                /\ stalled'[n] = stalled[n]
      BY <3>1 DEF IInv, TypeOK
    <3> QED BY <3>1, <3>3, <3>4, LowStep
  <2> QED BY <1>6, <2>1, <2>2, <2>3, <2>4, <2>5, <2>6, <2>7 DEF Step
<1>7. ASSUME NEW r \in Node, NEW m \in msgs, m.tag \in Delivered, Receive(r, m)
      PROVE  LowInv'
  <2>1. LowMessage(m)
    BY DEF LowInv
  <2>2. CASE HigherViewSignal(r, m)
    BY <1>5, <2>2 DEF HigherViewSignal
  <2>3. CASE ReceiveStartViewChange(r, m)
    <3>1. \A e \in evidence[r] \cup selected[r] : Low(e.accepted)
      BY DEF LowInv, LowReplica
    <3> QED BY <1>5, <2>3, <3>1, AttemptLow DEF ReceiveStartViewChange
  <2>4. CASE ReceiveDoViewChange(r, m)
    <3> DEFINE evs == IF m.ev.from \in Reporters(evidence[r]) THEN evidence[r]
                      ELSE evidence[r] \cup {m.ev}
    <3>1. \A e \in evs \cup selected[r] : Low(e.accepted)
      BY <2>1, <2>4 DEF LowInv, LowReplica, LowMessage, ReceiveDoViewChange
    <3>2. ContinueViewChange(r, view[r], fences[r], evs, selected[r], {}, {})
      BY <2>4 DEF ReceiveDoViewChange
    <3> HIDE DEF evs
    <3> QED BY <3>1, <3>2, AttemptLow
  <2>5. CASE ReceiveStartView(r, m)
    BY <2>1, <2>5, StartViewLow DEF ReceiveStartView, LowMessage
  <2>6. CASE ReceivePrepare(r, m) /\ ~HigherViewSignal(r, m)
    <3>1. LowMessage(PrepareOk(r, m)) /\ Low(m.slot)
      BY <2>1, <2>6 DEF PrepareOk, LowMessage, ReceivePrepare
    <3>2. \A s : LowMessage(GetState(r, view[r], m.from, s))
      BY DEF GetState, LowMessage
    <3>3. CASE /\ UNCHANGED <<accepted, evidence, selected, stalled>>
               /\ msgs' = msgs \cup {PrepareOk(r, m)}
      BY <1>3, <3>1, <3>3
    <3>4. CASE /\ accepted' = [accepted EXCEPT ![r] = m.slot]
               /\ msgs' = msgs \cup {PrepareOk(r, m)}
               /\ UNCHANGED <<evidence, selected, stalled>>
      BY <1>1, <3>1, <3>4, QuietLow
    <3>5. CASE /\ UNCHANGED <<accepted, evidence, selected, stalled>>
               /\ msgs' = msgs \cup {GetState(r, view[r], m.from, accepted[r] + 1)}
      BY <1>3, <3>2, <3>5
    <3> QED BY <2>6, <3>3, <3>4, <3>5 DEF ReceivePrepare, Send
  <2>7. CASE ReceiveCommit(r, m) /\ ~HigherViewSignal(r, m)
    <3>1. UNCHANGED <<accepted, evidence, selected, stalled, msgs>>
      BY <2>7 DEF ReceiveCommit
    <3> QED BY <3>1 DEF LowInv, LowReplica, LowMessage, Low
  <2>8. CASE ReceivePrepareOk(r, m)
    <3>1. \A c : LowMessage(Commit(r, c))
      BY DEF Commit, LowMessage
    <3>2. UNCHANGED <<accepted, evidence, selected, stalled>>
      BY <2>8 DEF ReceivePrepareOk
    <3>3. PICK c : msgs' = msgs \cup (IF c > committed[r] THEN {Commit(r, c)} ELSE {})
      BY <2>8 DEF ReceivePrepareOk, Send
    <3> QED BY <1>3, <3>1, <3>2, <3>3
  <2>9. CASE ReceiveGetState(r, m)
    <3>1. UNCHANGED <<accepted, evidence, selected, stalled>>
      BY <2>9 DEF ReceiveGetState
    <3>2. PICK out : msgs' = msgs \cup {out} /\ out.tag = "NewState"
      <4> DEFINE through == AtMost(accepted[r], m.next + Budget - 1)
                 out == [tag |-> "NewState", from |-> r, to |-> m.from,
                         view |-> m.view, suffix |-> RunOf(log[r], m.next, through),
                         committed |-> committed[r], more |-> through < accepted[r]]
      <4>1. msgs' = msgs \cup {out}
        BY <2>9 DEF ReceiveGetState, Send
      <4>2. out.tag = "NewState"
        OBVIOUS
      <4> HIDE DEF out
      <4> QED BY <4>1, <4>2
    <3>3. LowMessage(out)
      BY <3>2 DEF LowMessage
    <3> QED BY <1>3, <3>1, <3>2, <3>3
  <2>10. ~ReceiveNewState(r, m)
    BY <1>7 DEF ReceiveNewState
  <2> QED BY <1>7, <2>2, <2>3, <2>4, <2>5, <2>6, <2>7, <2>8, <2>9, <2>10 DEF Receive
<1> QED BY <1>4, <1>6, <1>7 DEF Next

\* Where nothing is ever applied nothing is reclaimed, and a budget of every
\* slot cuts no suffix.
LEMMA StayWhole ==
    ASSUME "NewState" \notin Delivered, MaxApply = 0, INIT_SLOT <= MaxSlot,
           MaxSlot <= Budget
    PROVE  Spec => []WholeHistories
<1> DEFINE Untouched == \A r \in Node : first[r] = VOID_SLOT
<1>1. Init => Untouched /\ LowInv
  BY DEF Init, LowInv, LowReplica, Low
<1>2. IInv /\ Untouched /\ [Next]_vars => Untouched'
  <2>1. ASSUME NEW r \in Node, NEW s \in 1 .. MaxApply + 1, IInv
        PROVE  ~Reclaim(r, s)
    BY <2>1, BoundsAssumption
       DEF Reclaim, AtLeast, INIT_SLOT, IInv, TypeOK
  <2> QED BY <2>1, StepsKeepFirst
<1>3. IInv /\ Untouched /\ LowInv => WholeHistories
  BY BoundsAssumption DEF IInv, TypeOK, WholeHistories, LowInv, LowReplica, Low
<1>4. IInv /\ LowInv /\ [Next]_vars => LowInv'
  BY NextLow
<1>5. Spec => []IInv
  BY Invariance
<1> QED BY <1>1, <1>2, <1>3, <1>4, <1>5, PTL DEF Spec

\* The invariant holds throughout every behaviour whose histories stay whole.
THEOREM AgreementInvariance ==
    ASSUME "NewState" \notin Delivered
    PROVE  Spec /\ []WholeHistories => []AInv
<1>1. Init => AInv
  BY InitAInv
<1>2. AInv /\ IInv /\ IInv' /\ WholeHistories /\ WholeHistories' /\ [Next]_vars
         => AInv'
  BY NextAInv
<1>3. Spec => []IInv
  BY Invariance
<1> QED BY <1>1, <1>2, <1>3, PTL DEF Spec

\* Two replicas never commit different operations at one slot, however views
\* change, messages are lost, repeated and reordered, and replicas restart.
THEOREM ReplicasAgree ==
    ASSUME "NewState" \notin Delivered
    PROVE  Spec /\ []WholeHistories => []Agreement
<1>1. IInv /\ AInv => Agreement
  BY AgreementHolds DEF IInv
<1>2. Spec => []IInv
  BY Invariance
<1>3. Spec /\ []WholeHistories => []AInv
  BY AgreementInvariance
<1> QED BY <1>1, <1>2, <1>3, PTL

\* select_history and the quorums bring everything committed into the log of
\* every later primary.
THEOREM PrimariesComplete ==
    ASSUME "NewState" \notin Delivered
    PROVE  Spec /\ []WholeHistories => []PrimaryComplete
<1>1. IInv /\ AInv => PrimaryComplete
  BY PrimaryHolds DEF IInv
<1>2. Spec => []IInv
  BY Invariance
<1>3. Spec /\ []WholeHistories => []AInv
  BY AgreementInvariance
<1> QED BY <1>1, <1>2, <1>3, PTL

\* The replicas that serve a view share one history, each up to its own
\* frontier, from the StartView on.
THEOREM OneHistoryPerView ==
    ASSUME "NewState" \notin Delivered
    PROVE  Spec /\ []WholeHistories => []ViewHistory
<1>1. IInv /\ AInv => ViewHistory
  BY ViewHolds DEF IInv
<1>2. Spec => []IInv
  BY Invariance
<1>3. Spec /\ []WholeHistories => []AInv
  BY AgreementInvariance
<1> QED BY <1>1, <1>2, <1>3, PTL

\* No replica ever finds an offered history in conflict with what it
\* committed, nor a journal that refuses an installation.
THEOREM NeverFaults ==
    ASSUME "NewState" \notin Delivered
    PROVE  Spec /\ []WholeHistories => []NoFault
<1>1. AInv => NoFault
  BY DEF AInv, ReplicaOk, NoFault
<1>2. Spec /\ []WholeHistories => []AInv
  BY AgreementInvariance
<1> QED BY <1>1, <1>2, PTL

\* For clusters of any size and any number of views: where no operation is
\* applied, no suffix is cut and no chunk arrives, view change keeps the
\* replicas in agreement and free of faults.
THEOREM ViewChangeIsSafe ==
    ASSUME "NewState" \notin Delivered, MaxApply = 0, INIT_SLOT <= MaxSlot,
           MaxSlot <= Budget
    PROVE  Spec => [](Agreement /\ PrimaryComplete /\ ViewHistory /\ NoFault)
<1>1. Spec => []WholeHistories
  BY StayWhole
<1>2. Spec /\ []WholeHistories =>
         []Agreement /\ []PrimaryComplete /\ []ViewHistory /\ []NoFault
  BY ReplicasAgree, PrimariesComplete, OneHistoryPerView, NeverFaults
<1> QED BY <1>1, <1>2, PTL
===============================================================================
