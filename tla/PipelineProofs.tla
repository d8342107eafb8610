--------------------------- MODULE PipelineProofs ----------------------------
(***************************************************************************)
(* The publication pipeline implements the serial execution it promises,   *)
(* for any number of transitions, plans and confirmations.                 *)
(*                                                                         *)
(* The revision is what the argument turns on: it moves with every         *)
(* installation, so everything the host still holds is either of an older  *)
(* revision, and refused, or was computed on the published state.  The     *)
(* invariant says the latter of plans (PlansCurrent), of the parked        *)
(* transition (ParkedCurrent) and of the answers that can complete it      *)
(* (AnswersCurrent), as long as the node has not faulted.                  *)
(***************************************************************************)
EXTENDS Pipeline, TLAPS

\* A transition that has not taken effect.
Fresh(t) == t \notin Abstract!RangeOf(history)

\* A held plan is of an earlier revision, or it was computed on the published
\* state, has not taken effect, and as a completion is backed by durability.
PlansCurrent ==
    \A p \in plans :
        /\ p.base <= revision
        /\ p.transition <= planned
        /\ p.transition = NoTransition => p.completion
        /\ p.base = revision /\ ~fault /\ p.transition # NoTransition =>
              /\ p.after = history
              /\ Fresh(p.transition)
              /\ p.completion => p.transition \in durable

\* There is one parked transition, and the published state waits for it.
ParkedCurrent ==
    /\ \A p, q \in parked : p = q
    /\ \A p \in parked :
          /\ p.base <= revision
          /\ p.transition <= planned
          /\ ~fault => /\ p.base = revision
                       /\ p.after = history
                       /\ Fresh(p.transition)

\* An answer for the present revision belongs to the parked transition.
AnswersCurrent ==
    /\ \A a \in answers : a[1] <= revision
    /\ \A a \in answers : a[1] = revision /\ ~fault => parked # {}
    /\ \A p \in parked :
          <<p.base, "Stable">> \in answers => p.transition \in durable

HistoryPlanned == \A i \in 1 .. Len(history) : history[i] <= planned

IInv ==
    /\ TypeOK
    /\ PlansCurrent
    /\ ParkedCurrent
    /\ AnswersCurrent
    /\ HistoryPlanned
    /\ PlannedOnPublished

USE PipelineAssumption

-----------------------------------------------------------------------------

\* A replica starts with nothing planned and nothing parked.
LEMMA InitIInv == Init => IInv
  <1> SUFFICES ASSUME Init PROVE IInv
    OBVIOUS
  <1>1. fault \in BOOLEAN
    BY Zenon DEF Init
  <1>2. TypeOK
    BY <1>1 DEF Init, TypeOK
  <1>3. PlansCurrent /\ ParkedCurrent /\ AnswersCurrent
    BY DEF Init, PlansCurrent, ParkedCurrent, AnswersCurrent
  <1>4. HistoryPlanned /\ PlannedOnPublished
    BY DEF Init, HistoryPlanned, PlannedOnPublished
  <1> QED
    BY <1>2, <1>3, <1>4 DEF IInv

\* Planning an input changes nothing that is published.
LEMMA PlanInputStep ==
  ASSUME IInv, PlanInput
  PROVE  IInv'
  <1> DEFINE new == [base |-> revision, transition |-> planned + 1,
                     after |-> history, completion |-> FALSE,
                     faults |-> FALSE]
  <1>1. /\ plans' = plans \cup {new} /\ planned' = planned + 1
        /\ planned + 1 \in Transition /\ ~fault /\ parked = {}
        /\ UNCHANGED <<stability, revision, fault, parked, history, on,
                       answers, durable>>
    BY DEF PlanInput, IInv, TypeOK, Transition
  <1>2. new \in Plan
    <2>1. FALSE \in BOOLEAN
      BY Zenon
    <2> QED
      BY <1>1, <2>1 DEF Plan, IInv, TypeOK
  <1>3. Fresh(planned + 1)
    <2>1. \A i \in 1 .. Len(history) : history[i] # planned + 1
      BY <1>1 DEF IInv, HistoryPlanned, TypeOK, Transition
    <2> QED
      BY <2>1 DEF Fresh, Abstract!RangeOf
  <1>4. /\ new.base = revision /\ new.transition = planned + 1
        /\ new.after = history /\ ~new.completion
    OBVIOUS
  <1> HIDE DEF new
  <1>5. TypeOK'
    BY <1>1, <1>2 DEF IInv, TypeOK, Transition
  <1>6. PlansCurrent'
    <2> SUFFICES ASSUME NEW p \in plans'
                 PROVE  /\ p.base <= revision
                        /\ p.transition <= planned + 1
                        /\ p.transition = NoTransition => p.completion
                        /\ p.base = revision /\ p.transition # NoTransition =>
                              /\ p.after = history
                              /\ Fresh(p.transition)
                              /\ p.completion => p.transition \in durable
      BY <1>1 DEF PlansCurrent, Fresh, Abstract!RangeOf
    <2>1. CASE p \in plans
      BY <1>1, <2>1
         DEF IInv, PlansCurrent, TypeOK, Plan, Transition, NoTransition
    <2>2. CASE p = new
      BY <1>1, <1>3, <1>4, <2>2 DEF IInv, TypeOK, Transition, NoTransition
    <2> QED
      BY <1>1, <2>1, <2>2
  <1>7. ParkedCurrent' /\ AnswersCurrent'
    BY <1>1 DEF IInv, ParkedCurrent, AnswersCurrent
  <1>8. HistoryPlanned'
    BY <1>1 DEF IInv, HistoryPlanned, TypeOK, Transition
  <1>9. PlannedOnPublished'
    BY <1>1 DEF IInv, PlannedOnPublished
  <1> QED
    BY <1>5, <1>6, <1>7, <1>8, <1>9 DEF IInv

\* Planning a confirmation: the completion carries the parked transition only
\* behind a Stable answer.
LEMMA ConfirmStep ==
  ASSUME IInv, NEW a \in answers, PlanConfirmation(a[1], a[2])
  PROVE  IInv'
  <1>1. PICK k \in parked : /\ k.base = a[1]
                            /\ plans' = plans \cup {Completion(k, a[2])}
    BY DEF PlanConfirmation, Outstanding
  <1> DEFINE new == Completion(k, a[2])
  <1>2. UNCHANGED <<stability, revision, fault, parked, planned, history, on,
                    answers, durable>> /\ ~fault
    BY DEF PlanConfirmation
  <1>3. /\ k.base = revision /\ k.after = history /\ Fresh(k.transition)
        /\ k.transition \in Transition /\ k.transition <= planned
    BY <1>2 DEF IInv, ParkedCurrent, TypeOK, Parked
  <1>4. a[2] = "Stable" => k.transition \in durable
    <2>1. a = <<a[1], a[2]>>
      BY DEF IInv, TypeOK
    <2> QED
      BY <1>1, <2>1 DEF IInv, AnswersCurrent
  <1>5. /\ new.base = revision /\ new.after = history /\ new.completion
        /\ new.transition \in {k.transition, NoTransition}
        /\ new.transition # NoTransition => a[2] = "Stable"
    BY <1>3 DEF Completion
  <1>6. new \in Plan
    <2>1. (a[2] = "Indeterminate") \in BOOLEAN /\ TRUE \in BOOLEAN
      BY Zenon
    <2> QED
      BY <1>3, <2>1 DEF Completion, Plan, IInv, TypeOK
  <1> HIDE DEF new
  <1>7. TypeOK'
    BY <1>1, <1>2, <1>6 DEF IInv, TypeOK, new
  <1>8. PlansCurrent'
    <2> SUFFICES ASSUME NEW p \in plans'
                 PROVE  /\ p.base <= revision
                        /\ p.transition <= planned
                        /\ p.transition = NoTransition => p.completion
                        /\ p.base = revision /\ p.transition # NoTransition =>
                              /\ p.after = history
                              /\ Fresh(p.transition)
                              /\ p.completion => p.transition \in durable
      BY <1>2 DEF PlansCurrent, Fresh, Abstract!RangeOf
    <2>1. CASE p \in plans
      BY <1>2, <2>1 DEF IInv, PlansCurrent
    <2>2. CASE p = new
      BY <1>3, <1>4, <1>5, <2>2 DEF IInv, TypeOK, NoTransition, Transition
    <2> QED
      BY <1>1, <2>1, <2>2 DEF new
  <1>9. ParkedCurrent' /\ AnswersCurrent'
    BY <1>2 DEF IInv, ParkedCurrent, AnswersCurrent, Fresh, Abstract!RangeOf
  <1>10. HistoryPlanned' /\ PlannedOnPublished'
    BY <1>2 DEF IInv, HistoryPlanned, PlannedOnPublished
  <1> QED
    BY <1>7, <1>8, <1>9, <1>10 DEF IInv

\* A step to the next revision that faults the node, or installs nothing.
LEMMA BumpStep ==
  ASSUME IInv, revision' = revision + 1, fault' \in BOOLEAN,
         parked' \subseteq parked, fault' \/ parked' = {},
         UNCHANGED <<stability, plans, planned, history, on, answers, durable>>
  PROVE  IInv'
  <1>1. TypeOK'
    BY DEF IInv, TypeOK
  <1>2. PlansCurrent'
    BY DEF IInv, PlansCurrent, TypeOK, Plan
  <1>3. ParkedCurrent'
    BY DEF IInv, ParkedCurrent, TypeOK, Parked
  <1>4. AnswersCurrent'
    BY DEF IInv, AnswersCurrent, TypeOK
  <1>5. HistoryPlanned' /\ PlannedOnPublished'
    BY DEF IInv, HistoryPlanned, PlannedOnPublished
  <1> QED
    BY <1>1, <1>2, <1>3, <1>4, <1>5 DEF IInv

\* Installing a transition: it was planned on the published state.
LEMMA InstallStep ==
  ASSUME IInv, NEW p \in plans, Install(p), p.transition # NoTransition
  PROVE  IInv' /\ Abstract!TakeEffect(p.transition)
  <1>1. /\ ~fault /\ p.base = revision
        /\ p.completion \/ Volatile
        /\ parked' = {} /\ revision' = revision + 1 /\ fault' = p.faults
        /\ history' = Append(history, p.transition)
        /\ on' = Append(on, p.after)
        /\ UNCHANGED <<stability, plans, planned, answers, durable>>
    BY DEF Install, Current
  <1>2. /\ p.transition \in Transition /\ p.transition <= planned
        /\ p.after = history /\ Fresh(p.transition)
        /\ p.after \in Seq(Transition) /\ p.faults \in BOOLEAN
    BY <1>1 DEF IInv, PlansCurrent, TypeOK, Plan
  <1>3. Volatile \/ p.transition \in durable
    BY <1>1 DEF IInv, PlansCurrent
  <1>4. TypeOK'
    BY <1>1, <1>2 DEF IInv, TypeOK
  <1>5. PlansCurrent' /\ ParkedCurrent'
    BY <1>1 DEF IInv, PlansCurrent, ParkedCurrent, TypeOK, Plan
  <1>6. AnswersCurrent'
    BY <1>1 DEF IInv, AnswersCurrent, TypeOK
  <1>7. HistoryPlanned'
    BY <1>1, <1>2 DEF IInv, HistoryPlanned, TypeOK
  <1>8. PlannedOnPublished'
    <2>1. Len(on') = Len(history')
      BY <1>1, <1>2 DEF IInv, PlannedOnPublished, TypeOK
    <2>2. ASSUME NEW i \in 1 .. Len(history')
          PROVE  on'[i] = SubSeq(history', 1, i - 1)
      <3>1. CASE i <= Len(history)
        <4>1. on'[i] = on[i] /\ on[i] = SubSeq(history, 1, i - 1)
          BY <1>1, <1>2, <3>1 DEF IInv, PlannedOnPublished, TypeOK
        <4>2. SubSeq(history', 1, i - 1) = SubSeq(history, 1, i - 1)
          BY <1>1, <1>2, <3>1 DEF IInv, TypeOK
        <4> QED
          BY <4>1, <4>2
      <3>2. CASE i = Len(history) + 1
        <4>1. on'[i] = history
          BY <1>1, <1>2, <3>2 DEF IInv, PlannedOnPublished, TypeOK
        <4>2. SubSeq(history', 1, i - 1) = history
          BY <1>1, <1>2, <3>2 DEF IInv, TypeOK
        <4> QED
          BY <4>1, <4>2
      <3>3. i <= Len(history) \/ i = Len(history) + 1
        BY <1>1, <1>2 DEF IInv, TypeOK
      <3> QED
        BY <3>1, <3>2, <3>3
    <2> QED
      BY <2>1, <2>2 DEF PlannedOnPublished
  <1>9. Abstract!TakeEffect(p.transition)
    BY <1>1, <1>2, <1>3 DEF Abstract!TakeEffect, Fresh, Volatile
  <1> QED
    BY <1>4, <1>5, <1>6, <1>7, <1>8, <1>9 DEF IInv

\* Parking: the plan was computed on the published state, and no answer for
\* this revision can have arrived before.
LEMMA ParkStep ==
  ASSUME IInv, NEW p \in plans, Park(p)
  PROVE  IInv'
  <1> DEFINE new == [base |-> p.base, transition |-> p.transition,
                     after |-> p.after]
  <1>1. /\ ~fault /\ p.base = revision /\ ~p.completion /\ parked = {}
        /\ parked' = {new}
        /\ UNCHANGED <<stability, revision, fault, plans, planned, history,
                       on, answers, durable>>
    BY DEF Park, Current
  <1>2. /\ p.transition # NoTransition /\ p.after = history
        /\ Fresh(p.transition) /\ p.transition <= planned
        /\ p.transition \in Transition
    BY <1>1 DEF IInv, PlansCurrent, TypeOK, Plan
  <1>3. new \in Parked
    BY <1>1, <1>2 DEF Parked, IInv, TypeOK
  <1>4. /\ new.base = revision /\ new.after = history
        /\ Fresh(new.transition) /\ new.transition <= planned
    BY <1>1, <1>2
  <1> HIDE DEF new
  <1>5. TypeOK'
    BY <1>1, <1>3 DEF IInv, TypeOK
  <1>6. PlansCurrent'
    BY <1>1 DEF IInv, PlansCurrent, Fresh, Abstract!RangeOf
  <1>7. ParkedCurrent'
    BY <1>1, <1>4 DEF ParkedCurrent, Fresh, Abstract!RangeOf, IInv, TypeOK
  <1>8. AnswersCurrent'
    <2>1. \A a \in answers : a[1] # revision
      BY <1>1 DEF IInv, AnswersCurrent
    <2>2. <<revision, "Stable">> \notin answers
      BY <2>1
    <2> QED
      BY <1>1, <1>4, <2>1, <2>2 DEF IInv, AnswersCurrent
  <1>9. HistoryPlanned' /\ PlannedOnPublished'
    BY <1>1 DEF IInv, HistoryPlanned, PlannedOnPublished
  <1> QED
    BY <1>5, <1>6, <1>7, <1>8, <1>9 DEF IInv

\* The host's answer: Stable only behind durability.
LEMMA AnswerStep ==
  ASSUME IInv, NEW p \in parked, NEW result \in Result, Answer(p, result)
  PROVE  /\ IInv'
         /\ Abstract!Persist(p.transition)
            \/ UNCHANGED <<stability, history, durable>>
  <1>1. /\ answers' = answers \cup {<<p.base, result>>}
        /\ UNCHANGED <<stability, revision, fault, parked, plans, planned,
                       history, on>>
        /\ durable' \in {durable, durable \cup {p.transition}}
        /\ result = "Stable" => p.transition \in durable'
    BY DEF Answer
  <1>2. /\ p.base \in Nat /\ p.transition \in Transition /\ p.base <= revision
        /\ \A q \in parked : q = p
    BY DEF IInv, TypeOK, Parked, ParkedCurrent
  <1>3. TypeOK'
    BY <1>1, <1>2 DEF IInv, TypeOK
  <1>4. PlansCurrent' /\ ParkedCurrent'
    BY <1>1 DEF IInv, PlansCurrent, ParkedCurrent, Fresh, Abstract!RangeOf
  <1>5. AnswersCurrent'
    <2>1. \A a \in answers' : a[1] <= revision
      BY <1>1, <1>2 DEF IInv, AnswersCurrent
    <2>2. \A q \in parked : <<q.base, "Stable">> \in answers' =>
                               q.transition \in durable'
      <3>1. <<p.base, "Stable">> \in answers' =>
               <<p.base, "Stable">> \in answers \/ result = "Stable"
        BY <1>1
      <3>2. <<p.base, "Stable">> \in answers => p.transition \in durable'
        BY <1>1 DEF IInv, AnswersCurrent
      <3> QED
        BY <1>1, <1>2, <3>1, <3>2
    <2>3. parked' # {}
      BY <1>1
    <2> QED
      BY <1>1, <2>1, <2>2, <2>3 DEF AnswersCurrent
  <1>6. HistoryPlanned' /\ PlannedOnPublished'
    BY <1>1 DEF IInv, HistoryPlanned, PlannedOnPublished
  <1>7. Abstract!Persist(p.transition)
        \/ UNCHANGED <<stability, history, durable>>
    BY <1>1 DEF Abstract!Persist
  <1> QED
    BY <1>3, <1>4, <1>5, <1>6, <1>7 DEF IInv

\* Every step keeps the invariant and is a step of the serial execution, or
\* leaves what it shows as it was.
LEMMA NextStep ==
  ASSUME IInv, [Next]_vars
  PROVE  IInv' /\ [Abstract!Next]_<<stability, history, durable>>
  <1>1. CASE PlanInput
    BY <1>1, PlanInputStep DEF PlanInput
  <1>2. ASSUME NEW p \in plans, PublishIllegal(p) \/ PublishRefused(p)
        PROVE  IInv' /\ UNCHANGED <<stability, history, durable>>
    <2>1. fault' \in BOOLEAN
      BY <1>2, Zenon DEF PublishIllegal, PublishRefused
    <2>2. /\ revision' = revision + 1 /\ parked' \subseteq parked /\ fault'
          /\ UNCHANGED <<stability, plans, planned, history, on, answers,
                         durable>>
      BY <1>2 DEF PublishIllegal, PublishRefused
    <2> QED
      BY <2>1, <2>2, BumpStep
  <1>3. ASSUME NEW p \in plans, Install(p)
        PROVE  IInv' /\ [Abstract!Next]_<<stability, history, durable>>
    <2>1. CASE p.transition = NoTransition
      <3>1. p.faults \in BOOLEAN
        BY DEF IInv, TypeOK, Plan
      <3>2. /\ revision' = revision + 1 /\ parked' = {} /\ fault' = p.faults
            /\ UNCHANGED <<stability, plans, planned, history, on, answers,
                           durable>>
        BY <1>3, <2>1 DEF Install
      <3> QED
        BY <3>1, <3>2, BumpStep
    <2>2. CASE p.transition # NoTransition
      <3>1. p.transition \in Transition
        BY <2>2 DEF IInv, TypeOK, Plan
      <3> QED
        BY <1>3, <2>2, <3>1, InstallStep DEF Abstract!Next
    <2> QED
      BY <2>1, <2>2
  <1>4. ASSUME NEW p \in plans, Park(p)
        PROVE  IInv' /\ UNCHANGED <<stability, history, durable>>
    BY <1>4, ParkStep DEF Park
  <1>5. ASSUME NEW p \in parked, NEW result \in Result, Answer(p, result)
        PROVE  IInv' /\ [Abstract!Next]_<<stability, history, durable>>
    <2>1. p.transition \in Transition
      BY DEF IInv, TypeOK, Parked
    <2> QED
      BY <1>5, <2>1, AnswerStep DEF Abstract!Next
  <1>6. ASSUME NEW a \in answers, PlanConfirmation(a[1], a[2])
        PROVE  IInv' /\ UNCHANGED <<stability, history, durable>>
    BY <1>6, ConfirmStep DEF PlanConfirmation
  <1>7. CASE UNCHANGED vars
    <2>1. IInv'
      BY <1>7 DEF vars, IInv, TypeOK, PlansCurrent, ParkedCurrent,
                  AnswersCurrent, HistoryPlanned, PlannedOnPublished, Fresh,
                  Abstract!RangeOf
    <2> QED
      BY <1>7, <2>1 DEF vars
  <1> QED
    BY <1>1, <1>2, <1>3, <1>4, <1>5, <1>6, <1>7 DEF Next

-----------------------------------------------------------------------------

\* The types of the pipeline's state: at most the planned transitions are
\* held, parked, installed and durable.
THEOREM PipelineTypes == Spec => []TypeOK
  <1>1. IInv => TypeOK
    BY DEF IInv
  <1>2. IInv /\ [Next]_vars => IInv'
    BY NextStep
  <1> QED
    BY InitIInv, <1>1, <1>2, PTL DEF Spec

\* publish installs a transition only on the state plan computed it on: the
\* revision check makes every late, repeated or outdated plan a refusal.
THEOREM NoLostUpdate == Spec => []PlannedOnPublished
  <1>1. IInv => PlannedOnPublished
    BY DEF IInv
  <1>2. IInv /\ [Next]_vars => IInv'
    BY NextStep
  <1> QED
    BY InitIInv, <1>1, <1>2, PTL DEF Spec

\* plan, publish and confirm implement the serial execution: the effects of a
\* transition appear at most once, and behind its durable state.
THEOREM PipelineImplementsSerial == Spec => ImplementsSerial
  <1>1. Init => Abstract!Init
    BY DEF Init, Abstract!Init, Stability, Abstract!Stability
  <1>2. IInv /\ [Next]_vars
        => IInv' /\ [Abstract!Next]_<<stability, history, durable>>
    BY NextStep
  <1> QED
    BY InitIInv, <1>1, <1>2, PTL DEF Spec, ImplementsSerial, Abstract!Spec
=============================================================================
