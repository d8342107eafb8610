------------------------------ MODULE Pipeline -------------------------------
(***************************************************************************)
(* The plan/publish/confirm pipeline of src/replica/mod.rs.  The host      *)
(* plans an input, publishes the plan, persists what it is asked to, and   *)
(* confirms it; it may hold any number of plans, publish one late or twice *)
(* (a PlannedTransition is Clone) and repeat or delay a confirmation.      *)
(*                                                                         *)
(* Abstractions.                                                           *)
(*  - A transition is its identity and the state it was planned on; the    *)
(*    effects of a transition are named by the transition.                 *)
(*  - Whether the gate or the journal refuses a candidate is a choice made *)
(*    when the code asks it.                                               *)
(*  - A plan is computed from a journal view consistent with the published *)
(*    state.                                                               *)
(***************************************************************************)
EXTENDS Integers, Sequences

CONSTANT MaxPlanned     \* bound: transitions planned

ASSUME PipelineAssumption == MaxPlanned \in Nat

VARIABLES
    stability,      \* the durability the host declared at construction
    revision,       \* Progress.revision of the published state
    fault,          \* Progress.fault is set
    parked,         \* the transition awaiting its confirmation, none or one
    plans,          \* the PlannedTransitions the host holds
    planned,        \* how many transitions were planned
    history,        \* the transitions installed, with their effects released
    on,             \* for each of them, the transitions it was planned after
    answers,        \* the host's answers, pairs <<revision, result>>
    durable         \* the transitions the host made durable

vars == <<stability, revision, fault, parked, plans, planned, history, on,
          answers, durable>>

Transition == 1 .. MaxPlanned
Stability == {"Volatile", "Deferred", "Forced", "ExternalTransaction"}
Volatile == stability = "Volatile"
Result == {"Stable", "Failed", "Indeterminate"}

\* A completion carries the parked transition, or none when persistence
\* failed: then it only moves the revision, or sets the fault.
NoTransition == 0
Plan == [base : Nat, transition : {NoTransition} \cup Transition,
         after : Seq(Transition), completion : BOOLEAN, faults : BOOLEAN]
Parked == [base : Nat, transition : Transition, after : Seq(Transition)]

Init ==
    /\ stability \in Stability
    /\ revision = 0 /\ fault = FALSE /\ parked = {}
    /\ plans = {} /\ planned = 0
    /\ history = <<>> /\ on = <<>>
    /\ answers = {} /\ durable = {}

-----------------------------------------------------------------------------
(***************************************************************************)
(* plan.                                                                   *)
(***************************************************************************)

\* An ordinary input: refused on a faulted node and while one is parked.
PlanInput ==
    /\ ~fault
    /\ parked = {}
    /\ planned < MaxPlanned
    /\ planned' = planned + 1
    /\ plans' = plans \cup
           {[base |-> revision, transition |-> planned + 1, after |-> history,
             completion |-> FALSE, faults |-> FALSE]}
    /\ UNCHANGED <<stability, revision, fault, parked, history, on, answers,
                   durable>>

\* plan_confirmation: the outcome the host reported for revision rev.
CompletionOfAny(p, result) ==
    [base |-> revision, transition |-> p.transition, after |-> p.after,
     completion |-> TRUE, faults |-> result = "Indeterminate"]
Completion(p, result) ==
    [base |-> revision,
     transition |-> IF result = "Stable" THEN p.transition ELSE NoTransition,
     after |-> p.after,
     completion |-> TRUE,
     faults |-> result = "Indeterminate"]
OutstandingNext(p, rev) == p.base + 1 = rev
Outstanding(p, rev) == p.base = rev
PlanConfirmation(rev, result) ==
    /\ ~fault
    /\ \E p \in parked :
          /\ Outstanding(p, rev)
          /\ plans' = plans \cup {Completion(p, result)}
    /\ UNCHANGED <<stability, revision, fault, parked, planned, history, on,
                   answers, durable>>

-----------------------------------------------------------------------------
(***************************************************************************)
(* publish.                                                                *)
(***************************************************************************)

\* A plan is publishable on the revision it was computed against.
CurrentEver(p) == TRUE
Current(p) == p.base = revision

\* A declared fault, or a candidate the legality gate refuses: the candidate
\* is discarded and the node faults; a parked transition stays.
PublishIllegal(p) ==
    /\ ~fault
    /\ Current(p)
    /\ fault' = TRUE
    /\ revision' = revision + 1
    /\ UNCHANGED <<stability, parked, plans, planned, history, on, answers,
                   durable>>

\* The journal refuses the mutation after parked was cleared.
PublishRefused(p) ==
    /\ ~fault
    /\ Current(p)
    /\ p.completion \/ Volatile
    /\ parked' = {}
    /\ fault' = TRUE
    /\ revision' = revision + 1
    /\ UNCHANGED <<stability, plans, planned, history, on, answers, durable>>

\* Install: the candidate is published and the effects are released.
Install(p) ==
    /\ ~fault
    /\ Current(p)
    /\ p.completion \/ Volatile
    /\ parked' = {}
    /\ revision' = revision + 1
    /\ fault' = p.faults
    /\ IF p.transition = NoTransition
       THEN UNCHANGED <<history, on>>
       ELSE /\ history' = Append(history, p.transition)
            /\ on' = Append(on, p.after)
    /\ UNCHANGED <<stability, plans, planned, answers, durable>>

\* Park: only the Persist effect, for revision p.base, is released.
Park(p) ==
    /\ ~fault
    /\ Current(p)
    /\ ~p.completion /\ ~Volatile
    /\ parked = {}
    /\ parked' = {[base |-> p.base, transition |-> p.transition,
                   after |-> p.after]}
    /\ UNCHANGED <<stability, revision, fault, plans, planned, history, on,
                   answers, durable>>

-----------------------------------------------------------------------------
(***************************************************************************)
(* The host: it answers a Persist effect once, and the answer may reach    *)
(* plan any number of times.                                               *)
(***************************************************************************)

Answered(rev) == \E result \in Result : <<rev, result>> \in answers

Answer(p, result) ==
    /\ ~Answered(p.base)
    /\ answers' = answers \cup {<<p.base, result>>}
    /\ \/ result # "Failed" /\ durable' = durable \cup {p.transition}
       \/ result # "Stable" /\ UNCHANGED durable
    /\ UNCHANGED <<stability, revision, fault, parked, plans, planned, history,
                   on>>

Publish(p) == PublishIllegal(p) \/ PublishRefused(p) \/ Install(p) \/ Park(p)
Confirm == \E a \in answers : PlanConfirmation(a[1], a[2])

Next ==
    \/ PlanInput
    \/ \E p \in plans : \/ PublishIllegal(p) \/ PublishRefused(p)
                        \/ Install(p) \/ Park(p)
    \/ \E p \in parked, result \in Result : Answer(p, result)
    \/ \E a \in answers : PlanConfirmation(a[1], a[2])

Spec == Init /\ [][Next]_vars

\* The host answers every Persist, feeds the answer in, and publishes the
\* completion it plans.
FairSpec ==
    /\ Spec
    /\ WF_vars(\E p \in parked, result \in Result : Answer(p, result))
    /\ WF_vars(Confirm)
    /\ WF_vars(\E p \in plans : p.completion /\ Publish(p))

-----------------------------------------------------------------------------
(***************************************************************************)
(* Properties.                                                             *)
(***************************************************************************)

\* The slots and lists of the pipeline hold what publish and plan put there.
TypeOK ==
    /\ stability \in Stability
    /\ revision \in Nat
    /\ fault \in BOOLEAN
    /\ parked \in SUBSET Parked
    /\ plans \in SUBSET Plan
    /\ planned \in 0 .. MaxPlanned
    /\ history \in Seq(Transition)
    /\ on \in Seq(Seq(Transition))
    /\ answers \in SUBSET (Nat \X Result)
    /\ durable \in SUBSET Transition

\* A transition is installed on exactly the state it was planned on, however
\* late its plan or its confirmation was used: no lost update.
PlannedOnPublished ==
    /\ Len(on) = Len(history)
    /\ \A i \in 1 .. Len(history) : on[i] = SubSeq(history, 1, i - 1)

\* The pipeline implements the serial execution it promises: effects appear
\* once per transition, and behind a durable state unless the host declared
\* none.
Abstract == INSTANCE Serial
ImplementsSerial == Abstract!Spec

\* A parked transition does not block the node for ever: once the host has
\* answered, it is installed, dropped, or the node has faulted.
ParkedResolves == (parked # {}) ~> (parked = {} \/ fault)
=============================================================================
