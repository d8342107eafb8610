------------------------------- MODULE Serial --------------------------------
(***************************************************************************)
(* What the publication pipeline promises its host (src/effects.rs, the    *)
(* publication order; src/replica/mod.rs, plan and publish): transitions   *)
(* take effect one at a time, each on the state the one before it left,    *)
(* each at most once, and the effects of a transition appear only after    *)
(* the state that supports them is durable.                                *)
(***************************************************************************)
EXTENDS Integers, Sequences

CONSTANT Transition     \* the transitions an execution may plan

VARIABLES
    stability,      \* the durability the host declared
    history,        \* the transitions that took effect, in order
    durable         \* the transitions the host made durable

RangeOf(s) == {s[i] : i \in 1 .. Len(s)}

Stability == {"Volatile", "Deferred", "Forced", "ExternalTransaction"}

Init == stability \in Stability /\ history = <<>> /\ durable = {}

Persist(t) ==
    /\ durable' = durable \cup {t}
    /\ UNCHANGED <<stability, history>>

TakeEffect(t) ==
    /\ t \notin RangeOf(history)
    /\ stability = "Volatile" \/ t \in durable
    /\ history' = Append(history, t)
    /\ UNCHANGED <<stability, durable>>

Next == \E t \in Transition : Persist(t) \/ TakeEffect(t)

Spec == Init /\ [][Next]_<<stability, history, durable>>
=============================================================================
