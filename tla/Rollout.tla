------------------------------ MODULE Rollout ------------------------------
(***************************************************************************)
(* What the operator promises of the states of a SpecialResource: "a       *)
(* simple state machine, where each state has a validation step".  Stages  *)
(* are gone through in order; a stage that must be validated is left only  *)
(* after its object was seen healthy since the machine started over; and   *)
(* only such a stage is announced as ready.  The cluster may heal, break   *)
(* and lose objects at any time, and the machine may start over.           *)
(***************************************************************************)
EXTENDS Integers

CONSTANTS
    N,              \* the stages are 1..N
    MustValidate,   \* stages that have a validation step
    Optional        \* stages that may be passed without their object

Stages == 1..N

VARIABLES
    stage,      \* the last stage that was completed
    objects,    \* stages whose object exists
    healthy,    \* those whose object works
    applied,    \* stages applied since the machine started over
    proven,     \* stages validated since then
    ready       \* stages announced as ready

vars == <<stage, objects, healthy, applied, proven, ready>>

Init ==
    /\ stage = 0
    /\ objects = {} /\ healthy = {}
    /\ applied = {} /\ proven = {}
    /\ ready = {}

StartOver ==
    /\ stage' = 0
    /\ applied' = {} /\ proven' = {}
    /\ UNCHANGED <<objects, healthy, ready>>

Apply ==
    /\ stage < N
    /\ objects' = objects \cup {stage + 1}
    /\ applied' = applied \cup {stage + 1}
    /\ UNCHANGED <<stage, healthy, proven, ready>>

Prove ==
    /\ stage + 1 \in applied \cap healthy
    /\ proven' = proven \cup {stage + 1}
    /\ UNCHANGED <<stage, objects, healthy, applied, ready>>

Advance ==
    /\ stage < N
    /\ stage + 1 \in applied \cup Optional
    /\ stage + 1 \in MustValidate => stage + 1 \in proven
    /\ stage' = stage + 1
    /\ \/ UNCHANGED ready
       \/ stage + 1 \in proven /\ ready' = ready \cup {stage + 1}
    /\ UNCHANGED <<objects, healthy, applied, proven>>

Heal(p) ==
    /\ p \in objects
    /\ healthy' = healthy \cup {p}
    /\ UNCHANGED <<stage, objects, applied, proven, ready>>

Break(p) ==
    /\ healthy' = healthy \ {p}
    /\ UNCHANGED <<stage, objects, applied, proven, ready>>

Lose(p) ==
    /\ objects' = objects \ {p}
    /\ healthy' = healthy \ {p}
    /\ UNCHANGED <<stage, applied, proven, ready>>

Next ==
    \/ StartOver \/ Apply \/ Prove \/ Advance
    \/ \E p \in Stages : Heal(p) \/ Break(p) \/ Lose(p)

Spec == Init /\ [][Next]_vars

=============================================================================
