---------------------------- MODULE MCReconciler ----------------------------
(***************************************************************************)
(* Instances of Reconciler for TLC, after the recipes of the repository:   *)
(* simple-kmod depends on driver-container-base with an imageReference.    *)
(***************************************************************************)
EXTENDS Reconciler

CONSTANTS base, kmod, gpu

\* kmod and gpu need base, gpu without an imageReference.
MCDependsOn == [s \in Names |-> IF s = base THEN << >> ELSE << base >>]
MCImageReference == {<<kmod, base>>}

\* spec.namespace as in the recipes.
OwnNamespace == [s \in Names |-> s]

\* Only base says where it wants to be.
DefaultNamespace == [s \in Names |-> IF s = base THEN base ELSE ""]

=============================================================================
