------------------------- MODULE MCDriverContainer -------------------------
(***************************************************************************)
(* Instances of DriverContainer for TLC.                                   *)
(***************************************************************************)
EXTENDS DriverContainer, TLC

CONSTANTS a, b, n1, n2

OneResource  == {a}
TwoResources == {a, b}

\* nvidia-gpu and simple-kmod have vendors of their own.
MCVendor == [s \in SpecialResources |-> IF s = a THEN "va" ELSE "vb"]

\* The default selector, and one of its own for each SpecialResource.
AllNodes == [s \in SpecialResources |-> Nodes]
OwnNode  == [s \in SpecialResources |-> IF s = a THEN {n1} ELSE {n2}]

=============================================================================
