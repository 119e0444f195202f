---------------------------- MODULE MCAfterCRUD ----------------------------
(***************************************************************************)
(* Instances of AfterCRUD for TLC.                                         *)
(***************************************************************************)
EXTENDS AfterCRUD

CONSTANTS object, b1, b2, p1, p2

=============================================================================
