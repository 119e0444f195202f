------------------------------- MODULE MCCrud -------------------------------
(***************************************************************************)
(* Instances of Crud for TLC.                                              *)
(***************************************************************************)
EXTENDS Crud, TLC

\* The kinds that the manifests of the recipes have and that CRUD treats
\* differently: with a cluster IP, with a resourceVersion (all of them),
\* without one, and left alone.
RecipeKinds ==
    {"Service", "Route", "ImageStream", "SecurityContextConstraints",
     "ServiceMonitor", "PrometheusRule", "CSIDriver",
     "DaemonSet", "ServiceAccount", "BuildConfig"}

=============================================================================
