-------------------------- MODULE MCHardwareStates --------------------------
(***************************************************************************)
(* Instances of HardwareStates for TLC, after the recipes.                 *)
(***************************************************************************)
EXTENDS HardwareStates, TLC

Document(file, kind, state, wait, logs, needs) ==
    [file |-> file, kind |-> kind, state |-> state, wait |-> wait,
     logs |-> logs, needs |-> needs]

Other(file) == Document(file, "Other", "none", FALSE, FALSE, "none")
Build(file) == Document(file, "BuildConfig", "none", TRUE, FALSE, "none")

\* A DaemonSet with a state, and the state whose label its pods ask for.
State(file, state, needs) == Document(file, "DaemonSet", state, TRUE, FALSE, needs)

\* Every kind: the Pod of driver-container-base, which builds and is waited
\* for; simple-kmod with its ImageStream, BuildConfig and driver DaemonSet on
\* top of it; and, as the feature discovery of nvidia-gpu, a DaemonSet without
\* a state that runs where the driver is ready.
EveryKind ==
    << Other(0), Document(0, "Pod", "none", TRUE, TRUE, "none"),
       Other(500), Build(500), State(1000, "driver-container", "none"),
       Document(8000, "DaemonSet", "none", TRUE, FALSE, "driver-container") >>

=============================================================================
