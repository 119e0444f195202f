-------------------------- MODULE CreateFromYAML --------------------------
(***************************************************************************)
(* createFromYAML on one manifest, pass after pass: each document that the *)
(* scanner splits off (YamlScanner) goes through beforeCRUDhooks (Hooks)   *)
(* and to CRUD before the next one is read.  Every error and every exit    *)
(* end the pass in the middle of the manifest.  (The BuildConfig that ends *)
(* it without an error is in HardwareStates.)                              *)
(***************************************************************************)
EXTENDS YamlScanner

CONSTANTS Manifests, Registered, MaxEditions

VARIABLES secret, edition, obj, containers, hook

hookVars == <<secret, edition, obj, containers, hook>>

H == INSTANCE Hooks WITH pc <- hook

ASSUME ManifestsAssumption ==
    /\ Manifests \subseteq H!Documents
    /\ MaxEditions \in Nat \ {0}

LoopInit == Init /\ H!Init

Read == Scan /\ UNCHANGED hookVars

Unmarshal == CreateObject /\ H!NextDocument

Hook == pc = "object" /\ H!beforeCRUDhooks /\ UNCHANGED vars

Apply == ApplyObject /\ H!CRUD

ApplyFails == pc = "object" /\ H!CRUDFails /\ UNCHANGED vars

\* The work queue, or the Deployment, starts the next pass.
NextPass ==
    /\ \/ pc \in {"end", "error", "exit"} /\ UNCHANGED hookVars
       \/ H!Again
    /\ Rescan

LoopNext ==
    \/ Read \/ Unmarshal \/ Hook \/ Apply \/ ApplyFails \/ NextPass
    \/ H!SecretChanges /\ UNCHANGED vars

LoopSpec == LoopInit /\ [][LoopNext]_<<vars, hookVars>>

-----------------------------------------------------------------------------
\* The variables of Hooks have their types, and a local copy is one of the
\* object at hand.
HooksTypeOK == H!TypeOK

HooksCopyInv == H!CopyInv

(***************************************************************************)
(* "Callbacks before CRUD will update the manifests" (resources.go:378): a *)
(* Pod or DaemonSet with the annotation proxy (callbacks.go:29) reaches    *)
(* CRUD with the proxy in the environment of its first container.          *)
(***************************************************************************)
ProxyInjected ==
    hook = "crud" /\ obj.kind # "ConfigMap" /\ obj.proxy =>
      "PROXY" \in obj.containers[1]

=============================================================================
