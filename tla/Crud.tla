-------------------------------- MODULE Crud --------------------------------
(***************************************************************************)
(* CRUD of one object of a manifest, in every pass, against the API server *)
(* and others who write the same object.  CRUD reads the object and then   *)
(* creates it, leaves it, or replaces it by the manifest, for some kinds   *)
(* with the resourceVersion it has read.  Any error of a call exits the    *)
(* process: the API server refuses what was sent, or the call fails by     *)
(* itself.  The kind SpecialResource is in module Reconciler.              *)
(***************************************************************************)
EXTENDS Integers

CONSTANTS
    Kinds,      \* kinds of object that manifests have
    Specs,      \* contents, of a manifest or from another writer
    IPs,        \* cluster IPs
    MaxOps      \* bound: writes of others, failures and new renderings

ASSUME CrudAssumption ==
    /\ "SpecialResource" \notin Kinds
    /\ Specs # {} /\ IPs # {}
    /\ 0 \notin IPs
    /\ MaxOps \in Nat

\* Mutant: Routes are left out.
NoRoute(kind) ==
    kind \in {"SecurityContextConstraints", "Service", "ServiceMonitor",
              "BuildConfig", "ImageStream", "PrometheusRule", "CSIDriver"}

needToUpdateResourceVersion(kind) ==
    kind \in {"SecurityContextConstraints", "Service", "ServiceMonitor", "Route",
              "BuildConfig", "ImageStream", "PrometheusRule", "CSIDriver"}

\* Found objects of these kinds are left as they are.
NotUpdated(kind) == kind \in {"ServiceAccount", "Pod", "BuildConfig"}

\* An update needs a resourceVersion where the API server says so: custom
\* resources, the kinds of OpenShift's own API groups, and a few others.
CustomResources == {"ServiceMonitor", "PrometheusRule", "SpecialResource"}
OpenShiftKinds  == {"Route", "ImageStream", "BuildConfig", "SecurityContextConstraints"}
VersionRequired(kind) ==
    kind \in CustomResources \cup OpenShiftKinds \cup {"Service", "CSIDriver"}

VARIABLES
    kind,       \* the kind of the object
    manifest,   \* its content, as rendered for this pass
    object,     \* the object in the cluster, or Absent
    version,    \* the last resourceVersion the API server gave out
    pc,         \* where CRUD stands
    found,      \* what Get returned
    raced,      \* someone else wrote the object since
    failed,     \* a call failed by itself, or the process was ended
    ops

vars == <<kind, manifest, object, version, pc, found, raced, failed, ops>>

\* Nothing: no object, no resourceVersion, no cluster IP.
None   == 0
Absent == [version |-> None, spec |-> None, ip |-> None]

Steps == {"get", "create", "update", "exited"}

Init ==
    /\ kind \in Kinds
    /\ manifest \in Specs
    /\ object = Absent
    /\ version = 0
    /\ pc = "get"
    /\ found = Absent
    /\ raced = FALSE
    /\ failed = FALSE
    /\ ops = 0

(***************************************************************************)
(* The API server.  Every change has a new resourceVersion; an update that *)
(* changes nothing has not.  A Service gets an IP that stays.              *)
(***************************************************************************)
Write(spec, ip) ==
    /\ version' = version + 1
    /\ object' = [version |-> version + 1, spec |-> spec, ip |-> ip]

CreateObject(spec) ==
    /\ object = Absent
    /\ IF kind = "Service" THEN \E ip \in IPs : Write(spec, ip)
                           ELSE Write(spec, None)

Accepts(req) ==
    /\ object # Absent
    /\ VersionRequired(kind) => req.version # None
    /\ req.version \in {None, object.version}
    /\ req.ip = object.ip

UpdateObject(req) ==
    /\ Accepts(req)
    /\ IF req.spec = object.spec THEN UNCHANGED <<object, version>>
                                 ELSE Write(req.spec, object.ip)

(***************************************************************************)
(* CRUD.                                                                   *)
(***************************************************************************)
\* Mutant: the resourceVersion is counted up for the update.
GetNextVersion ==
    /\ pc = "get"
    /\ found' = [object EXCEPT !.version = version + 1]
    /\ raced' = FALSE
    /\ pc' = IF object = Absent THEN "create"
             ELSE IF NotUpdated(kind) THEN "get" ELSE "update"
    /\ UNCHANGED <<kind, manifest, object, version, failed, ops>>

\* Mutant: what exists is left alone, of whatever kind.
GetOnly ==
    /\ pc = "get"
    /\ found' = object
    /\ raced' = FALSE
    /\ pc' = IF object = Absent THEN "create" ELSE "get"
    /\ UNCHANGED <<kind, manifest, object, version, failed, ops>>

Get ==
    /\ pc = "get"
    /\ found' = object
    /\ raced' = FALSE
    /\ pc' = IF object = Absent THEN "create"
             ELSE IF NotUpdated(kind) THEN "get" ELSE "update"
    /\ UNCHANGED <<kind, manifest, object, version, failed, ops>>

Create ==
    /\ pc = "create"
    /\ \/ CreateObject(manifest) /\ pc' = "get"
       \/ object # Absent /\ pc' = "exited" /\ UNCHANGED <<object, version>>
    /\ UNCHANGED <<kind, manifest, found, raced, failed, ops>>

\* Mutant: the resourceVersion is read again before the update.
ReadAgain(f) == [version |-> object.version, spec |-> manifest, ip |-> object.ip]

\* What is sent: the manifest, and what updateResourceVersion copies to it.
updateResourceVersion(f) ==
    [version |-> IF needToUpdateResourceVersion(kind) THEN f.version ELSE None,
     spec    |-> manifest,
     ip      |-> IF kind = "Service" THEN f.ip ELSE None]

Update ==
    /\ pc = "update"
    /\ LET req == updateResourceVersion(found)
       IN  \/ UpdateObject(req) /\ pc' = "get"
           \/ ~Accepts(req) /\ pc' = "exited" /\ UNCHANGED <<object, version>>
    /\ UNCHANGED <<kind, manifest, found, raced, failed, ops>>

\* The Deployment starts the process again, which starts a pass.
Restart ==
    /\ pc = "exited"
    /\ pc' = "get"
    /\ raced' = FALSE
    /\ failed' = FALSE
    /\ UNCHANGED <<kind, manifest, object, version, found, ops>>

(***************************************************************************)
(* What else happens.                                                      *)
(***************************************************************************)
Op == ops < MaxOps /\ ops' = ops + 1

\* A call fails by itself: it is forbidden, times out, or there is nobody to
\* answer.  CRUD returns the error and createFromYAML exits.
Fails ==
    /\ Op
    /\ pc' = "exited"
    /\ failed' = TRUE
    /\ UNCHANGED <<kind, manifest, found, raced>>

GetFails ==
    /\ pc = "get"
    /\ Fails
    /\ UNCHANGED <<object, version>>

\* The answer may be lost after the API server has done its part.
CreateFails ==
    /\ pc = "create"
    /\ Fails
    /\ CreateObject(manifest) \/ UNCHANGED <<object, version>>

UpdateFails ==
    /\ pc = "update"
    /\ Fails
    /\ UpdateObject(updateResourceVersion(found)) \/ UNCHANGED <<object, version>>

\* The process ends between two calls.
Crash ==
    /\ pc # "exited"
    /\ Fails
    /\ UNCHANGED <<object, version>>

\* The next pass renders the manifest for another kernel or cluster version.
Render ==
    /\ Op
    /\ pc = "get"
    /\ manifest' \in Specs
    /\ UNCHANGED <<kind, object, version, pc, found, raced, failed>>

Edit ==
    /\ Op
    /\ object # Absent
    /\ \E spec \in Specs \ {object.spec} : Write(spec, object.ip)
    /\ raced' = TRUE
    /\ UNCHANGED <<kind, manifest, pc, found, failed>>

CreateByOther ==
    /\ Op
    /\ \E spec \in Specs : CreateObject(spec)
    /\ raced' = TRUE
    /\ UNCHANGED <<kind, manifest, pc, found, failed>>

Delete ==
    /\ Op
    /\ object # Absent
    /\ object' = Absent
    /\ raced' = TRUE
    /\ UNCHANGED <<kind, manifest, version, pc, found, failed>>

Failures == GetFails \/ CreateFails \/ UpdateFails \/ Crash

Others == Render \/ Edit \/ CreateByOther \/ Delete

Next == Get \/ Create \/ Update \/ Restart \/ Failures \/ Others

Spec == Init /\ [][Next]_vars

\* Passes go on for ever, and the process is restarted.
FairSpec == Spec /\ WF_vars(Get \/ Create \/ Update \/ Restart)

(***************************************************************************)
(* Properties.                                                             *)
(***************************************************************************)
ObjectType == [version : Nat, spec : Specs \cup {None}, ip : IPs \cup {None}]

\* Every variable has its type, and no resourceVersion is given out twice.
TypeOK ==
    /\ kind \in Kinds
    /\ manifest \in Specs
    /\ object \in ObjectType /\ found \in ObjectType
    /\ version \in Nat
    /\ object.version <= version /\ found.version <= version
    /\ pc \in Steps
    /\ raced \in BOOLEAN
    /\ failed \in BOOLEAN
    /\ ops \in Nat

\* The API server refuses what CRUD sends only if someone else wrote the
\* object between its two calls: of an object that it has read and nobody
\* changed, the resourceVersion and the cluster IP it copies are all that is
\* needed, for every kind.  Every other exit is a call that failed by itself.
ExitNeedsCause == pc = "exited" => raced \/ failed

\* For the kinds whose updates need a resourceVersion, CRUD replaces the
\* object that it has read and no other, whatever was deleted, created again
\* or edited in the meantime, and whether the answer arrives or not.
NoLostUpdate ==
    [][(Update \/ UpdateFails) /\ object' # object /\ VersionRequired(kind)
          => object = found]_vars

\* When others leave it alone, the object comes to be as the manifest says,
\* and stays so; of a kind that is not updated it comes to exist.
EventuallyApplied ==
    <>[](object # Absent /\ (NotUpdated(kind) \/ object.spec = manifest))

(***************************************************************************)
(* The inductive strengthening of ExitNeedsCause and NoLostUpdate.         *)
(***************************************************************************)
CrudInv ==
    /\ pc = "create" /\ ~raced => object = Absent
    /\ pc = "update" => found # Absent /\ found.version # None
    /\ pc = "update" /\ ~raced => object = found
    /\ object # Absent => object.version # None
    /\ object.version # None /\ object.version = found.version => object = found
    /\ kind # "Service" => object.ip = None
    /\ ExitNeedsCause

=============================================================================
