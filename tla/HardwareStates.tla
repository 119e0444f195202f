--------------------------- MODULE HardwareStates ---------------------------
(***************************************************************************)
(* The states of one SpecialResource: ReconcileHardwareStates takes the    *)
(* manifests in the order of their names and createFromYAML the documents  *)
(* of each, creates the object, and waits for it before it goes on.  The   *)
(* pass runs against the controllers that bring the objects up, and users  *)
(* who break and delete them.  A DaemonSet with a state labels the nodes,  *)
(* and the DaemonSets of later states run on labelled nodes only.          *)
(***************************************************************************)
EXTENDS Integers, Sequences

CONSTANTS
    Docs,           \* the documents of all manifests, in the order of the pass
    MaxUserOps,     \* bound: objects that users break or delete
    MaxFaults       \* bound: crashes, failed calls and logs without a match

StateNames == {"driver-container", "runtime-enablement",
               "device-plugin", "device-monitoring"}

\* A document: its manifest, its kind (Other has neither a wait function nor
\* a watch), the annotations state, wait and wait-for-logs, and the state
\* whose label the node affinity of its pods asks for.
DocType == [file : Nat, kind : {"BuildConfig", "DaemonSet", "Pod", "Other"},
            state : StateNames \cup {"none"}, wait : BOOLEAN, logs : BOOLEAN,
            needs : StateNames \cup {"none"}]

\* In the recipes only DaemonSets have a state.
ASSUME DocsAssumption ==
    /\ Docs \in Seq(DocType)
    /\ \A p \in 1..Len(Docs) :
          Docs[p].state # "none" => Docs[p].kind = "DaemonSet"

ASSUME BoundAssumption == MaxUserOps \in Nat /\ MaxFaults \in Nat

N == Len(Docs)
Positions == 1..N

VARIABLES
    \* The cluster
    objects,        \* documents whose object exists
    available,      \* available DaemonSets, Succeeded Pods, complete Builds
    started,        \* BuildConfigs that have a Build
    image,          \* the driver image is in the registry
    labels,         \* states whose ready label the nodes have
    status,         \* SpecialResource.Status.State
    \* The operator
    pc,             \* where the pass stands
    i,              \* the document it works on
    updateVendor,   \* runInfo.UpdateVendor is that of this recipe
    pending,        \* the work queue holds a request
    \* Observation and bounds
    applied,        \* documents that went through CRUD in this pass
    proven,         \* documents whose wait succeeded in this pass
    userOps, faults

clusterVars == <<objects, available, started, image>>
readyVars   == <<labels, status>>
passVars    == <<pc, i, updateVendor, applied, proven>>
boundVars   == <<userOps, faults>>
vars        == <<clusterVars, readyVars, passVars, pending, boundVars>>

Steps == {"down", "idle", "doc", "check", "wait", "logs", "label"}

Doc == Docs[i]

\* waitFor has a function for the kind.
HasWait(d) == d.wait /\ d.kind \in {"Pod", "DaemonSet", "BuildConfig"}

\* The controller watches the objects of these kinds that it owns.
Watched(p) == Docs[p].kind \in {"Pod", "DaemonSet"}

Init ==
    /\ objects = {} /\ available = {} /\ started = {}
    /\ image \in BOOLEAN
    /\ labels = {}
    /\ status = "none"
    /\ pc = "down"
    /\ i = 1
    /\ updateVendor = FALSE
    /\ pending = FALSE
    /\ applied = {} /\ proven = {}
    /\ userOps = 0 /\ faults = 0

(***************************************************************************)
(* The pass.                                                               *)
(***************************************************************************)
Advance(from, to) ==
    /\ pc = from
    /\ pc' = to
    /\ UNCHANGED <<i, applied>>

\* An error of createFromYAML ends the pass, which is requeued.
Requeue ==
    /\ pc' = "idle"
    /\ pending' = TRUE
    /\ UNCHANGED <<i, applied, proven>>

Restart ==
    /\ Advance("down", "idle")
    /\ pending' = TRUE
    /\ UNCHANGED <<updateVendor, proven, clusterVars, readyVars, boundVars>>

Resync ==
    /\ pc # "down"
    /\ ~pending
    /\ pending' = TRUE
    /\ UNCHANGED <<clusterVars, readyVars, passVars, boundVars>>

\* Mutant: the first document has the number 0.
StartPassZero ==
    /\ pc = "idle"
    /\ pending
    /\ pending' = FALSE
    /\ pc' = "doc"
    /\ i' = 0
    /\ applied' = {} /\ proven' = {}
    /\ UNCHANGED <<updateVendor, clusterVars, readyVars, boundVars>>

StartPass ==
    /\ pc = "idle"
    /\ pending
    /\ pending' = FALSE
    /\ pc' = "doc"
    /\ i' = 1
    /\ applied' = {} /\ proven' = {}
    /\ UNCHANGED <<updateVendor, clusterVars, readyVars, boundVars>>

EndPass ==
    /\ i = N + 1
    /\ Advance("doc", "idle")
    /\ UNCHANGED <<updateVendor, proven, pending, clusterVars, readyVars, boundVars>>

\* The manifest of p ends before q.
NextManifest(p, q) ==
    /\ q <= N => Docs[q].file # Docs[p].file
    /\ \A r \in p+1 .. q-1 : Docs[r].file = Docs[p].file

\* Mutant: a BuildConfig to be skipped ends the loop over the manifests.
SkipAll ==
    /\ pc = "doc"
    /\ i <= N
    /\ Doc.kind = "BuildConfig" /\ ~updateVendor
    /\ i' = N + 1
    /\ UNCHANGED <<pc, updateVendor, applied, proven, pending>>
    /\ UNCHANGED <<clusterVars, readyVars, boundVars>>

\* rebuildDriverContainer returns an error: createFromYAML returns nil.
SkipManifest ==
    /\ pc = "doc"
    /\ i <= N
    /\ Doc.kind = "BuildConfig" /\ ~updateVendor
    /\ \E q \in i+1 .. N+1 : NextManifest(i, q) /\ i' = q
    /\ UNCHANGED <<pc, updateVendor, applied, proven, pending>>
    /\ UNCHANGED <<clusterVars, readyVars, boundVars>>

\* CRUD; a new object of a watched kind is an event.
Crud ==
    /\ pc = "doc"
    /\ i <= N
    /\ Doc.kind = "BuildConfig" => updateVendor
    /\ pc' = "check"
    /\ objects' = objects \cup {i}
    /\ applied' = applied \cup {i}
    /\ pending' = (pending \/ (Watched(i) /\ i \notin objects))
    /\ UNCHANGED <<i, updateVendor, proven, available, started, image>>
    /\ UNCHANGED <<readyVars, boundVars>>

\* Only the state driver-container is checked for pods that cannot pull.
SkipCheck ==
    /\ Advance("check", "wait")
    /\ Doc.state # "driver-container" \/ i \in available
    /\ UNCHANGED <<updateVendor, proven, pending, clusterVars, readyVars, boundVars>>

\* Mutant: the pass is requeued without UpdateVendor.
CheckPodsNoVendor ==
    /\ pc = "check"
    /\ Doc.state = "driver-container"
    /\ i \in objects \ available
    /\ \/ ~image /\ Requeue
       \/ image /\ Advance("check", "wait") /\ UNCHANGED <<pending, proven>>
    /\ UNCHANGED <<updateVendor, clusterVars, readyVars, boundVars>>

\* The pods are there: they cannot pull, or they can.
CheckPods ==
    /\ pc = "check"
    /\ Doc.state = "driver-container"
    /\ i \in objects \ available
    /\ \/ ~image /\ updateVendor' = TRUE /\ Requeue
       \/ /\ image /\ updateVendor' = FALSE
          /\ Advance("check", "wait") /\ UNCHANGED <<pending, proven>>
    /\ UNCHANGED <<clusterVars, readyVars, boundVars>>

\* No pod yet, or none with a containerStatus.
NoPods ==
    /\ pc = "check"
    /\ Doc.state = "driver-container"
    /\ i \notin available
    /\ Requeue
    /\ UNCHANGED <<updateVendor, clusterVars, readyVars, boundVars>>

\* waitForResource returns nil: nothing to wait for, a BuildConfig without a
\* Build, or an object that the last poll found available.
NoBuild == Doc.kind = "BuildConfig" /\ i \in objects \ started

NothingToWaitFor ==
    /\ Advance("wait", "logs")
    /\ ~HasWait(Doc) \/ NoBuild
    /\ UNCHANGED <<updateVendor, proven, pending, clusterVars, readyVars, boundVars>>

Available ==
    /\ Advance("wait", "logs")
    /\ HasWait(Doc)
    /\ i \in available
    /\ proven' = proven \cup {i}
    /\ UNCHANGED <<updateVendor, pending, clusterVars, readyVars, boundVars>>

\* Mutant: the error of waitForResource is logged and the pass goes on.
TimeoutIgnored ==
    /\ Advance("wait", "logs")
    /\ HasWait(Doc) /\ ~NoBuild
    /\ i \notin available
    /\ UNCHANGED <<updateVendor, proven, pending, clusterVars, readyVars, boundVars>>

Timeout ==
    /\ pc = "wait"
    /\ HasWait(Doc) /\ ~NoBuild
    /\ i \notin available
    /\ Requeue
    /\ UNCHANGED <<updateVendor, clusterVars, readyVars, boundVars>>

\* waitForDaemonSetLogs.
LogsMatched ==
    /\ Advance("logs", "label")
    /\ UNCHANGED <<updateVendor, proven, pending, clusterVars, readyVars, boundVars>>

LogsNotMatched ==
    /\ pc = "logs"
    /\ Doc.logs
    /\ faults < MaxFaults /\ faults' = faults + 1
    /\ Requeue
    /\ UNCHANGED <<updateVendor, clusterVars, readyVars, userOps>>

NextDocument ==
    /\ pc = "label"
    /\ pc' = "doc"
    /\ i' = i + 1
    /\ UNCHANGED <<updateVendor, applied, proven, clusterVars, boundVars>>

NoLabel ==
    /\ NextDocument
    /\ Doc.state = "none"
    /\ UNCHANGED <<pending, readyVars>>

\* labelNodesAccordingToState and updateStatus, which only logs an error; a
\* status that changes is an event.
Label ==
    /\ NextDocument
    /\ Doc.state # "none"
    /\ labels' = labels \cup {Doc.state}
    /\ status' = Doc.state
    /\ pending' = (pending \/ status # Doc.state)

(***************************************************************************)
(* Calls that fail: an error of CRUD exits, any other one is requeued, but *)
(* for that of the status update.                                          *)
(***************************************************************************)
Fault == faults < MaxFaults /\ faults' = faults + 1

Crash ==
    /\ Fault
    /\ pc # "down"
    /\ pc' = "down"
    /\ updateVendor' = FALSE
    /\ pending' = FALSE
    /\ UNCHANGED <<i, applied, proven, clusterVars, readyVars, userOps>>

ApiError ==
    /\ Fault
    /\ pc \in {"check", "wait", "logs", "label"}
    /\ Requeue
    /\ UNCHANGED <<updateVendor, clusterVars, readyVars, userOps>>

\* checkForImagePullBackOff takes any error for a DaemonSet that does not
\* come up, and finds that its pods can pull.
PollError ==
    /\ Advance("check", "wait")
    /\ Fault
    /\ Doc.state = "driver-container"
    /\ i \in available
    /\ updateVendor' = FALSE
    /\ UNCHANGED <<proven, pending, clusterVars, readyVars, userOps>>

StatusError ==
    /\ pc = "label"
    /\ Fault
    /\ Doc.state # "none"
    /\ pc' = "doc"
    /\ i' = i + 1
    /\ labels' = labels \cup {Doc.state}
    /\ UNCHANGED <<status, updateVendor, applied, proven, pending, clusterVars, userOps>>

(***************************************************************************)
(* The rest of the cluster.  A change of a watched object is an event.     *)
(***************************************************************************)
Event(p) == pending' = (pending \/ (pc # "down" /\ Watched(p)))

BuildStarts(p) ==
    /\ Docs[p].kind = "BuildConfig"
    /\ p \in objects \ started
    /\ started' = started \cup {p}
    /\ UNCHANGED <<objects, available, image, readyVars, passVars, pending, boundVars>>

BuildCompletes(p) ==
    /\ p \in (started \cap objects) \ available
    /\ available' = available \cup {p}
    /\ image' = TRUE
    /\ UNCHANGED <<objects, started, readyVars, passVars, pending, boundVars>>

\* Pods need nodes with the label of an earlier state, those of the driver
\* an image.
ComesUp(p) ==
    /\ Watched(p)
    /\ p \in objects \ available
    /\ Docs[p].needs \in labels \cup {"none"}
    /\ Docs[p].state = "driver-container" => image
    /\ available' = available \cup {p}
    /\ Event(p)
    /\ UNCHANGED <<objects, started, image, readyVars, passVars, boundVars>>

\* A pod of a DaemonSet fails, or users delete an object.
Break(p) ==
    /\ userOps < MaxUserOps /\ userOps' = userOps + 1
    /\ Docs[p].kind = "DaemonSet"
    /\ p \in available
    /\ available' = available \ {p}
    /\ Event(p)
    /\ UNCHANGED <<objects, started, image, readyVars, passVars, faults>>

Delete(p) ==
    /\ userOps < MaxUserOps /\ userOps' = userOps + 1
    /\ p \in objects
    /\ objects' = objects \ {p}
    /\ available' = available \ {p}
    /\ started' = started \ {p}
    /\ Event(p)
    /\ UNCHANGED <<image, readyVars, passVars, faults>>

Pass ==
    \/ StartPass \/ EndPass \/ SkipManifest \/ Crud
    \/ SkipCheck \/ CheckPods \/ NoPods
    \/ NothingToWaitFor \/ Available \/ Timeout
    \/ LogsMatched \/ LogsNotMatched \/ NoLabel \/ Label

Failure == Crash \/ ApiError \/ PollError \/ StatusError

Environment ==
    \E p \in Positions :
        \/ BuildStarts(p) \/ BuildCompletes(p) \/ ComesUp(p)
        \/ Break(p) \/ Delete(p)

Next == Restart \/ Resync \/ Pass \/ Failure \/ Environment

Spec == Init /\ [][Next]_vars

(***************************************************************************)
(* Fairness, as in DriverContainer.  NoPods and CheckPods stand for the    *)
(* answer of the kubelet: pods that exist get a containerStatus, so that   *)
(* a check that is made again and again finds one.  Nothing is assumed of  *)
(* the resync.                                                             *)
(***************************************************************************)
Fairness ==
    /\ WF_vars(Restart)
    /\ WF_vars(Pass)
    /\ SF_vars(CheckPods)
    /\ \A p \in Positions :
          /\ WF_vars(BuildStarts(p))
          /\ WF_vars(BuildCompletes(p))
          /\ WF_vars(ComesUp(p))

FairSpec == Spec /\ Fairness

(***************************************************************************)
(* Properties.                                                             *)
(***************************************************************************)

\* Every variable has its type, and a document is worked on only if there is
\* one.
TypeOK ==
    /\ objects \subseteq Positions
    /\ available \subseteq Positions
    /\ started \subseteq Positions
    /\ image \in BOOLEAN
    /\ labels \subseteq StateNames
    /\ status \in StateNames \cup {"none"}
    /\ pc \in Steps
    /\ i \in 1 .. N+1
    /\ updateVendor \in BOOLEAN
    /\ pending \in BOOLEAN
    /\ applied \subseteq Positions
    /\ proven \subseteq Positions
    /\ userOps \in Nat /\ faults \in Nat
    /\ pc \in {"check", "wait", "logs", "label"} => i \in Positions

MustValidate == {p \in Positions : HasWait(Docs[p]) /\ Docs[p].kind # "BuildConfig"}
Optional     == {p \in Positions : Docs[p].kind = "BuildConfig"}

\* The recipes: a BuildConfig is the last document of its manifest, and a
\* state belongs to one DaemonSet, which is waited for.
WellFormed ==
    /\ \A p \in Positions :
          /\ p < N /\ Docs[p].kind = "BuildConfig" => Docs[p+1].file # Docs[p].file
          /\ Docs[p].state # "none" => Docs[p].wait
    /\ \A p, q \in Positions :
          Docs[p].state = Docs[q].state /\ Docs[p].state # "none" => p = q

R == INSTANCE Rollout WITH stage <- i - 1, healthy <- available,
                           ready <- {p \in Positions : Docs[p].state \in labels}

\* The pass over the manifests is the state machine the README promises: no
\* sequence of skips, timeouts, dropped errors, restarts and deleted objects
\* leads past a document that is waited for before it was seen available in
\* this very pass, or to the label of its state.
Validated == R!Spec

\* A pass that gets to its end has applied every document but the
\* BuildConfigs it was to skip: "If err == nil, build a new container, if
\* err != nil skip it".
AllApplied ==
    pc = "doc" /\ i = N + 1 =>
        \A p \in Positions : p \in applied \/ Docs[p].kind = "BuildConfig"

\* The inductive strengthening of Validated and AllApplied, for WellFormed
\* recipes.
PassInv ==
    /\ \A p \in Positions : p < i => p \in applied \/ Docs[p].kind = "BuildConfig"
    /\ pc \in {"check", "wait", "logs", "label"} => i \in applied
    /\ pc \in {"logs", "label"} /\ i \in MustValidate => i \in proven

\* Once users leave the objects alone, every object is there and stays, and
\* every DaemonSet and Pod is available, with its label: a driver that cannot
\* be pulled is built, a DaemonSet that waits for the label of an earlier
\* state gets it, and a deleted object comes back.  That takes another pass,
\* for which an object that is not watched depends on the resync.
RollsOut ==
    []<>pending =>
    <>[](\A p \in Positions :
            /\ Docs[p].kind # "BuildConfig" => p \in objects
            /\ Watched(p) => p \in available
            /\ Docs[p].state \in labels \cup {"none"})

=============================================================================
