-------------------------- MODULE DriverContainer --------------------------
(***************************************************************************)
(* The roll-out of a driver-container: what one pass of the operator does  *)
(* with the manifests of a SpecialResource that ships a driver             *)
(* (0000-*buildconfig.yaml, 1000-*driver*.yaml), against the controllers   *)
(* that work on the same objects at the same time: the DaemonSet           *)
(* controller, the kubelets, the build controller, NFD and the             *)
(* administrators of the cluster.                                          *)
(*                                                                         *)
(* A pass is one sequential thread (MaxConcurrentReconciles: 1).  Each     *)
(* value of pc is a point where it calls the API server, so that the rest  *)
(* of the cluster moves between any two calls.  The package globals        *)
(* runInfo and node survive a pass and are lost when the process exits.    *)
(***************************************************************************)
EXTENDS Integers, FiniteSets

CONSTANTS
    SpecialResources,   \* the SpecialResources that ship a driver
    Vendors,            \* values of the driver-container-vendor annotation
    Vendor,             \* the annotation in the manifests of each of them
    HasBuildConfig,     \* those whose recipe has a BuildConfig
    WaitForLogs,        \* those whose DaemonSet has a wait-for-logs pattern
    Nodes,              \* worker nodes that may be in the cluster
    InitialNodes,       \* those that NFD has labelled before the start
    Selects,            \* the nodes the selector of each SpecialResource matches
    MaxKernel,          \* bound: kernel versions are 1..MaxKernel
    MaxFaults           \* bound: crashes, API errors and failed builds

\* Selects is spec.node.selector, or the worker label where there is none.
ASSUME NodesAssumption ==
    /\ IsFiniteSet(Nodes)
    /\ InitialNodes \subseteq Nodes
    /\ Selects \in [SpecialResources -> SUBSET Nodes]

\* rebuildDriverContainer compares the annotation with an UpdateVendor that
\* is "" until a pull has failed: an empty annotation would always match.
ASSUME VendorAssumption ==
    /\ Vendor \in [SpecialResources -> Vendors]
    /\ "" \notin Vendors

ASSUME RecipeAssumption ==
    /\ HasBuildConfig \subseteq SpecialResources
    /\ WaitForLogs \subseteq SpecialResources

ASSUME BoundAssumption == MaxKernel \in Nat \ {0} /\ MaxFaults \in Nat

VARIABLES
    \* The cluster
    members,        \* nodes in the cluster
    kernel,         \* their kernel-version label, Unlabelled before NFD ran
    labels,         \* nodes with the ready label of each SpecialResource
    images,         \* driver images in the registry: <<name, kernel>>
    buildConfig,    \* the kernel each BuildConfig was rendered for, or Absent
    builds,         \* phases of the Builds of each BuildConfig
    daemonSet,      \* the kernel each DaemonSet was rendered for, or Absent
    status,         \* the DaemonSet status: the nodes behind its counters
    pod,            \* the pod of each DaemonSet on each node
    srState,        \* SpecialResource.Status.State names the ready label
    \* The operator
    pc,             \* where the pass stands
    pending,        \* the work queue holds a request
    todo,           \* SpecialResources the pass has still to visit
    cur,            \* r.specialresource
    nodeList,       \* node.list.Items: the nodes as they were last listed
    nodeCount,      \* node.count
    kernelVersion,  \* runInfo.KernelVersion
    updateVendor,   \* runInfo.UpdateVendor
    toLabel,        \* items labelNodesAccordingToState has still to visit
    \* Observation and bounds
    pullFailed,     \* SpecialResources a pod of which could not pull
    listFailed,     \* SpecialResources whose nodes could not be listed to label
    emptyListed,    \* some list had no node
    faults          \* faults so far

objectVars  == <<labels, buildConfig, daemonSet, srState>>
clusterVars == <<members, kernel, images, builds, status, pod, pullFailed>>
memoryVars  == <<nodeList, nodeCount, kernelVersion, updateVendor>>
passVars    == <<pc, todo, cur, toLabel>>
observed    == <<listFailed, emptyListed, faults>>
vars        == <<objectVars, clusterVars, memoryVars, passVars, pending, observed>>

Absent     == -1
Unlabelled == 0              \* also the "" of a kernel version never read
Kernels    == 1..MaxKernel
Versions   == 0..MaxKernel

BuildPhases == {"running", "complete", "failed"}
PodPhases   == {"none", "pending", "creating", "backoff", "running"}
NoPod       == [image |-> Unlabelled, phase |-> "none"]
NoStatus    == [desired |-> {}, available |-> {}]

\* Mutant: node.count starts as the zero value of an int64.
UnsetCountZero == 0

\* node.count starts as 0xDEADBEEF, which is the length of no list.
UnsetCount == -1

Steps == {"down", "idle", "next", "cacheNodes", "runtime", "buildConfig",
          "waitForBuild", "daemonSet", "checkDaemonSet", "checkPods",
          "waitForDaemonSet", "waitForLogs", "listNodes", "labelNode"}

(***************************************************************************)
(* What the operator reads.                                                *)
(***************************************************************************)

\* A node object, with the fields that change: an item read earlier that
\* differs has an old resourceVersion.
NodeItem(n) == [name |-> n, kernel |-> kernel[n],
                ready |-> {s \in SpecialResources : n \in labels[s]}]

\* What r.List returns for the nodes that the selector of s matches.
NodeItems(s) == {NodeItem(n) : n \in members \cap Selects[s]}

\* A counter of a DaemonSet status with value 0 is left out of the JSON
\* (omitempty), so NestedInt64 does not find it.
Found(counter) == counter # 0

\* Mutant: a counter that is not found is read as 0.
DefaultedCounters(st) == Cardinality(st.available) = Cardinality(st.desired)

\* The DaemonSet is available: the last callback that was set decides.
waitForDaemonSetCallback(st) ==
    LET desired     == Cardinality(st.desired)
        available   == Cardinality(st.available)
        unavailable == Cardinality(st.desired \ st.available)
    IN  IF Found(available) THEN available = desired
        ELSE Found(unavailable) /\ unavailable = 0

\* Mutant: any failed pull rebuilds every driver-container.
RebuildAnyVendor(s) == s \in HasBuildConfig /\ updateVendor # ""

\* rebuildDriverContainer returns nil: the BuildConfig goes to CRUD.
rebuildDriverContainer(s) ==
    s \in HasBuildConfig /\ Vendor[s] = updateVendor

\* A pod with a containerStatus, and one that reports a failed pull.
HasContainerStatus(p) == p.phase \notin {"none", "pending"}
CannotPull(p)         == p.phase = "backoff"

Init ==
    /\ members = InitialNodes
    /\ kernel = [n \in Nodes |-> IF n \in InitialNodes THEN 1 ELSE Unlabelled]
    /\ labels = [s \in SpecialResources |-> {}]
    /\ images \in SUBSET (SpecialResources \X Kernels)
    /\ buildConfig = [s \in SpecialResources |-> Absent]
    /\ builds = [s \in SpecialResources |-> {}]
    /\ daemonSet = [s \in SpecialResources |-> Absent]
    /\ status = [s \in SpecialResources |-> NoStatus]
    /\ pod = [s \in SpecialResources |-> [n \in Nodes |-> NoPod]]
    /\ srState = [s \in SpecialResources |-> FALSE]
    /\ pc = "down"
    /\ pending = FALSE
    /\ todo = {}
    /\ cur \in SpecialResources
    /\ nodeList = {}
    /\ nodeCount = UnsetCount
    /\ kernelVersion = Unlabelled
    /\ updateVendor = ""
    /\ toLabel = {}
    /\ pullFailed = {} /\ listFailed = {}
    /\ emptyListed = FALSE
    /\ faults = 0

(***************************************************************************)
(* The pass.  Advance moves the thread on without touching its memory.     *)
(* Requeue is the return of {Requeue: true} after an error, Exit is        *)
(* os.Exit: the package globals are gone, the cluster is not.              *)
(***************************************************************************)
Advance(from, to) ==
    /\ pc = from
    /\ pc' = to
    /\ UNCHANGED <<todo, cur, toLabel>>

Requeue ==
    /\ pc' = "idle"
    /\ pending' = TRUE
    /\ todo' = {}
    /\ toLabel' = {}
    /\ UNCHANGED cur

Exit ==
    /\ pc' = "down"
    /\ pending' = FALSE
    /\ todo' = {}
    /\ toLabel' = {}
    /\ nodeList' = {}
    /\ nodeCount' = UnsetCount
    /\ kernelVersion' = Unlabelled
    /\ updateVendor' = ""
    /\ UNCHANGED <<cur, objectVars, clusterVars>>

\* The process starts; its informers deliver every SpecialResource.
Restart ==
    /\ Advance("down", "idle")
    /\ pending' = TRUE
    /\ UNCHANGED <<objectVars, clusterVars, memoryVars, observed>>

\* The informers deliver every SpecialResource again, every ten hours.
Resync ==
    /\ pc # "down"
    /\ pending' = TRUE
    /\ UNCHANGED <<objectVars, clusterVars, memoryVars, passVars, observed>>

StartPass ==
    /\ pc = "idle"
    /\ pending
    /\ pc' = "next"
    /\ pending' = FALSE
    /\ todo' = SpecialResources
    /\ UNCHANGED <<cur, toLabel, objectVars, clusterVars, memoryVars, observed>>

\* The items of the list come out of a map, in any order.
NextSpecialResource ==
    /\ pc = "next"
    /\ \E s \in todo :
          /\ cur' = s
          /\ todo' = todo \ {s}
    /\ pc' = "cacheNodes"
    /\ UNCHANGED <<toLabel, pending, objectVars, clusterVars, memoryVars, observed>>

EndPass ==
    /\ todo = {}
    /\ Advance("next", "idle")
    /\ UNCHANGED <<pending, objectVars, clusterVars, memoryVars, observed>>

\* The call of r.List in cacheNodes.
List ==
    /\ nodeList' = NodeItems(cur)
    /\ emptyListed' = (emptyListed \/ NodeItems(cur) = {})
    /\ UNCHANGED <<listFailed, faults>>

\* cacheNodes(r, false): no call when the list has node.count items.
CacheNodes ==
    /\ Advance("cacheNodes", "runtime")
    /\ IF Cardinality(nodeList) = nodeCount THEN UNCHANGED <<nodeList, observed>>
                                            ELSE List
    /\ UNCHANGED <<nodeCount, kernelVersion, updateVendor>>
    /\ UNCHANGED <<pending, objectVars, clusterVars>>

\* The kernel version of whichever node is the first of the list; the ""
\* of a list without nodes is no error.
GetRuntimeInformation ==
    /\ Advance("runtime", "buildConfig")
    /\ \/ nodeList = {} /\ kernelVersion' = Unlabelled
       \/ \E item \in nodeList :
             /\ item.kernel # Unlabelled
             /\ kernelVersion' = item.kernel
    /\ UNCHANGED <<nodeList, nodeCount, updateVendor>>
    /\ UNCHANGED <<pending, objectVars, clusterVars, observed>>

\* The first node has no NFD labels.
NoNFDLabel ==
    /\ pc = "runtime"
    /\ \E item \in nodeList : item.kernel = Unlabelled
    /\ Exit
    /\ UNCHANGED observed

\* createFromYAML for 0000-*buildconfig.yaml: CRUD creates the BuildConfig
\* and never updates one it finds.
CreateBuildConfig ==
    /\ rebuildDriverContainer(cur)
    /\ Advance("buildConfig", "waitForBuild")
    /\ buildConfig' = [buildConfig EXCEPT ![cur] =
                          IF @ = Absent THEN kernelVersion ELSE @]
    /\ UNCHANGED <<labels, daemonSet, srState>>
    /\ UNCHANGED <<pending, clusterVars, memoryVars, observed>>

SkipBuildConfig ==
    /\ ~rebuildDriverContainer(cur)
    /\ Advance("buildConfig", "daemonSet")
    /\ UNCHANGED <<pending, objectVars, clusterVars, memoryVars, observed>>

\* waitForBuild: every Build that is listed has to be Complete; a
\* BuildConfig with no Build yet is waited for no longer.
BuildComplete ==
    /\ builds[cur] \subseteq {"complete"}
    /\ Advance("waitForBuild", "daemonSet")
    /\ UNCHANGED <<pending, objectVars, clusterVars, memoryVars, observed>>

BuildTimeout ==
    /\ pc = "waitForBuild"
    /\ ~(builds[cur] \subseteq {"complete"})
    /\ Requeue
    /\ UNCHANGED <<objectVars, clusterVars, memoryVars, observed>>

\* CRUD of the DaemonSet.  The operator owns it: a change is an event.
ApplyDaemonSet ==
    /\ Advance("daemonSet", "checkDaemonSet")
    /\ daemonSet' = [daemonSet EXCEPT ![cur] = kernelVersion]
    /\ pending' = (pending \/ daemonSet[cur] # kernelVersion)
    /\ UNCHANGED <<labels, buildConfig, srState, clusterVars, memoryVars, observed>>

\* The poll that decides waitForDaemonSet, the first that finds the
\* DaemonSet available or the last before the timeout.  Each poll sets
\* node.count, and nothing reads it before the next pass.
PollDaemonSet ==
    /\ nodeCount' = Cardinality(status[cur].desired)
    /\ UNCHANGED <<nodeList, kernelVersion, updateVendor>>
    /\ UNCHANGED <<objectVars, clusterVars, observed>>

\* checkForImagePullBackOff, first the DaemonSet and then its pods.
CheckDaemonSet ==
    /\ Advance("checkDaemonSet", IF waitForDaemonSetCallback(status[cur])
                                 THEN "waitForDaemonSet" ELSE "checkPods")
    /\ PollDaemonSet
    /\ UNCHANGED pending

\* What the mutants of ImagePullBackOff leave as it is.
PullFails ==
    /\ pc = "checkPods"
    /\ \E n \in Nodes : CannotPull(pod[cur][n])
    /\ UNCHANGED <<nodeList, nodeCount, kernelVersion>>
    /\ UNCHANGED <<objectVars, clusterVars, observed>>

\* Mutant: UpdateVendor is set to the name of the SpecialResource.
ImagePullBackOffName == PullFails /\ Requeue /\ updateVendor' = cur

\* Mutant: UpdateVendor is set only when it is not.
ImagePullBackOffOnce ==
    /\ PullFails
    /\ Requeue
    /\ updateVendor' = IF updateVendor = "" THEN Vendor[cur] ELSE updateVendor

\* Mutant: the pass is requeued without UpdateVendor.
ImagePullBackOffNoVendor == PullFails /\ Requeue /\ UNCHANGED updateVendor

\* The first pod that has a containerStatus decides for all of them.
ImagePullBackOff ==
    /\ pc = "checkPods"
    /\ \E n \in Nodes : CannotPull(pod[cur][n])
    /\ updateVendor' = Vendor[cur]
    /\ Requeue
    /\ UNCHANGED <<nodeList, nodeCount, kernelVersion>>
    /\ UNCHANGED <<objectVars, clusterVars, observed>>

UnsetUpdateVendor ==
    /\ \E n \in Nodes : /\ HasContainerStatus(pod[cur][n])
                        /\ ~CannotPull(pod[cur][n])
    /\ Advance("checkPods", "waitForDaemonSet")
    /\ updateVendor' = ""
    /\ UNCHANGED <<nodeList, nodeCount, kernelVersion>>
    /\ UNCHANGED <<pending, objectVars, clusterVars, observed>>

\* "No Pods found, reconciling" or "Unexpected Phase of Pods".
NoPodStarted ==
    /\ pc = "checkPods"
    /\ \A n \in Nodes : ~HasContainerStatus(pod[cur][n])
    /\ Requeue
    /\ UNCHANGED <<objectVars, clusterVars, memoryVars, observed>>

\* waitForResource, for the annotation wait: "true".
DaemonSetAvailable ==
    /\ waitForDaemonSetCallback(status[cur])
    /\ Advance("waitForDaemonSet", "waitForLogs")
    /\ PollDaemonSet
    /\ UNCHANGED pending

\* Mutant: the timeout is dropped, and the pass goes on.
DaemonSetTimeoutDropped ==
    /\ ~waitForDaemonSetCallback(status[cur])
    /\ Advance("waitForDaemonSet", "waitForLogs")
    /\ PollDaemonSet
    /\ UNCHANGED pending

DaemonSetTimeout ==
    /\ pc = "waitForDaemonSet"
    /\ ~waitForDaemonSetCallback(status[cur])
    /\ Requeue
    /\ PollDaemonSet

\* waitForDaemonSetLogs: without the annotation, without a pod, or when the
\* pattern is at the end of the log of the first pod.
LogsMatched ==
    /\ Advance("waitForLogs", "listNodes")
    /\ UNCHANGED <<pending, objectVars, clusterVars, memoryVars, observed>>

LogsNotMatched ==
    /\ pc = "waitForLogs"
    /\ cur \in WaitForLogs
    /\ Requeue
    /\ UNCHANGED <<objectVars, clusterVars, memoryVars, observed>>

\* Mutant: cacheNodes(r, false), which may have the nodes of another
\* SpecialResource.
ListNodesCached ==
    /\ pc = "listNodes"
    /\ pc' = "labelNode"
    /\ IF Cardinality(nodeList) = nodeCount THEN UNCHANGED <<nodeList, observed>>
                                            ELSE List
    /\ toLabel' = nodeList'
    /\ UNCHANGED <<nodeCount, kernelVersion, updateVendor, todo, cur>>
    /\ UNCHANGED <<pending, objectVars, clusterVars>>

\* labelNodesAccordingToState: cacheNodes(r, true), then node after node.
ListNodes ==
    /\ pc = "listNodes"
    /\ pc' = "labelNode"
    /\ List
    /\ toLabel' = NodeItems(cur)
    /\ UNCHANGED <<nodeCount, kernelVersion, updateVendor, todo, cur>>
    /\ UNCHANGED <<pending, objectVars, clusterVars>>

\* updateStatus logs an error and returns; a status that changes is an event.
updateStatus(s) ==
    \/ /\ srState' = [srState EXCEPT ![s] = TRUE]
       /\ pending' = (pending \/ ~srState[s])
    \/ UNCHANGED <<srState, pending>>

LabelNode ==
    /\ pc = "labelNode"
    /\ \E item \in toLabel :
          /\ toLabel' = toLabel \ {item}
          /\ \/ cur \in item.ready /\ UNCHANGED labels
             \/ /\ cur \notin item.ready
                /\ item = NodeItem(item.name)
                /\ labels' = [labels EXCEPT ![cur] = @ \cup {item.name}]
    /\ updateStatus(cur)
    /\ UNCHANGED <<pc, todo, cur, buildConfig, daemonSet>>
    /\ UNCHANGED <<clusterVars, memoryVars, observed>>

\* The node changed since it was listed.
LabelConflict ==
    /\ pc = "labelNode"
    /\ \E item \in toLabel : cur \notin item.ready /\ item # NodeItem(item.name)
    /\ List
    /\ Requeue
    /\ UNCHANGED <<nodeCount, kernelVersion, updateVendor>>
    /\ UNCHANGED <<objectVars, clusterVars>>

LabelsDone ==
    /\ toLabel = {}
    /\ Advance("labelNode", "next")
    /\ UNCHANGED <<pending, objectVars, clusterVars, memoryVars, observed>>

(***************************************************************************)
(* Calls that fail.  An error of CRUD or of getRuntimeInformation exits,   *)
(* as does a panic or the end of the pod of the operator: all are Crash.   *)
(***************************************************************************)
Fault(unlisted) ==
    /\ faults < MaxFaults
    /\ faults' = faults + 1
    /\ listFailed' = listFailed \cup unlisted
    /\ UNCHANGED emptyListed

Crash == pc # "down" /\ Exit /\ Fault({})

\* Errors that ReconcileHardwareConfigurations returns.
ApiError ==
    /\ Fault({})
    /\ pc \in {"waitForBuild", "checkPods", "waitForDaemonSet",
               "waitForLogs", "labelNode"}
    /\ Requeue
    /\ UNCHANGED <<objectVars, clusterVars, memoryVars>>

\* checkForImagePullBackOff takes any error of waitForDaemonSet for a
\* DaemonSet that does not come up.
PollError ==
    /\ Fault({})
    /\ Advance("checkDaemonSet", "checkPods")
    /\ UNCHANGED <<pending, objectVars, clusterVars, memoryVars>>

\* labelNodesAccordingToState drops the error of cacheNodes and goes on
\* with the old list.
ListNodesError ==
    /\ Fault({cur})
    /\ pc = "listNodes"
    /\ pc' = "labelNode"
    /\ toLabel' = nodeList
    /\ UNCHANGED <<todo, cur, pending, objectVars, clusterVars, memoryVars>>

(***************************************************************************)
(* The rest of the cluster.                                                *)
(***************************************************************************)
NodeJoin(n) ==
    /\ n \notin members
    /\ members' = members \cup {n}
    /\ UNCHANGED <<kernel, images, builds, status, pod, pullFailed>>
    /\ UNCHANGED <<objectVars, memoryVars, passVars, pending, observed>>

\* NFD publishes the kernel a node runs: after it joined, and after an
\* upgrade has rebooted it.
NFDLabel(n) ==
    /\ n \in members
    /\ \E k \in Kernels : k > kernel[n] /\ kernel' = [kernel EXCEPT ![n] = k]
    /\ UNCHANGED <<members, images, builds, status, pod, pullFailed>>
    /\ UNCHANGED <<objectVars, memoryVars, passVars, pending, observed>>

\* A new BuildConfig triggers a Build (ConfigChange), and an administrator
\* may start one after a failed one.
BuildStart(s) ==
    /\ buildConfig[s] # Absent
    /\ builds[s] \subseteq {"failed"}
    /\ builds' = [builds EXCEPT ![s] = @ \cup {"running"}]
    /\ UNCHANGED <<members, kernel, images, status, pod, pullFailed>>
    /\ UNCHANGED <<objectVars, memoryVars, passVars, pending, observed>>

BuildSucceeds(s) ==
    /\ "running" \in builds[s]
    /\ builds' = [builds EXCEPT ![s] = (@ \ {"running"}) \cup {"complete"}]
    /\ images' = images \cup {<<s, buildConfig[s]>>}
    /\ UNCHANGED <<members, kernel, status, pod, pullFailed>>
    /\ UNCHANGED <<objectVars, memoryVars, passVars, pending, observed>>

BuildFails(s) ==
    /\ Fault({})
    /\ "running" \in builds[s]
    /\ builds' = [builds EXCEPT ![s] = (@ \ {"running"}) \cup {"failed"}]
    /\ UNCHANGED <<members, kernel, images, status, pod, pullFailed>>
    /\ UNCHANGED <<objectVars, memoryVars, passVars, pending>>

\* An administrator, or the history limit, removes the failed Builds.
PruneBuild(s) ==
    /\ {"failed", "complete"} \subseteq builds[s]
    /\ builds' = [builds EXCEPT ![s] = @ \ {"failed"}]
    /\ UNCHANGED <<members, kernel, images, status, pod, pullFailed>>
    /\ UNCHANGED <<objectVars, memoryVars, passVars, pending, observed>>

\* The nodes the nodeSelector of the DaemonSet selects: that of the
\* SpecialResource and the kernel version.
Eligible(s) == {n \in members \cap Selects[s] :
                   kernel[n] # Unlabelled /\ kernel[n] = daemonSet[s]}

\* The DaemonSet controller replaces pods of another template, removes those
\* of nodes that are not selected, and writes the status: an event.
DaemonSetSync(s) ==
    /\ daemonSet[s] # Absent
    /\ LET Keep(n) == n \in Eligible(s) /\ pod[s][n].phase # "none"
                                        /\ pod[s][n].image = daemonSet[s]
           new == [n \in Nodes |->
                     IF Keep(n) THEN pod[s][n]
                     ELSE IF n \in Eligible(s)
                          THEN [image |-> daemonSet[s], phase |-> "pending"]
                          ELSE NoPod]
           st  == [desired   |-> Eligible(s),
                   available |-> {n \in Eligible(s) : new[n].phase = "running"}]
       IN  /\ pod' = [pod EXCEPT ![s] = new]
           /\ status' = [status EXCEPT ![s] = st]
           /\ pending' = (pending \/ (pc # "down" /\ st # status[s]))
    /\ UNCHANGED <<members, kernel, images, builds, pullFailed>>
    /\ UNCHANGED <<objectVars, memoryVars, passVars, observed>>

\* The kubelet moves a pod on; it retries a pull that has failed.
PodStep(s, n) ==
    LET p == pod[s][n]
        Pulled == <<s, p.image>> \in images
        Becomes(phase) == pod' = [pod EXCEPT ![s][n] =
                                     [image |-> p.image, phase |-> phase]]
    IN  /\ \/ p.phase = "pending" /\ Becomes("creating") /\ UNCHANGED pullFailed
           \/ /\ p.phase \in {"creating", "backoff"} /\ Pulled
              /\ Becomes("running") /\ UNCHANGED pullFailed
           \/ /\ p.phase = "creating" /\ ~Pulled
              /\ Becomes("backoff") /\ pullFailed' = pullFailed \cup {s}
        /\ UNCHANGED <<members, kernel, images, builds, status>>
        /\ UNCHANGED <<objectVars, memoryVars, passVars, pending, observed>>

Pass ==
    \/ StartPass \/ NextSpecialResource \/ EndPass
    \/ CacheNodes \/ GetRuntimeInformation \/ NoNFDLabel
    \/ CreateBuildConfig \/ SkipBuildConfig \/ BuildComplete \/ BuildTimeout
    \/ ApplyDaemonSet \/ CheckDaemonSet
    \/ ImagePullBackOff \/ UnsetUpdateVendor \/ NoPodStarted
    \/ DaemonSetAvailable \/ DaemonSetTimeout \/ LogsMatched \/ LogsNotMatched
    \/ ListNodes \/ LabelNode \/ LabelConflict \/ LabelsDone

Failure == Crash \/ ApiError \/ PollError \/ ListNodesError

Environment ==
    \/ \E n \in Nodes : NodeJoin(n) \/ NFDLabel(n)
    \/ \E s \in SpecialResources :
          \/ BuildStart(s) \/ BuildSucceeds(s) \/ BuildFails(s) \/ PruneBuild(s)
          \/ DaemonSetSync(s)
          \/ \E n \in Nodes : PodStep(s, n)

Next == Restart \/ Resync \/ Pass \/ Failure \/ Environment

Spec == Init /\ [][Next]_vars

(***************************************************************************)
(* Fairness.  The Deployment restarts the operator, the work queue hands   *)
(* out what it holds, every poll times out, and the controllers of the     *)
(* cluster act on what they see.  Nothing is assumed of administrators,    *)
(* upgrades, joining nodes or faults.  The informers resync for ever,      *)
(* which only a dropped error of cacheNodes needs.                         *)
(***************************************************************************)
Fairness ==
    /\ WF_vars(Restart)
    /\ WF_vars(Resync)
    /\ WF_vars(Pass)
    /\ \A n \in Nodes : WF_vars(kernel[n] = Unlabelled /\ NFDLabel(n))
    /\ \A s \in SpecialResources :
          /\ WF_vars(builds[s] = {} /\ BuildStart(s))
          /\ WF_vars(BuildSucceeds(s))
          /\ WF_vars(DaemonSetSync(s))
          /\ \A n \in Nodes : WF_vars(PodStep(s, n))

FairSpec == Spec /\ Fairness

\* The list of SpecialResources comes out of a Go map, whose order is drawn
\* anew for every list.  If infinitely many passes begin while UpdateVendor
\* is that of s, then s is the first of the list in infinitely many of them.
RandomOrder ==
    \A s \in SpecialResources :
        SF_vars(/\ NextSpecialResource
                /\ todo = SpecialResources
                /\ updateVendor = Vendor[s]
                /\ cur' = s)

RandomOrderSpec == FairSpec /\ RandomOrder

(***************************************************************************)
(* Properties.                                                             *)
(***************************************************************************)
NodeItemType == [name : Nodes, kernel : Versions, ready : SUBSET SpecialResources]

\* Every variable has its type.
TypeOK ==
    /\ members \subseteq Nodes
    /\ kernel \in [Nodes -> Versions]
    /\ labels \in [SpecialResources -> SUBSET Nodes]
    /\ images \subseteq SpecialResources \X Versions
    /\ buildConfig \in [SpecialResources -> Versions \cup {Absent}]
    /\ builds \in [SpecialResources -> SUBSET BuildPhases]
    /\ daemonSet \in [SpecialResources -> Versions \cup {Absent}]
    /\ status \in [SpecialResources ->
                      [desired : SUBSET Nodes, available : SUBSET Nodes]]
    /\ pod \in [SpecialResources ->
                   [Nodes -> [image : Versions, phase : PodPhases]]]
    /\ srState \in [SpecialResources -> BOOLEAN]
    /\ pc \in Steps
    /\ pending \in BOOLEAN
    /\ todo \subseteq SpecialResources
    /\ cur \in SpecialResources
    /\ nodeList \subseteq NodeItemType
    /\ nodeCount \in Nat \cup {UnsetCount}
    /\ kernelVersion \in Versions
    /\ updateVendor \in Vendors \cup {""}
    /\ toLabel \subseteq NodeItemType
    /\ pullFailed \subseteq SpecialResources
    /\ listFailed \subseteq SpecialResources
    /\ emptyListed \in BOOLEAN
    /\ faults \in Nat

HasImage(s) == \E i \in images : i[1] = s

\* A node carries the ready label of a SpecialResource, or the status of the
\* SpecialResource says so, only when a driver image exists: no sequence of
\* timeouts, empty or stale DaemonSet statuses, omitted counters and API
\* errors gets a pass from checkForImagePullBackOff to
\* labelNodesAccordingToState before one pod could pull and run.
ReadyNeedsImage ==
    \A s \in SpecialResources :
        labels[s] # {} \/ srState[s] => HasImage(s)

PullFailedFor(vendor) == \E s \in pullFailed : Vendor[s] = vendor

\* A BuildConfig is created, and so a driver is built, only after a pod of a
\* SpecialResource of the same vendor could not pull its image, although
\* UpdateVendor is one global of all SpecialResources, outlives the pass
\* that set it and is lost with the process ("We are only building a
\* driver-container if we cannot pull the image").
BuildNeedsPullFailure ==
    \A s \in SpecialResources :
        buildConfig[s] # Absent \/ builds[s] # {} => PullFailedFor(Vendor[s])

\* A manifest is rendered with the kernel version "" only after the API server
\* has listed no node for some selector: cacheNodes never takes the empty list
\* of a new process for one that it has cached, whatever node.count a poll has
\* set, and getKernelVersion exits at a node without NFD labels.
RenderedForKernel ==
    emptyListed \/ \A s \in SpecialResources :
        buildConfig[s] # Unlabelled /\ daemonSet[s] # Unlabelled

\* Only nodes that the selector of a SpecialResource matches get its ready
\* label, although all of them share one cached list, and whatever crashes and
\* calls fail: labelNodesAccordingToState forces a list of its own.  The
\* exception is a SpecialResource for which this very list has failed: the
\* error is dropped, and the list may be that of another one.
LabelsInScope ==
    \A s \in SpecialResources : s \in listFailed \/ labels[s] \subseteq Selects[s]

(***************************************************************************)
(* The inductive strengthening of the safety properties.                   *)
(***************************************************************************)
Working == Steps \ {"down", "idle", "next", "cacheNodes", "runtime"}

\* TypeOK: a Build completes into an image of its BuildConfig.
BuildInv ==
    \A s \in SpecialResources : builds[s] # {} => buildConfig[s] # Absent

\* ReadyNeedsImage: every way to the label leads through a running pod.
ImageInv ==
    /\ \A s \in SpecialResources, n \in Nodes :
          pod[s][n].phase = "running" => HasImage(s)
    /\ \A s \in SpecialResources : status[s].available # {} => HasImage(s)
    /\ pc \in {"waitForLogs", "listNodes", "labelNode"} => HasImage(cur)
    /\ ReadyNeedsImage

\* BuildNeedsPullFailure: UpdateVendor remembers a pull that failed.
VendorInv ==
    /\ \A s \in SpecialResources, n \in Nodes :
          CannotPull(pod[s][n]) => s \in pullFailed
    /\ updateVendor # "" => PullFailedFor(updateVendor)
    /\ BuildNeedsPullFailure

\* RenderedForKernel: node.count is a length only once there is a list, so
\* that a pass never works without one.
KernelInv ==
    /\ nodeList = {} => nodeCount = UnsetCount \/ emptyListed
    /\ pc \in Working \cup {"runtime"} => nodeList # {} \/ emptyListed
    /\ pc \in Working => kernelVersion # Unlabelled \/ emptyListed
    /\ RenderedForKernel

\* LabelsInScope: the nodes still to be labelled are in scope too.
ScopeInv ==
    /\ pc = "labelNode" /\ cur \notin listFailed
          => \A item \in toLabel : item.name \in Selects[cur]
    /\ LabelsInScope

(***************************************************************************)
(* The refinement of Rollout.  For each SpecialResource the DaemonSet with *)
(* the driver is the one stage; its BuildConfig is an optional document    *)
(* that no step of Rollout waits for, and is left out.                     *)
(***************************************************************************)
\* The stage of s, if its condition holds.
StageIf(holds) == IF holds THEN {1} ELSE {}

Announced(s) == labels[s] # {} \/ srState[s]

\* The pass has left s behind without an error.
Visited(s) == pc = "next" /\ s \notin todo

\* Where the pass is with s: its DaemonSet went through CRUD, was seen
\* available, was announced or left.
AppliedHere(s) ==
    /\ cur = s
    /\ \/ Visited(s)
       \/ pc \in {"checkDaemonSet", "checkPods", "waitForDaemonSet",
                 "waitForLogs", "listNodes", "labelNode"}
ProvenHere(s) ==
    /\ cur = s
    /\ Visited(s) \/ pc \in {"waitForLogs", "listNodes", "labelNode"}
DoneHere(s) ==
    /\ cur = s
    /\ Visited(s) \/ (pc = "labelNode" /\ Announced(s))

R(s) == INSTANCE Rollout WITH
    N <- 1, MustValidate <- {1}, Optional <- {},
    stage   <- IF DoneHere(s) THEN 1 ELSE 0,
    objects <- StageIf(daemonSet[s] # Absent),
    healthy <- StageIf(waitForDaemonSetCallback(status[s])),
    applied <- StageIf(AppliedHere(s)),
    proven  <- StageIf(ProvenHere(s)),
    ready   <- StageIf(Announced(s))

\* Every SpecialResource is rolled out as the README promises: no node gets
\* its label, and its status does not say ready, before its DaemonSet was
\* applied and then seen available by this very pass, however often the pass
\* was cut short before, and whatever it did with other SpecialResources.
EachValidated ==
    /\ \A s \in SpecialResources : R(s)!Init
    /\ [][\A s \in SpecialResources : [R(s)!Next]_(R(s)!vars)]_vars

RunsDriver(s, n) == pod[s][n] = [image |-> kernel[n], phase |-> "running"]

\* The roll-out converges in a cluster whose nodes have one kernel version
\* and in which each selector matches a node from the start (cacheNodes may
\* keep an empty list): once no failed Build is left behind, every node that a SpecialResource
\* selects runs its driver and is labelled, and stays so, whatever was
\* interrupted before by crashes, conflicts, timeouts and nodes that join and
\* have no labels yet.  (After an upgrade it need not: PullFailureIsRepaired.)
Converges ==
    <>[](\A s \in SpecialResources : "failed" \notin builds[s])
        => <>[](\A s \in SpecialResources : \A n \in members \cap Selects[s] :
                    RunsDriver(s, n) /\ n \in labels[s])

\* The comment in createFromYAML: "We are only building a driver-container
\* if we cannot pull the image [...] If err == nil, build a new container".
\* A pod that cannot pull its image gets one, or is replaced.
PullFailureIsRepaired ==
    \A s \in SpecialResources, n \in Nodes :
        CannotPull(pod[s][n]) ~> ~CannotPull(pod[s][n])

=============================================================================
