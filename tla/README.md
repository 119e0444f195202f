# Special Resource Operator: TLA+ models and proofs

The Special Resource Operator (SRO) installs what a special piece of hardware
needs on an OpenShift cluster: a kernel driver in a *driver-container*, and what
runs on top of it. A user creates a `SpecialResource` (SR); the operator applies
the manifests ("states") of its recipe one after the other and waits for each. The
repository calls it "a simple state machine, where each state has a validation
step". The machine is simple; the cluster it runs against is not, and this project
is about the two together.

## 1. Inventory

### Components

| Component | Code | State | Operations |
|---|---|---|---|
| Reconcile pass | `controllers/specialresource.go`, `specialresource_controller.go` | `r.parent`, `r.dependency`, `r.specialresource`, which outlive the pass; the informer cache; the work queue | `ReconcilerSpecialResources`, `getDependencyFrom`, `createSpecialResourceFrom` |
| Working namespace | `resources.go` 264-285 | the namespace and its controller reference | `createSpecialResourceNamespace` |
| Image-puller grant | `resources.go` 129-218 | the subjects of the RoleBinding `system:image-puller` | `createImagePullerRoleBinding` |
| Hardware states | `resources.go` 235-262, 287-397 | the objects of the manifests | `ReconcileHardwareConfigurations`, `ReconcileHardwareStates`, `createFromYAML` |
| CRUD | `resources.go` 399-512 | any object | `CRUD`, `updateResourceVersion` |
| Driver build | `resources.go` 514-534, `callbacks.go` 80-155 | `runInfo.UpdateVendor` (global), BuildConfig, Builds | `rebuildDriverContainer`, `checkForImagePullBackOff` |
| Waiting | `waitfor.go` | `node.count` (global) | `waitForDaemonSet`, `waitForBuild`, `waitForPod`, `waitForDaemonSetLogs` |
| Node cache | `resources.go` 30-86 | `node.list`, `node.count` (globals) | `cacheNodes` |
| Labels and status | `scale_up_down.go`, `status.go` | node labels, `status.state` | `labelNodesAccordingToState`, `updateStatus` |
| Runtime information | `runtime.go` 100-339 | `runInfo` (global) | `getRuntimeInformation` and its parts |
| Hooks | `callbacks.go` 13-45, `runtime.go` 341-425, `custom.go` | `customCallback`, the object on its way to CRUD | `beforeCRUDhooks`, `setupProxy`, `customGrafanaConfigMap` |
| YAML scanner | `yamlutil/scan.go` | the position in a manifest | `Scan` |
| Manifests | `manifests.go` | none | file walk |
| Process | `main.go`, `misc.go` | the process | start, `exitOnError` |

`PROJECT.json` lists them with their status, and every hazard at its line.

### How they interact

One controller with one worker (`MaxConcurrentReconciles: 1`) handles *all* SRs in
every pass, whatever request woke it. A pass ends early at the first error, with a
requeue, or with the process, since most errors call `os.Exit`. Passes communicate
through package globals and through fields of the reconciler, which nobody resets,
and through the objects in the cluster. Everything else is concurrent: each call to
the API server is a point at which nodes join, NFD relabels them, the DaemonSet
controller writes a status, kubelets pull images, builds run, users create and
delete SRs, and the garbage collector follows owner references. SRs are read from an
informer's cache; unstructured objects are read from the API server.

### What is hard, and what makes each part correct

* *Stale state.* The list of SRs, `node.list`, the DaemonSet status and
  `r.dependency` are all used after they may have changed. Grants stay in the scope
  of the dependencies (`GrantScope`), nothing is owned by an SR that was never
  listed (`OwnedByListed`), what is created for a deleted SR is collected
  (`EventuallyCollected`), no manifest is rendered without a kernel version unless
  the API server has listed no node (`RenderedForKernel`), or with a version, Secret,
  image or Proxy of an earlier pass (`ReadFactsOfThisPass`). Operating system and
  kernel may be of an earlier pass.
* *Ordering.* Dependencies complete before their parent (`DependenciesFirst`), and a
  node is ready only after a driver exists (`ReadyNeedsImage`). Each document of a
  recipe is validated before the next (`Validated`, `EachValidated`), none is lost (`AllApplied`,
  `DocumentsKept`), and Builds may end in any order (`NilMeansComplete`).
* *One global for all.* `UpdateVendor` leads to builds only for a vendor whose image
  could not be pulled (`BuildNeedsPullFailure`), and two SRs that overwrite it for each
  other still converge (`Converges`). The node list of one SR does not label the nodes
  of another (`LabelsInScope`).
* *Read, then write.* Another client may come between the two calls of CRUD
  (`ExitNeedsCause`, `NoLostUpdate`, `EventuallyApplied`), and an upgrade between the
  reads of the runtime information (`ReadFactsOfThisPass`, `FromOneNode`).
* *Timing.* Ticks of a poll are dropped and its timer may win against the last one
  (`GivesUpLate`, `Returns`); a log is cut at 100 bytes (`EventuallyReady`).
* *Failure.* Crashes, conflicts, dropped errors and timeouts at any step; the
  roll-out still ends (`Converges`, `EventuallyRolledOut`, `RollsOut`). That the
  operator then comes to rest is not claimed: see "Limits of what holds".

## 2. Modules

### `DriverContainer`

What a pass does with the states of SRs that ship a driver, against the rest of the
cluster. `pc` names the next call to the API server:

| `pc` | Code | Actions |
|---|---|---|
| `idle`, `next` | loop over the SRs | `StartPass`, `NextSpecialResource`, `EndPass` |
| `cacheNodes` | `cacheNodes(r, false)` | `CacheNodes` |
| `runtime` | `getKernelVersion` | `GetRuntimeInformation`, `NoNFDLabel` |
| `buildConfig`, `waitForBuild` | `rebuildDriverContainer`, `CRUD`, `waitForBuild` | `CreateBuildConfig`, `SkipBuildConfig`, `BuildComplete`, `BuildTimeout` |
| `daemonSet` | `CRUD` of the DaemonSet | `ApplyDaemonSet` |
| `checkDaemonSet`, `checkPods` | `checkForImagePullBackOff` | `CheckDaemonSet`, `ImagePullBackOff`, `UnsetUpdateVendor`, `NoPodStarted` |
| `waitForDaemonSet`, `waitForLogs` | `afterCRUDhooks` | `DaemonSetAvailable`, `DaemonSetTimeout`, `LogsMatched`, `LogsNotMatched` |
| `listNodes`, `labelNode` | `labelNodesAccordingToState`, `updateStatus` | `ListNodes`, `LabelNode`, `LabelConflict`, `LabelsDone` |
| `down` | `os.Exit` | `Restart` |

Failing calls are `Crash`, `ApiError`, `PollError` and `ListNodesError`. The external
parts are `NodeJoin`, `NFDLabel`, the build actions, `DaemonSetSync` and `PodStep`.

Abstractions. A kernel version is a number, an image is a pair of SR and kernel. The
status of a DaemonSet is kept as the two sets of nodes that it counts. A node read
earlier conflicts if one of the modelled fields has changed. Of a poll of 15 seconds
only the last iteration is a step: earlier ones write `node.count`, which nothing
reads before the next `cacheNodes(r, false)`. Two SRs are two driver-containers
in namespaces of their own. `Selects` gives the nodes that the selector of an SR
matches (`spec.node.selector`, or all workers), which may be none; `node.list` and
`node.count` are shared by all SRs, as in the code. Two history variables hold what
went wrong with lists: `emptyListed`, that the API server has listed no node for some
SR, and `listFailed`, the SRs whose list for labelling has failed.

For each SR the module implements `Rollout` (below) with its DaemonSet as the one
stage (`EachValidated`): applied and validated are places of the pass, an object is
healthy when its status says so, and ready means a label on some node or the status of
the SR. The BuildConfig is optional and `waitForBuild` lets one without Builds pass, so
that it is no stage.

### `Reconciler`

The pass over SRs and their dependencies. The states of one SR are one *workload*,
absent, applied or ready, with the uid of its owner. `items` is the list of this
pass, `cache` what the informer has, `cr` what exists. An SR that is deleted and
created again has a new uid, so that a reference made from an old list does not keep
anything alive. The garbage collector is foreground in effect: a collected namespace
takes its secret, its RoleBinding and its workloads with it in one step.

Two external rules are used. A ServiceAccount subject without a namespace stands, in a
RoleBinding, for the namespace of the binding (`MayPull`), and a Build that takes an
image from a dependency needs its builder to be allowed to pull it (`CanBuild`). And
the API server refuses an update without resourceVersion of a custom resource.

### `HardwareStates` and `Rollout`

`HardwareStates` is one SR with its whole recipe: `Docs`, the documents of all
manifests in the order of their file names, each with its kind and the annotations
`state`, `wait` and `wait-for-logs`. `i` is the document at hand and `pc` the part of
`createFromYAML` or `afterCRUDhooks` that comes next: `doc` (skip or CRUD), `check`
(`checkForImagePullBackOff`), `wait`, `logs`, `label`. The cluster brings objects up,
but only those whose node affinity finds the label it asks for; users break and
delete them. `pending` is the work queue: only SRs, Pods and DaemonSets are watched.
The driver image, its build and the nodes are coarser than in `DriverContainer`.

`Rollout` is the abstract state machine of the repository's README: stages in order,
some with a validation step. `HardwareStates` implements it under the mapping
`stage <- i - 1`, `healthy <- available`, and `ready` as the stages whose label the
nodes have (`Validated`). `DriverContainer`, in which several SRs share the globals of
one pass and the status of a DaemonSet is a pair of counters, implements it too.

### `Crud`

One object and the two calls of `CRUD`, with resourceVersion and cluster IP, against
another client that edits, deletes and creates the object, against crashes, and
against calls that fail by themselves (`GetFails`, `CreateFails`, `UpdateFails`:
forbidden, timed out, or the answer lost after the object was written). Every error
ends the process. `raced` remembers that somebody wrote between the calls, `failed` that
a call failed by itself. Which kinds the API server wants a resourceVersion for, that it
refuses a stale one and keeps a cluster IP immutable is external, and stated by API group,
apart from the list in `needToUpdateResourceVersion`.

### `WaitFor`, `DaemonSetLogs` and `AfterCRUD`

`WaitFor` is one call of `waitForResource`. `wait.Poll` is modelled with its two
goroutines: the ticker (`Tick`, `Close`), which drops a tick the consumer is not ready
for, and the consumer (`Receive`, `Exists`, `Full`, `NotYet`, `GetError`), which looks
once more when the channel is closed. `NoStatus` is the exit of `makeStatusCallback` at a
status without the field it looks for. Time is counted in retry intervals.
`waitForBuild` lists Builds once and polls them one after the other.

`DaemonSetLogs` is the annotation `wait-for-logs`. A log is its length and the
place of the last match, in bytes, so that the cut at 100 is the one of the code.
`AfterCRUD` composes the two as `afterCRUDhooks` does: the logs are looked at when the
wait for the object, of whatever kind, has returned nil.

### `RuntimeInformation`

`getRuntimeInformation` read by read, after `cacheNodes`, which keeps a list that has
`node.count` items (`CachedNodes`) or lists the nodes (`ListNodes`). While the states are
reconciled, `PollDaemonSet` writes that count and `LabelNodes` the list. Facts are small numbers: the release of a node
gives its operating system and its kernel; the rendering of the operating system is
the table of `renderOperatingSystem` on records instead of strings. `during` remembers
what each fact that is read from the API server has been while the call runs.

### `Hooks`, `YamlScanner` and `CreateFromYAML`

`Hooks` is `beforeCRUDhooks`. The object and the copy of its containers are two
variables, because `NestedSlice` makes a deep copy. A URL or a password is the place it
comes from: the edition of the Secret and the datasource in it. A name of a callback that
is not registered is skipped, as in the code.

`YamlScanner` is the scanner and the reader of apimachinery below it. A line is a
separator, text, or blank; a token is kept as the numbers of its lines.

`CreateFromYAML` composes them into the loop of `createFromYAML`, pass after pass: a
token becomes an object, or ends the pass if it cannot be rendered (`CannotRender`);
the object goes through the hooks and to CRUD before the next
line is read. `Unmarshal` and `Apply` are steps of both components.

### `MC...`

Values of the constants for the runs. The SRs of `MCReconciler` are named after the
recipes `driver-container-base`, `simple-kmod` and `nvidia-gpu`; the recipe of
`MCHardwareStates` is put together from theirs.

### `...Proofs`

The theorems of section 4. Operators marked *Mutant* in the specifications are
plausible bugs of the definition that follows them. No action uses them; each shows
that one property would notice that bug.

## 3. Runs

| Run | Checks | Instance |
|---|---|---|
| `dc_rollout` | `BuildNeedsPullFailure`, `LabelsInScope`, `EachValidated`, `Converges` | 2 SRs with vendors and a node of their own, 1 fault |
| `dc_converges` | `TypeOK`, `Converges` | 1 SR, 2 nodes of which one joins, 1 fault |
| `dc_upgrades` | `ReadyNeedsImage`, `RenderedForKernel` | 1 SR with wait-for-logs, no node at the start, 2 that join, 2 kernels |
| `rec_rollout` | `TypeOK`, `GrantScope`, `DependenciesFirst`, `OwnedByListed`, `EventuallyRolledOut`, `EventuallyCollected` | 3 SRs, two of which need the third, one with an imageReference; 2 user operations, 1 fault |
| `hs_rollout` | `TypeOK`, `AllApplied`, `Validated`, `RollsOut` | a recipe with every kind of document, 2 user operations, 1 fault |
| `crud_races` | `TypeOK`, `ExitNeedsCause`, `NoLostUpdate`, `EventuallyApplied` | every class of kinds, 4 operations of others, failures or new renderings |
| `after_waits` | `TypeOK`, `NilMeansComplete`, `ReadyMeansLogged`, `GivesUpLate`, `Returns`, `EventuallyReady` | every kind, 2 Builds, timeout of 3 intervals; 2 pods, logs of up to 121 bytes, 1 restart |
| `yaml_documents` | `TypeOK`, `HooksTypeOK`, `DocumentsKept`, `ExitsOnEmptyDocument` | all manifests of up to 5 lines, 6 kinds of documents, 2 editions of the Secret |
| `ri_upgrade` | `TypeOK`, `ReadFactsOfThisPass`, `FromOneNode`, `UpgradeIsNotOlder` | 2 SRs, 2 nodes, RHCOS 4.4 and 4.10, one upgrade of the cluster, one proxy |
| `dc_upgrade` | `PullFailureIsRepaired`: violated | 1 SR, 1 node, 2 kernels |
| `rec_default` | `EventuallyRolledOut`: violated | a parent without namespace |
| `yaml_proxy` | `ProxyInjected`: violated | a Pod and a DaemonSet with the annotation |

*Bounds.* `MaxKernel`, `MaxFaults` and `MaxUserOps` are guards. Two nodes are the
least for which a list can be stale, partly labelled, or of the wrong length. Two
kernels make one upgrade. The second SR is there for the globals; a third one for
a parent that follows another with different dependencies. Two user operations create
and delete an SR, or delete the dependency that the operator has created. One
fault reaches each error path in each state. Four operations of others let an object
be deleted, created again and edited around both calls of CRUD. The timeout of three
intervals is the one of the code (15 and 5 seconds). Five lines hold two documents
with a run of separators or blanks before, between or after them. `MaxLog`,
`MaxHistory`, `MaxProxy` and `MaxEditions` are guards too; the lengths in `Writes` reach
100 and 101 bytes. `ri_upgrade` uses the symmetry of nodes and SRs, which the module
only compares. For every invariant and every action property of the passing runs a
theorem below removes the bounds; the instances matter for liveness, and to see that
the cases happen.

*Deadlock* is checked where passes go on for ever, and the resync or the next pass
makes sure that there is none. `AfterCRUD` ends when the waits have returned.

### Fairness

`Fairness` asks for weak fairness of the restart (the Deployment), of the steps of
a pass (the process runs, each poll times out, the work queue hands out what it
holds), of informers, DaemonSet controller, kubelet, builds, secrets and garbage
collector (each a controller that retries for ever). NFD is fair for a node
without labels only; an upgrade need not come. Nothing is assumed of users, faults,
the order of the list, or node arrivals. `DriverContainer` also counts on the resync of
the informers (ten hours in controller-runtime), because of the hazard at
`scale_up_down.go:20`: after the dropped error of `cacheNodes` only the resync finds
the node that was left out. `Reconciler` does without it.

`RandomOrder`, for `dc_rollout` alone, says that an SR that is often waiting for its
UpdateVendor is often the first of the list. The list comes out of a Go map, whose
order is drawn anew each time. Without it two SRs can unset UpdateVendor for each
other for ever.

`HardwareStates` adds strong fairness of `CheckPods`: a check that is made again and
again finds a pod with a containerStatus, since the kubelet writes one. It assumes
nothing of the resync. `RollsOut` has as a premise that passes are asked for again and
again, which the resync sees to: a deleted Service or BuildConfig is no event.
`Crud` has weak
fairness of its own calls (passes go on, the process is restarted), `AfterCRUD` of the
ticker, the timer and the consumer of `WaitFor`, and of the check of the logs, which an
error requeues.

`Converges` has as a premise that no failed Build stays. `waitForBuild` waits for
*every* Build of the namespace to be Complete, so that one failed Build stops the
roll-out until an administrator starts a new one and deletes the failed one
(`BuildStart`, `PruneBuild`).

### Findings

* `dc_upgrade`: an existing BuildConfig is never updated. After a kernel upgrade
  `checkForImagePullBackOff` asks for a rebuild in every pass, nothing is
  built, and the pods stay in ImagePullBackOff.
* `rec_default`: the default namespace is written to `r.specialresource` and not to
  `r.parent`. The subject of the RoleBinding then has an empty namespace, which stands
  for the one of the binding, the dependency's. A parent without `spec.namespace` and
  with an `imageReference` dependency may not pull its image; its Build does not
  succeed, and it is never rolled out.
* `yaml_proxy`: `setupPodProxy` and `setupDaemonSetProxy` change a deep copy of the
  containers; no object ever gets the proxy.

### Limits of what holds

Some properties hold only under a premise that the code does not enforce. They are
stated with it, or for instances that satisfy it:

* No property says that the operator comes to rest. Each pass writes the state
  of each stateful DaemonSet to the one field `status.state` (`status.go:17`); with more
  than one, as in nvidia-gpu, every pass changes the SR, which wakes up the next pass.
* `AllApplied`, for recipes in which a BuildConfig ends its manifest (`WellFormed`), as
  it does in all of them. A BuildConfig that is skipped returns from `createFromYAML`
  (`resources.go:375`), and with it from the rest of its manifest.
* `LabelsInScope`, for an SR whose list for labelling has not failed. That error is
  dropped (`scale_up_down.go:20`), and the nodes of another SR are labelled. Crashes and
  other failed calls do no harm. Besides, `cacheNodes(r, false)` takes any list of
  the length `node.count` for the one it wants, whatever selector it was made with
  (`resources.go:62`), so that an SR may be rendered for the nodes of another one.
* `RenderedForKernel`, until the API server lists no node for some selector. From then
  on manifests are rendered with an empty kernel version, here as in the code. Worse,
  the poll of their DaemonSet writes a `node.count` of 0, the length of the list, and the
  process lists no node that joins later, unless another SR makes it: the informer of
  which the comment speaks (`resources.go:58-60`) does not exist.
* `ReadFactsOfThisPass` leaves out operating system and kernel, which come from a list
  that may be older than the pass (`resources.go:62`). What holds of them is that they
  are of one node (`FromOneNode`).
* `Converges`, for selectors that match a node at the start, in a cluster whose nodes have one kernel version: after an upgrade it need
  not (`dc_upgrade`). It speaks of the end. For a while a node that joined after the last poll of
  the DaemonSet and before the nodes were listed has the ready label without a driver.
* `EventuallyRolledOut` and `EventuallyCollected`, for SRs with namespaces of their own.
  `SetControllerReference` is called on the manifest and not on the object that is found
  (`resources.go:465`), so that two SRs with one `spec.namespace` take the reference from
  each other and the deletion of one takes the namespace of both.
* `ReadyMeansLogged`, for an object with the label `app`. Without it the error is made
  and dropped (`waitfor.go:221`), no pod is listed, and the wait succeeds.
* No property says that Grafana is configured. The recipe nvidia-gpu asks for the callback
  `device-grafana-configmap`; the one registered is `specialresource-grafana-configmap`
  (`callbacks.go:16`), a name that is not registered is skipped, and the ConfigMap goes
  to CRUD with its placeholders.

## 4. Proofs

For every value of the constants that satisfies the named assumptions (a finite set
of nodes, selectors that match any of them or none, vendors that are not empty,
dependencies that are names, bounds that are natural numbers), and for any number of
faults, user operations, upgrades, lines and editions. A hypothesis in front of a
theorem is one of the premises of "Limits of what holds"; the instances of the runs
satisfy it, and the MC modules assume so where it is a formula.

| Theorem | States |
|---|---|
| `DriverContainerProofs!TypeCorrect` | `Spec => []TypeOK` |
| `DriverContainerProofs!ReadyIsBuilt` | `Spec => []ReadyNeedsImage` |
| `DriverContainerProofs!BuildOnPullFailure` | `Spec => []BuildNeedsPullFailure` |
| `DriverContainerProofs!KernelIsKnown` | `Spec => []RenderedForKernel` |
| `DriverContainerProofs!LabelsAreInScope` | `Spec => []LabelsInScope` |
| `DriverContainerProofs!ImplementsRollout` | `Spec => R(s)!Spec`, for every SR `s` |
| `DriverContainerProofs!AllAreValidated` | `Spec => EachValidated` |
| `ReconcilerProofs!TypeCorrect` | `Spec => []TypeOK` |
| `ReconcilerProofs!DependenciesComeFirst` | `Spec => []DependenciesFirst` |
| `ReconcilerProofs!GrantsStayInScope` | `Spec => []GrantScope` |
| `ReconcilerProofs!ReferencesAreListed` | `Spec => []OwnedByListed` |
| `HardwareStatesProofs!TypeCorrect` | `Spec => []TypeOK` |
| `HardwareStatesProofs!EverythingApplied` | `WellFormed`, `Spec => []AllApplied` |
| `HardwareStatesProofs!ImplementsRollout` | `WellFormed`, `Spec => Validated` |
| `CrudProofs!TypeCorrect` | `Spec => []TypeOK` |
| `CrudProofs!ExitsNeedCauses` | `Spec => []ExitNeedsCause` |
| `CrudProofs!UpdatesAreFresh` | `Spec => NoLostUpdate` |
| `WaitForProofs!TypeCorrect` | `Spec => []TypeOK` |
| `WaitForProofs!NilIsComplete` | `Spec => []NilMeansComplete` |
| `WaitForProofs!TimeoutIsLate` | `Spec => GivesUpLate` |
| `AfterCRUDProofs!ImplementsWaitFor` | `HookSpec => Spec` (of `WaitFor`) |
| `AfterCRUDProofs!NilIsCompleteInHooks` | `HookSpec => []NilMeansComplete` |
| `AfterCRUDProofs!TimeoutIsLateInHooks` | `HookSpec => GivesUpLate` |
| `AfterCRUDProofs!ReadyIsLogged` | `HasAppLabel`, a pod, `HookSpec => []ReadyMeansLogged` |
| `RuntimeInformationProofs!TypeCorrect` | `Spec => []TypeOK` |
| `RuntimeInformationProofs!FactsFromOneNode` | `Spec => []FromOneNode` |
| `RuntimeInformationProofs!ReadFactsAreOfThisPass` | `Spec => []ReadFactsOfThisPass` |
| `RuntimeInformationProofs!RenderingIsMonotonic` | `Ascending`, `Spec => UpgradeIsNotOlder` |
| `CreateFromYAMLProofs!TypeCorrect` | `LoopSpec => []TypeOK` |
| `CreateFromYAMLProofs!DocumentsAreKept` | `LoopSpec => []DocumentsKept` |
| `CreateFromYAMLProofs!ExitNeedsEmptyDocument` | `LoopSpec => []ExitsOnEmptyDocument` |
| `CreateFromYAMLProofs!HooksTypeCorrect` | `LoopSpec => []HooksTypeOK` |

Few of these are inductive alone. The strengthenings are next to the properties:

* `BuildInv`: a Build belongs to a BuildConfig that exists. `TypeOK` needs it, since
  the image of a Build takes its kernel from the BuildConfig.
* `ImageInv`: a running pod, an available node in a status, and a pass beyond
  `waitForDaemonSet` each imply an image. The step from the counters to the status is
  the omitted zero: a DaemonSet with nothing available has no `numberAvailable`, and
  the callback that is left is false.
* `VendorInv`: a pod in back-off and a non-empty `UpdateVendor` each remember a pull
  that failed. `pullFailed` is a history variable.
* `KernelInv`: a length is written to `node.count` only after a list was read, so
  that an empty `node.list` has the count `0xDEADBEEF` or was listed (`emptyListed`).
* `PassInv`: what a pass has still to visit is listed, the dependencies before `di`
  are done, and `r.specialresource` is the parent after the loop and in it the
  dependency that `r.dependency` describes. For `GrantScope` the interesting case is
  the one after the loop: whatever `r.dependency` still says, the namespace is then
  the parent's own.
* `ScopeInv`: the nodes still to be labelled are in the scope of the SR at hand, unless
  its list for labelling has failed (`listFailed`).
* `HardwareStates!PassInv`: every document before `i` went through CRUD or is a
  BuildConfig; the one at hand did after `doc`; and after `wait` it was seen available.
  `WellFormed` says that a BuildConfig ends its manifest and that a state belongs to
  one DaemonSet, which is waited for. Without the first documents are lost; without the second a
  label could announce a document that was not validated. The refinement needs
  nothing else: each action maps to one step of `Rollout` or to a stutter.
* `CrudInv`: as long as nobody raced, what CRUD will write was made from the object
  that is there, so that an exit without a failed call needs a race; and equal resourceVersions mean equal objects. The second part
  carries `NoLostUpdate` past a delete and a create.
* `PollInv`: Builds that are no longer to do were seen complete (and stay so), and the
  last look at an object comes after the channel is closed, which is at the timeout.
* `EachValidated` needs no more than types. The mapping makes sure of the rest: what
  the machine has applied and validated is read off the place of the pass, so that a
  pass that is cut short, or that turns to another SR, starts the machine of this one
  over. The one step to look at is the labelling, which announces the stage with the
  first node, and leaves it at once if an earlier pass has announced it.
* `LogsTypeOK` and `LogsInv`: a match in a log was written by the pod. The theorems on `WaitFor` hold in
  `AfterCRUD` because the composition implements it (`ImplementsWaitFor`).
* `ClusterInv`: the latest completed entry of the history is the version the cluster
  completed last, so that `getOpenshiftVersion` finds one. `VersionInv` and `ReadInv`:
  the facts of now are among those observed since the call began, and so is each fact
  that this pass has read. `NodeInv`: the operating system is the one of the kernel's node, except
  between the two reads, when it is that of the first node of the list, which nobody
  changes in between. `Ascending` says that the releases are those of one operating
  system, in order; the proof then goes through the branches of
  `renderOperatingSystem`, for minors of any number of digits.
* `ReaderInv`: what the reader has collected are the lines since the last separator, and
  a token reaches up to the next one. `AppliedInv`: what was applied comes before what
  is at hand, and no line of text that was read is elsewhere. This is an invariant of
  reading line by line, and needs no induction over the manifest.
* `Hooks!CopyInv`: the object is one of the manifest and the copy is one of its
  containers. `HooksTypeCorrect`, which rests on it, says that containers reach CRUD as
  they are in the manifest: the finding of `yaml_proxy`, for every manifest.

Each proof has one step per action. TLC has checked the strengthenings on the
instances above.

Only model-checked: liveness under fairness (`Converges`, `EventuallyRolledOut`,
`EventuallyCollected`, `RollsOut`, `EventuallyApplied`, `Returns`, `EventuallyReady`), which the prover cannot treat, and the violated properties. All
other properties of the runs are theorems.

## 5. Not modelled, and plan

Not modelled: text (templates, wording of logs, colours), the file walk of
`manifests.go` and the ConfigMap that may replace a recipe, flags, scheme and manager
setup of `main`, generated deep copies, and the test framework. The rules of the API
server are used where the code depends on them (resourceVersion, cluster IP, subjects
of a RoleBinding); which fields of other kinds are immutable is left out. The ready
label is never withdrawn from a node and a grant never from a RoleBinding; neither
code nor documents say otherwise, so that no property speaks of it.

What is left:

1. The ConfigMap that replaces a recipe while its states are applied.
2. `CreateFromYAML` and `Crud` composed, so that an object goes from its manifest through
   the hooks to the two calls.
