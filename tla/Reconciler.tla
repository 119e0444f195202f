----------------------------- MODULE Reconciler -----------------------------
(***************************************************************************)
(* ReconcilerSpecialResources: one pass over all SpecialResources of the   *)
(* cluster and, for each of them, over the SpecialResources it depends on. *)
(*                                                                         *)
(* The pass reads the SpecialResources from the cache of an informer and   *)
(* everything else from the API server, creates the ones it misses from    *)
(* its recipes, and leaves the fields of the reconciler (parent,           *)
(* dependency, specialresource) as they are for the next pass.  Each value *)
(* of pc is a point where it calls the API server.  The manifests of a     *)
(* SpecialResource are applied as one: they are its workload, which        *)
(* becomes available some time later (DriverContainer has the details).    *)
(***************************************************************************)
EXTENDS Integers, Sequences, FiniteSets

CONSTANTS
    Names,            \* names of SpecialResources
    Namespaces,       \* names of namespaces
    SpecNamespace,    \* spec.namespace of each, "" when it is not set
    DependsOn,        \* spec.dependsOn of each: a sequence of names
    ImageReference,   \* <<parent, dependency>> with imageReference: "true"
    Recipes,          \* names with a CR and manifests in /opt/sro/recipes
    MaxUserOps,       \* bound: creations and deletions by users
    MaxFaults         \* bound: crashes and API errors

\* The namespace of a SpecialResource defaults to its name.
ASSUME NamespaceAssumption ==
    /\ Names \subseteq Namespaces
    /\ "" \notin Namespaces
    /\ SpecNamespace \in [Names -> Namespaces \cup {""}]

ASSUME DependencyAssumption ==
    /\ DependsOn \in [Names -> Seq(Names)]
    /\ ImageReference \subseteq Names \X Names
    /\ Recipes \subseteq Names

ASSUME BoundAssumption == MaxUserOps \in Nat /\ MaxFaults \in Nat

VARIABLES
    \* The cluster
    cr,          \* the uid of each SpecialResource, 0 when there is none
    lastUid,     \* the last uid given to a SpecialResource
    owner,       \* the controller reference of each namespace, or Absent
    secret,      \* namespaces that have the builder's dockercfg secret
    subjects,    \* namespaces of the builders in the system:image-puller
                 \* RoleBinding of each namespace, "" for one without
    workload,    \* the objects of each SpecialResource: phase and owner's uid
    \* The operator
    cache,       \* the SpecialResources as the informer knows them
    pc,          \* where the pass stands
    pending,     \* the work queue holds a request
    items,       \* specialresources.Items: what this pass has listed
    todo,        \* the items it has still to visit
    parent,      \* r.parent
    di,          \* position in r.parent.Spec.DependsOn
    dependency,  \* r.dependency
    sr,          \* r.specialresource
    \* Observation and bounds
    done,        \* those reconciled to the end by this pass
    userOps,     \* creations and deletions so far
    faults       \* faults so far

clusterVars == <<cr, lastUid, owner, secret, subjects, workload>>
fieldVars   == <<parent, di, dependency, sr>>
passVars    == <<items, todo, done>>
vars == <<clusterVars, cache, pc, pending, fieldVars, passVars, userOps, faults>>

NoUid        == 0
Absent       == <<"", NoUid>>
NoWorkload   == [phase |-> "absent", uid |-> NoUid]
NoDependency == [name |-> "", imageReference |-> FALSE]

\* ReconcileHardwareConfigurations is under way.
HardwareSteps == {"namespace", "puller", "runtime", "states", "wait"}
Steps == {"down", "idle", "parent", "dependency", "create"} \cup HardwareSteps

\* r.specialresource.Spec.Namespace after createSpecialResourceNamespace.
WorkingNamespace(s) == IF SpecNamespace[s] = "" THEN s ELSE SpecNamespace[s]

\* r.parent.Spec.Namespace: the default is not written to r.parent.
ParentNamespace(p) == SpecNamespace[p]

\* The directory of the recipe is there; getAssetsFrom exits without it.
HasRecipe(s) == s \in Recipes

\* The loop over DependsOn is not at its end.
InDependencies == di <= Len(DependsOn[parent])

\* What the cluster holds in a namespace is gone with it.
WithoutWorkloads(S) == [s \in Names |-> IF s \in S THEN NoWorkload ELSE workload[s]]

Init ==
    /\ cr = [s \in Names |-> NoUid]
    /\ lastUid = 0
    /\ owner = [n \in Namespaces |-> Absent]
    /\ secret = {}
    /\ subjects = [n \in Namespaces |-> {}]
    /\ workload = [s \in Names |-> NoWorkload]
    /\ cache = cr
    /\ pc = "down"
    /\ pending = FALSE
    /\ items = cr
    /\ todo = {}
    /\ parent \in Names
    /\ di = 1
    /\ dependency = NoDependency
    /\ sr = parent
    /\ done = {}
    /\ userOps = 0
    /\ faults = 0

(***************************************************************************)
(* Returns.  Requeue is {Requeue: true}; Exit is os.Exit, which takes the  *)
(* reconciler with it, so that r.dependency is empty again.                *)
(***************************************************************************)
\* Mutant: the error is returned without Requeue.
RequeueNot ==
    /\ pc' = "idle"
    /\ UNCHANGED <<fieldVars, passVars, cache, pending>>

Requeue ==
    /\ pc' = "idle"
    /\ pending' = TRUE
    /\ UNCHANGED <<fieldVars, passVars, cache>>

Exit ==
    /\ pc' = "down"
    /\ pending' = FALSE
    /\ dependency' = NoDependency
    /\ UNCHANGED <<parent, di, sr, passVars, cache>>

\* ReconcileHardwareConfigurations returned nil.
Reconciled ==
    /\ pc' = IF InDependencies THEN "dependency" ELSE "parent"
    /\ di' = IF InDependencies THEN di + 1 ELSE di
    /\ done' = done \cup {sr}
    /\ UNCHANGED <<parent, dependency, sr, items, todo, pending, cache>>

(***************************************************************************)
(* The pass.                                                               *)
(***************************************************************************)

\* The process starts and its informer lists the SpecialResources.
Restart ==
    /\ pc = "down"
    /\ pc' = "idle"
    /\ pending' = TRUE
    /\ cache' = cr
    /\ UNCHANGED <<clusterVars, fieldVars, passVars, userOps, faults>>

\* The informers deliver every SpecialResource again, every ten hours.
Resync ==
    /\ pc # "down"
    /\ pending' = TRUE
    /\ UNCHANGED <<clusterVars, cache, pc, fieldVars, passVars, userOps, faults>>

\* Mutant: a pass works on the list of an earlier one as long as it has items.
StartPassOldList ==
    /\ pc = "idle"
    /\ pending
    /\ pc' = "parent"
    /\ pending' = FALSE
    /\ items' = IF \E s \in Names : items[s] # NoUid THEN items ELSE cache
    /\ todo' = {s \in Names : items'[s] # NoUid}
    /\ done' = {}
    /\ UNCHANGED <<clusterVars, fieldVars, cache, userOps, faults>>

StartPass ==
    /\ pc = "idle"
    /\ pending
    /\ pc' = "parent"
    /\ pending' = FALSE
    /\ items' = cache
    /\ todo' = {s \in Names : cache[s] # NoUid}
    /\ done' = {}
    /\ UNCHANGED <<clusterVars, fieldVars, cache, userOps, faults>>

\* The items come out of a map, in any order.
NextParent ==
    /\ pc = "parent"
    /\ \E p \in todo :
          /\ parent' = p
          /\ todo' = todo \ {p}
    /\ di' = 1
    /\ pc' = "dependency"
    /\ UNCHANGED <<dependency, sr, items, done, pending, cache>>
    /\ UNCHANGED <<clusterVars, userOps, faults>>

EndPass ==
    /\ pc = "parent"
    /\ todo = {}
    /\ pc' = "idle"
    /\ UNCHANGED <<clusterVars, fieldVars, passVars, pending, cache, userOps, faults>>

\* Mutant: the error of getDependencyFrom is dropped and the zero
\* SpecialResource it returns is worked on.
NextDependencyZero ==
    /\ pc = "dependency"
    /\ InDependencies
    /\ LET name == DependsOn[parent][di]
       IN  /\ dependency' = [name |-> name,
                             imageReference |-> <<parent, name>> \in ImageReference]
           /\ sr' = IF items[name] # NoUid THEN name ELSE ""
    /\ pc' = "namespace"
    /\ UNCHANGED <<parent, di, passVars, pending, cache>>
    /\ UNCHANGED <<clusterVars, userOps, faults>>

\* Mutant: a dependency that is not listed is worked on all the same.
NextDependencyUnlisted ==
    /\ pc = "dependency"
    /\ InDependencies
    /\ LET name == DependsOn[parent][di]
       IN  /\ dependency' = [name |-> name,
                             imageReference |-> <<parent, name>> \in ImageReference]
           /\ sr' = name
    /\ pc' = "namespace"
    /\ UNCHANGED <<parent, di, passVars, pending, cache>>
    /\ UNCHANGED <<clusterVars, userOps, faults>>

\* getDependencyFrom searches the list of this pass.
NextDependency ==
    /\ pc = "dependency"
    /\ InDependencies
    /\ LET name == DependsOn[parent][di]
       IN  /\ dependency' = [name |-> name,
                             imageReference |-> <<parent, name>> \in ImageReference]
           /\ sr' = name
           /\ pc' = IF items[name] # NoUid THEN "namespace" ELSE "create"
    /\ UNCHANGED <<parent, di, passVars, pending, cache>>
    /\ UNCHANGED <<clusterVars, userOps, faults>>

\* After its dependencies the parent itself; r.dependency stays.
ReconcileParent ==
    /\ pc = "dependency"
    /\ ~InDependencies
    /\ sr' = parent
    /\ pc' = "namespace"
    /\ UNCHANGED <<parent, di, dependency, passVars, pending, cache>>
    /\ UNCHANGED <<clusterVars, userOps, faults>>

\* createSpecialResourceFrom: CRUD asks the API server, not the cache, and
\* the caller always gets an error.  sr stands for the name it is given; a
\* CR gets no controller reference, so that the zero SpecialResource
\* r.specialresource holds by now has no effect.
CreateDependency ==
    /\ pc = "create"
    /\ HasRecipe(sr)
    /\ cr[sr] = NoUid
    /\ lastUid' = lastUid + 1
    /\ cr' = [cr EXCEPT ![sr] = lastUid']
    /\ Requeue
    /\ UNCHANGED <<owner, secret, subjects, workload, userOps, faults>>

\* There is no recipe, or the CR exists although the list did not have it:
\* the API server refuses an update without a resourceVersion.
CannotCreateDependency ==
    /\ pc = "create"
    /\ ~HasRecipe(sr) \/ cr[sr] # NoUid
    /\ Exit
    /\ UNCHANGED <<clusterVars, userOps, faults>>

\* createSpecialResourceNamespace: CRUD creates the namespace or updates the
\* one it finds; either way the reference is that of the current
\* SpecialResource, as this pass has listed it.
CreateNamespace ==
    /\ pc = "namespace"
    /\ owner' = [owner EXCEPT ![WorkingNamespace(sr)] = <<sr, items[sr]>>]
    /\ pc' = "puller"
    /\ UNCHANGED <<cr, lastUid, secret, subjects, workload>>
    /\ UNCHANGED <<fieldVars, passVars, pending, cache, userOps, faults>>

\* createImagePullerRoleBinding: nothing to do.
SkipRoleBinding ==
    /\ pc = "puller"
    /\ \/ ~dependency.imageReference
       \/ ParentNamespace(parent) \in subjects[WorkingNamespace(sr)]
    /\ pc' = "runtime"
    /\ UNCHANGED <<clusterVars, fieldVars, passVars, pending, cache, userOps, faults>>

\* Mutant: every dependency is taken to have an imageReference.
AddSubjectAlways ==
    /\ pc = "puller"
    /\ ParentNamespace(parent) \notin subjects[WorkingNamespace(sr)]
    /\ owner[WorkingNamespace(sr)] # Absent
    /\ subjects' = [subjects EXCEPT ![WorkingNamespace(sr)] =
                       @ \cup {ParentNamespace(parent)}]
    /\ pc' = "runtime"
    /\ UNCHANGED <<cr, lastUid, owner, secret, workload>>
    /\ UNCHANGED <<fieldVars, passVars, pending, cache, userOps, faults>>

\* The builder of the parent's namespace becomes a subject; without one in
\* the parent's specification, a builder of no namespace.
AddSubject ==
    /\ pc = "puller"
    /\ dependency.imageReference
    /\ ParentNamespace(parent) \notin subjects[WorkingNamespace(sr)]
    /\ owner[WorkingNamespace(sr)] # Absent
    /\ subjects' = [subjects EXCEPT ![WorkingNamespace(sr)] =
                       @ \cup {ParentNamespace(parent)}]
    /\ pc' = "runtime"
    /\ UNCHANGED <<cr, lastUid, owner, secret, workload>>
    /\ UNCHANGED <<fieldVars, passVars, pending, cache, userOps, faults>>

\* The API server refuses a RoleBinding in a namespace that is gone.
RoleBindingRefused ==
    /\ pc = "puller"
    /\ dependency.imageReference
    /\ ParentNamespace(parent) \notin subjects[WorkingNamespace(sr)]
    /\ owner[WorkingNamespace(sr)] = Absent
    /\ Requeue
    /\ UNCHANGED <<clusterVars, userOps, faults>>

\* getHardwareConfiguration and getRuntimeInformation.
GetRuntimeInformation ==
    /\ pc = "runtime"
    /\ HasRecipe(sr)
    /\ WorkingNamespace(sr) \in secret
    /\ pc' = "states"
    /\ UNCHANGED <<clusterVars, fieldVars, passVars, pending, cache, userOps, faults>>

\* No recipe, or no push secret: the builder's secret appears some time
\* after the namespace.
NoPushSecret ==
    /\ pc = "runtime"
    /\ ~HasRecipe(sr) \/ WorkingNamespace(sr) \notin secret
    /\ Exit
    /\ UNCHANGED <<clusterVars, userOps, faults>>

\* ReconcileHardwareStates applies the manifests.  What it finds gets the
\* current reference; a change is an event.
ApplyStates ==
    /\ pc = "states"
    /\ owner[WorkingNamespace(sr)] # Absent
    /\ LET phase == IF workload[sr].phase = "absent" THEN "applied"
                                                     ELSE workload[sr].phase
       IN  workload' = [workload EXCEPT ![sr] = [phase |-> phase, uid |-> items[sr]]]
    /\ pending' = (pending \/ workload' # workload)
    /\ pc' = "wait"
    /\ UNCHANGED <<cr, lastUid, owner, secret, subjects>>
    /\ UNCHANGED <<fieldVars, passVars, cache, userOps, faults>>

\* Then it waits for them, until they are available or a wait times out.
StatesAvailable ==
    /\ pc = "wait"
    /\ workload[sr].phase = "ready"
    /\ Reconciled
    /\ UNCHANGED <<clusterVars, userOps, faults>>

\* Mutant: a timeout is logged and the pass goes on.
StatesTimeoutIgnored ==
    /\ pc = "wait"
    /\ workload[sr].phase # "ready"
    /\ pc' = IF InDependencies THEN "dependency" ELSE "parent"
    /\ di' = IF InDependencies THEN di + 1 ELSE di
    /\ UNCHANGED <<parent, dependency, sr, passVars, pending, cache>>
    /\ UNCHANGED <<clusterVars, userOps, faults>>

StatesTimeout ==
    /\ pc = "wait"
    /\ workload[sr].phase # "ready"
    /\ Requeue
    /\ UNCHANGED <<clusterVars, userOps, faults>>

\* CRUD fails in a namespace that is gone.
NamespaceGone ==
    /\ pc = "states"
    /\ owner[WorkingNamespace(sr)] = Absent
    /\ Exit
    /\ UNCHANGED <<clusterVars, userOps, faults>>

(***************************************************************************)
(* Calls that fail.  A list, a RoleBinding or a state that fails is        *)
(* requeued, every other error exits.                                      *)
(***************************************************************************)
Fault == faults < MaxFaults /\ faults' = faults + 1

Crash ==
    /\ Fault
    /\ pc # "down"
    /\ Exit
    /\ UNCHANGED <<clusterVars, userOps>>

ApiError ==
    /\ Fault
    /\ pc \in {"puller", "wait"}
    /\ Requeue
    /\ UNCHANGED <<clusterVars, userOps>>

(***************************************************************************)
(* The rest of the cluster.                                                *)
(***************************************************************************)
UserOp == userOps < MaxUserOps /\ userOps' = userOps + 1

UserCreate(s) ==
    /\ UserOp
    /\ cr[s] = NoUid
    /\ lastUid' = lastUid + 1
    /\ cr' = [cr EXCEPT ![s] = lastUid']
    /\ UNCHANGED <<owner, secret, subjects, workload>>
    /\ UNCHANGED <<cache, pc, pending, fieldVars, passVars, faults>>

UserDelete(s) ==
    /\ UserOp
    /\ cr[s] # NoUid
    /\ cr' = [cr EXCEPT ![s] = NoUid]
    /\ UNCHANGED <<lastUid, owner, secret, subjects, workload>>
    /\ UNCHANGED <<cache, pc, pending, fieldVars, passVars, faults>>

\* A watch event reaches the informer and the work queue.
CacheSync(s) ==
    /\ pc # "down"
    /\ cache[s] # cr[s]
    /\ cache' = [cache EXCEPT ![s] = cr[s]]
    /\ pending' = TRUE
    /\ UNCHANGED <<clusterVars, pc, fieldVars, passVars, userOps, faults>>

\* OpenShift gives every namespace a builder with a dockercfg secret.
SecretCreated(n) ==
    /\ owner[n] # Absent
    /\ n \notin secret
    /\ secret' = secret \cup {n}
    /\ UNCHANGED <<cr, lastUid, owner, subjects, workload>>
    /\ UNCHANGED <<cache, pc, pending, fieldVars, passVars, userOps, faults>>

\* The namespaces whose builder may pull from namespace n: in a RoleBinding
\* a ServiceAccount without a namespace is the one of the RoleBinding's own.
MayPull(n) == {IF m = "" THEN n ELSE m : m \in subjects[n]}

\* The builds of s start from images of its imageReference dependencies.
CanBuild(s) ==
    \A d \in Names : <<s, d>> \in ImageReference =>
        WorkingNamespace(s) \in MayPull(WorkingNamespace(d))

\* The images of a workload are built and its pods come up; the operator
\* owns the DaemonSet.
WorkloadReady(s) ==
    /\ workload[s].phase = "applied"
    /\ CanBuild(s)
    /\ workload' = [workload EXCEPT ![s] = [phase |-> "ready", uid |-> @.uid]]
    /\ pending' = (pending \/ pc # "down")
    /\ UNCHANGED <<cr, lastUid, owner, secret, subjects>>
    /\ UNCHANGED <<cache, pc, fieldVars, passVars, userOps, faults>>

\* A controller reference to a SpecialResource that is there.
Live(ref) == ref[1] \in Names /\ ref[2] # NoUid /\ cr[ref[1]] = ref[2]

\* The garbage collector deletes what belongs to a SpecialResource that is
\* gone: a namespace with all it holds, and objects one by one.
CollectNamespace(n) ==
    /\ owner[n] # Absent
    /\ ~Live(owner[n])
    /\ owner' = [owner EXCEPT ![n] = Absent]
    /\ secret' = secret \ {n}
    /\ subjects' = [subjects EXCEPT ![n] = {}]
    /\ workload' = WithoutWorkloads({s \in Names : WorkingNamespace(s) = n})
    /\ pending' = (pending \/ (pc # "down" /\ workload' # workload))
    /\ UNCHANGED <<cr, lastUid, cache, pc, fieldVars, passVars, userOps, faults>>

CollectWorkload(s) ==
    /\ workload[s].phase # "absent"
    /\ ~Live(<<s, workload[s].uid>>)
    /\ workload' = WithoutWorkloads({s})
    /\ pending' = (pending \/ pc # "down")
    /\ UNCHANGED <<cr, lastUid, owner, secret, subjects>>
    /\ UNCHANGED <<cache, pc, fieldVars, passVars, userOps, faults>>

Pass ==
    \/ StartPass \/ NextParent \/ EndPass
    \/ NextDependency \/ ReconcileParent
    \/ CreateDependency \/ CannotCreateDependency
    \/ CreateNamespace
    \/ SkipRoleBinding \/ AddSubject \/ RoleBindingRefused
    \/ GetRuntimeInformation \/ NoPushSecret
    \/ ApplyStates \/ StatesAvailable \/ StatesTimeout \/ NamespaceGone

Collect ==
    \/ \E n \in Namespaces : CollectNamespace(n)
    \/ \E s \in Names : CollectWorkload(s)

Environment ==
    \/ \E s \in Names : \/ UserCreate(s) \/ UserDelete(s)
                        \/ CacheSync(s) \/ WorkloadReady(s)
    \/ \E n \in Namespaces : SecretCreated(n)
    \/ Collect

Next == Restart \/ Resync \/ Pass \/ Crash \/ ApiError \/ Environment

Spec == Init /\ [][Next]_vars

\* The Deployment restarts the operator, the work queue hands out what it
\* holds, watches deliver, and the cluster's controllers act on what they
\* see.  Nothing is assumed of users, faults or the resync: a pass starts
\* because of an event or a requeue.
Fairness ==
    /\ WF_vars(Restart)
    /\ WF_vars(Pass)
    /\ \A s \in Names : WF_vars(CacheSync(s)) /\ WF_vars(WorkloadReady(s))
    /\ \A n \in Namespaces : WF_vars(SecretCreated(n))
    /\ \A n \in Namespaces : WF_vars(CollectNamespace(n))
    /\ \A s \in Names : WF_vars(CollectWorkload(s))

FairSpec == Spec /\ Fairness

(***************************************************************************)
(* Properties.                                                             *)
(***************************************************************************)
Uids == Nat

\* Every variable has its type.
TypeOK ==
    /\ cr \in [Names -> Uids]
    /\ lastUid \in Uids
    /\ owner \in [Namespaces -> (Names \cup {""}) \X Uids]
    /\ secret \subseteq Namespaces
    /\ subjects \in [Namespaces -> SUBSET (Namespaces \cup {""})]
    /\ workload \in [Names -> [phase : {"absent", "applied", "ready"}, uid : Uids]]
    /\ cache \in [Names -> Uids]
    /\ pc \in Steps
    /\ pending \in BOOLEAN
    /\ items \in [Names -> Uids]
    /\ todo \subseteq Names
    /\ parent \in Names
    /\ di \in Nat \ {0}
    /\ dependency \in [name : Names \cup {""}, imageReference : BOOLEAN]
    /\ sr \in Names
    /\ done \subseteq Names
    /\ userOps \in Nat
    /\ faults \in Nat

Dependencies(p) == {DependsOn[p][i] : i \in DOMAIN DependsOn[p]}

\* The builder of namespace m may be granted the images of namespace n: it
\* is its own namespace, or that of a dependency with an imageReference.
MayGrant(m, n) ==
    \/ m = n
    \/ \E p \in Names : \E d \in Dependencies(p) :
          /\ WorkingNamespace(p) = m
          /\ WorkingNamespace(d) = n
          /\ <<p, d>> \in ImageReference

\* createImagePullerRoleBinding lets the builder of a namespace pull only
\* from its own namespace and from those of SpecialResources it depends on
\* with an imageReference, although r.dependency keeps its value when the
\* loop over the dependencies has ended, for the parents that follow and
\* for the passes that follow.
GrantScope ==
    \A n \in Namespaces : \A m \in MayPull(n) : MayGrant(m, n)

\* A SpecialResource is worked on as a parent only after each of its
\* dependencies has been reconciled to the end by the same pass
\* (SpecialResourceDependency: "a SpecialResource that needs to be
\* Complete"), whatever the pass met in its list, in the cluster and in what
\* earlier passes had left behind.
DependenciesFirst ==
    pc \in HardwareSteps /\ ~InDependencies => Dependencies(parent) \subseteq done

\* A pass never acts for a SpecialResource it has not listed, whose uid it
\* would not know: no namespace and no workload gets an empty reference,
\* which nothing would ever collect.
OwnedByListed ==
    /\ pc \in HardwareSteps => items[sr] # NoUid
    /\ \A n \in Namespaces : owner[n] = Absent \/ owner[n][2] # NoUid
    /\ \A s \in Names : workload[s].phase = "absent" \/ workload[s].uid # NoUid

(***************************************************************************)
(* The inductive strengthening of the safety properties: what the fields   *)
(* of the reconciler mean while a pass works with them.                    *)
(***************************************************************************)
Visiting == {"dependency", "create"} \cup HardwareSteps

\* r.specialresource is the parent after the loop over its dependencies, and
\* in the loop the dependency that r.dependency describes.
CurrentResource ==
    IF InDependencies
    THEN /\ sr = DependsOn[parent][di]
         /\ dependency.imageReference => <<parent, sr>> \in ImageReference
    ELSE sr = parent

PassInv ==
    /\ \A s \in todo : items[s] # NoUid
    /\ pc \in Visiting =>
          /\ items[parent] # NoUid
          /\ \A i \in DOMAIN DependsOn[parent] : i < di => DependsOn[parent][i] \in done
    /\ pc \in HardwareSteps => items[sr] # NoUid /\ CurrentResource

\* Once users stop, every SpecialResource that exists, and every one it
\* depends on, is rolled out and stays so: no stale list, crash, missing
\* secret, lost namespace or created dependency leaves the operator idle.
EventuallyRolledOut ==
    <>[](\A s \in Names : cr[s] # NoUid =>
            \A d \in Dependencies(s) \cup {s} :
                workload[d] = [phase |-> "ready", uid |-> cr[d]])

\* Once users stop, nothing belongs any more to a SpecialResource that is
\* gone, although passes keep acting on lists that still have it ("Owned
\* objects are automatically garbage collected").
EventuallyCollected ==
    <>[](/\ \A n \in Namespaces : owner[n] = Absent \/ Live(owner[n])
         /\ \A s \in Names : workload[s].phase = "absent" \/ cr[s] # NoUid)

=============================================================================
