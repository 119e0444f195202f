------------------------- MODULE ReconcilerProofs -------------------------
(***************************************************************************)
(* Proofs about Reconciler, for any SpecialResources, dependencies and     *)
(* namespaces, and any number of users' operations and faults.             *)
(***************************************************************************)
EXTENDS Reconciler, TLAPS

USE DEF clusterVars, fieldVars, passVars

(***************************************************************************)
(* The specification of a SpecialResource.                                 *)
(***************************************************************************)

\* The working namespace is a namespace.
LEMMA WorkingNamespaceType ==
    ASSUME NEW s \in Names
    PROVE  WorkingNamespace(s) \in Namespaces
BY NamespaceAssumption DEF WorkingNamespace

\* The namespace of a parent is one, or is not set.
LEMMA ParentNamespaceType ==
    ASSUME NEW p \in Names
    PROVE  ParentNamespace(p) \in Namespaces \cup {""}
BY NamespaceAssumption DEF ParentNamespace

\* What a parent depends on has a name.
LEMMA DependencyType ==
    ASSUME NEW p \in Names, NEW i \in DOMAIN DependsOn[p]
    PROVE  DependsOn[p][i] \in Names
BY DependencyAssumption

\* The positions in a list of dependencies.
LEMMA DependencyPositions ==
    ASSUME NEW p \in Names
    PROVE  DOMAIN DependsOn[p] = 1..Len(DependsOn[p]) /\ Len(DependsOn[p]) \in Nat
BY DependencyAssumption

\* Counting, kept apart from the state.
LEMMA Counting ==
    /\ 1 \in Nat \ {0}
    /\ \A k \in Nat : k + 1 \in Nat \ {0} /\ k + 1 \in Nat
    /\ \A k \in Nat \ {0} : k \in Nat /\ k >= 1
OBVIOUS

\* No position is before the first, and the one before the next is this one
\* or before it.
LEMMA PositionOrder ==
    ASSUME NEW p \in Names, NEW i \in DOMAIN DependsOn[p], NEW k \in Nat
    PROVE  ~(i < 1) /\ (i < k + 1 => i < k \/ i = k)
<1>1. i \in Nat /\ i >= 1
  BY DependencyPositions
<1>. QED
  BY <1>1

\* r.dependency has its type.
LEMMA DependencyRecord ==
    ASSUME NEW p \in Names, NEW d \in Names
    PROVE  [name |-> d, imageReference |-> <<p, d>> \in ImageReference]
              \in [name : Names \cup {""}, imageReference : BOOLEAN]
<1>1. CASE <<p, d>> \in ImageReference
  <2>1. (<<p, d>> \in ImageReference) = TRUE
    BY <1>1
  <2>. QED
    BY <2>1
<1>2. CASE <<p, d>> \notin ImageReference
  <2>1. (<<p, d>> \in ImageReference) = FALSE
    BY <1>2
  <2>. QED
    BY <2>1
<1>. QED
  BY <1>1, <1>2

\* In the loop over the dependencies, di is the position of one of them.
LEMMA LoopPosition ==
    ASSUME TypeOK, InDependencies
    PROVE  di \in DOMAIN DependsOn[parent]
<1>1. parent \in Names /\ di \in Nat \ {0}
  BY DEF TypeOK
<1>2. di <= Len(DependsOn[parent])
  BY DEF InDependencies
<1>. QED
  BY <1>1, <1>2, DependencyPositions, Counting

\* Counters stay natural numbers.
LEMMA CounterType ==
    /\ faults \in Nat /\ Fault => faults' \in Nat
    /\ userOps \in Nat /\ UserOp => userOps' \in Nat
BY DEF Fault, UserOp

(***************************************************************************)
(* Types.                                                                  *)
(***************************************************************************)

\* The initial states have their types.
LEMMA TypeInit == Init => TypeOK
<1>. SUFFICES ASSUME Init
              PROVE  TypeOK
  OBVIOUS
<1>1. cr \in [Names -> Uids]
  BY DEF Init, NoUid, Uids
<1>2. owner \in [Namespaces -> (Names \cup {""}) \X Uids]
  BY DEF Init, Absent, NoUid, Uids
<1>3. workload \in [Names -> [phase : {"absent", "applied", "ready"}, uid : Uids]]
  BY DEF Init, NoWorkload, NoUid, Uids
<1>4. dependency \in [name : Names \cup {""}, imageReference : BOOLEAN]
  BY DEF Init, NoDependency
<1>5. lastUid \in Uids /\ di \in Nat \ {0} /\ userOps \in Nat /\ faults \in Nat
  BY DEF Init, Uids
<1>6. subjects \in [Namespaces -> SUBSET (Namespaces \cup {""})]
  BY DEF Init
<1>. QED
  BY <1>1, <1>2, <1>3, <1>4, <1>5, <1>6 DEF Init, TypeOK, Steps

\* Every step of the operator and of the cluster keeps the types.
LEMMA TypeStep == TypeOK /\ [Next]_vars => TypeOK'
<1>. SUFFICES ASSUME TypeOK, [Next]_vars
              PROVE  TypeOK'
  OBVIOUS
<1>. USE DEF TypeOK, Uids
<1>1. CASE Restart
  BY <1>1 DEF Restart, Steps, HardwareSteps
<1>2. CASE Resync
  BY <1>2 DEF Resync, Steps, HardwareSteps
<1>3. CASE StartPass
  BY <1>3 DEF StartPass, Steps, HardwareSteps, NoUid
<1>4. CASE NextParent
  <2>1. di' \in Nat \ {0}
    BY <1>4, Counting DEF NextParent
  <2>2. parent' \in Names /\ todo' \subseteq Names
    BY <1>4 DEF NextParent
  <2>. QED
    BY <1>4, <2>1, <2>2 DEF NextParent, Steps
<1>5. CASE EndPass
  BY <1>5 DEF EndPass, Steps, HardwareSteps
<1>6. CASE NextDependency
  <2>1. DependsOn[parent][di] \in Names
    BY <1>6, LoopPosition, DependencyType DEF NextDependency
  <2>2. dependency' \in [name : Names \cup {""}, imageReference : BOOLEAN]
    BY <1>6, <2>1, DependencyRecord DEF NextDependency
  <2>3. pc' \in Steps
    BY <1>6 DEF NextDependency, Steps, HardwareSteps
  <2>. QED
    BY <1>6, <2>1, <2>2, <2>3 DEF NextDependency
<1>7. CASE ReconcileParent
  BY <1>7 DEF ReconcileParent, Steps, HardwareSteps
<1>8. CASE CreateDependency
  <2>1. lastUid' \in Uids
    BY <1>8, Counting DEF CreateDependency
  <2>2. cr' \in [Names -> Uids]
    BY <1>8, <2>1 DEF CreateDependency
  <2>. QED
    BY <1>8, <2>1, <2>2 DEF CreateDependency, Requeue, Steps
<1>9. CASE CannotCreateDependency
  BY <1>9 DEF CannotCreateDependency, Exit, Steps, HardwareSteps, NoDependency
<1>10. CASE CreateNamespace
  <2>1. owner' \in [Namespaces -> (Names \cup {""}) \X Uids]
    BY <1>10, WorkingNamespaceType DEF CreateNamespace
  <2>. QED
    BY <1>10, <2>1 DEF CreateNamespace, Steps, HardwareSteps
<1>11. CASE SkipRoleBinding
  BY <1>11 DEF SkipRoleBinding, Steps, HardwareSteps
<1>12. CASE AddSubject
  <2>1. ParentNamespace(parent) \in Namespaces \cup {""}
    BY ParentNamespaceType
  <2>2. subjects' \in [Namespaces -> SUBSET (Namespaces \cup {""})]
    BY <1>12, <2>1, WorkingNamespaceType DEF AddSubject
  <2>. QED
    BY <1>12, <2>2 DEF AddSubject, Steps, HardwareSteps
<1>13. CASE RoleBindingRefused
  BY <1>13 DEF RoleBindingRefused, Requeue, Steps, HardwareSteps
<1>14. CASE GetRuntimeInformation
  BY <1>14 DEF GetRuntimeInformation, Steps, HardwareSteps
<1>15. CASE NoPushSecret
  BY <1>15 DEF NoPushSecret, Exit, Steps, HardwareSteps, NoDependency
<1>16. CASE ApplyStates
  <2>1. workload' \in [Names -> [phase : {"absent", "applied", "ready"}, uid : Uids]]
    BY <1>16 DEF ApplyStates
  <2>2. pending' \in BOOLEAN
    BY <1>16 DEF ApplyStates
  <2>. QED
    BY <1>16, <2>1, <2>2 DEF ApplyStates, Steps, HardwareSteps
<1>17. CASE StatesAvailable
  <2>1. di' \in Nat \ {0}
    BY <1>17, Counting DEF StatesAvailable, Reconciled
  <2>. QED
    BY <1>17, <2>1 DEF StatesAvailable, Reconciled, Steps
<1>18. CASE StatesTimeout
  BY <1>18 DEF StatesTimeout, Requeue, Steps, HardwareSteps
<1>19. CASE NamespaceGone
  BY <1>19 DEF NamespaceGone, Exit, Steps, HardwareSteps, NoDependency
<1>20. CASE Crash
  BY <1>20, CounterType DEF Crash, Exit, Steps, HardwareSteps, NoDependency
<1>21. CASE ApiError
  BY <1>21, CounterType DEF ApiError, Requeue, Steps, HardwareSteps
<1>22. ASSUME NEW s \in Names, UserCreate(s)
      PROVE  TypeOK'
  <2>1. lastUid' \in Uids
    BY <1>22, Counting DEF UserCreate
  <2>2. cr' \in [Names -> Uids]
    BY <1>22, <2>1 DEF UserCreate
  <2>. QED
    BY <1>22, <2>1, <2>2, CounterType DEF UserCreate
<1>23. ASSUME NEW s \in Names, UserDelete(s)
      PROVE  TypeOK'
  BY <1>23, CounterType DEF UserDelete, NoUid
<1>24. ASSUME NEW s \in Names, CacheSync(s)
      PROVE  TypeOK'
  BY <1>24 DEF CacheSync
<1>25. ASSUME NEW s \in Names, WorkloadReady(s)
      PROVE  TypeOK'
  <2>1. workload' \in [Names -> [phase : {"absent", "applied", "ready"}, uid : Uids]]
    BY <1>25 DEF WorkloadReady
  <2>2. pending' \in BOOLEAN
    BY <1>25 DEF WorkloadReady
  <2>. QED
    BY <1>25, <2>1, <2>2 DEF WorkloadReady
<1>26. ASSUME NEW s \in Names, CollectWorkload(s)
      PROVE  TypeOK'
  <2>1. workload' \in [Names -> [phase : {"absent", "applied", "ready"}, uid : Uids]]
    BY <1>26 DEF CollectWorkload, WithoutWorkloads, NoWorkload, NoUid
  <2>2. pending' \in BOOLEAN
    BY <1>26 DEF CollectWorkload
  <2>. QED
    BY <1>26, <2>1, <2>2 DEF CollectWorkload
<1>27. ASSUME NEW n \in Namespaces, SecretCreated(n)
      PROVE  TypeOK'
  BY <1>27 DEF SecretCreated
<1>28. ASSUME NEW n \in Namespaces, CollectNamespace(n)
      PROVE  TypeOK'
  <2>1. workload' \in [Names -> [phase : {"absent", "applied", "ready"}, uid : Uids]]
    BY <1>28 DEF CollectNamespace, WithoutWorkloads, NoWorkload, NoUid
  <2>2. owner' \in [Namespaces -> (Names \cup {""}) \X Uids]
    BY <1>28 DEF CollectNamespace, Absent, NoUid
  <2>3. pending' \in BOOLEAN
    BY <1>28 DEF CollectNamespace
  <2>. QED
    BY <1>28, <2>1, <2>2, <2>3 DEF CollectNamespace
<1>29. CASE UNCHANGED vars
  BY <1>29 DEF vars
<1>. QED
    BY <1>1, <1>2, <1>3, <1>4, <1>5, <1>6, <1>7, <1>8, <1>9, <1>10, <1>11,
     <1>12, <1>13, <1>14, <1>15, <1>16, <1>17, <1>18, <1>19, <1>20, <1>21,
     <1>22, <1>23, <1>24, <1>25, <1>26, <1>27, <1>28, <1>29
  DEF Next, Pass, Environment, Collect

\* Type correctness: every variable keeps its type in every behaviour.
THEOREM TypeCorrect == Spec => []TypeOK
BY TypeInit, TypeStep, PTL DEF Spec

(***************************************************************************)
(* What the fields of the reconciler mean during a pass.                   *)
(***************************************************************************)

\* Before the first pass there is nothing to say.
LEMMA PassInit == Init => PassInv
BY DEF Init, PassInv, Visiting, HardwareSteps

\* Each step of a pass keeps the meaning of parent, dependency and
\* specialresource; no step of the cluster touches them.
LEMMA PassStep == TypeOK /\ PassInv /\ [Next]_vars => PassInv'
<1>. SUFFICES ASSUME TypeOK, PassInv, [Next]_vars
              PROVE  PassInv'
  OBVIOUS
<1>. USE DEF TypeOK, PassInv
<1>1. CASE Restart
  BY <1>1 DEF Restart, Visiting, HardwareSteps
<1>2. CASE Resync
  BY <1>2 DEF Resync, Visiting, HardwareSteps, CurrentResource, InDependencies
<1>3. CASE StartPass
  BY <1>3 DEF StartPass, Visiting, HardwareSteps, NoUid
<1>4. CASE NextParent
  <2>1. items'[parent'] # NoUid /\ \A s \in todo' : items'[s] # NoUid
    BY <1>4 DEF NextParent
  <2>2. \A i \in DOMAIN DependsOn[parent'] : ~(i < di')
    <3>1. parent' \in Names /\ di' = 1
      BY <1>4 DEF NextParent
    <3>. QED
      BY <3>1, PositionOrder, Counting
  <2>. QED
    BY <1>4, <2>1, <2>2 DEF NextParent, HardwareSteps
<1>5. CASE EndPass
  BY <1>5 DEF EndPass, Visiting, HardwareSteps
<1>6. CASE NextDependency
  <2>1. DependsOn[parent][di] = sr' /\ InDependencies'
    BY <1>6 DEF NextDependency, InDependencies
  <2>2. dependency'.imageReference => <<parent', sr'>> \in ImageReference
    BY <1>6 DEF NextDependency
  <2>3. CurrentResource'
    BY <1>6, <2>1, <2>2 DEF NextDependency, CurrentResource
  <2>4. pc' \in HardwareSteps => items'[sr'] # NoUid
    BY <1>6 DEF NextDependency, HardwareSteps
  <2>. QED
    BY <1>6, <2>3, <2>4 DEF NextDependency, Visiting
<1>7. CASE ReconcileParent
  <2>1. CurrentResource'
    BY <1>7 DEF ReconcileParent, CurrentResource, InDependencies
  <2>. QED
    BY <1>7, <2>1 DEF ReconcileParent, Visiting, HardwareSteps
<1>8. CASE CreateDependency
  BY <1>8 DEF CreateDependency, Requeue, Visiting, HardwareSteps
<1>9. CASE CannotCreateDependency
  BY <1>9 DEF CannotCreateDependency, Exit, Visiting, HardwareSteps
<1>10. CASE CreateNamespace
    BY <1>10 DEF CreateNamespace, Visiting, HardwareSteps, CurrentResource,
     InDependencies
<1>11. CASE SkipRoleBinding
    BY <1>11 DEF SkipRoleBinding, Visiting, HardwareSteps, CurrentResource,
     InDependencies
<1>12. CASE AddSubject
    BY <1>12 DEF AddSubject, Visiting, HardwareSteps, CurrentResource,
     InDependencies
<1>13. CASE RoleBindingRefused
  BY <1>13 DEF RoleBindingRefused, Requeue, Visiting, HardwareSteps
<1>14. CASE GetRuntimeInformation
    BY <1>14 DEF GetRuntimeInformation, Visiting, HardwareSteps,
     CurrentResource, InDependencies
<1>15. CASE NoPushSecret
  BY <1>15 DEF NoPushSecret, Exit, Visiting, HardwareSteps
<1>16. CASE ApplyStates
    BY <1>16 DEF ApplyStates, Visiting, HardwareSteps, CurrentResource,
     InDependencies
<1>17. CASE StatesAvailable
  <2>1. CASE InDependencies
    <3>1. sr = DependsOn[parent][di]
      BY <1>17, <2>1 DEF StatesAvailable, HardwareSteps, CurrentResource
    <3>2. \A i \in DOMAIN DependsOn[parent] : i < di + 1 => i < di \/ i = di
      BY PositionOrder
    <3>3. \A i \in DOMAIN DependsOn[parent] : i < di => DependsOn[parent][i] \in done
      BY <1>17 DEF StatesAvailable, Visiting, HardwareSteps
    <3>4. \A i \in DOMAIN DependsOn[parent]' : i < di' => DependsOn[parent]'[i] \in done'
      BY <1>17, <2>1, <3>1, <3>2, <3>3 DEF StatesAvailable, Reconciled
    <3>. QED
            BY <1>17, <2>1, <3>4 DEF StatesAvailable, Reconciled, Visiting,
         HardwareSteps
  <2>2. CASE ~InDependencies
    BY <1>17, <2>2 DEF StatesAvailable, Reconciled, Visiting, HardwareSteps
  <2>. QED
    BY <2>1, <2>2
<1>18. CASE StatesTimeout
  BY <1>18 DEF StatesTimeout, Requeue, Visiting, HardwareSteps
<1>19. CASE NamespaceGone
  BY <1>19 DEF NamespaceGone, Exit, Visiting, HardwareSteps
<1>20. CASE Crash
  BY <1>20 DEF Crash, Exit, Visiting, HardwareSteps
<1>21. CASE ApiError
  BY <1>21 DEF ApiError, Requeue, Visiting, HardwareSteps
<1>22. ASSUME NEW s \in Names, UserCreate(s)
      PROVE  PassInv'
  BY <1>22 DEF UserCreate, CurrentResource, InDependencies
<1>23. ASSUME NEW s \in Names, UserDelete(s)
      PROVE  PassInv'
  BY <1>23 DEF UserDelete, CurrentResource, InDependencies
<1>24. ASSUME NEW s \in Names, CacheSync(s)
      PROVE  PassInv'
  BY <1>24 DEF CacheSync, CurrentResource, InDependencies
<1>25. ASSUME NEW s \in Names, WorkloadReady(s)
      PROVE  PassInv'
  BY <1>25 DEF WorkloadReady, CurrentResource, InDependencies
<1>26. ASSUME NEW s \in Names, CollectWorkload(s)
      PROVE  PassInv'
  BY <1>26 DEF CollectWorkload, CurrentResource, InDependencies
<1>27. ASSUME NEW n \in Namespaces, SecretCreated(n)
      PROVE  PassInv'
  BY <1>27 DEF SecretCreated, CurrentResource, InDependencies
<1>28. ASSUME NEW n \in Namespaces, CollectNamespace(n)
      PROVE  PassInv'
  BY <1>28 DEF CollectNamespace, CurrentResource, InDependencies
<1>29. CASE UNCHANGED vars
  BY <1>29 DEF vars, CurrentResource, InDependencies
<1>. QED
    BY <1>1, <1>2, <1>3, <1>4, <1>5, <1>6, <1>7, <1>8, <1>9, <1>10, <1>11,
     <1>12, <1>13, <1>14, <1>15, <1>16, <1>17, <1>18, <1>19, <1>20, <1>21,
     <1>22, <1>23, <1>24, <1>25, <1>26, <1>27, <1>28, <1>29
  DEF Next, Pass, Environment, Collect

\* A parent is worked on after all of its dependencies.
THEOREM DependenciesComeFirst == Spec => []DependenciesFirst
<1>1. TypeOK /\ PassInv => DependenciesFirst
  <2>. SUFFICES ASSUME TypeOK, PassInv, pc \in HardwareSteps, ~InDependencies,
                       NEW i \in DOMAIN DependsOn[parent]
                PROVE  DependsOn[parent][i] \in done
    BY DEF DependenciesFirst, Dependencies
  <2>1. parent \in Names /\ di \in Nat /\ ~(di <= Len(DependsOn[parent]))
    BY DEF TypeOK, InDependencies
  <2>2. i < di
    BY <2>1, DependencyPositions
  <2>. QED
    BY <2>2 DEF PassInv, Visiting
<1>. QED
  BY <1>1, TypeInit, TypeStep, PassInit, PassStep, PTL DEF Spec

(***************************************************************************)
(* GrantScope.                                                             *)
(***************************************************************************)

\* In the first state there is no RoleBinding.
LEMMA GrantInit == Init => GrantScope
BY DEF Init, GrantScope, MayPull

\* Only AddSubject grants, and the fields it reads belong together.
LEMMA GrantStep == TypeOK /\ PassInv /\ GrantScope /\ [Next]_vars => GrantScope'
<1>. SUFFICES ASSUME TypeOK, PassInv, GrantScope, [Next]_vars
              PROVE  GrantScope'
  OBVIOUS
<1>. USE DEF GrantScope, MayPull
<1>1. CASE Restart
  BY <1>1 DEF Restart
<1>2. CASE Resync
  BY <1>2 DEF Resync
<1>3. CASE StartPass
  BY <1>3 DEF StartPass
<1>4. CASE NextParent
  BY <1>4 DEF NextParent
<1>5. CASE EndPass
  BY <1>5 DEF EndPass
<1>6. CASE NextDependency
  BY <1>6 DEF NextDependency
<1>7. CASE ReconcileParent
  BY <1>7 DEF ReconcileParent
<1>8. CASE CreateDependency
  BY <1>8 DEF CreateDependency, Requeue
<1>9. CASE CannotCreateDependency
  BY <1>9 DEF CannotCreateDependency, Exit
<1>10. CASE CreateNamespace
  BY <1>10 DEF CreateNamespace
<1>11. CASE SkipRoleBinding
  BY <1>11 DEF SkipRoleBinding
<1>12. CASE AddSubject
  <2>. DEFINE m == ParentNamespace(parent)
  <2>. DEFINE n == WorkingNamespace(sr)
  <2>1. m # "" => MayGrant(m, n)
    <3>. SUFFICES ASSUME m # ""
                  PROVE  MayGrant(m, n)
      OBVIOUS
    <3>. m = WorkingNamespace(parent)
      BY DEF ParentNamespace, WorkingNamespace
    <3>1. CASE InDependencies
      <4>1. sr \in Dependencies(parent)
        BY <1>12, <3>1, LoopPosition
        DEF AddSubject, PassInv, HardwareSteps, CurrentResource, Dependencies
      <4>2. <<parent, sr>> \in ImageReference
        BY <1>12, <3>1 DEF AddSubject, PassInv, HardwareSteps, CurrentResource
      <4>. QED
        BY <4>1, <4>2 DEF TypeOK, MayGrant
    <3>2. CASE ~InDependencies
      <4>1. sr = parent
        BY <1>12, <3>2 DEF AddSubject, PassInv, HardwareSteps, CurrentResource
      <4>. QED
        BY <4>1 DEF MayGrant
    <3>. QED
      BY <3>1, <3>2
  <2>2. MayGrant(IF m = "" THEN n ELSE m, n)
    BY <2>1 DEF MayGrant
  <2>3. \A k \in Namespaces : \A j \in subjects'[k] :
            j \in subjects[k] \/ (j = m /\ k = n)
    BY <1>12 DEF AddSubject, TypeOK
  <2>. HIDE DEF m, n
  <2>. QED
    BY <2>2, <2>3
<1>13. CASE RoleBindingRefused
  BY <1>13 DEF RoleBindingRefused, Requeue
<1>14. CASE GetRuntimeInformation
  BY <1>14 DEF GetRuntimeInformation
<1>15. CASE NoPushSecret
  BY <1>15 DEF NoPushSecret, Exit
<1>16. CASE ApplyStates
  BY <1>16 DEF ApplyStates
<1>17. CASE StatesAvailable
  BY <1>17 DEF StatesAvailable, Reconciled
<1>18. CASE StatesTimeout
  BY <1>18 DEF StatesTimeout, Requeue
<1>19. CASE NamespaceGone
  BY <1>19 DEF NamespaceGone, Exit
<1>20. CASE Crash
  BY <1>20 DEF Crash, Exit
<1>21. CASE ApiError
  BY <1>21 DEF ApiError, Requeue
<1>22. ASSUME NEW s \in Names, UserCreate(s)
      PROVE  GrantScope'
  BY <1>22 DEF UserCreate
<1>23. ASSUME NEW s \in Names, UserDelete(s)
      PROVE  GrantScope'
  BY <1>23 DEF UserDelete
<1>24. ASSUME NEW s \in Names, CacheSync(s)
      PROVE  GrantScope'
  BY <1>24 DEF CacheSync
<1>25. ASSUME NEW s \in Names, WorkloadReady(s)
      PROVE  GrantScope'
  BY <1>25 DEF WorkloadReady
<1>26. ASSUME NEW s \in Names, CollectWorkload(s)
      PROVE  GrantScope'
  BY <1>26 DEF CollectWorkload
<1>27. ASSUME NEW n \in Namespaces, SecretCreated(n)
      PROVE  GrantScope'
  BY <1>27 DEF SecretCreated
<1>28. ASSUME NEW n \in Namespaces, CollectNamespace(n)
      PROVE  GrantScope'
  <2>1. \A k \in Namespaces : subjects'[k] \subseteq subjects[k]
    BY <1>28 DEF CollectNamespace, TypeOK
  <2>. QED
    BY <2>1
<1>29. CASE UNCHANGED vars
  BY <1>29 DEF vars
<1>. QED
    BY <1>1, <1>2, <1>3, <1>4, <1>5, <1>6, <1>7, <1>8, <1>9, <1>10, <1>11,
     <1>12, <1>13, <1>14, <1>15, <1>16, <1>17, <1>18, <1>19, <1>20, <1>21,
     <1>22, <1>23, <1>24, <1>25, <1>26, <1>27, <1>28, <1>29
  DEF Next, Pass, Environment, Collect

\* A builder pulls only from its own namespace and from those of its
\* imageReference dependencies.
THEOREM GrantsStayInScope == Spec => []GrantScope
BY TypeInit, TypeStep, PassInit, PassStep, GrantInit, GrantStep, PTL DEF Spec

(***************************************************************************)
(* OwnedByListed.                                                          *)
(***************************************************************************)
References ==
    /\ \A n \in Namespaces : owner[n] = Absent \/ owner[n][2] # NoUid
    /\ \A s \in Names : workload[s].phase = "absent" \/ workload[s].uid # NoUid

\* In the first state there is nothing to own.
LEMMA ReferencesInit == Init => References
BY DEF Init, References, NoWorkload

\* A reference is made from an item of the list of the pass.
LEMMA ReferencesStep == TypeOK /\ PassInv /\ References /\ [Next]_vars => References'
<1>. SUFFICES ASSUME TypeOK, PassInv, References, [Next]_vars
              PROVE  References'
  OBVIOUS
<1>. USE DEF References
<1>1. CASE Restart
  BY <1>1 DEF Restart
<1>2. CASE Resync
  BY <1>2 DEF Resync
<1>3. CASE StartPass
  BY <1>3 DEF StartPass
<1>4. CASE NextParent
  BY <1>4 DEF NextParent
<1>5. CASE EndPass
  BY <1>5 DEF EndPass
<1>6. CASE NextDependency
  BY <1>6 DEF NextDependency
<1>7. CASE ReconcileParent
  BY <1>7 DEF ReconcileParent
<1>8. CASE CreateDependency
  BY <1>8 DEF CreateDependency, Requeue
<1>9. CASE CannotCreateDependency
  BY <1>9 DEF CannotCreateDependency, Exit
<1>10. CASE CreateNamespace
  <2>1. items[sr] # NoUid
    BY <1>10 DEF CreateNamespace, PassInv, HardwareSteps
  <2>. QED
    BY <1>10, <2>1 DEF CreateNamespace, TypeOK
<1>11. CASE SkipRoleBinding
  BY <1>11 DEF SkipRoleBinding
<1>12. CASE AddSubject
  BY <1>12 DEF AddSubject
<1>13. CASE RoleBindingRefused
  BY <1>13 DEF RoleBindingRefused, Requeue
<1>14. CASE GetRuntimeInformation
  BY <1>14 DEF GetRuntimeInformation
<1>15. CASE NoPushSecret
  BY <1>15 DEF NoPushSecret, Exit
<1>16. CASE ApplyStates
  <2>1. items[sr] # NoUid
    BY <1>16 DEF ApplyStates, PassInv, HardwareSteps
  <2>. QED
    BY <1>16, <2>1 DEF ApplyStates, TypeOK
<1>17. CASE StatesAvailable
  BY <1>17 DEF StatesAvailable, Reconciled
<1>18. CASE StatesTimeout
  BY <1>18 DEF StatesTimeout, Requeue
<1>19. CASE NamespaceGone
  BY <1>19 DEF NamespaceGone, Exit
<1>20. CASE Crash
  BY <1>20 DEF Crash, Exit
<1>21. CASE ApiError
  BY <1>21 DEF ApiError, Requeue
<1>22. ASSUME NEW s \in Names, UserCreate(s)
      PROVE  References'
  BY <1>22 DEF UserCreate
<1>23. ASSUME NEW s \in Names, UserDelete(s)
      PROVE  References'
  BY <1>23 DEF UserDelete
<1>24. ASSUME NEW s \in Names, CacheSync(s)
      PROVE  References'
  BY <1>24 DEF CacheSync
<1>25. ASSUME NEW s \in Names, WorkloadReady(s)
      PROVE  References'
  BY <1>25 DEF WorkloadReady, TypeOK
<1>26. ASSUME NEW s \in Names, CollectWorkload(s)
      PROVE  References'
  <2>1. \A t \in Names : workload'[t] \in {workload[t], NoWorkload}
    BY <1>26 DEF CollectWorkload, WithoutWorkloads
  <2>. QED
    BY <1>26, <2>1 DEF CollectWorkload, NoWorkload
<1>27. ASSUME NEW n \in Namespaces, SecretCreated(n)
      PROVE  References'
  BY <1>27 DEF SecretCreated
<1>28. ASSUME NEW n \in Namespaces, CollectNamespace(n)
      PROVE  References'
  <2>1. \A k \in Namespaces : owner'[k] \in {owner[k], Absent}
    BY <1>28 DEF CollectNamespace, TypeOK
  <2>2. \A s \in Names : workload'[s] \in {workload[s], NoWorkload}
    BY <1>28 DEF CollectNamespace, WithoutWorkloads
  <2>. QED
    BY <2>1, <2>2 DEF NoWorkload
<1>29. CASE UNCHANGED vars
  BY <1>29 DEF vars
<1>. QED
    BY <1>1, <1>2, <1>3, <1>4, <1>5, <1>6, <1>7, <1>8, <1>9, <1>10, <1>11,
     <1>12, <1>13, <1>14, <1>15, <1>16, <1>17, <1>18, <1>19, <1>20, <1>21,
     <1>22, <1>23, <1>24, <1>25, <1>26, <1>27, <1>28, <1>29
  DEF Next, Pass, Environment, Collect

\* Nothing is created for a SpecialResource the pass has not listed.
THEOREM ReferencesAreListed == Spec => []OwnedByListed
<1>1. PassInv /\ References => OwnedByListed
  BY DEF PassInv, References, OwnedByListed
<1>. QED
  BY <1>1, TypeInit, TypeStep, PassInit, PassStep, ReferencesInit,
     ReferencesStep, PTL DEF Spec

=============================================================================
