----------------------- MODULE DriverContainerProofs -----------------------
(***************************************************************************)
(* Proofs about DriverContainer, for any number of SpecialResources, nodes *)
(* and kernel versions, and any number of faults.                          *)
(***************************************************************************)
EXTENDS DriverContainer, FiniteSetTheorems, TLAPS

USE DEF objectVars, clusterVars, memoryVars, passVars, observed

(***************************************************************************)
(* Counters.                                                               *)
(***************************************************************************)

\* The counters of a DaemonSet status are natural numbers.
LEMMA CounterType ==
    ASSUME NEW S \in SUBSET Nodes
    PROVE  Cardinality(S) \in Nat
BY NodesAssumption, FS_Subset, FS_CardinalityType

\* A DaemonSet that waitForDaemonSetCallback takes for available has an
\* available pod: a DaemonSet with no pod at all, whose counters are all
\* left out of its status, is not available.
LEMMA AvailableHasPod ==
    ASSUME NEW st, waitForDaemonSetCallback(st)
    PROVE  st.available # {}
<1>1. Cardinality(st.available) # 0
  BY DEF waitForDaemonSetCallback, Found
<1>. QED
  BY <1>1, FS_EmptySet

\* What r.List returns are nodes with their labels.
LEMMA NodeItemsType ==
    ASSUME TypeOK, NEW s \in SpecialResources
    PROVE  NodeItems(s) \subseteq NodeItemType
<1>1. ASSUME NEW n \in members \cap Selects[s]
      PROVE  NodeItem(n) \in NodeItemType
  <2>1. n \in Nodes /\ kernel[n] \in Versions
    BY DEF TypeOK
  <2>. QED
    BY <2>1 DEF NodeItem, NodeItemType
<1>. QED
  BY <1>1 DEF NodeItems

\* A step of the kubelet changes the phase of one pod.
LEMMA PodChange ==
    ASSUME TypeOK, NEW s \in SpecialResources, NEW n \in Nodes, PodStep(s, n)
    PROVE  \E phase \in PodPhases :
              /\ \A t \in SpecialResources, m \in Nodes :
                    pod'[t][m].phase = IF t = s /\ m = n THEN phase
                                                         ELSE pod[t][m].phase
              /\ phase = "running" => <<s, pod[s][n].image>> \in images
              /\ phase = "backoff" => s \in pullFailed'
<1>1. PICK phase \in PodPhases :
          /\ pod' = [pod EXCEPT ![s][n] = [image |-> pod[s][n].image, phase |-> phase]]
          /\ phase = "running" => <<s, pod[s][n].image>> \in images
          /\ phase = "backoff" => s \in pullFailed'
  BY DEF PodStep, PodPhases
<1>2. \A t \in SpecialResources, m \in Nodes :
          pod'[t][m].phase = IF t = s /\ m = n THEN phase ELSE pod[t][m].phase
  BY <1>1 DEF TypeOK
<1>. QED
  BY <1>1, <1>2

(***************************************************************************)
(* Types.                                                                  *)
(***************************************************************************)
TypeInv == TypeOK /\ BuildInv

\* The kernel versions, apart from the value for none.
LEMMA VersionFacts ==
    /\ Unlabelled \in Versions
    /\ Kernels \subseteq Versions
    /\ Absent \notin Versions
    /\ 1 \in Versions
BY BoundAssumption DEF Unlabelled, Versions, Kernels, Absent

\* One more fault.
LEMMA FaultType ==
    ASSUME TypeOK, NEW S \in SUBSET SpecialResources, Fault(S)
    PROVE  /\ faults' \in Nat /\ listFailed' \subseteq SpecialResources
           /\ emptyListed' \in BOOLEAN
<1>1. faults \in Nat /\ faults' = faults + 1
  BY DEF TypeOK, Fault
<1>2. listFailed \subseteq SpecialResources /\ listFailed' = listFailed \cup S
  BY DEF TypeOK, Fault
<1>3. emptyListed' \in BOOLEAN
  BY Zenon DEF TypeOK, Fault
<1>. QED
  BY <1>1, <1>2, <1>3

\* One more list of the nodes.
LEMMA ListType ==
    ASSUME TypeOK, List
    PROVE  /\ nodeList' \subseteq NodeItemType /\ emptyListed' \in BOOLEAN
           /\ UNCHANGED <<listFailed, faults>>
<1>1. nodeList' \subseteq NodeItemType /\ UNCHANGED <<listFailed, faults>>
  BY NodeItemsType DEF TypeOK, List
<1>2. emptyListed' \in BOOLEAN
  BY Zenon DEF TypeOK, List
<1>. QED
  BY <1>1, <1>2

\* The initial states have their types.
LEMMA TypeInit == Init => TypeInv
<1>. SUFFICES ASSUME Init
              PROVE  TypeInv
  OBVIOUS
<1>1. images \subseteq SpecialResources \X Versions
  BY VersionFacts DEF Init
<1>2. kernel \in [Nodes -> Versions]
  BY VersionFacts DEF Init
<1>3. pod \in [SpecialResources -> [Nodes -> [image : Versions, phase : PodPhases]]]
  BY VersionFacts DEF Init, NoPod, PodPhases
<1>4. status \in [SpecialResources ->
                     [desired : SUBSET Nodes, available : SUBSET Nodes]]
  BY DEF Init, NoStatus
<1>. QED
  BY <1>1, <1>2, <1>3, <1>4, NodesAssumption, VersionFacts
  DEF Init, TypeInv, TypeOK, BuildInv, Steps

\* Every step of the operator and of the cluster keeps the types.
LEMMA TypeStep == TypeInv /\ [Next]_vars => TypeInv'
<1>. SUFFICES ASSUME TypeInv, [Next]_vars
              PROVE  TypeInv'
  OBVIOUS
<1>. USE DEF TypeInv, TypeOK, BuildInv
<1>1. CASE Restart
  BY <1>1 DEF Restart, Advance, Steps
<1>2. CASE Resync
  BY <1>2 DEF Resync, Steps
<1>3. CASE StartPass
  BY <1>3 DEF StartPass, Steps
<1>4. CASE NextSpecialResource
  BY <1>4 DEF NextSpecialResource, Steps
<1>5. CASE EndPass
  BY <1>5 DEF EndPass, Advance, Steps
<1>6. CASE CacheNodes
  BY <1>6, ListType DEF CacheNodes, Advance, Steps
<1>7. CASE GetRuntimeInformation
  <2>1. kernelVersion' \in Versions
    BY <1>7, VersionFacts DEF GetRuntimeInformation, NodeItemType
  <2>. QED
    BY <1>7, <2>1 DEF GetRuntimeInformation, Advance, Steps
<1>8. CASE NoNFDLabel
  BY <1>8, VersionFacts DEF NoNFDLabel, Exit, Steps
<1>9. CASE CreateBuildConfig
  BY <1>9, VersionFacts DEF CreateBuildConfig, Advance, Steps
<1>10. CASE SkipBuildConfig
  BY <1>10 DEF SkipBuildConfig, Advance, Steps
<1>11. CASE BuildComplete
  BY <1>11 DEF BuildComplete, Advance, Steps
<1>12. CASE BuildTimeout
  BY <1>12 DEF BuildTimeout, Requeue, Steps
<1>13. CASE ApplyDaemonSet
  BY <1>13 DEF ApplyDaemonSet, Advance, Steps
<1>14. CASE CheckDaemonSet
  BY <1>14, CounterType DEF CheckDaemonSet, Advance, Steps, PollDaemonSet
<1>15. CASE ImagePullBackOff
  BY <1>15, VendorAssumption DEF ImagePullBackOff, Requeue, Steps
<1>16. CASE UnsetUpdateVendor
  BY <1>16 DEF UnsetUpdateVendor, Advance, Steps
<1>17. CASE NoPodStarted
  BY <1>17 DEF NoPodStarted, Requeue, Steps
<1>18. CASE DaemonSetAvailable
  BY <1>18, CounterType DEF DaemonSetAvailable, Advance, Steps, PollDaemonSet
<1>19. CASE DaemonSetTimeout
  BY <1>19, CounterType DEF DaemonSetTimeout, Requeue, Steps, PollDaemonSet
<1>20. CASE LogsMatched
  BY <1>20 DEF LogsMatched, Advance, Steps
<1>21. CASE LogsNotMatched
  BY <1>21 DEF LogsNotMatched, Requeue, Steps
<1>22. CASE ListNodes
  BY <1>22, ListType, NodeItemsType DEF ListNodes, Steps
<1>23. CASE LabelNode
  <2>1. \A item \in toLabel : item.name \in Nodes
    BY DEF NodeItemType
  <2>2. PICK item \in toLabel :
            /\ toLabel' = toLabel \ {item}
            /\ labels' \in {labels, [labels EXCEPT ![cur] = @ \cup {item.name}]}
    BY <1>23 DEF LabelNode
  <2>3. [labels EXCEPT ![cur] = @ \cup {item.name}] \in [SpecialResources -> SUBSET Nodes]
    BY <2>1
  <2>4. srState' \in [SpecialResources -> BOOLEAN] /\ pending' \in BOOLEAN
    BY <1>23 DEF LabelNode, updateStatus
  <2>. QED
    BY <1>23, <2>2, <2>3, <2>4 DEF LabelNode
<1>24. CASE LabelConflict
  BY <1>24, ListType DEF LabelConflict, Requeue, Steps
<1>25. CASE LabelsDone
  BY <1>25 DEF LabelsDone, Advance, Steps
<1>26. CASE Crash
  BY <1>26, VersionFacts, FaultType DEF Crash, Exit, Steps
<1>27. CASE ApiError
  BY <1>27, FaultType DEF ApiError, Requeue, Steps
<1>28. CASE PollError
  BY <1>28, FaultType DEF PollError, Advance, Steps
<1>29. CASE ListNodesError
  BY <1>29, FaultType DEF ListNodesError, Steps
<1>30. ASSUME NEW n \in Nodes, NodeJoin(n)
      PROVE  TypeInv'
  BY <1>30 DEF NodeJoin
<1>31. ASSUME NEW n \in Nodes, NFDLabel(n)
      PROVE  TypeInv'
  <2>1. kernel' \in [Nodes -> Versions]
    BY <1>31, VersionFacts DEF NFDLabel
  <2>. QED
    BY <1>31, <2>1 DEF NFDLabel
<1>32. ASSUME NEW s \in SpecialResources, BuildStart(s)
      PROVE  TypeInv'
  BY <1>32 DEF BuildStart, BuildPhases
<1>33. ASSUME NEW s \in SpecialResources, BuildSucceeds(s)
      PROVE  TypeInv'
  <2>1. buildConfig[s] \in Versions
    BY <1>33 DEF BuildSucceeds
  <2>2. images' \subseteq SpecialResources \X Versions
    <3>1. <<s, buildConfig[s]>> \in SpecialResources \X Versions
      BY <2>1
    <3>. QED
      BY <1>33, <3>1 DEF BuildSucceeds
  <2>3. builds' \in [SpecialResources -> SUBSET BuildPhases]
    BY <1>33 DEF BuildSucceeds, BuildPhases
  <2>4. \A t \in SpecialResources : builds'[t] # {} => builds[t] # {}
    BY <1>33 DEF BuildSucceeds
  <2>. QED
    BY <1>33, <2>2, <2>3, <2>4 DEF BuildSucceeds
<1>34. ASSUME NEW s \in SpecialResources, BuildFails(s)
      PROVE  TypeInv'
  <2>1. builds' \in [SpecialResources -> SUBSET BuildPhases]
    BY <1>34 DEF BuildFails, BuildPhases
  <2>2. \A t \in SpecialResources : builds'[t] # {} => builds[t] # {}
    BY <1>34 DEF BuildFails
  <2>. QED
    BY <1>34, <2>1, <2>2, FaultType DEF BuildFails
<1>35. ASSUME NEW s \in SpecialResources, PruneBuild(s)
      PROVE  TypeInv'
  BY <1>35 DEF PruneBuild, BuildPhases
<1>36. ASSUME NEW s \in SpecialResources, DaemonSetSync(s)
      PROVE  TypeInv'
  <2>1. daemonSet[s] \in Versions
    BY <1>36 DEF DaemonSetSync
  <2>2. pod' \in [SpecialResources -> [Nodes -> [image : Versions, phase : PodPhases]]]
    BY <1>36, <2>1, VersionFacts DEF DaemonSetSync, NoPod, PodPhases
  <2>3. Eligible(s) \subseteq Nodes
    BY DEF Eligible
  <2>4. status' \in [SpecialResources ->
                        [desired : SUBSET Nodes, available : SUBSET Nodes]]
    BY <1>36, <2>3 DEF DaemonSetSync
  <2>5. pending' \in BOOLEAN
    BY <1>36 DEF DaemonSetSync
  <2>. QED
    BY <1>36, <2>2, <2>4, <2>5 DEF DaemonSetSync
<1>37. ASSUME NEW s \in SpecialResources, NEW n \in Nodes, PodStep(s, n)
      PROVE  TypeInv'
  <2>1. pod' \in [SpecialResources -> [Nodes -> [image : Versions, phase : PodPhases]]]
    <3>0. pod[s] \in [Nodes -> [image : Versions, phase : PodPhases]]
      OBVIOUS
    <3>1. pod[s][n] \in [image : Versions, phase : PodPhases]
      BY <3>0, Zenon
    <3>2. PICK phase \in PodPhases :
              pod' = [pod EXCEPT ![s][n] = [image |-> pod[s][n].image, phase |-> phase]]
      BY <1>37 DEF PodStep, PodPhases
    <3>. DEFINE p == [image |-> pod[s][n].image, phase |-> phase]
    <3>3. p \in [image : Versions, phase : PodPhases]
      BY <3>1
    <3>. HIDE DEF p
    <3>4. [pod[s] EXCEPT ![n] = p] \in [Nodes -> [image : Versions, phase : PodPhases]]
      BY <3>3
    <3>. QED
      BY <3>2, <3>4 DEF p
  <2>2. pullFailed' \subseteq SpecialResources
    BY <1>37 DEF PodStep
  <2>. QED
    BY <1>37, <2>1, <2>2 DEF PodStep
<1>38. CASE UNCHANGED vars
  BY <1>38 DEF vars
<1>. QED
    BY <1>1, <1>2, <1>3, <1>4, <1>5, <1>6, <1>7, <1>8, <1>9, <1>10, <1>11,
     <1>12, <1>13, <1>14, <1>15, <1>16, <1>17, <1>18, <1>19, <1>20, <1>21,
     <1>22, <1>23, <1>24, <1>25, <1>26, <1>27, <1>28, <1>29, <1>30, <1>31,
     <1>32, <1>33, <1>34, <1>35, <1>36, <1>37, <1>38
  DEF Next, Pass, Failure, Environment

\* Type correctness: every variable keeps its type in every behaviour.
THEOREM TypeCorrect == Spec => []TypeOK
<1>1. TypeInv => TypeOK
  BY DEF TypeInv
<1>. QED
  BY <1>1, TypeInit, TypeStep, PTL DEF Spec


(***************************************************************************)
(* ReadyNeedsImage.                                                        *)
(***************************************************************************)

\* No step deletes an image.
LEMMA ImagesStay == [Next]_vars => images \subseteq images'
BY DEF Next, Pass, Failure, Environment, vars, Restart, Resync, StartPass,
    NextSpecialResource, EndPass, CacheNodes, GetRuntimeInformation,
    NoNFDLabel, CreateBuildConfig, SkipBuildConfig, BuildComplete,
    BuildTimeout, ApplyDaemonSet, CheckDaemonSet, ImagePullBackOff,
    UnsetUpdateVendor, NoPodStarted, DaemonSetAvailable, DaemonSetTimeout,
    PollDaemonSet, LogsMatched, LogsNotMatched, ListNodes, LabelNode,
    LabelConflict, LabelsDone, Crash, ApiError, PollError, ListNodesError,
    Exit, NodeJoin, NFDLabel, BuildStart, BuildSucceeds, BuildFails,
    PruneBuild, DaemonSetSync, PodStep

\* In the first state nothing runs and nothing is labelled.
LEMMA ImageInit == Init => ImageInv
<1>. SUFFICES ASSUME Init
              PROVE  ImageInv
  OBVIOUS
<1>1. \A s \in SpecialResources, n \in Nodes : pod[s][n].phase # "running"
  BY DEF Init, NoPod
<1>2. \A s \in SpecialResources : status[s].available = {}
  BY DEF Init, NoStatus
<1>3. \A s \in SpecialResources : labels[s] = {} /\ ~srState[s]
  BY DEF Init
<1>. QED
  BY <1>1, <1>2, <1>3 DEF Init, ImageInv, ReadyNeedsImage

\* A pod runs only from an image, a status counts only pods that run, a pass
\* goes on to the labels only with such a status.
LEMMA ImageStep == TypeInv /\ ImageInv /\ [Next]_vars => ImageInv'
<1>. SUFFICES ASSUME TypeInv, ImageInv, [Next]_vars
              PROVE  ImageInv'
  OBVIOUS
<1>0. \A s : HasImage(s) => HasImage(s)'
  BY ImagesStay DEF HasImage
<1>. USE DEF TypeInv, TypeOK, ImageInv, ReadyNeedsImage
<1>1. CASE Restart
  BY <1>1, <1>0 DEF Restart, Advance
<1>2. CASE Resync
  BY <1>2, <1>0 DEF Resync
<1>3. CASE StartPass
  BY <1>3, <1>0 DEF StartPass
<1>4. CASE NextSpecialResource
  BY <1>4, <1>0 DEF NextSpecialResource
<1>5. CASE EndPass
  BY <1>5, <1>0 DEF EndPass, Advance
<1>6. CASE CacheNodes
  BY <1>6, <1>0 DEF CacheNodes, Advance
<1>7. CASE GetRuntimeInformation
  BY <1>7, <1>0 DEF GetRuntimeInformation, Advance
<1>8. CASE NoNFDLabel
  BY <1>8, <1>0 DEF NoNFDLabel, Exit
<1>9. CASE CreateBuildConfig
  BY <1>9, <1>0 DEF CreateBuildConfig, Advance
<1>10. CASE SkipBuildConfig
  BY <1>10, <1>0 DEF SkipBuildConfig, Advance
<1>11. CASE BuildComplete
  BY <1>11, <1>0 DEF BuildComplete, Advance
<1>12. CASE BuildTimeout
  BY <1>12, <1>0 DEF BuildTimeout, Requeue
<1>13. CASE ApplyDaemonSet
  BY <1>13, <1>0 DEF ApplyDaemonSet, Advance
<1>14. CASE CheckDaemonSet
  BY <1>14, <1>0 DEF CheckDaemonSet, Advance, PollDaemonSet
<1>15. CASE ImagePullBackOff
  BY <1>15, <1>0 DEF ImagePullBackOff, Requeue
<1>16. CASE UnsetUpdateVendor
  BY <1>16, <1>0 DEF UnsetUpdateVendor, Advance
<1>17. CASE NoPodStarted
  BY <1>17, <1>0 DEF NoPodStarted, Requeue
<1>18. CASE DaemonSetAvailable
  <2>1. status[cur].available # {}
    BY <1>18, AvailableHasPod DEF DaemonSetAvailable
  <2>. QED
    BY <1>18, <1>0, <2>1 DEF DaemonSetAvailable, Advance, PollDaemonSet
<1>19. CASE DaemonSetTimeout
  BY <1>19, <1>0 DEF DaemonSetTimeout, Requeue, PollDaemonSet
<1>20. CASE LogsMatched
  BY <1>20, <1>0 DEF LogsMatched, Advance
<1>21. CASE LogsNotMatched
  BY <1>21, <1>0 DEF LogsNotMatched, Requeue
<1>22. CASE ListNodes
  BY <1>22, <1>0 DEF ListNodes
<1>23. CASE LabelNode
  <2>1. \A s \in SpecialResources : s # cur => labels'[s] = labels[s]
    BY <1>23 DEF LabelNode
  <2>2. \A s \in SpecialResources : s # cur => srState'[s] = srState[s]
    BY <1>23 DEF LabelNode, updateStatus
  <2>. QED
    BY <1>23, <1>0, <2>1, <2>2 DEF LabelNode
<1>24. CASE LabelConflict
  BY <1>24, <1>0 DEF LabelConflict, Requeue
<1>25. CASE LabelsDone
  BY <1>25, <1>0 DEF LabelsDone, Advance
<1>26. CASE Crash
  BY <1>26, <1>0 DEF Crash, Exit
<1>27. CASE ApiError
  BY <1>27, <1>0 DEF ApiError, Requeue
<1>28. CASE PollError
  BY <1>28, <1>0 DEF PollError, Advance
<1>29. CASE ListNodesError
  BY <1>29, <1>0 DEF ListNodesError
<1>30. ASSUME NEW n \in Nodes, NodeJoin(n)
      PROVE  ImageInv'
  BY <1>30, <1>0 DEF NodeJoin
<1>31. ASSUME NEW n \in Nodes, NFDLabel(n)
      PROVE  ImageInv'
  BY <1>31, <1>0 DEF NFDLabel
<1>32. ASSUME NEW s \in SpecialResources, BuildStart(s)
      PROVE  ImageInv'
  BY <1>32, <1>0 DEF BuildStart
<1>33. ASSUME NEW s \in SpecialResources, BuildSucceeds(s)
      PROVE  ImageInv'
  BY <1>33, <1>0 DEF BuildSucceeds
<1>34. ASSUME NEW s \in SpecialResources, BuildFails(s)
      PROVE  ImageInv'
  BY <1>34, <1>0 DEF BuildFails, Fault
<1>35. ASSUME NEW s \in SpecialResources, PruneBuild(s)
      PROVE  ImageInv'
  BY <1>35, <1>0 DEF PruneBuild
<1>36. ASSUME NEW s \in SpecialResources, DaemonSetSync(s)
      PROVE  ImageInv'
  <2>1. \A t \in SpecialResources, n \in Nodes :
            pod'[t][n].phase = "running" => pod[t][n].phase = "running"
    BY <1>36 DEF DaemonSetSync, NoPod
  <2>2. \A t \in SpecialResources :
            status'[t].available # {} =>
               \/ status[t].available # {}
               \/ \E n \in Nodes : pod'[t][n].phase = "running"
    BY <1>36 DEF DaemonSetSync, Eligible
  <2>. QED
    BY <1>36, <1>0, <2>1, <2>2 DEF DaemonSetSync
<1>37. ASSUME NEW s \in SpecialResources, NEW n \in Nodes, PodStep(s, n)
      PROVE  ImageInv'
  <2>1. \A t \in SpecialResources, m \in Nodes :
            pod'[t][m].phase = "running" =>
               \/ pod[t][m].phase = "running"
               \/ t = s /\ <<s, pod[s][n].image>> \in images
    <3>1. PICK phase \in PodPhases :
              /\ \A t \in SpecialResources, m \in Nodes :
                    pod'[t][m].phase = IF t = s /\ m = n THEN phase
                                                         ELSE pod[t][m].phase
              /\ phase = "running" => <<s, pod[s][n].image>> \in images
      BY <1>37, PodChange
    <3>. QED
      BY <3>1
  <2>2. <<s, pod[s][n].image>> \in images => HasImage(s)
    BY DEF HasImage
  <2>. QED
    BY <1>37, <1>0, <2>1, <2>2 DEF PodStep
<1>38. CASE UNCHANGED vars
  BY <1>38, <1>0 DEF vars
<1>. QED
    BY <1>1, <1>2, <1>3, <1>4, <1>5, <1>6, <1>7, <1>8, <1>9, <1>10, <1>11,
     <1>12, <1>13, <1>14, <1>15, <1>16, <1>17, <1>18, <1>19, <1>20, <1>21,
     <1>22, <1>23, <1>24, <1>25, <1>26, <1>27, <1>28, <1>29, <1>30, <1>31,
     <1>32, <1>33, <1>34, <1>35, <1>36, <1>37, <1>38
  DEF Next, Pass, Failure, Environment

\* A node is labelled ready, and the SpecialResource with it, only when its
\* driver image exists.
THEOREM ReadyIsBuilt == Spec => []ReadyNeedsImage
<1>1. ImageInv => ReadyNeedsImage
  BY DEF ImageInv
<1>. QED
  BY <1>1, TypeInit, TypeStep, ImageInit, ImageStep, PTL DEF Spec

(***************************************************************************)
(* BuildNeedsPullFailure.                                                  *)
(***************************************************************************)

\* The observation of failed pulls is never reset.
LEMMA PullFailuresStay == [Next]_vars => pullFailed \subseteq pullFailed'
BY DEF Next, Pass, Failure, Environment, vars, Restart, Resync, StartPass,
    NextSpecialResource, EndPass, CacheNodes, GetRuntimeInformation,
    NoNFDLabel, CreateBuildConfig, SkipBuildConfig, BuildComplete,
    BuildTimeout, ApplyDaemonSet, CheckDaemonSet, ImagePullBackOff,
    UnsetUpdateVendor, NoPodStarted, DaemonSetAvailable, DaemonSetTimeout,
    PollDaemonSet, LogsMatched, LogsNotMatched, ListNodes, LabelNode,
    LabelConflict, LabelsDone, Crash, ApiError, PollError, ListNodesError,
    Exit, NodeJoin, NFDLabel, BuildStart, BuildSucceeds, BuildFails,
    PruneBuild, DaemonSetSync, PodStep

\* In the first state there is no BuildConfig and UpdateVendor is empty.
LEMMA VendorInit == Init => VendorInv
<1>. SUFFICES ASSUME Init
              PROVE  VendorInv
  OBVIOUS
<1>1. \A s \in SpecialResources, n \in Nodes : ~CannotPull(pod[s][n])
  BY DEF Init, NoPod, CannotPull
<1>2. \A s \in SpecialResources : buildConfig[s] = Absent /\ builds[s] = {}
  BY DEF Init
<1>. QED
  BY <1>1, <1>2 DEF Init, VendorInv, BuildNeedsPullFailure

\* UpdateVendor is set only by a pod that cannot pull, and it decides alone
\* whether a BuildConfig is created.
LEMMA VendorStep == TypeInv /\ VendorInv /\ [Next]_vars => VendorInv'
<1>. SUFFICES ASSUME TypeInv, VendorInv, [Next]_vars
              PROVE  VendorInv'
  OBVIOUS
<1>0. /\ pullFailed \subseteq pullFailed'
      /\ \A vendor : PullFailedFor(vendor) => PullFailedFor(vendor)'
  BY PullFailuresStay DEF PullFailedFor
<1>. USE DEF TypeInv, TypeOK, BuildInv, VendorInv, BuildNeedsPullFailure
<1>1. CASE Restart
  BY <1>1, <1>0 DEF Restart, Advance, CannotPull
<1>2. CASE Resync
  BY <1>2, <1>0 DEF Resync, CannotPull
<1>3. CASE StartPass
  BY <1>3, <1>0 DEF StartPass, CannotPull
<1>4. CASE NextSpecialResource
  BY <1>4, <1>0 DEF NextSpecialResource, CannotPull
<1>5. CASE EndPass
  BY <1>5, <1>0 DEF EndPass, Advance, CannotPull
<1>6. CASE CacheNodes
  BY <1>6, <1>0 DEF CacheNodes, Advance, CannotPull
<1>7. CASE GetRuntimeInformation
  BY <1>7, <1>0 DEF GetRuntimeInformation, Advance, CannotPull
<1>8. CASE NoNFDLabel
  BY <1>8, <1>0 DEF NoNFDLabel, Exit, CannotPull
<1>9. CASE CreateBuildConfig
  <2>1. PullFailedFor(Vendor[cur])
    <3>1. updateVendor = Vendor[cur]
      BY <1>9 DEF CreateBuildConfig, rebuildDriverContainer
    <3>2. Vendor[cur] \in Vendors /\ "" \notin Vendors
      BY VendorAssumption
    <3>. QED
      BY <3>1, <3>2
  <2>2. \A s \in SpecialResources : s # cur => buildConfig'[s] = buildConfig[s]
    BY <1>9 DEF CreateBuildConfig
  <2>. QED
    BY <1>9, <1>0, <2>1, <2>2 DEF CreateBuildConfig, Advance
<1>10. CASE SkipBuildConfig
  BY <1>10, <1>0 DEF SkipBuildConfig, Advance, CannotPull
<1>11. CASE BuildComplete
  BY <1>11, <1>0 DEF BuildComplete, Advance, CannotPull
<1>12. CASE BuildTimeout
  BY <1>12, <1>0 DEF BuildTimeout, Requeue, CannotPull
<1>13. CASE ApplyDaemonSet
  BY <1>13, <1>0 DEF ApplyDaemonSet, Advance, CannotPull
<1>14. CASE CheckDaemonSet
  BY <1>14, <1>0 DEF CheckDaemonSet, Advance, PollDaemonSet, CannotPull
<1>15. CASE ImagePullBackOff
  <2>1. cur \in pullFailed
    BY <1>15 DEF ImagePullBackOff
  <2>2. PullFailedFor(Vendor[cur])'
    BY <1>15, <2>1 DEF ImagePullBackOff, Requeue, PullFailedFor
  <2>. QED
    BY <1>15, <1>0, <2>2 DEF ImagePullBackOff, Requeue
<1>16. CASE UnsetUpdateVendor
  BY <1>16, <1>0 DEF UnsetUpdateVendor, Advance, CannotPull
<1>17. CASE NoPodStarted
  BY <1>17, <1>0 DEF NoPodStarted, Requeue, CannotPull
<1>18. CASE DaemonSetAvailable
  BY <1>18, <1>0 DEF DaemonSetAvailable, Advance, PollDaemonSet, CannotPull
<1>19. CASE DaemonSetTimeout
  BY <1>19, <1>0 DEF DaemonSetTimeout, Requeue, PollDaemonSet, CannotPull
<1>20. CASE LogsMatched
  BY <1>20, <1>0 DEF LogsMatched, Advance, CannotPull
<1>21. CASE LogsNotMatched
  BY <1>21, <1>0 DEF LogsNotMatched, Requeue, CannotPull
<1>22. CASE ListNodes
  BY <1>22, <1>0 DEF ListNodes, CannotPull
<1>23. CASE LabelNode
  BY <1>23, <1>0 DEF LabelNode, updateStatus, CannotPull
<1>24. CASE LabelConflict
  BY <1>24, <1>0 DEF LabelConflict, Requeue, CannotPull
<1>25. CASE LabelsDone
  BY <1>25, <1>0 DEF LabelsDone, Advance, CannotPull
<1>26. CASE Crash
  BY <1>26, <1>0 DEF Crash, Exit, CannotPull
<1>27. CASE ApiError
  BY <1>27, <1>0 DEF ApiError, Requeue, CannotPull
<1>28. CASE PollError
  BY <1>28, <1>0 DEF PollError, Advance, CannotPull
<1>29. CASE ListNodesError
  BY <1>29, <1>0 DEF ListNodesError, CannotPull
<1>30. ASSUME NEW n \in Nodes, NodeJoin(n)
      PROVE  VendorInv'
  BY <1>30, <1>0 DEF NodeJoin, CannotPull
<1>31. ASSUME NEW n \in Nodes, NFDLabel(n)
      PROVE  VendorInv'
  BY <1>31, <1>0 DEF NFDLabel, CannotPull
<1>32. ASSUME NEW s \in SpecialResources, BuildStart(s)
      PROVE  VendorInv'
  BY <1>32, <1>0 DEF BuildStart, CannotPull
<1>33. ASSUME NEW s \in SpecialResources, BuildSucceeds(s)
      PROVE  VendorInv'
  <2>1. \A t \in SpecialResources : builds'[t] # {} => builds[t] # {}
    BY <1>33 DEF BuildSucceeds
  <2>. QED
    BY <1>33, <1>0, <2>1 DEF BuildSucceeds, CannotPull
<1>34. ASSUME NEW s \in SpecialResources, BuildFails(s)
      PROVE  VendorInv'
  BY <1>34, <1>0 DEF BuildFails, Fault, CannotPull
<1>35. ASSUME NEW s \in SpecialResources, PruneBuild(s)
      PROVE  VendorInv'
  BY <1>35, <1>0 DEF PruneBuild, CannotPull
<1>36. ASSUME NEW s \in SpecialResources, DaemonSetSync(s)
      PROVE  VendorInv'
  <2>1. \A t \in SpecialResources, n \in Nodes :
            CannotPull(pod[t][n])' => CannotPull(pod[t][n])
    BY <1>36 DEF DaemonSetSync, NoPod, CannotPull
  <2>. QED
    BY <1>36, <1>0, <2>1 DEF DaemonSetSync
<1>37. ASSUME NEW s \in SpecialResources, NEW n \in Nodes, PodStep(s, n)
      PROVE  VendorInv'
  <2>1. \A t \in SpecialResources, m \in Nodes :
            CannotPull(pod[t][m])' => CannotPull(pod[t][m]) \/ t \in pullFailed'
    <3>1. PICK phase \in PodPhases :
              /\ \A t \in SpecialResources, m \in Nodes :
                    pod'[t][m].phase = IF t = s /\ m = n THEN phase
                                                         ELSE pod[t][m].phase
              /\ phase = "running" => <<s, pod[s][n].image>> \in images
              /\ phase = "backoff" => s \in pullFailed'
      BY <1>37, PodChange
    <3>. QED
      BY <3>1 DEF CannotPull
  <2>. QED
    BY <1>37, <1>0, <2>1 DEF PodStep
<1>38. CASE UNCHANGED vars
  BY <1>38, <1>0 DEF vars, CannotPull
<1>. QED
    BY <1>1, <1>2, <1>3, <1>4, <1>5, <1>6, <1>7, <1>8, <1>9, <1>10, <1>11,
     <1>12, <1>13, <1>14, <1>15, <1>16, <1>17, <1>18, <1>19, <1>20, <1>21,
     <1>22, <1>23, <1>24, <1>25, <1>26, <1>27, <1>28, <1>29, <1>30, <1>31,
     <1>32, <1>33, <1>34, <1>35, <1>36, <1>37, <1>38
  DEF Next, Pass, Failure, Environment

\* A driver is built only for a vendor whose image could not be pulled.
THEOREM BuildOnPullFailure == Spec => []BuildNeedsPullFailure
<1>1. VendorInv => BuildNeedsPullFailure
  BY DEF VendorInv
<1>. QED
  BY <1>1, TypeInit, TypeStep, VendorInit, VendorStep, PTL DEF Spec

(***************************************************************************)
(* RenderedForKernel.                                                      *)
(***************************************************************************)

\* The initial node.count is not the length of the empty list.
LEMMA UnsetIsNoLength == UnsetCount # 0
BY DEF UnsetCount

\* A new process has no list, and a node.count that is no length.
LEMMA KernelInit == Init => KernelInv
<1>. SUFFICES ASSUME Init
              PROVE  KernelInv
  OBVIOUS
<1>1. \A s \in SpecialResources :
          buildConfig[s] # Unlabelled /\ daemonSet[s] # Unlabelled
  BY VersionFacts DEF Init
<1>. QED
  BY <1>1, NodesAssumption DEF Init, KernelInv, RenderedForKernel, Working

\* A pass that works has listed nodes and read the kernel of one of them.
LEMMA KernelStep == TypeInv /\ KernelInv /\ [Next]_vars => KernelInv'
<1>. SUFFICES ASSUME TypeInv, KernelInv, [Next]_vars
              PROVE  KernelInv'
  OBVIOUS
<1>. USE DEF TypeInv, TypeOK, KernelInv, RenderedForKernel, Working
<1>1. CASE Restart
  BY <1>1 DEF Restart, Advance, Steps
<1>2. CASE Resync
  BY <1>2 DEF Resync, Steps
<1>3. CASE StartPass
  BY <1>3 DEF StartPass, Steps
<1>4. CASE NextSpecialResource
  BY <1>4 DEF NextSpecialResource, Steps
<1>5. CASE EndPass
  BY <1>5 DEF EndPass, Advance, Steps
<1>6. CASE CacheNodes
  <2>1. nodeList' # {} \/ emptyListed'
    <3>1. CASE Cardinality(nodeList) = nodeCount
      <4>1. nodeList # {} \/ emptyListed
        <5>. SUFFICES ASSUME nodeList = {}
                      PROVE  emptyListed
          OBVIOUS
        <5>1. Cardinality(nodeList) = 0
          BY FS_EmptySet
        <5>. QED
          BY <3>1, <5>1, UnsetIsNoLength
      <4>. QED
        BY <1>6, <3>1, <4>1 DEF CacheNodes
    <3>2. CASE Cardinality(nodeList) # nodeCount
      BY <1>6, <3>2 DEF CacheNodes, List
    <3>. QED
      BY <3>1, <3>2
  <2>2. emptyListed => emptyListed'
    BY <1>6 DEF CacheNodes, List
  <2>. QED
    BY <1>6, <2>1, <2>2 DEF CacheNodes, Advance
<1>7. CASE GetRuntimeInformation
  BY <1>7 DEF GetRuntimeInformation, Advance, Steps
<1>8. CASE NoNFDLabel
  BY <1>8 DEF NoNFDLabel, Exit, Steps
<1>9. CASE CreateBuildConfig
  BY <1>9 DEF CreateBuildConfig, Advance, Steps
<1>10. CASE SkipBuildConfig
  BY <1>10 DEF SkipBuildConfig, Advance, Steps
<1>11. CASE BuildComplete
  BY <1>11 DEF BuildComplete, Advance, Steps
<1>12. CASE BuildTimeout
  BY <1>12 DEF BuildTimeout, Requeue, Steps
<1>13. CASE ApplyDaemonSet
  BY <1>13 DEF ApplyDaemonSet, Advance, Steps
<1>14. CASE CheckDaemonSet
  BY <1>14 DEF CheckDaemonSet, Advance, PollDaemonSet, Steps
<1>15. CASE ImagePullBackOff
  BY <1>15 DEF ImagePullBackOff, Requeue, Steps
<1>16. CASE UnsetUpdateVendor
  BY <1>16 DEF UnsetUpdateVendor, Advance, Steps
<1>17. CASE NoPodStarted
  BY <1>17 DEF NoPodStarted, Requeue, Steps
<1>18. CASE DaemonSetAvailable
  BY <1>18 DEF DaemonSetAvailable, Advance, PollDaemonSet, Steps
<1>19. CASE DaemonSetTimeout
  BY <1>19 DEF DaemonSetTimeout, Requeue, PollDaemonSet, Steps
<1>20. CASE LogsMatched
  BY <1>20 DEF LogsMatched, Advance, Steps
<1>21. CASE LogsNotMatched
  BY <1>21 DEF LogsNotMatched, Requeue, Steps
<1>22. CASE ListNodes
  BY <1>22 DEF ListNodes, List, Steps
<1>23. CASE LabelNode
  BY <1>23 DEF LabelNode, updateStatus, Steps
<1>24. CASE LabelConflict
  BY <1>24 DEF LabelConflict, List, Requeue, Steps
<1>25. CASE LabelsDone
  BY <1>25 DEF LabelsDone, Advance, Steps
<1>26. CASE Crash
  BY <1>26 DEF Crash, Exit, Fault, Steps
<1>27. CASE ApiError
  BY <1>27 DEF ApiError, Requeue, Fault, Steps
<1>28. CASE PollError
  BY <1>28 DEF PollError, Advance, Fault, Steps
<1>29. CASE ListNodesError
  BY <1>29 DEF ListNodesError, Fault, Steps
<1>30. ASSUME NEW n \in Nodes, NodeJoin(n)
      PROVE  KernelInv'
  BY <1>30 DEF NodeJoin
<1>31. ASSUME NEW n \in Nodes, NFDLabel(n)
      PROVE  KernelInv'
  BY <1>31 DEF NFDLabel
<1>32. ASSUME NEW s \in SpecialResources, BuildStart(s)
      PROVE  KernelInv'
  BY <1>32 DEF BuildStart
<1>33. ASSUME NEW s \in SpecialResources, BuildSucceeds(s)
      PROVE  KernelInv'
  BY <1>33 DEF BuildSucceeds
<1>34. ASSUME NEW s \in SpecialResources, BuildFails(s)
      PROVE  KernelInv'
  BY <1>34 DEF BuildFails, Fault
<1>35. ASSUME NEW s \in SpecialResources, PruneBuild(s)
      PROVE  KernelInv'
  BY <1>35 DEF PruneBuild
<1>36. ASSUME NEW s \in SpecialResources, DaemonSetSync(s)
      PROVE  KernelInv'
  BY <1>36 DEF DaemonSetSync
<1>37. ASSUME NEW s \in SpecialResources, NEW n \in Nodes, PodStep(s, n)
      PROVE  KernelInv'
  BY <1>37 DEF PodStep
<1>38. CASE UNCHANGED vars
  BY <1>38 DEF vars
<1>. QED
    BY <1>1, <1>2, <1>3, <1>4, <1>5, <1>6, <1>7, <1>8, <1>9, <1>10, <1>11,
     <1>12, <1>13, <1>14, <1>15, <1>16, <1>17, <1>18, <1>19, <1>20, <1>21,
     <1>22, <1>23, <1>24, <1>25, <1>26, <1>27, <1>28, <1>29, <1>30, <1>31,
     <1>32, <1>33, <1>34, <1>35, <1>36, <1>37, <1>38
  DEF Next, Pass, Failure, Environment

\* No BuildConfig and no DaemonSet is rendered without a kernel version, until
\* a selector has matched no node.
THEOREM KernelIsKnown == Spec => []RenderedForKernel
<1>1. KernelInv => RenderedForKernel
  BY DEF KernelInv
<1>. QED
  BY <1>1, TypeInit, TypeStep, KernelInit, KernelStep, PTL DEF Spec

(***************************************************************************)
(* LabelsInScope.                                                          *)
(***************************************************************************)

\* There are no labels yet.
LEMMA ScopeInit == Init => ScopeInv
BY DEF Init, ScopeInv, LabelsInScope

\* What the forced list returns is in scope.
LEMMA NodeItemsInScope ==
    ASSUME NEW s, NEW item \in NodeItems(s)
    PROVE  item.name \in Selects[s]
<1>1. PICK n \in members \cap Selects[s] : item = NodeItem(n)
  BY DEF NodeItems
<1>. QED
  BY <1>1 DEF NodeItem

\* The nodes a pass labels come from a list with the selector of its own
\* SpecialResource, or from a failed call.
LEMMA ScopeStep == TypeInv /\ ScopeInv /\ [Next]_vars => ScopeInv'
<1>. SUFFICES ASSUME TypeInv, ScopeInv, [Next]_vars
              PROVE  ScopeInv'
  OBVIOUS
<1>. USE DEF TypeInv, ScopeInv, LabelsInScope
<1>1. CASE Restart
  BY <1>1 DEF Restart, Advance
<1>2. CASE Resync
  BY <1>2 DEF Resync
<1>3. CASE StartPass
  BY <1>3 DEF StartPass
<1>4. CASE NextSpecialResource
  BY <1>4 DEF NextSpecialResource
<1>5. CASE EndPass
  BY <1>5 DEF EndPass, Advance
<1>6. CASE CacheNodes
  BY <1>6 DEF CacheNodes, List, Advance
<1>7. CASE GetRuntimeInformation
  BY <1>7 DEF GetRuntimeInformation, Advance
<1>8. CASE NoNFDLabel
  BY <1>8 DEF NoNFDLabel, Exit
<1>9. CASE CreateBuildConfig
  BY <1>9 DEF CreateBuildConfig, Advance
<1>10. CASE SkipBuildConfig
  BY <1>10 DEF SkipBuildConfig, Advance
<1>11. CASE BuildComplete
  BY <1>11 DEF BuildComplete, Advance
<1>12. CASE BuildTimeout
  BY <1>12 DEF BuildTimeout, Requeue
<1>13. CASE ApplyDaemonSet
  BY <1>13 DEF ApplyDaemonSet, Advance
<1>14. CASE CheckDaemonSet
  BY <1>14 DEF CheckDaemonSet, Advance, PollDaemonSet
<1>15. CASE ImagePullBackOff
  BY <1>15 DEF ImagePullBackOff, Requeue
<1>16. CASE UnsetUpdateVendor
  BY <1>16 DEF UnsetUpdateVendor, Advance
<1>17. CASE NoPodStarted
  BY <1>17 DEF NoPodStarted, Requeue
<1>18. CASE DaemonSetAvailable
  BY <1>18 DEF DaemonSetAvailable, Advance, PollDaemonSet
<1>19. CASE DaemonSetTimeout
  BY <1>19 DEF DaemonSetTimeout, Requeue, PollDaemonSet
<1>20. CASE LogsMatched
  BY <1>20 DEF LogsMatched, Advance
<1>21. CASE LogsNotMatched
  BY <1>21 DEF LogsNotMatched, Requeue
<1>22. CASE ListNodes
  <2>1. labels' = labels /\ listFailed' = listFailed /\ cur' = cur
    BY <1>22 DEF ListNodes, List
  <2>2. toLabel' = NodeItems(cur)
    BY <1>22 DEF ListNodes
  <2>. QED
    BY <2>1, <2>2, NodeItemsInScope
<1>23. CASE LabelNode
  <2>1. PICK item \in toLabel :
            /\ toLabel' = toLabel \ {item}
            /\ labels' = labels \/ labels' = [labels EXCEPT ![cur] = @ \cup {item.name}]
    BY <1>23 DEF LabelNode
  <2>2. listFailed' = listFailed /\ pc = "labelNode" /\ cur' = cur
    BY <1>23 DEF LabelNode
  <2>3. cur \notin listFailed => item.name \in Selects[cur]
    BY <2>1, <2>2
  <2>4. ASSUME NEW s \in SpecialResources, s \notin listFailed'
        PROVE  labels'[s] \subseteq Selects[s]
    <3>1. labels[s] \subseteq Selects[s] /\ (s = cur => item.name \in Selects[s])
      BY <2>2, <2>3, <2>4
    <3>2. CASE labels' = labels
      BY <3>1, <3>2
    <3>3. CASE labels' = [labels EXCEPT ![cur] = @ \cup {item.name}]
      BY <3>1, <3>3 DEF TypeOK
    <3>. QED
      BY <2>1, <3>2, <3>3
  <2>5. cur' \notin listFailed' => \A i \in toLabel' : i.name \in Selects[cur']
    BY <2>1, <2>2
  <2>. QED
    BY <2>4, <2>5
<1>24. CASE LabelConflict
  BY <1>24 DEF LabelConflict, List, Requeue
<1>25. CASE LabelsDone
  BY <1>25 DEF LabelsDone, Advance
<1>26. CASE Crash
  BY <1>26 DEF Crash, Exit, Fault
<1>27. CASE ApiError
  BY <1>27 DEF ApiError, Requeue, Fault
<1>28. CASE PollError
  BY <1>28 DEF PollError, Advance, Fault
<1>29. CASE ListNodesError
  BY <1>29 DEF ListNodesError, Fault
<1>30. ASSUME NEW n \in Nodes, NodeJoin(n)
      PROVE  ScopeInv'
  BY <1>30 DEF NodeJoin
<1>31. ASSUME NEW n \in Nodes, NFDLabel(n)
      PROVE  ScopeInv'
  BY <1>31 DEF NFDLabel
<1>32. ASSUME NEW s \in SpecialResources, BuildStart(s)
      PROVE  ScopeInv'
  BY <1>32 DEF BuildStart
<1>33. ASSUME NEW s \in SpecialResources, BuildSucceeds(s)
      PROVE  ScopeInv'
  BY <1>33 DEF BuildSucceeds
<1>34. ASSUME NEW s \in SpecialResources, BuildFails(s)
      PROVE  ScopeInv'
  BY <1>34 DEF BuildFails, Fault
<1>35. ASSUME NEW s \in SpecialResources, PruneBuild(s)
      PROVE  ScopeInv'
  BY <1>35 DEF PruneBuild
<1>36. ASSUME NEW s \in SpecialResources, DaemonSetSync(s)
      PROVE  ScopeInv'
  BY <1>36 DEF DaemonSetSync
<1>37. ASSUME NEW s \in SpecialResources, NEW n \in Nodes, PodStep(s, n)
      PROVE  ScopeInv'
  BY <1>37 DEF PodStep
<1>38. CASE UNCHANGED vars
  BY <1>38 DEF vars
<1>. QED
    BY <1>1, <1>2, <1>3, <1>4, <1>5, <1>6, <1>7, <1>8, <1>9, <1>10, <1>11,
     <1>12, <1>13, <1>14, <1>15, <1>16, <1>17, <1>18, <1>19, <1>20, <1>21,
     <1>22, <1>23, <1>24, <1>25, <1>26, <1>27, <1>28, <1>29, <1>30, <1>31,
     <1>32, <1>33, <1>34, <1>35, <1>36, <1>37, <1>38
  DEF Next, Pass, Failure, Environment

\* Only the nodes a SpecialResource selects get its label, unless the list of
\* its nodes has failed.
THEOREM LabelsAreInScope == Spec => []LabelsInScope
<1>1. ScopeInv => LabelsInScope
  BY DEF ScopeInv
<1>. QED
  BY <1>1, TypeInit, TypeStep, ScopeInit, ScopeStep, PTL DEF Spec

(***************************************************************************)
(* The refinement of Rollout, for each SpecialResource.                    *)
(***************************************************************************)

\* Before anything is applied the machine has not started.
LEMMA RolloutInit ==
    ASSUME Init, NEW s \in SpecialResources
    PROVE  R(s)!Init
<1>1. ~waitForDaemonSetCallback(NoStatus)
  BY FS_EmptySet DEF waitForDaemonSetCallback, NoStatus, Found
<1>2. status[s] = NoStatus /\ labels[s] = {} /\ daemonSet[s] = Absent
  BY DEF Init
<1>3. ~srState[s] /\ pc = "down"
  BY DEF Init
<1>. QED
  BY <1>1, <1>2, <1>3 DEF R!Init, StageIf, Announced, AppliedHere, ProvenHere,
                          DoneHere, Visited

\* What Rollout knows of the cluster stays as it is.
ObjectsKept(s) ==
    /\ labels'[s] = labels[s] /\ srState'[s] = srState[s]
    /\ daemonSet'[s] = daemonSet[s] /\ status'[s] = status[s]

\* The pass stays where it is with s, or is no longer with it.
PlaceKept(s) ==
    /\ AppliedHere(s)' <=> AppliedHere(s)
    /\ ProvenHere(s)' <=> ProvenHere(s)
    /\ DoneHere(s)' <=> DoneHere(s)

PlaceLeft(s) == ~AppliedHere(s)' /\ ~ProvenHere(s)' /\ ~DoneHere(s)'

\* Such a step is a stutter of Rollout, or starts it over.
LEMMA QuietStep ==
    ASSUME NEW s \in SpecialResources, ObjectsKept(s), PlaceKept(s) \/ PlaceLeft(s)
    PROVE  [R(s)!Next]_(R(s)!vars)
<1>1. Announced(s)' <=> Announced(s)
  BY DEF ObjectsKept, Announced
<1>2. CASE PlaceKept(s)
  BY <1>1, <1>2 DEF ObjectsKept, PlaceKept, R!vars, StageIf
<1>3. CASE PlaceLeft(s)
  <2>1. R(s)!StartOver
    BY <1>1, <1>3 DEF ObjectsKept, PlaceLeft, R!StartOver, StageIf
  <2>. QED
    BY <2>1 DEF R!Next
<1>. QED
  BY <1>2, <1>3

\* A stage that was seen available may be left without being announced again.
LEMMA LeaveStep ==
    ASSUME NEW s \in SpecialResources, ObjectsKept(s),
           AppliedHere(s), AppliedHere(s)', ProvenHere(s), ProvenHere(s)',
           DoneHere(s)'
    PROVE  [R(s)!Next]_(R(s)!vars)
<1>1. Announced(s)' <=> Announced(s)
  BY DEF ObjectsKept, Announced
<1>2. CASE DoneHere(s)
  BY <1>1, <1>2 DEF ObjectsKept, R!vars, StageIf
<1>3. CASE ~DoneHere(s)
  <2>1. R(s)!Advance
    BY <1>1, <1>3 DEF ObjectsKept, R!Advance, StageIf
  <2>. QED
    BY <2>1 DEF R!Next
<1>. QED
  BY <1>2, <1>3

\* Every step of the operator and of the cluster is a step of Rollout for s,
\* or leaves it alone.
LEMMA RolloutStep ==
    ASSUME TypeInv, [Next]_vars, NEW s \in SpecialResources
    PROVE  [R(s)!Next]_(R(s)!vars)
<1>1. CASE Restart
  <2>1. ObjectsKept(s) /\ PlaceKept(s)
    BY <1>1 DEF Restart, Advance, ObjectsKept, PlaceKept, AppliedHere,
       ProvenHere, DoneHere, Visited, Announced
  <2>. QED
    BY <2>1, QuietStep
<1>2. CASE Resync
  <2>1. ObjectsKept(s) /\ PlaceKept(s)
    BY <1>2 DEF Resync, ObjectsKept, PlaceKept, AppliedHere, ProvenHere,
       DoneHere, Visited, Announced
  <2>. QED
    BY <2>1, QuietStep
<1>3. CASE StartPass
  <2>1. ObjectsKept(s) /\ PlaceLeft(s)
    BY <1>3 DEF StartPass, ObjectsKept, PlaceLeft, AppliedHere, ProvenHere,
       DoneHere, Visited
  <2>. QED
    BY <2>1, QuietStep
<1>4. CASE NextSpecialResource
  <2>1. ObjectsKept(s) /\ PlaceLeft(s)
    BY <1>4 DEF NextSpecialResource, ObjectsKept, PlaceLeft, AppliedHere,
       ProvenHere, DoneHere, Visited
  <2>. QED
    BY <2>1, QuietStep
<1>5. CASE EndPass
  <2>1. ObjectsKept(s) /\ PlaceLeft(s)
    BY <1>5 DEF EndPass, Advance, ObjectsKept, PlaceLeft, AppliedHere,
       ProvenHere, DoneHere, Visited
  <2>. QED
    BY <2>1, QuietStep
<1>6. CASE CacheNodes
  <2>1. ObjectsKept(s) /\ PlaceLeft(s)
    BY <1>6 DEF CacheNodes, Advance, ObjectsKept, PlaceLeft, AppliedHere,
       ProvenHere, DoneHere, Visited
  <2>. QED
    BY <2>1, QuietStep
<1>7. CASE GetRuntimeInformation
  <2>1. ObjectsKept(s) /\ PlaceLeft(s)
    BY <1>7 DEF GetRuntimeInformation, Advance, ObjectsKept, PlaceLeft,
       AppliedHere, ProvenHere, DoneHere, Visited
  <2>. QED
    BY <2>1, QuietStep
<1>8. CASE NoNFDLabel
  <2>1. ObjectsKept(s) /\ PlaceLeft(s)
    BY <1>8 DEF NoNFDLabel, Exit, ObjectsKept, PlaceLeft, AppliedHere,
       ProvenHere, DoneHere, Visited
  <2>. QED
    BY <2>1, QuietStep
<1>9. CASE CreateBuildConfig
  <2>1. ObjectsKept(s) /\ PlaceLeft(s)
    BY <1>9 DEF CreateBuildConfig, Advance, ObjectsKept, PlaceLeft, AppliedHere,
       ProvenHere, DoneHere, Visited
  <2>. QED
    BY <2>1, QuietStep
<1>10. CASE SkipBuildConfig
  <2>1. ObjectsKept(s) /\ PlaceLeft(s)
    BY <1>10 DEF SkipBuildConfig, Advance, ObjectsKept, PlaceLeft, AppliedHere,
       ProvenHere, DoneHere, Visited
  <2>. QED
    BY <2>1, QuietStep
<1>11. CASE BuildComplete
  <2>1. ObjectsKept(s) /\ PlaceLeft(s)
    BY <1>11 DEF BuildComplete, Advance, ObjectsKept, PlaceLeft, AppliedHere,
       ProvenHere, DoneHere, Visited
  <2>. QED
    BY <2>1, QuietStep
<1>12. CASE BuildTimeout
  <2>1. ObjectsKept(s) /\ PlaceLeft(s)
    BY <1>12 DEF BuildTimeout, Requeue, ObjectsKept, PlaceLeft, AppliedHere,
       ProvenHere, DoneHere, Visited
  <2>. QED
    BY <2>1, QuietStep
<1>13. CASE ApplyDaemonSet
  <2>1. CASE cur # s
    <3>1. ObjectsKept(s) /\ PlaceKept(s)
      BY <1>13, <2>1 DEF ApplyDaemonSet, Advance, ObjectsKept, PlaceKept,
         AppliedHere, ProvenHere, DoneHere, Visited, Announced
    <3>. QED
      BY <3>1, QuietStep
  <2>2. CASE cur = s
    <3>1. daemonSet'[s] # Absent
      BY <1>13, <2>2, VersionFacts DEF ApplyDaemonSet, TypeInv, TypeOK
    <3>2. ~DoneHere(s) /\ ~DoneHere(s)' /\ ~ProvenHere(s) /\ ~ProvenHere(s)'
      BY <1>13 DEF ApplyDaemonSet, Advance, DoneHere, ProvenHere, Visited
    <3>3. AppliedHere(s)'
      BY <1>13, <2>2 DEF ApplyDaemonSet, Advance, AppliedHere
    <3>4. UNCHANGED <<labels, srState, status>>
      BY <1>13 DEF ApplyDaemonSet
    <3>5. R(s)!Apply
      BY <3>1, <3>2, <3>3, <3>4 DEF R!Apply, StageIf, Announced
    <3>. QED
      BY <3>5 DEF R!Next
  <2>. QED
    BY <2>1, <2>2
<1>14. CASE CheckDaemonSet
  <2>1. ObjectsKept(s) /\ PlaceKept(s)
    BY <1>14 DEF CheckDaemonSet, Advance, PollDaemonSet, ObjectsKept, PlaceKept,
       AppliedHere, ProvenHere, DoneHere, Visited, Announced
  <2>. QED
    BY <2>1, QuietStep
<1>15. CASE ImagePullBackOff
  <2>1. ObjectsKept(s) /\ PlaceLeft(s)
    BY <1>15 DEF ImagePullBackOff, Requeue, ObjectsKept, PlaceLeft, AppliedHere,
       ProvenHere, DoneHere, Visited
  <2>. QED
    BY <2>1, QuietStep
<1>16. CASE UnsetUpdateVendor
  <2>1. ObjectsKept(s) /\ PlaceKept(s)
    BY <1>16 DEF UnsetUpdateVendor, Advance, ObjectsKept, PlaceKept, AppliedHere,
       ProvenHere, DoneHere, Visited, Announced
  <2>. QED
    BY <2>1, QuietStep
<1>17. CASE NoPodStarted
  <2>1. ObjectsKept(s) /\ PlaceLeft(s)
    BY <1>17 DEF NoPodStarted, Requeue, ObjectsKept, PlaceLeft, AppliedHere,
       ProvenHere, DoneHere, Visited
  <2>. QED
    BY <2>1, QuietStep
<1>18. CASE DaemonSetAvailable
  <2>1. CASE cur # s
    <3>1. ObjectsKept(s) /\ PlaceKept(s)
      BY <1>18, <2>1 DEF DaemonSetAvailable, Advance, PollDaemonSet, ObjectsKept,
         PlaceKept, AppliedHere, ProvenHere, DoneHere, Visited, Announced
    <3>. QED
      BY <3>1, QuietStep
  <2>2. CASE cur = s
    <3>1. waitForDaemonSetCallback(status[s])
      BY <1>18, <2>2 DEF DaemonSetAvailable
    <3>2. ~DoneHere(s) /\ ~DoneHere(s)'
      BY <1>18 DEF DaemonSetAvailable, Advance, DoneHere, Visited
    <3>3. AppliedHere(s) /\ AppliedHere(s)' /\ ProvenHere(s)'
      BY <1>18, <2>2 DEF DaemonSetAvailable, Advance, AppliedHere, ProvenHere
    <3>4. UNCHANGED <<labels, srState, status, daemonSet>>
      BY <1>18 DEF DaemonSetAvailable, PollDaemonSet
    <3>5. R(s)!Prove
      BY <3>1, <3>2, <3>3, <3>4 DEF R!Prove, StageIf, Announced
    <3>. QED
      BY <3>5 DEF R!Next
  <2>. QED
    BY <2>1, <2>2
<1>19. CASE DaemonSetTimeout
  <2>1. ObjectsKept(s) /\ PlaceLeft(s)
    BY <1>19 DEF DaemonSetTimeout, Requeue, PollDaemonSet, ObjectsKept,
       PlaceLeft, AppliedHere, ProvenHere, DoneHere, Visited
  <2>. QED
    BY <2>1, QuietStep
<1>20. CASE LogsMatched
  <2>1. ObjectsKept(s) /\ PlaceKept(s)
    BY <1>20 DEF LogsMatched, Advance, ObjectsKept, PlaceKept, AppliedHere,
       ProvenHere, DoneHere, Visited, Announced
  <2>. QED
    BY <2>1, QuietStep
<1>21. CASE LogsNotMatched
  <2>1. ObjectsKept(s) /\ PlaceLeft(s)
    BY <1>21 DEF LogsNotMatched, Requeue, ObjectsKept, PlaceLeft, AppliedHere,
       ProvenHere, DoneHere, Visited
  <2>. QED
    BY <2>1, QuietStep
<1>22. CASE ListNodes
  <2>1. UNCHANGED <<labels, srState, daemonSet, status, cur, todo>>
    BY <1>22 DEF ListNodes
  <2>2. pc = "listNodes" /\ pc' = "labelNode"
    BY <1>22 DEF ListNodes
  <2>3. CASE cur # s \/ ~Announced(s)
    <3>1. ObjectsKept(s) /\ PlaceKept(s)
      BY <2>1, <2>2, <2>3 DEF ObjectsKept, PlaceKept, AppliedHere, ProvenHere,
         DoneHere, Visited, Announced
    <3>. QED
      BY <3>1, QuietStep
  <2>4. CASE cur = s /\ Announced(s)
    <3>1. /\ AppliedHere(s) /\ AppliedHere(s)' /\ ProvenHere(s) /\ ProvenHere(s)'
          /\ DoneHere(s)'
      BY <2>1, <2>2, <2>4 DEF AppliedHere, ProvenHere, DoneHere, Visited, Announced
    <3>. QED
      BY <2>1, <3>1, LeaveStep DEF ObjectsKept
  <2>. QED
    BY <2>3, <2>4
<1>23. CASE LabelNode
  <2>1. UNCHANGED <<pc, cur, todo, status, daemonSet>>
    BY <1>23 DEF LabelNode
  <2>2. pc = "labelNode"
    BY <1>23 DEF LabelNode
  <2>3. labels' = labels \/ \E n : labels' = [labels EXCEPT ![cur] = @ \cup {n}]
    BY <1>23 DEF LabelNode
  <2>4. srState' = srState \/ srState' = [srState EXCEPT ![cur] = TRUE]
    BY <1>23 DEF LabelNode, updateStatus
  <2>5. labels[s] \subseteq labels'[s] /\ (srState[s] => srState'[s])
    BY <2>3, <2>4 DEF TypeInv, TypeOK
  <2>6. CASE cur # s
    <3>1. labels'[s] = labels[s] /\ srState'[s] = srState[s]
      BY <2>3, <2>4, <2>6 DEF TypeInv, TypeOK
    <3>2. ObjectsKept(s) /\ PlaceKept(s)
      BY <2>1, <2>6, <3>1 DEF ObjectsKept, PlaceKept, AppliedHere, ProvenHere,
         DoneHere, Visited, Announced
    <3>. QED
      BY <3>2, QuietStep
  <2>7. CASE cur = s
    <3>1. Announced(s) => Announced(s)'
      BY <2>5 DEF Announced
    <3>2. /\ AppliedHere(s) /\ AppliedHere(s)' /\ ProvenHere(s) /\ ProvenHere(s)'
          /\ DoneHere(s) <=> Announced(s)
          /\ DoneHere(s)' <=> Announced(s)'
      BY <2>1, <2>2, <2>7 DEF AppliedHere, ProvenHere, DoneHere, Visited
    <3>3. CASE Announced(s) <=> Announced(s)'
      BY <2>1, <3>2, <3>3 DEF R!vars, StageIf
    <3>4. CASE ~Announced(s) /\ Announced(s)'
      <4>1. R(s)!Advance
        BY <2>1, <3>2, <3>4 DEF R!Advance, StageIf
      <4>. QED
        BY <4>1 DEF R!Next
    <3>. QED
      BY <3>1, <3>3, <3>4
  <2>. QED
    BY <2>6, <2>7
<1>24. CASE LabelConflict
  <2>1. ObjectsKept(s) /\ PlaceLeft(s)
    BY <1>24 DEF LabelConflict, Requeue, ObjectsKept, PlaceLeft, AppliedHere,
       ProvenHere, DoneHere, Visited
  <2>. QED
    BY <2>1, QuietStep
<1>25. CASE LabelsDone
  <2>1. UNCHANGED <<labels, srState, daemonSet, status, cur, todo>>
    BY <1>25 DEF LabelsDone, Advance
  <2>2. pc = "labelNode" /\ pc' = "next"
    BY <1>25 DEF LabelsDone, Advance
  <2>3. CASE cur # s \/ s \in todo
    <3>1. ObjectsKept(s) /\ PlaceLeft(s)
      BY <2>1, <2>2, <2>3 DEF ObjectsKept, PlaceLeft, AppliedHere, ProvenHere,
         DoneHere, Visited
    <3>. QED
      BY <3>1, QuietStep
  <2>4. CASE cur = s /\ s \notin todo
    <3>1. /\ AppliedHere(s) /\ AppliedHere(s)' /\ ProvenHere(s) /\ ProvenHere(s)'
          /\ DoneHere(s)'
      BY <2>1, <2>2, <2>4 DEF AppliedHere, ProvenHere, DoneHere, Visited
    <3>. QED
      BY <2>1, <3>1, LeaveStep DEF ObjectsKept
  <2>. QED
    BY <2>3, <2>4
<1>26. CASE Crash
  <2>1. ObjectsKept(s) /\ PlaceLeft(s)
    BY <1>26 DEF Crash, Exit, ObjectsKept, PlaceLeft, AppliedHere, ProvenHere,
       DoneHere, Visited
  <2>. QED
    BY <2>1, QuietStep
<1>27. CASE ApiError
  <2>1. ObjectsKept(s) /\ PlaceLeft(s)
    BY <1>27 DEF ApiError, Requeue, ObjectsKept, PlaceLeft, AppliedHere,
       ProvenHere, DoneHere, Visited
  <2>. QED
    BY <2>1, QuietStep
<1>28. CASE PollError
  <2>1. ObjectsKept(s) /\ PlaceKept(s)
    BY <1>28 DEF PollError, Advance, ObjectsKept, PlaceKept, AppliedHere,
       ProvenHere, DoneHere, Visited, Announced
  <2>. QED
    BY <2>1, QuietStep
<1>29. CASE ListNodesError
  <2>1. UNCHANGED <<labels, srState, daemonSet, status, cur, todo>>
    BY <1>29 DEF ListNodesError
  <2>2. pc = "listNodes" /\ pc' = "labelNode"
    BY <1>29 DEF ListNodesError
  <2>3. CASE cur # s \/ ~Announced(s)
    <3>1. ObjectsKept(s) /\ PlaceKept(s)
      BY <2>1, <2>2, <2>3 DEF ObjectsKept, PlaceKept, AppliedHere, ProvenHere,
         DoneHere, Visited, Announced
    <3>. QED
      BY <3>1, QuietStep
  <2>4. CASE cur = s /\ Announced(s)
    <3>1. /\ AppliedHere(s) /\ AppliedHere(s)' /\ ProvenHere(s) /\ ProvenHere(s)'
          /\ DoneHere(s)'
      BY <2>1, <2>2, <2>4 DEF AppliedHere, ProvenHere, DoneHere, Visited, Announced
    <3>. QED
      BY <2>1, <3>1, LeaveStep DEF ObjectsKept
  <2>. QED
    BY <2>3, <2>4
<1>30. ASSUME NEW n \in Nodes, NodeJoin(n)
      PROVE  [R(s)!Next]_(R(s)!vars)
  <2>1. ObjectsKept(s) /\ PlaceKept(s)
    BY <1>30 DEF NodeJoin, ObjectsKept, PlaceKept, AppliedHere, ProvenHere,
       DoneHere, Visited, Announced
  <2>. QED
    BY <2>1, QuietStep
<1>31. ASSUME NEW n \in Nodes, NFDLabel(n)
      PROVE  [R(s)!Next]_(R(s)!vars)
  <2>1. ObjectsKept(s) /\ PlaceKept(s)
    BY <1>31 DEF NFDLabel, ObjectsKept, PlaceKept, AppliedHere, ProvenHere,
       DoneHere, Visited, Announced
  <2>. QED
    BY <2>1, QuietStep
<1>32. ASSUME NEW t \in SpecialResources, BuildStart(t)
      PROVE  [R(s)!Next]_(R(s)!vars)
  <2>1. ObjectsKept(s) /\ PlaceKept(s)
    BY <1>32 DEF BuildStart, ObjectsKept, PlaceKept, AppliedHere, ProvenHere,
       DoneHere, Visited, Announced
  <2>. QED
    BY <2>1, QuietStep
<1>33. ASSUME NEW t \in SpecialResources, BuildSucceeds(t)
      PROVE  [R(s)!Next]_(R(s)!vars)
  <2>1. ObjectsKept(s) /\ PlaceKept(s)
    BY <1>33 DEF BuildSucceeds, ObjectsKept, PlaceKept, AppliedHere, ProvenHere,
       DoneHere, Visited, Announced
  <2>. QED
    BY <2>1, QuietStep
<1>34. ASSUME NEW t \in SpecialResources, BuildFails(t)
      PROVE  [R(s)!Next]_(R(s)!vars)
  <2>1. ObjectsKept(s) /\ PlaceKept(s)
    BY <1>34 DEF BuildFails, ObjectsKept, PlaceKept, AppliedHere, ProvenHere,
       DoneHere, Visited, Announced
  <2>. QED
    BY <2>1, QuietStep
<1>35. ASSUME NEW t \in SpecialResources, PruneBuild(t)
      PROVE  [R(s)!Next]_(R(s)!vars)
  <2>1. ObjectsKept(s) /\ PlaceKept(s)
    BY <1>35 DEF PruneBuild, ObjectsKept, PlaceKept, AppliedHere, ProvenHere,
       DoneHere, Visited, Announced
  <2>. QED
    BY <2>1, QuietStep
<1>36. ASSUME NEW t \in SpecialResources, DaemonSetSync(t)
      PROVE  [R(s)!Next]_(R(s)!vars)
  <2>1. UNCHANGED <<labels, srState, daemonSet, cur, todo, pc>>
    BY <1>36 DEF DaemonSetSync
  <2>2. PlaceKept(s) /\ (Announced(s)' <=> Announced(s))
    BY <2>1 DEF PlaceKept, AppliedHere, ProvenHere, DoneHere, Visited, Announced
  <2>3. daemonSet[t] # Absent /\ \E st : status' = [status EXCEPT ![t] = st]
    BY <1>36 DEF DaemonSetSync
  <2>4. CASE t # s
    <3>1. status'[s] = status[s]
      BY <2>3, <2>4 DEF TypeInv, TypeOK
    <3>. QED
      BY <2>1, <2>2, <3>1, QuietStep DEF ObjectsKept
  <2>5. CASE t = s /\ waitForDaemonSetCallback(status'[s])
    <3>1. R(s)!Heal(1)
      BY <2>1, <2>2, <2>3, <2>5 DEF R!Heal, StageIf, PlaceKept
    <3>. QED
      BY <3>1 DEF R!Next, R!Stages
  <2>6. CASE t = s /\ ~waitForDaemonSetCallback(status'[s])
    <3>1. R(s)!Break(1)
      BY <2>1, <2>2, <2>6 DEF R!Break, StageIf, PlaceKept
    <3>. QED
      BY <3>1 DEF R!Next, R!Stages
  <2>. QED
    BY <2>4, <2>5, <2>6
<1>37. ASSUME NEW t \in SpecialResources, NEW n \in Nodes, PodStep(t, n)
      PROVE  [R(s)!Next]_(R(s)!vars)
  <2>1. ObjectsKept(s) /\ PlaceKept(s)
    BY <1>37 DEF PodStep, ObjectsKept, PlaceKept, AppliedHere, ProvenHere,
       DoneHere, Visited, Announced
  <2>. QED
    BY <2>1, QuietStep
<1>38. CASE UNCHANGED vars
  <2>1. ObjectsKept(s) /\ PlaceKept(s)
    BY <1>38 DEF vars, ObjectsKept, PlaceKept, AppliedHere, ProvenHere, DoneHere,
       Visited, Announced
  <2>. QED
    BY <2>1, QuietStep
<1>. QED
  BY <1>1, <1>2, <1>3, <1>4, <1>5, <1>6, <1>7, <1>8, <1>9, <1>10, <1>11,
     <1>12, <1>13, <1>14, <1>15, <1>16, <1>17, <1>18, <1>19, <1>20, <1>21,
     <1>22, <1>23, <1>24, <1>25, <1>26, <1>27, <1>28, <1>29, <1>30, <1>31,
     <1>32, <1>33, <1>34, <1>35, <1>36, <1>37, <1>38
  DEF Next, Pass, Failure, Environment

\* For each SpecialResource, the operator and the cluster implement the state
\* machine with a validation step.
THEOREM ImplementsRollout ==
    ASSUME NEW s \in SpecialResources
    PROVE  Spec => R(s)!Spec
<1>1. Init => R(s)!Init
  BY RolloutInit
<1>2. TypeInv /\ [Next]_vars => [R(s)!Next]_(R(s)!vars)
  BY RolloutStep
<1>. QED
  BY <1>1, <1>2, TypeInit, TypeStep, PTL DEF Spec, R!Spec

\* They do so for all SpecialResources at once, in the form that the run
\* checks: a node or a status is ready only after this pass has applied the
\* DaemonSet and then seen it available.
THEOREM AllAreValidated == Spec => EachValidated
<1>1. Init => \A s \in SpecialResources : R(s)!Init
  BY RolloutInit
<1>2. TypeInv /\ [Next]_vars
          => [\A s \in SpecialResources : [R(s)!Next]_(R(s)!vars)]_vars
  BY RolloutStep
<1>. QED
  BY <1>1, <1>2, TypeInit, TypeStep, PTL DEF Spec, EachValidated

=============================================================================
