---------------------- MODULE RuntimeInformationProofs ----------------------
(***************************************************************************)
(* Proofs about RuntimeInformation, for any nodes, SpecialResources and    *)
(* releases, and any number of upgrades and of edits of the Proxy.         *)
(***************************************************************************)
EXTENDS RuntimeInformation, TLAPS, SequenceTheorems, FiniteSetTheorems

(***************************************************************************)
(* Lemmas about the operators.                                             *)
(***************************************************************************)

\* The releases are numbered.
LEMMA ReleaseNumbers ==
    /\ DOMAIN Releases \subseteq Nat \ {0}
    /\ \A r \in DOMAIN Releases : Releases[r] \in OperatingSystems
BY ReleasesAssumption, LenProperties

\* The first node of a list has a release that is known, or none.
LEMMA FirstIsRelease ==
    ASSUME list \in Seq(NodeReleases)
    PROVE  /\ FirstNode \in NodeReleases
           /\ list = <<>> => FirstNode = NoRelease
BY HeadTailProperties DEF FirstNode, NodeReleases

\* An order of finitely many nodes is a sequence of them.
LEMMA OrderIsSeq ==
    ASSUME NEW S, IsFiniteSet(S), NEW order \in SetToSeqs(S)
    PROVE  \E n \in Nat : order \in [1 .. n -> S]
BY FS_CardinalityType DEF SetToSeqs

\* The list that cacheNodes makes has the release of each node.
LEMMA ListIsSeq ==
    ASSUME ClusterInv, DOMAIN release \subseteq Nodes,
           NEW order \in SetToSeqs(DOMAIN release)
    PROVE  [k \in DOMAIN order |-> release[order[k]]] \in Seq(NodeReleases)
<1>1. IsFiniteSet(DOMAIN release)
  BY ClusterAssumption, FS_Subset
<1>2. PICK n \in Nat : order \in [1 .. n -> DOMAIN release]
  BY <1>1, OrderIsSeq
<1>3. [k \in DOMAIN order |-> release[order[k]]] \in [1 .. n -> NodeReleases]
  BY <1>2 DEF ClusterInv, NodeReleases
<1>. QED
  BY <1>3, SeqDef

\* The values of a sequence are those it is a sequence of.
LEMMA ListRange ==
    ASSUME list \in Seq(NodeReleases)
    PROVE  Range(list) \subseteq NodeReleases
BY LenProperties DEF Range

\* The names of the facts.
LEMMA FactNames == DOMAIN Facts = {"version", "image", "proxy", "secret"}
BY DEF Facts

(***************************************************************************)
(* The cluster and the types.                                              *)
(***************************************************************************)
TypeInv == TypeOK /\ ClusterInv /\ VersionInv

\* At first there is one version, which is completed, and no node.
LEMMA TypeInit == Init => TypeInv
<1>. SUFFICES ASSUME Init
              PROVE  TypeInv
  OBVIOUS
<1>. USE ClusterAssumption DEF Init, NoRelease, None
<1>1. /\ history \in Seq(Entries) /\ history # <<>> /\ Len(history) = 1
      /\ DOMAIN history = {1}
      /\ history[1].version = 1 /\ history[1].state = "Completed"
  <2>1. [version |-> 1, state |-> "Completed"] \in Entries
    BY DEF Entries, Versions
  <2>. HIDE DEF None, NoRelease
  <2>2. history \in Seq(Entries) /\ Len(history) = 1
    BY <2>1
  <2>3. DOMAIN history = {1} /\ history # <<>>
    BY <2>2, LenProperties
  <2>4. history[1] = [version |-> 1, state |-> "Completed"]
    OBVIOUS
  <2>5. history[1].version = 1 /\ history[1].state = "Completed"
    BY <2>4
  <2>. QED
    BY <2>2, <2>3, <2>5
<1>2. runInfo \in RunInfos
  BY DEF Empty, RunInfos, Rendered, NodeReleases
<1>3. \E k \in Completed :
         (\A j \in Completed : k <= j) /\ history[k].version = completed
  BY <1>1 DEF Completed
<1>4. release = [n \in {} |-> NoRelease] /\ DOMAIN release = {}
  OBVIOUS
<1>5. list \in Seq(NodeReleases) /\ Range(list) = {} /\ count = UnsetCount
  BY DEF Range
<1>. QED
  BY <1>1, <1>2, <1>3, <1>4, <1>5
     DEF TypeInv, TypeOK, ClusterInv, VersionInv, After, Empty, Versions, NodeReleases


\* The version that is completed last is the first of the history that is
\* completed.
LastCompleted ==
    \E k \in Completed : (\A j \in Completed : k <= j) /\ history[k].version = completed

\* A new entry is before those that are completed, and is not completed.
LEMMA StartKeepsCompleted ==
    ASSUME ClusterInv, UpgradeStarts
    PROVE  /\ history' \in Seq(Entries) /\ history' # <<>> /\ Len(history') <= MaxHistory
           /\ LastCompleted'
<1>. DEFINE e == [version |-> Len(history) + 1, state |-> "Partial"]
<1>. USE ClusterAssumption
<1>1. Len(history) \in Nat /\ DOMAIN history = 1 .. Len(history)
  BY LenProperties DEF ClusterInv
<1>2. e \in Entries /\ <<e>> \in Seq(Entries) /\ Len(<<e>>) = 1 /\ <<e>>[1] = e
  BY <1>1 DEF Entries, Versions, UpgradeStarts
<1>3. history' = <<e>> \o history
  BY DEF UpgradeStarts
<1>. HIDE DEF e
<1>4. /\ history' \in Seq(Entries) /\ Len(history') = Len(history) + 1
      /\ \A i \in 1 .. Len(history) + 1 :
           history'[i] = IF i <= 1 THEN e ELSE history[i - 1]
  BY <1>2, <1>3, ConcatProperties DEF ClusterInv
<1>5. DOMAIN history' = 1 .. Len(history) + 1
  BY <1>4, LenProperties
<1>6. e.state # "Completed"
  BY DEF e
<1>7. PICK k \in Completed : (\A j \in Completed : k <= j) /\ history[k].version = completed
  BY DEF ClusterInv
<1>8. k \in 1 .. Len(history) /\ history[k].state = "Completed"
  BY <1>1, <1>7 DEF Completed
<1>9. k + 1 \in Completed' /\ history'[k + 1].version = completed'
  BY <1>1, <1>4, <1>5, <1>7, <1>8 DEF Completed, UpgradeStarts
<1>10. ASSUME NEW j \in Completed'
       PROVE  k + 1 <= j
  <2>1. j \in 1 .. Len(history) + 1 /\ history'[j].state = "Completed" /\ j > 1
    BY <1>1, <1>4, <1>5, <1>6, <1>10 DEF Completed
  <2>2. j - 1 \in Completed
    BY <1>1, <1>4, <2>1 DEF Completed
  <2>. QED
    BY <1>7, <1>8, <2>1, <2>2
<1>11. Len(history) < MaxHistory
  BY DEF UpgradeStarts
<1>12. history' # <<>> /\ Len(history') <= MaxHistory
  BY <1>1, <1>4, <1>11, EmptySeq
<1>13. LastCompleted'
  BY <1>9, <1>10 DEF LastCompleted
<1>. QED
  BY <1>4, <1>12, <1>13

\* The entry that completes is the first one.
LEMMA CompletionIsLast ==
    ASSUME ClusterInv, UpgradeCompletes
    PROVE  /\ history' \in Seq(Entries) /\ history' # <<>> /\ Len(history') <= MaxHistory
           /\ LastCompleted'
           /\ completed' \in Versions
<1>. USE ClusterAssumption
<1>1. /\ Len(history) \in Nat \ {0} /\ DOMAIN history = 1 .. Len(history)
      /\ history[1] \in Entries /\ Head(history) = history[1]
  BY LenProperties, EmptySeq, ElementOfSeq DEF ClusterInv
<1>. DEFINE e == [history[1] EXCEPT !.state = "Completed"]
<1>2. e \in Entries /\ e.state = "Completed" /\ e.version = history[1].version
  BY <1>1 DEF Entries
<1>3. history' = [history EXCEPT ![1] = e]
  BY DEF UpgradeCompletes
<1>. HIDE DEF e
<1>4. history' \in Seq(Entries) /\ Len(history') = Len(history) /\ history'[1] = e
  BY <1>1, <1>2, <1>3, ExceptSeq DEF ClusterInv
<1>5. DOMAIN history' = 1 .. Len(history)
  BY <1>4, LenProperties
<1>6. 1 \in Completed' /\ history'[1].version = completed'
  BY <1>1, <1>2, <1>4, <1>5 DEF Completed, UpgradeCompletes
<1>7. \A j \in Completed' : 1 <= j
  BY <1>1, <1>5 DEF Completed
<1>8. completed' \in Versions
  BY <1>1 DEF UpgradeCompletes, Entries
<1>. QED
  BY <1>1, <1>4, <1>6, <1>7, <1>8 DEF LastCompleted, ClusterInv

\* A node that joins or boots has a release.
LEMMA NodesKeepReleases ==
    ASSUME TypeInv, NEW n \in Nodes, NEW r \in NodeReleases, NodeChange(n, r)
    PROVE  DOMAIN release' \subseteq Nodes /\ release' \in [DOMAIN release' -> NodeReleases]
BY DEF NodeChange, TypeInv, TypeOK, ClusterInv

\* The cluster is as before.
LEMMA SameHistory ==
    ASSUME ClusterInv, UNCHANGED <<history, completed>>
    PROVE  /\ history' \in Seq(Entries) /\ history' # <<>> /\ Len(history') <= MaxHistory
           /\ LastCompleted'
           /\ completed' \in Versions
BY DEF ClusterInv, LastCompleted, Completed

\* A step of the operator reads, and leaves the cluster alone.
LEMMA ReadingKeepsCluster ==
    ASSUME TypeInv, UNCHANGED cluster,
           list' \in Seq(NodeReleases), sr' \in SpecialResources, runInfo' \in RunInfos
    PROVE  ClusterInv' /\ Range(list') \subseteq NodeReleases /\ DOMAIN release' \subseteq Nodes
<1>1. Range(list') \subseteq NodeReleases
  BY LenProperties DEF Range
<1>. QED
  BY <1>1, SameHistory DEF TypeInv, TypeOK, ClusterInv, cluster, LastCompleted

\* A fact of the right type keeps the types.
LEMMA ReadKeepsTypes ==
    ASSUME TypeInv, NEW fact, NEW value, NEW next, Read(fact, value, next),
           \/ fact = "os" /\ value \in {Rendered(r) : r \in NodeReleases} /\ next = "kernel"
           \/ fact = "kernel" /\ value \in NodeReleases /\ next = "version"
           \/ fact = "version" /\ value \in Versions /\ next = "secret"
           \/ fact = "secret" /\ value \in SpecialResources /\ next = "image"
           \/ fact = "image" /\ value \in Versions /\ next = "proxy",
           pc = "version" => fact = "version",
           next = "proxy" => pc = "image", next = "image" => pc = "secret"
    PROVE  TypeInv'
<1>1. /\ list \in Seq(NodeReleases) /\ sr \in SpecialResources /\ runInfo \in RunInfos
  BY DEF TypeInv, ClusterInv
<1>2. runInfo' \in RunInfos
  BY <1>1 DEF Read, RunInfos
<1>3. ClusterInv' /\ Range(list') \subseteq NodeReleases /\ DOMAIN release' \subseteq Nodes
  BY <1>1, <1>2, ReadingKeepsCluster DEF Read, node
<1>4. next \in After("version") => runInfo'.version \in Versions
  BY <1>1 DEF Read, RunInfos, TypeInv, VersionInv, After
<1>5. next = "proxy" => runInfo'.image \in Versions
  BY <1>1 DEF Read, RunInfos
<1>. QED
  BY <1>2, <1>3, <1>4, <1>5 
     DEF VersionInv, After, TypeInv, TypeOK, NodeReleases, RunInfos, Read, None, NoRelease,
         node

\* A step of the cluster leaves the operator alone.
LEMMA ClusterKeepsReads ==
    ASSUME TypeInv, UNCHANGED <<list, count, sr, runInfo, pc>>,
           DOMAIN release' \subseteq Nodes, release' \in [DOMAIN release' -> NodeReleases],
           history' \in Seq(Entries), history' # <<>>, Len(history') <= MaxHistory,
           LastCompleted', completed' \in Versions, image' \in {None} \cup Versions,
           proxy' \in 0 .. MaxProxy
    PROVE  TypeInv'
BY DEF TypeInv, TypeOK, ClusterInv, VersionInv, LastCompleted, Range

\* Every step keeps the types and the order of the history.
LEMMA TypeStep == TypeInv /\ [Next]_vars => TypeInv'
<1>. SUFFICES ASSUME TypeInv, [Next]_vars
              PROVE  TypeInv'
  OBVIOUS
<1>. USE ClusterAssumption
<1>0. /\ list \in Seq(NodeReleases) /\ sr \in SpecialResources /\ runInfo \in RunInfos
      /\ FirstNode \in NodeReleases
  BY FirstIsRelease DEF TypeInv, ClusterInv
<1>1. ASSUME NEW s \in SpecialResources, StartPass(s), list' \in Seq(NodeReleases),
             UNCHANGED count
      PROVE  TypeInv'
  <2>2. UNCHANGED cluster /\ sr' \in SpecialResources /\ runInfo' = runInfo /\ pc' = "os"
    BY <1>1 DEF StartPass
  <2>3. ClusterInv' /\ Range(list') \subseteq NodeReleases /\ DOMAIN release' \subseteq Nodes
    BY <1>0, <1>1, <2>2, ReadingKeepsCluster
  <2>. QED
    BY <1>1, <2>2, <2>3 DEF TypeInv, TypeOK, VersionInv, After, NodeReleases, RunInfos,
                            ClusterInv, None, NoRelease
<1>2. ASSUME NEW s \in SpecialResources, CachedNodes(s)
      PROVE  TypeInv'
  BY <1>0, <1>1, <1>2 DEF CachedNodes, node
<1>3. ASSUME NEW order \in SetToSeqs(DOMAIN release), Listing(order)
       PROVE  list' \in Seq(NodeReleases) /\ UNCHANGED count
  BY <1>3, ListIsSeq DEF Listing, TypeInv, TypeOK
<1>4. ASSUME NEW s \in SpecialResources, NEW order \in SetToSeqs(DOMAIN release),
             ListNodes(s, order)
      PROVE  TypeInv'
  BY <1>1, <1>3, <1>4 DEF ListNodes
<1>5. ASSUME NEW order \in SetToSeqs(DOMAIN release), LabelNodes(order)
       PROVE  TypeInv'
  <2>1. list' \in Seq(NodeReleases) /\ UNCHANGED <<cluster, count, sr, runInfo, pc>>
    BY <1>3, <1>5 DEF LabelNodes
  <2>2. ClusterInv' /\ Range(list') \subseteq NodeReleases /\ DOMAIN release' \subseteq Nodes
    BY <1>0, <2>1, ReadingKeepsCluster
  <2>. QED
    BY <2>1, <2>2 DEF TypeInv, TypeOK, VersionInv, NodeReleases
<1>6. ASSUME NEW desired \in 0 .. Cardinality(DOMAIN release), PollDaemonSet(desired)
       PROVE  TypeInv'
  <2>1. UNCHANGED <<cluster, list, sr, runInfo, pc>> /\ count' = desired
    BY <1>6 DEF PollDaemonSet
  <2>2. ClusterInv' /\ Range(list') \subseteq NodeReleases /\ DOMAIN release' \subseteq Nodes
    BY <1>0, <2>1, ReadingKeepsCluster
  <2>3. Cardinality(DOMAIN release) \in Nat /\ Cardinality(Nodes) \in Nat
        /\ Cardinality(DOMAIN release) <= Cardinality(Nodes)
    BY FS_Subset, FS_CardinalityType DEF TypeInv, TypeOK
  <2>4. count' \in 0 .. Cardinality(Nodes)
    BY <2>1, <2>3
  <2>. QED
    BY <2>1, <2>2, <2>4 DEF TypeInv, TypeOK, VersionInv, NodeReleases
<1>7. CASE getOperatingSystem
  <2>. DEFINE v == IF list = <<>> THEN NoOS ELSE renderOperatingSystem(Releases[FirstNode])
  <2>1. v = Rendered(FirstNode)
    BY <1>7, <1>0, FirstIsRelease DEF getOperatingSystem, Rendered
  <2>2. Read("os", v, "kernel")
    BY <1>7 DEF getOperatingSystem
  <2>. HIDE DEF v
  <2>. QED
    BY <1>0, <1>7, <2>1, <2>2, ReadKeepsTypes DEF getOperatingSystem
<1>8. CASE getKernelVersion
  BY <1>0, <1>8, ReadKeepsTypes DEF getKernelVersion
<1>9. CASE getClusterVersion
  <2>1. PICK k \in Completed : /\ \A j \in Completed : k <= j
                               /\ Read("version", history[k].version, "secret")
    BY <1>9 DEF getClusterVersion
  <2>2. history[k] \in Entries
    BY LenProperties DEF TypeInv, ClusterInv, Completed
  <2>3. history[k].version \in Versions
    BY <2>2 DEF Entries
  <2>. QED
    BY <1>9, <2>1, <2>3, ReadKeepsTypes DEF getClusterVersion
<1>10. CASE getPushSecretName
  BY <1>0, <1>10, ReadKeepsTypes DEF getPushSecretName
<1>11. CASE getOSImageURL
  <2>1. image \in Versions
    BY <1>11 DEF getOSImageURL, TypeInv, ClusterInv
  <2>. QED
    BY <1>11, <2>1, ReadKeepsTypes DEF getOSImageURL
<1>12. CASE getProxyConfiguration
  <2>1. runInfo' \in RunInfos /\ runInfo'.version = runInfo.version
        /\ runInfo'.image = runInfo.image
    BY <1>0, <1>12 DEF getProxyConfiguration, RunInfos, TypeInv, ClusterInv
  <2>2. UNCHANGED <<cluster, list, count, sr>> /\ pc = "proxy" /\ pc' = "states"
    BY <1>12 DEF getProxyConfiguration, node
  <2>3. ClusterInv' /\ Range(list') \subseteq NodeReleases /\ DOMAIN release' \subseteq Nodes
    BY <1>0, <2>1, <2>2, ReadingKeepsCluster
  <2>. QED
    BY <2>1, <2>2, <2>3 DEF TypeInv, TypeOK, VersionInv, NodeReleases, RunInfos, None, NoRelease
<1>13. CASE Missing
  <2>1. /\ runInfo' = Empty /\ list' = <<>> /\ count' = UnsetCount
        /\ UNCHANGED <<cluster, sr>> /\ pc' = "exit"
    BY <1>13 DEF Missing
  <2>2. Empty \in RunInfos
    BY DEF Empty, RunInfos, Rendered, NodeReleases, None, NoRelease
  <2>3. ClusterInv' /\ Range(list') \subseteq NodeReleases /\ DOMAIN release' \subseteq Nodes
    BY <1>0, <2>1, <2>2, ReadingKeepsCluster
  <2>. QED
    BY <2>1, <2>2, <2>3
       DEF TypeInv, TypeOK, VersionInv, After, NodeReleases, RunInfos, None, NoRelease
<1>14. CASE Restart
  <2>1. UNCHANGED <<cluster, list, count, sr, runInfo>> /\ pc' = "idle"
    BY <1>14 DEF Restart, node
  <2>2. ClusterInv' /\ Range(list') \subseteq NodeReleases /\ DOMAIN release' \subseteq Nodes
    BY <1>0, <2>1, ReadingKeepsCluster
  <2>. QED
    BY <1>0, <2>1, <2>2
       DEF TypeInv, TypeOK, VersionInv, After, NodeReleases, RunInfos, None, NoRelease
<1>. USE DEF Unread, node
<1>15. ASSUME NEW n \in Nodes, NEW r \in {NoRelease} \cup DOMAIN Releases, NodeChange(n, r)
       PROVE  TypeInv'
  <2>1. UNCHANGED <<history, image, proxy, completed, list, count, sr, runInfo, pc>>
    BY <1>15 DEF NodeChange
  <2>2. DOMAIN release' \subseteq Nodes /\ release' \in [DOMAIN release' -> NodeReleases]
    BY <1>15, NodesKeepReleases DEF NodeReleases
  <2>. QED
    BY <2>1, <2>2, SameHistory, ClusterKeepsReads DEF TypeInv, ClusterInv
<1>16. CASE UpgradeStarts
  <2>1. UNCHANGED <<release, image, proxy, completed, list, count, sr, runInfo, pc>>
    BY <1>16 DEF UpgradeStarts
  <2>. QED
    BY <1>16, <2>1, StartKeepsCompleted, ClusterKeepsReads DEF TypeInv, TypeOK, ClusterInv
<1>17. CASE UpgradeCompletes
  <2>1. UNCHANGED <<release, image, proxy, list, count, sr, runInfo, pc>>
    BY <1>17 DEF UpgradeCompletes
  <2>. QED
    BY <1>17, <2>1, CompletionIsLast, ClusterKeepsReads DEF TypeInv, TypeOK, ClusterInv
<1>18. CASE ImageChanges
  <2>1. UNCHANGED <<release, history, proxy, completed, list, count, sr, runInfo, pc>>
    BY <1>18 DEF ImageChanges
  <2>2. Head(history) \in Entries
    BY HeadTailProperties DEF TypeInv, ClusterInv
  <2>3. image' \in Versions
    BY <1>18, <2>2 DEF ImageChanges, Entries
  <2>. QED
    BY <2>1, <2>3, SameHistory, ClusterKeepsReads DEF TypeInv, TypeOK, ClusterInv
<1>19. ASSUME NEW s \in SpecialResources, SecretChanges(s)
       PROVE  TypeInv'
  <2>1. UNCHANGED <<release, history, image, proxy, completed, list, count, sr, runInfo, pc>>
    BY <1>19 DEF SecretChanges
  <2>. QED
    BY <2>1, SameHistory, ClusterKeepsReads DEF TypeInv, TypeOK, ClusterInv
<1>20. ASSUME NEW p \in 0 .. MaxProxy, ProxyChanges(p)
       PROVE  TypeInv'
  <2>1. UNCHANGED <<release, history, image, completed, list, count, sr, runInfo, pc>>
        /\ proxy' \in 0 .. MaxProxy
    BY <1>20 DEF ProxyChanges
  <2>. QED
    BY <2>1, SameHistory, ClusterKeepsReads DEF TypeInv, TypeOK, ClusterInv
<1>21. CASE UNCHANGED vars
  <2>1. UNCHANGED <<release, history, image, proxy, completed, list, count, sr, runInfo, pc>>
    BY <1>21 DEF vars, cluster
  <2>. QED
    BY <2>1, SameHistory, ClusterKeepsReads DEF TypeInv, TypeOK, ClusterInv
<1>. QED
  BY <1>2, <1>4, <1>5, <1>6, <1>7, <1>8, <1>9, <1>10, <1>11, <1>12, <1>13, <1>14,
     <1>15, <1>16, <1>17, <1>18, <1>19, <1>20, <1>21 DEF Next

\* Every reachable state is well typed: no manifest is rendered without a
\* version or an image.
THEOREM TypeCorrect == Spec => []TypeOK
<1>1. TypeInv => TypeOK
  BY DEF TypeInv
<1>. QED
  BY <1>1, TypeInit, TypeStep, PTL DEF Spec

(***************************************************************************)
(* FromOneNode and UpgradeIsNotOlder.                                      *)
(***************************************************************************)

\* The steps that read the nodes, and those that leave what was read alone.
LEMMA NodeSteps ==
    ASSUME TypeInv, [Next]_vars
    PROVE  \/ getOperatingSystem
           \/ getKernelVersion
           \/ /\ runInfo'.os = runInfo.os /\ runInfo'.kernel = runInfo.kernel
              /\ pc # "kernel" /\ pc' # "kernel"
           \/ UNCHANGED <<list, runInfo, pc>>
           \/ runInfo' = Empty /\ pc' = "exit"
<1>1. runInfo \in RunInfos
  BY DEF TypeInv, ClusterInv
<1>2. CASE \/ \E s \in SpecialResources : CachedNodes(s)
           \/ \E order \in SetToSeqs(DOMAIN release) :
                LabelNodes(order) \/ \E s \in SpecialResources : ListNodes(s, order)
           \/ \E desired \in 0 .. Cardinality(DOMAIN release) : PollDaemonSet(desired)
           \/ Restart
  BY <1>2 DEF CachedNodes, LabelNodes, ListNodes, PollDaemonSet, StartPass, Restart
<1>3. CASE getClusterVersion \/ getPushSecretName \/ getOSImageURL
  BY <1>1, <1>3 DEF getClusterVersion, getPushSecretName, getOSImageURL, Read, RunInfos
<1>4. CASE getProxyConfiguration
  BY <1>1, <1>4 DEF getProxyConfiguration, RunInfos
<1>5. CASE Missing
  BY <1>5 DEF Missing
<1>6. CASE \/ \E n \in Nodes, r \in {NoRelease} \cup DOMAIN Releases : NodeChange(n, r)
           \/ UpgradeStarts \/ UpgradeCompletes \/ ImageChanges
           \/ \E s \in SpecialResources : SecretChanges(s)
           \/ \E p \in 0 .. MaxProxy : ProxyChanges(p)
           \/ UNCHANGED vars
  BY <1>6 DEF NodeChange, UpgradeStarts, UpgradeCompletes, ImageChanges, SecretChanges,
              ProxyChanges, Unread, vars, node
<1>. QED
  BY <1>2, <1>3, <1>4, <1>5, <1>6 DEF Next

\* getOperatingSystem renders the release of the first node.
LEMMA OSOfFirstNode ==
    ASSUME TypeInv, getOperatingSystem
    PROVE  runInfo'.os = Rendered(FirstNode) /\ runInfo'.kernel = runInfo.kernel
BY FirstIsRelease DEF getOperatingSystem, Read, Rendered, RunInfos, TypeInv, ClusterInv

\* Every step keeps operating system and kernel together.
LEMMA NodeStep == TypeInv /\ NodeInv /\ [Next]_vars => NodeInv'
<1>. SUFFICES ASSUME TypeInv, NodeInv, [Next]_vars
              PROVE  NodeInv'
  OBVIOUS
<1>1. CASE getOperatingSystem
  BY <1>1, OSOfFirstNode DEF NodeInv, getOperatingSystem, Read, FirstNode, node
<1>2. CASE getKernelVersion
  BY <1>2 DEF NodeInv, getKernelVersion, Read, RunInfos, TypeInv, ClusterInv
<1>3. CASE /\ runInfo'.os = runInfo.os /\ runInfo'.kernel = runInfo.kernel
           /\ pc # "kernel" /\ pc' # "kernel"
  BY <1>3 DEF NodeInv
<1>4. CASE UNCHANGED <<list, runInfo, pc>>
  BY <1>4 DEF NodeInv, FirstNode
<1>5. CASE runInfo' = Empty /\ pc' = "exit"
  BY <1>5 DEF NodeInv, Empty, Rendered, None, NoRelease
<1>. QED
  BY <1>1, <1>2, <1>3, <1>4, <1>5, NodeSteps

\* Nothing was read at first.
LEMMA NodeInit == Init => NodeInv
BY DEF Init, NodeInv, Empty, Rendered, None, NoRelease

\* Operating system and kernel are of one node when manifests are rendered,
\* however the nodes are upgraded (runtime.go:140, runtime.go:203).
THEOREM FactsFromOneNode == Spec => []FromOneNode
<1>1. NodeInv => FromOneNode
  BY DEF NodeInv, FromOneNode, Rendered, None, NoRelease
<1>. QED
  BY <1>1, TypeInit, TypeStep, NodeInit, NodeStep, PTL DEF Spec

\* The table of renderOperatingSystem is monotonic, from OpenShift 4 on.
LEMMA TableAscends ==
    ASSUME NEW old \in OperatingSystems, NEW new \in OperatingSystems,
           old.rel = new.rel, NotOlder(new, old),
           old.rel = "rhcos" => old.maj >= 4 /\ new.maj >= 4
    PROVE  NotOlder(renderOperatingSystem(new), renderOperatingSystem(old))
<1>1. old.maj \in Int /\ old.min \in Int /\ new.maj \in Int /\ new.min \in Int
  BY DEF OperatingSystems
<1>2. CASE old.rel # "rhcos"
  BY <1>2 DEF renderOperatingSystem
<1>3. CASE old.rel = "rhcos"
  <2>. DEFINE minor(os) == IF os.maj = 4 /\ Atoi(os.min) < 4 THEN 0
                           ELSE IF os.maj = 4 /\ os.min = 4 THEN 1 ELSE 2
  <2>1. renderOperatingSystem(old) = Rhel8(minor(old))
    BY <1>3 DEF renderOperatingSystem
  <2>2. renderOperatingSystem(new) = Rhel8(minor(new))
    BY <1>3 DEF renderOperatingSystem
  <2>3. /\ minor(new) >= minor(old)
    BY <1>1, <1>3 DEF NotOlder, Atoi, NoMinor
  <2>. HIDE DEF minor
  <2>. QED
    BY <2>1, <2>2, <2>3 DEF NotOlder, Rhel8
<1>. QED
  BY <1>2, <1>3

\* So it is on the releases of one operating system.
LEMMA RenderingAscends ==
    ASSUME Ascending, NEW j \in DOMAIN Releases, NEW k \in DOMAIN Releases, j <= k
    PROVE  NotOlder(renderOperatingSystem(Releases[k]), renderOperatingSystem(Releases[j]))
<1>1. Releases[j].rel = "rhcos" => Releases[j].maj >= 4 /\ Releases[k].maj >= 4
  BY ReleaseNumbers DEF Ascending
<1>2. Releases[j].rel = Releases[k].rel /\ NotOlder(Releases[k], Releases[j])
  BY DEF Ascending
<1>. QED
  BY <1>1, <1>2, ReleaseNumbers, TableAscends

\* For releases of one operating system in order, a pass that finds the first
\* node upgraded never renders for an older operating system than the pass
\* before (runtime.go:155).
THEOREM RenderingIsMonotonic ==
    ASSUME Ascending
    PROVE  Spec => UpgradeIsNotOlder
<1>. DEFINE A == (pc = "os" /\ pc' = "kernel" /\ runInfo.kernel # None
                    /\ FirstNode >= runInfo.kernel)
                 => NotOlder(runInfo'.os, runInfo.os)
<1>1. TypeInv /\ NodeInv /\ [Next]_vars => [A]_vars
  <2>. SUFFICES ASSUME TypeInv, NodeInv, [Next]_vars, pc = "os", pc' = "kernel",
                       runInfo.kernel # None, FirstNode >= runInfo.kernel
                PROVE  NotOlder(runInfo'.os, runInfo.os)
    OBVIOUS
  <2>1. getOperatingSystem
    BY NodeSteps DEF getKernelVersion, Read
  <2>2. runInfo.kernel \in DOMAIN Releases
    BY DEF TypeInv, TypeOK
  <2>3. FirstNode \in NodeReleases
    BY FirstIsRelease DEF TypeInv, ClusterInv
  <2>4. FirstNode \in DOMAIN Releases /\ FirstNode # NoRelease
    BY <2>2, <2>3, ReleaseNumbers DEF NodeReleases, NoRelease
  <2>5. runInfo'.os = renderOperatingSystem(Releases[FirstNode])
    BY <2>1, <2>4, OSOfFirstNode DEF Rendered
  <2>6. runInfo.os = renderOperatingSystem(Releases[runInfo.kernel])
    BY DEF NodeInv, Rendered, None, NoRelease
  <2>. QED
    BY <2>2, <2>4, <2>5, <2>6, ReleaseNumbers, RenderingAscends
<1>. QED
  BY <1>1, TypeInit, TypeStep, NodeInit, NodeStep, PTL DEF Spec, UpgradeIsNotOlder

(***************************************************************************)
(* ReadFactsOfThisPass.                                                    *)
(***************************************************************************)

\* A step of the cluster only adds to what was observed.
LEMMA ObserveKeepsReads ==
    ASSUME ReadInv, Unread
    PROVE  ReadInv'
<1>. USE FactNames
<1>1. UNCHANGED <<sr, runInfo, pc>> /\ DOMAIN during = DOMAIN Facts /\ DOMAIN Facts' = DOMAIN Facts
  BY DEF Unread, ReadInv, Facts
<1>2. during' = [f \in DOMAIN Facts |->
                   IF pc \in Before(f) THEN during[f] \cup {Facts'[f]} ELSE during[f]]
  BY DEF Unread, Observe
<1>3. /\ DOMAIN during' = DOMAIN Facts'
      /\ \A f \in DOMAIN Facts' : /\ during[f] \subseteq during'[f]
                                  /\ pc \in Before(f) => Facts'[f] \in during'[f]
  BY <1>1, <1>2
<1>4. \A f \in DOMAIN Facts' : pc' \in After(f) => runInfo'[f] \in during'[f]
  BY <1>1, <1>3 DEF ReadInv
<1>. QED
  BY <1>1, <1>3, <1>4 DEF ReadInv

\* What a fact is now was observed, as long as it is not read.
LEMMA FactsObserved ==
    ASSUME ReadInv
    PROVE  /\ pc = "version" => completed \in during["version"]
           /\ pc = "secret" /\ sr \in secrets => sr \in during["secret"]
           /\ pc = "image" => image \in during["image"]
           /\ pc = "proxy" => proxy \in during["proxy"]
<1>1. \A f \in {"version", "secret", "image", "proxy"} :
          pc \in Before(f) => Facts[f] \in during[f]
  BY FactNames DEF ReadInv
<1>2. /\ Facts["version"] = completed /\ Facts["image"] = image /\ Facts["proxy"] = proxy
      /\ sr \in secrets => Facts["secret"] = sr
  BY DEF Facts
<1>. QED
  BY <1>1, <1>2 DEF Before

\* Each read takes what the fact is now.
LEMMA ReadStep == TypeInv /\ ReadInv /\ [Next]_vars => ReadInv'
<1>. SUFFICES ASSUME TypeInv, ReadInv, [Next]_vars
              PROVE  ReadInv'
  OBVIOUS
<1>0. runInfo \in RunInfos
  BY DEF TypeInv, ClusterInv
<1>. USE FactNames DEF After, Before
<1>1. ASSUME NEW s \in SpecialResources, StartPass(s)
      PROVE  ReadInv'
  <2>1. /\ DOMAIN Facts' = DOMAIN Facts /\ pc' = "os"
        /\ during' = [f \in DOMAIN Facts |-> {Facts'[f]}]
    BY <1>1 DEF StartPass, Facts
  <2>. QED
    BY <2>1 DEF ReadInv
<1>2. CASE getOperatingSystem
  <2>1. Facts' = Facts /\ pc' = "kernel" /\ UNCHANGED during
    BY <1>2 DEF getOperatingSystem, Read, Facts, cluster
  <2>. QED
    BY <1>2, <2>1 DEF ReadInv, getOperatingSystem
<1>3. CASE getKernelVersion
  <2>1. Facts' = Facts /\ pc' = "version" /\ UNCHANGED during
    BY <1>3 DEF getKernelVersion, Read, Facts, cluster
  <2>. QED
    BY <1>3, <2>1 DEF ReadInv, getKernelVersion
<1>4. CASE getClusterVersion
  <2>1. Facts' = Facts /\ pc = "version" /\ pc' = "secret" /\ UNCHANGED during
    BY <1>4 DEF getClusterVersion, Read, Facts, cluster
  <2>2. PICK k \in Completed : /\ \A j \in Completed : k <= j
                               /\ Read("version", history[k].version, "secret")
    BY <1>4 DEF getClusterVersion
  <2>3. PICK l \in Completed : (\A j \in Completed : l <= j) /\ history[l].version = completed
    BY DEF TypeInv, ClusterInv
  <2>4. k \in Nat /\ l \in Nat
    BY LenProperties DEF TypeInv, ClusterInv, Completed
  <2>5. runInfo'["version"] = completed
    BY <1>0, <2>2, <2>3, <2>4 DEF Read, RunInfos
  <2>. QED
    BY <2>1, <2>5, FactsObserved DEF ReadInv
<1>5. CASE getPushSecretName
  <2>1. Facts' = Facts /\ pc = "secret" /\ pc' = "image" /\ UNCHANGED <<during, sr>>
    BY <1>5 DEF getPushSecretName, Read, Facts, cluster
  <2>2. runInfo'.secret = sr /\ runInfo'["version"] = runInfo["version"] /\ sr \in secrets
    BY <1>0, <1>5 DEF getPushSecretName, Read, RunInfos
  <2>. QED
    BY <2>1, <2>2, FactsObserved DEF ReadInv
<1>6. CASE getOSImageURL
  <2>1. Facts' = Facts /\ pc = "image" /\ pc' = "proxy" /\ UNCHANGED <<during, sr>>
    BY <1>6 DEF getOSImageURL, Read, Facts, cluster
  <2>2. /\ runInfo'["image"] = image
        /\ runInfo'.secret = runInfo.secret /\ runInfo'["version"] = runInfo["version"]
    BY <1>0, <1>6 DEF getOSImageURL, Read, RunInfos
  <2>. QED
    BY <2>1, <2>2, FactsObserved DEF ReadInv
<1>7. CASE getProxyConfiguration
  <2>1. Facts' = Facts /\ pc = "proxy" /\ pc' = "states" /\ UNCHANGED <<during, sr>>
    BY <1>7 DEF getProxyConfiguration, Facts, cluster
  <2>2. /\ runInfo'["proxy"] = proxy /\ runInfo'.sr = sr
        /\ runInfo'["image"] = runInfo["image"]
        /\ runInfo'.secret = runInfo.secret /\ runInfo'["version"] = runInfo["version"]
    BY <1>0, <1>7 DEF getProxyConfiguration, RunInfos
  <2>. QED
    BY <2>1, <2>2, FactsObserved DEF ReadInv
<1>8. CASE Missing
  <2>1. pc' = "exit" /\ during' = Unobserved /\ Facts' = Facts
    BY <1>8 DEF Missing, Facts, cluster
  <2>. QED
    BY <2>1 DEF ReadInv, Unobserved
<1>9. CASE Restart
  <2>1. pc' = "idle" /\ UNCHANGED during /\ Facts' = Facts
    BY <1>9 DEF Restart, Facts, cluster
  <2>. QED
    BY <2>1 DEF ReadInv
<1>10. CASE \/ \E n \in Nodes, r \in {NoRelease} \cup DOMAIN Releases : NodeChange(n, r)
            \/ UpgradeStarts \/ UpgradeCompletes \/ ImageChanges
            \/ \E s \in SpecialResources : SecretChanges(s)
            \/ \E p \in 0 .. MaxProxy : ProxyChanges(p)
  <2>1. Unread
    BY <1>10 DEF NodeChange, UpgradeStarts, UpgradeCompletes, ImageChanges, SecretChanges,
                 ProxyChanges
  <2>. QED
    BY <2>1, ObserveKeepsReads
<1>11. CASE \/ \E order \in SetToSeqs(DOMAIN release) : LabelNodes(order)
            \/ \E desired \in 0 .. Cardinality(DOMAIN release) : PollDaemonSet(desired)
  <2>1. UNCHANGED <<during, sr, runInfo, pc>> /\ Facts' = Facts
    BY <1>11 DEF LabelNodes, PollDaemonSet, cluster, Facts
  <2>. QED
    BY <2>1 DEF ReadInv
<1>12. CASE UNCHANGED vars
  <2>1. UNCHANGED <<during, sr, runInfo, pc>> /\ Facts' = Facts
    BY <1>12 DEF vars, cluster, Facts
  <2>. QED
    BY <2>1 DEF ReadInv
<1>. QED
  BY <1>1, <1>2, <1>3, <1>4, <1>5, <1>6, <1>7, <1>8, <1>9, <1>10, <1>11, <1>12
  DEF Next, CachedNodes, ListNodes

\* Nothing is observed before the first pass.
LEMMA ReadInit == Init => ReadInv
BY FactNames DEF Init, ReadInv, Unobserved, After, Before

\* What was read from the API server (version, Secret, image and Proxy) was
\* true of the cluster during this call of getRuntimeInformation when a
\* manifest is rendered, and the Secret is the one of the SpecialResource at
\* hand (resources.go:318).
THEOREM ReadFactsAreOfThisPass == Spec => []ReadFactsOfThisPass
<1>1. ReadInv => ReadFactsOfThisPass
  BY FactNames DEF ReadInv, ReadFactsOfThisPass, After
<1>. QED
  BY <1>1, TypeInit, TypeStep, ReadInit, ReadStep, PTL DEF Spec

=============================================================================
