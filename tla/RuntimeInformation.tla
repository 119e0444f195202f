------------------------- MODULE RuntimeInformation -------------------------
(***************************************************************************)
(* getRuntimeInformation: the facts about nodes and cluster with which the *)
(* manifests are rendered, read one after the other into the global        *)
(* runInfo, which outlives the pass, while the cluster is upgraded and     *)
(* configured.  Those of the nodes come from node.list, which may be the   *)
(* one of an earlier pass.  A fact that is missing ends the process.       *)
(* Every SpecialResource selects all nodes here; DriverContainer tells     *)
(* their selectors apart.                                                  *)
(***************************************************************************)
EXTENDS Integers, Sequences, FiniteSets, SequencesExt

CONSTANTS
    SpecialResources,
    Nodes,
    Releases,       \* operating systems of the nodes, each newer than the last:
                    \* a sequence of records with rel, maj and min
    MaxProxy,       \* bound on edits of the cluster's Proxy
    MaxHistory      \* bound on the upgrades of the cluster

NoMinor == -1       \* VERSION_ID.minor is empty

OperatingSystems == [rel : STRING, maj : Int, min : Int]

ASSUME ReleasesAssumption == Releases \in Seq(OperatingSystems)

ASSUME ClusterAssumption ==
    /\ IsFiniteSet(Nodes)
    /\ MaxProxy \in Nat /\ MaxHistory \in Nat \ {0}

NoRelease == 0      \* a node without labels of NFD
UnsetCount == -1    \* 0xDEADBEEF, which no list has for its length
None      == 0      \* a string that is empty
NoOS      == [rel |-> "", maj |-> None, min |-> NoMinor]

VARIABLES
    release,    \* of each node that joined, as NFD has labelled it
    history,    \* ClusterVersion status.history, the latest entry first
    image,      \* the release of ConfigMap machine-config-osimageurl, or None
    secrets,    \* SpecialResources with a builder-dockercfg Secret
    proxy,      \* edition of the Proxy "cluster", or None
    list,       \* node.list
    count,      \* node.count
    sr,         \* r.specialresource
    runInfo,
    pc,         \* the fact that is read next, "idle", "states" or "exit"
    completed,  \* the version that the cluster completed last
    during      \* of each fact, its values in this call until it is read

cluster == <<release, history, image, secrets, proxy, completed>>
node    == <<list, count>>
vars    == <<cluster, node, sr, runInfo, pc, during>>

Empty == [os |-> NoOS, kernel |-> None, version |-> None, secret |-> None,
          image |-> None, proxy |-> None, sr |-> None]

Facts == [version |-> completed, image |-> image, proxy |-> proxy,
          secret |-> IF sr \in secrets THEN sr ELSE None]

Unobserved == [f \in DOMAIN Facts |-> {}]

Init ==
    /\ release = [n \in {} |-> NoRelease]
    /\ history = <<[version |-> 1, state |-> "Completed"]>>
    /\ image = None /\ secrets = {} /\ proxy = None
    /\ list = <<>> /\ count = UnsetCount
    /\ sr \in SpecialResources
    /\ runInfo = Empty
    /\ pc = "idle"
    /\ completed = 1
    /\ during = Unobserved

(***************************************************************************)
(* The operator.                                                           *)
(***************************************************************************)
Rhel8(min) == [rel |-> "rhel", maj |-> 8, min |-> min]

Atoi(min) == IF min = NoMinor THEN 0 ELSE min

\* Mutant: the minor is compared as a string, "10" < "4".
renderAsString(os) ==
    IF os.rel # "rhcos" THEN os
    ELSE IF os.maj = 4 /\ (Atoi(os.min) < 4 \/ Atoi(os.min) >= 10)
            THEN Rhel8(0)
    ELSE IF os.maj = 4 /\ os.min = 4 THEN Rhel8(1)
    ELSE Rhel8(2)

\* OperatingSystemMajor, MajorMinor and Decimal are projections of the result.
renderOperatingSystem(os) ==
    IF os.rel # "rhcos" THEN os
    ELSE IF os.maj = 4 /\ Atoi(os.min) < 4 THEN Rhel8(0)
    ELSE IF os.maj = 4 /\ os.min = 4 THEN Rhel8(1)
    ELSE Rhel8(2)

\* A pass, or the next SpecialResource of one, gets to its facts.
StartPass(s) ==
    /\ pc \in {"idle", "states"}
    /\ sr' = s
    /\ pc' = "os"
    /\ UNCHANGED <<cluster, runInfo>>
    /\ during' = [f \in DOMAIN Facts |-> {Facts'[f]}]

\* cacheNodes: the list has the length that was last expected, however the
\* nodes have changed.
CachedNodes(s) ==
    /\ Len(list) = count
    /\ StartPass(s)
    /\ UNCHANGED node

\* The API server lists the nodes, in any order.
Listing(order) == list' = [k \in DOMAIN order |-> release[order[k]]] /\ UNCHANGED count

ListNodes(s, order) ==
    /\ Len(list) # count
    /\ StartPass(s)
    /\ Listing(order)

\* While the states are reconciled: a poll of a DaemonSet sets node.count to
\* its number of nodes, and the nodes are listed to be labelled.
PollDaemonSet(desired) ==
    /\ pc = "states"
    /\ count' = desired
    /\ UNCHANGED <<cluster, list, sr, runInfo, pc, during>>

LabelNodes(order) ==
    /\ pc = "states"
    /\ Listing(order)
    /\ UNCHANGED <<cluster, sr, runInfo, pc, during>>

Read(fact, value, next) ==
    /\ runInfo' = [runInfo EXCEPT ![fact] = value]
    /\ pc' = next
    /\ UNCHANGED <<cluster, node, sr, during>>

\* A list without nodes leaves the strings empty.
FirstNode == IF list = <<>> THEN NoRelease ELSE Head(list)

getOperatingSystem ==
    /\ pc = "os"
    /\ list = <<>> \/ FirstNode # NoRelease
    /\ Read("os", IF list = <<>> THEN NoOS
                  ELSE renderOperatingSystem(Releases[FirstNode]), "kernel")

\* Mutant: the loop has no break.
getLastKernelVersion ==
    /\ pc = "kernel"
    /\ NoRelease \notin Range(list)
    /\ Read("kernel", IF list = <<>> THEN None ELSE Last(list), "version")

getKernelVersion ==
    /\ pc = "kernel"
    /\ list = <<>> \/ FirstNode # NoRelease
    /\ Read("kernel", FirstNode, "version")

\* Entries of the history whose upgrade has completed.
Completed == {k \in DOMAIN history : history[k].state = "Completed"}

getClusterVersion ==
    /\ pc = "version"
    /\ \E k \in Completed :
         /\ \A j \in Completed : k <= j
         /\ Read("version", history[k].version, "secret")

getPushSecretName ==
    /\ pc = "secret"
    /\ sr \in secrets
    /\ Read("secret", sr, "image")

\* Mutant: that the ConfigMap is missing is not an error.
getAnyOSImageURL ==
    /\ pc = "image"
    /\ Read("image", image, "proxy")

getOSImageURL ==
    /\ pc = "image"
    /\ image # None
    /\ Read("image", image, "proxy")

\* Mutant: without a Proxy, the configuration is left as it is.
getProxyIfAny ==
    /\ pc = "proxy"
    /\ runInfo' = [runInfo EXCEPT !.proxy = IF proxy = None THEN @ ELSE proxy,
                                  !.sr = sr]
    /\ pc' = "states"
    /\ UNCHANGED <<cluster, node, sr, during>>

\* A new proxyConfiguration; then the SpecialResource is copied.
getProxyConfiguration ==
    /\ pc = "proxy"
    /\ runInfo' = [runInfo EXCEPT !.proxy = proxy, !.sr = sr]
    /\ pc' = "states"
    /\ UNCHANGED <<cluster, node, sr, during>>

\* A call of the API server fails, or a fact is missing: exitOnError, and
\* the memory of the process is gone.
Missing ==
    /\ \/ pc \in {"idle", "states"} /\ Len(list) # count
       \/ pc \in {"os", "kernel"} /\ list # <<>> /\ FirstNode = NoRelease
       \/ pc \in {"version", "secret", "image", "proxy"}
    /\ pc' = "exit"
    /\ runInfo' = Empty
    /\ list' = <<>> /\ count' = UnsetCount
    /\ during' = Unobserved
    /\ UNCHANGED <<cluster, sr>>

\* The Deployment starts the process again.
Restart ==
    /\ pc = "exit"
    /\ pc' = "idle"
    /\ UNCHANGED <<cluster, node, sr, runInfo, during>>

(***************************************************************************)
(* The cluster.                                                            *)
(***************************************************************************)
\* Where this call has still to read a fact.
Before(fact) ==
    CASE fact = "version" -> {"os", "kernel", "version"}
      [] fact = "secret"  -> {"os", "kernel", "version", "secret"}
      [] fact = "image"   -> {"os", "kernel", "version", "secret", "image"}
      [] fact = "proxy"   -> {"os", "kernel", "version", "secret", "image", "proxy"}

Observe ==
    during' = [f \in DOMAIN Facts |->
                 IF pc \in Before(f) THEN during[f] \cup {Facts'[f]} ELSE during[f]]

\* Between the list of the nodes and the first Get the operator only reads
\* its memory, and what happens then may as well happen after it.
Unread ==
    /\ pc \notin {"os", "kernel"}
    /\ UNCHANGED <<node, sr, runInfo, pc>>
    /\ Observe

\* A node joins, is labelled by NFD, or boots another release.
NodeChange(n, r) ==
    /\ n \in DOMAIN release => r > release[n]
    /\ release' = [m \in DOMAIN release \cup {n} |->
                     IF m = n THEN r ELSE release[m]]
    /\ UNCHANGED <<history, image, secrets, proxy, completed>>
    /\ Unread

\* The update that runs may be abandoned for the next one.
UpgradeStarts ==
    /\ Len(history) < MaxHistory
    /\ history' = <<[version |-> Len(history) + 1, state |-> "Partial"]>> \o history
    /\ UNCHANGED <<release, image, secrets, proxy, completed>>
    /\ Unread

UpgradeCompletes ==
    /\ Head(history).state = "Partial"
    /\ history' = [history EXCEPT ![1].state = "Completed"]
    /\ completed' = Head(history).version
    /\ UNCHANGED <<release, image, secrets, proxy>>
    /\ Unread

\* The machine-config operator writes the image of the update that runs.
ImageChanges ==
    /\ image' = Head(history).version
    /\ image' # image
    /\ UNCHANGED <<release, history, secrets, proxy, completed>>
    /\ Unread

SecretChanges(s) ==
    /\ secrets' = IF s \in secrets THEN secrets \ {s} ELSE secrets \cup {s}
    /\ UNCHANGED <<release, history, image, proxy, completed>>
    /\ Unread

ProxyChanges(p) ==
    /\ p # proxy
    /\ proxy' = p
    /\ UNCHANGED <<release, history, image, secrets, completed>>
    /\ Unread

Next ==
    \/ \E s \in SpecialResources : CachedNodes(s)
    \/ \E order \in SetToSeqs(DOMAIN release) :
         LabelNodes(order) \/ \E s \in SpecialResources : ListNodes(s, order)
    \/ \E desired \in 0 .. Cardinality(DOMAIN release) : PollDaemonSet(desired)
    \/ getOperatingSystem \/ getKernelVersion \/ getClusterVersion
    \/ getPushSecretName \/ getOSImageURL \/ getProxyConfiguration
    \/ Missing \/ Restart
    \/ \E n \in Nodes, r \in {NoRelease} \cup DOMAIN Releases : NodeChange(n, r)
    \/ UpgradeStarts \/ UpgradeCompletes \/ ImageChanges
    \/ \E s \in SpecialResources : SecretChanges(s)
    \/ \E p \in 0 .. MaxProxy : ProxyChanges(p)

Spec == Init /\ [][Next]_vars

-----------------------------------------------------------------------------
Versions == 1 .. MaxHistory

TypeOK ==
    /\ DOMAIN release \subseteq Nodes
    /\ Range(list) \subseteq {NoRelease} \cup DOMAIN Releases
    /\ count \in {UnsetCount} \cup 0 .. Cardinality(Nodes)
    /\ runInfo.kernel \in {None} \cup DOMAIN Releases
    /\ {runInfo.version, runInfo.image} \subseteq {None} \cup Versions
    /\ runInfo.proxy \in 0 .. MaxProxy
    /\ pc \in {"idle", "os", "kernel", "version", "secret", "image", "proxy",
              "states", "exit"}
    /\ pc \in {"proxy", "states"} => {runInfo.version, runInfo.image} \subseteq Versions

(***************************************************************************)
(* What getRuntimeInformation reads from the API server (version, Secret,  *)
(* image, Proxy) is of this pass when manifests are rendered               *)
(* (resources.go:318): each was true of the cluster at some moment of this *)
(* call, the version is one that the cluster had completed, and the Secret *)
(* is the one of the SpecialResource that is rendered.  Nothing of an      *)
(* earlier pass, of another SpecialResource or of a Proxy that was removed *)
(* is left.  The operating system and the kernel are not among these       *)
(* facts: a list that is cached may be older than this pass.               *)
(***************************************************************************)
ReadFactsOfThisPass ==
    pc = "states" =>
      /\ \A f \in DOMAIN Facts : runInfo[f] \in during[f]
      /\ runInfo.secret = sr /\ runInfo.sr = sr

(***************************************************************************)
(* The operating system and the kernel are those of one node               *)
(* (runtime.go:140 and runtime.go:203 each take the first), also while the *)
(* nodes are upgraded one by one and the list is cached or not: a          *)
(* driver-container is never rendered with the kernel of one node, or of   *)
(* one list, and the operating system of another.                          *)
(***************************************************************************)
FromOneNode ==
    pc = "states" =>
      runInfo.os = IF runInfo.kernel = None THEN NoOS
                   ELSE renderOperatingSystem(Releases[runInfo.kernel])

NotOlder(new, old) ==
    new.rel = old.rel => \/ new.maj > old.maj
                         \/ new.maj = old.maj /\ new.min >= old.min

(***************************************************************************)
(* A pass that finds the first node upgraded does not render the manifests *)
(* for an older operating system than the pass before (runtime.go:155).    *)
(***************************************************************************)
UpgradeIsNotOlder ==
    [][(pc = "os" /\ pc' = "kernel" /\ runInfo.kernel # None
          /\ FirstNode >= runInfo.kernel)
       => NotOlder(runInfo'.os, runInfo.os)]_vars

(***************************************************************************)
(* The releases are those of one operating system, in order.  (A cluster   *)
(* with both has no order of releases: RHCOS 4.4 is rendered as RHEL 8.1.) *)
(* RHCOS begins with OpenShift 4.                                          *)
(***************************************************************************)
Ascending ==
    \A j, k \in DOMAIN Releases : j <= k =>
      /\ Releases[j].rel = Releases[k].rel
      /\ Releases[j].rel = "rhcos" => Releases[j].maj >= 4
      /\ NotOlder(Releases[k], Releases[j])

-----------------------------------------------------------------------------
(***************************************************************************)
(* Inductive strengthenings.                                               *)
(***************************************************************************)
Rendered(r) == IF r = NoRelease THEN NoOS ELSE renderOperatingSystem(Releases[r])

NodeReleases == {NoRelease} \cup DOMAIN Releases

Entries == [version : Versions, state : {"Partial", "Completed"}]

RunInfos == [os : {Rendered(r) : r \in NodeReleases}, kernel : NodeReleases,
             version : {None} \cup Versions, image : {None} \cup Versions,
             secret : {None} \cup SpecialResources, proxy : 0 .. MaxProxy,
             sr : {None} \cup SpecialResources]

\* What is there to be read; the latest entry of the history that is completed
\* is the version that the cluster completed last.
ClusterInv ==
    /\ release \in [DOMAIN release -> NodeReleases]
    /\ history \in Seq(Entries) /\ history # <<>> /\ Len(history) <= MaxHistory
    /\ \E k \in Completed :
         (\A j \in Completed : k <= j) /\ history[k].version = completed
    /\ completed \in Versions
    /\ image \in {None} \cup Versions
    /\ proxy \in 0 .. MaxProxy
    /\ list \in Seq(NodeReleases)
    /\ sr \in SpecialResources
    /\ runInfo \in RunInfos

\* The pc after a fact was read, up to the rendering of the manifests.
After(fact) ==
    CASE fact = "version" -> {"secret", "image", "proxy", "states"}
      [] fact = "secret"  -> {"image", "proxy", "states"}
      [] fact = "image"   -> {"proxy", "states"}
      [] fact = "proxy"   -> {"states"}

\* A version that was read is one.
VersionInv == pc \in After("version") => runInfo.version \in Versions

\* While facts are read, those of now are among the observed ones, and so are
\* those that this pass has read.
ReadInv ==
    /\ DOMAIN during = DOMAIN Facts
    /\ \A f \in DOMAIN Facts : pc \in Before(f) => Facts[f] \in during[f]
    /\ \A f \in DOMAIN Facts : pc \in After(f) => runInfo[f] \in during[f]
    /\ pc \in After("secret") => runInfo.secret = sr
    /\ pc = "states" => runInfo.sr = sr

\* Operating system and kernel are of one node, but while the second is read.
NodeInv ==
    runInfo.os = Rendered(IF pc = "kernel" THEN FirstNode ELSE runInfo.kernel)

=============================================================================
