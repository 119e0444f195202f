------------------------------- MODULE Hooks -------------------------------
(***************************************************************************)
(* beforeCRUDhooks: what the operator changes in an object between reading *)
(* it from the manifest and CRUD.  setupProxy gives the containers of a    *)
(* Pod or DaemonSet the proxy of the cluster; a callback, looked up by its *)
(* name, fills the credentials of Prometheus into the ConfigMap of         *)
(* Grafana.  The objects of Go are kept apart: obj, and the copies that    *)
(* NestedSlice makes of a part of it.                                      *)
(***************************************************************************)
EXTENDS Integers, Sequences

CONSTANTS
    Manifests,      \* documents of a recipe: records as in Documents below
    Registered,     \* names in customCallback
    MaxEditions     \* bound on the editions of the grafana-datasources Secret

\* Where a URL or a password comes from: the edition of the Secret and the
\* datasource in it; REPLACE_PROM_* of the manifest; or the empty string.
Sources     == (1 .. MaxEditions) \X (1 .. 2)
Placeholder == <<0, 0>>
NoValue     == <<0, 1>>

Documents == [kind : {"Pod", "DaemonSet", "ConfigMap"},
              proxy : BOOLEAN, callback : STRING,
              containers : Seq(SUBSET {"PROXY", "OWN"}),
              url : {Placeholder}, pass : {Placeholder}]

VARIABLES
    secret,     \* "absent", "broken", "nolist", or its number of datasources
    edition,    \* of the Secret
    obj,        \* the object that goes to CRUD
    containers, \* the local copy of its containers
    pc          \* "next", "proxy", "containers", "callback", "crud", "error"
                \* or "exit"

vars == <<secret, edition, obj, containers, pc>>

Contents == {"absent", "broken", "nolist", "zero", "one", "two"}

Init ==
    /\ secret \in Contents
    /\ edition = 1
    /\ obj \in Manifests
    /\ containers = <<>>
    /\ pc = "next"

\* Mutant: containers is a variable of the package.
NextDocumentKeepsCopy ==
    /\ pc = "next"
    /\ obj' \in Manifests
    /\ pc' = IF obj'.proxy THEN "proxy" ELSE "callback"
    /\ UNCHANGED <<secret, edition, containers>>

\* createFromYAML, in whatever pass: the object is made from the manifest.
NextDocument ==
    /\ pc = "next"
    /\ obj' \in Manifests
    /\ pc' = IF obj'.proxy THEN "proxy" ELSE "callback"
    /\ containers' = <<>>
    /\ UNCHANGED <<secret, edition>>

\* setupPodProxy and setupDaemonSetProxy: NestedSlice returns a deep copy.
NestedSlice ==
    /\ pc = "proxy"
    /\ obj.kind # "ConfigMap"
    /\ obj.containers # <<>>
    /\ containers' = obj.containers
    /\ pc' = "containers"
    /\ UNCHANGED <<secret, edition, obj>>

\* The kind has no containers.
OtherKind ==
    /\ pc = "proxy"
    /\ obj.kind = "ConfigMap"
    /\ pc' = "callback"
    /\ UNCHANGED <<secret, edition, obj, containers>>

\* exitOnErrorOrNotFound.
NoContainers ==
    /\ pc = "proxy"
    /\ obj.kind # "ConfigMap"
    /\ obj.containers = <<>>
    /\ pc' = "exit"
    /\ UNCHANGED <<secret, edition, obj, containers>>

\* The loop ends after the first container; obj is not written.
setupContainersProxy ==
    /\ pc = "containers"
    /\ containers' = [containers EXCEPT ![1] = @ \cup {"PROXY"}]
    /\ pc' = "callback"
    /\ UNCHANGED <<secret, edition, obj>>

\* No annotation, or a name that is not registered.
SkipCallback ==
    /\ pc = "callback"
    /\ obj.callback \notin Registered
    /\ pc' = "crud"
    /\ UNCHANGED <<secret, edition, obj, containers>>

\* The first datasource; both stay empty when there is none.
getPromURLPass(url, pass) ==
    \/ secret = "zero" /\ url = NoValue /\ pass = NoValue
    \/ secret \in {"one", "two"} /\ url = <<edition, 1>> /\ pass = url

customGrafanaConfigMap ==
    /\ pc = "callback"
    /\ obj.callback \in Registered
    /\ obj.kind = "ConfigMap"
    /\ \E url, pass \in Sources \cup {NoValue} :
         /\ getPromURLPass(url, pass)
         /\ obj' = [obj EXCEPT !.url = url, !.pass = pass]
    /\ pc' = "crud"
    /\ UNCHANGED <<secret, edition, containers>>

\* The Secret cannot be read: the error ends the pass.
CallbackError ==
    /\ pc = "callback"
    /\ obj.callback \in Registered
    /\ obj.kind = "ConfigMap"
    /\ secret \in {"absent", "broken"}
    /\ pc' = "error"
    /\ UNCHANGED <<secret, edition, obj, containers>>

\* The ConfigMap or the Secret is not of the form that is expected.
CallbackExit ==
    /\ pc = "callback"
    /\ obj.callback \in Registered
    /\ obj.kind # "ConfigMap" \/ secret = "nolist"
    /\ pc' = "exit"
    /\ UNCHANGED <<secret, edition, obj, containers>>

CRUD ==
    /\ pc = "crud"
    /\ pc' = "next"
    /\ UNCHANGED <<secret, edition, obj, containers>>

\* CRUD exits on an error; one of afterCRUDhooks ends the pass.
CRUDFails ==
    /\ pc = "crud"
    /\ pc' \in {"error", "exit"}
    /\ UNCHANGED <<secret, edition, obj, containers>>

\* The next pass, of this process or of the one that replaces it.
Again ==
    /\ pc \in {"error", "exit"}
    /\ pc' = "next"
    /\ UNCHANGED <<secret, edition, obj, containers>>

\* The monitoring operator writes the Secret.
SecretChanges ==
    /\ edition < MaxEditions
    /\ edition' = edition + 1
    /\ secret' \in Contents
    /\ UNCHANGED <<obj, containers, pc>>

beforeCRUDhooks ==
    \/ NestedSlice \/ OtherKind \/ NoContainers \/ setupContainersProxy
    \/ SkipCallback \/ customGrafanaConfigMap \/ CallbackError \/ CallbackExit

Next ==
    \/ NextDocument \/ beforeCRUDhooks \/ CRUD \/ CRUDFails
    \/ Again \/ SecretChanges

Spec == Init /\ [][Next]_vars

-----------------------------------------------------------------------------
Values == Sources \cup {Placeholder, NoValue}

\* Every variable has its type; in particular, a local copy is one of the object at hand.
TypeOK ==
    /\ secret \in Contents
    /\ edition \in 1 .. MaxEditions
    /\ [obj EXCEPT !.url = Placeholder, !.pass = Placeholder] \in Manifests
    /\ {obj.url, obj.pass} \subseteq Values
    /\ containers # <<>> => /\ obj.proxy
                            /\ DOMAIN containers = DOMAIN obj.containers
    /\ pc \in {"next", "proxy", "containers", "callback", "crud", "error", "exit"}

-----------------------------------------------------------------------------
\* The object at hand, and the copy of its containers while they are changed.
Objects == [kind : {"Pod", "DaemonSet", "ConfigMap"},
            proxy : BOOLEAN, callback : STRING,
            containers : Seq(SUBSET {"PROXY", "OWN"}),
            url : Values, pass : Values]

\* The inductive strengthening of TypeOK.
CopyInv ==
    /\ obj \in Objects
    /\ pc \in {"proxy", "containers"} => obj.proxy
    /\ pc = "containers" => containers = obj.containers

=============================================================================
