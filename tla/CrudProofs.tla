----------------------------- MODULE CrudProofs -----------------------------
(***************************************************************************)
(* Proofs about Crud, for any kinds, contents and number of other writes.  *)
(***************************************************************************)
EXTENDS Crud, TLAPS

(***************************************************************************)
(* TypeOK.                                                                 *)
(***************************************************************************)

\* What the API server stores is an object with a new resourceVersion.
LEMMA WriteType ==
    ASSUME TypeOK, NEW spec \in Specs, NEW ip \in IPs \cup {None}, Write(spec, ip)
    PROVE  object' \in ObjectType /\ version' \in Nat /\ version' = version + 1
           /\ object'.version = version' /\ object'.version # None
           /\ object'.spec = spec /\ object'.ip = ip
BY DEF TypeOK, Write, ObjectType, None

\* A new object is a Write, with an IP for a Service only.
LEMMA CreateIsWrite ==
    ASSUME NEW spec, CreateObject(spec)
    PROVE  \E ip \in IPs \cup {None} :
               Write(spec, ip) /\ (kind # "Service" => ip = None)
BY DEF CreateObject

\* At first there is nothing.
LEMMA TypeInit == Init => TypeOK
<1>1. Init => raced \in BOOLEAN /\ failed \in BOOLEAN
  BY Zenon DEF Init
<1>. QED
  BY <1>1 DEF Init, TypeOK, Steps, Absent, ObjectType, None

\* An object, once written, has the last resourceVersion.
LEMMA TypeStep == TypeOK /\ [Next]_vars => TypeOK'
<1>. SUFFICES ASSUME TypeOK, [Next]_vars
              PROVE  TypeOK'
  OBVIOUS
<1>0. version \in Nat /\ manifest \in Specs /\ object.ip \in IPs \cup {None}
  BY DEF TypeOK, ObjectType
<1>1. CASE Get
  <2>1. raced' \in BOOLEAN
    BY <1>1, Zenon DEF Get
  <2>. QED
    BY <1>1, <2>1 DEF Get, TypeOK, Steps
<1>2. CASE Create
  <2>1. CASE CreateObject(manifest)
    <3>1. PICK ip \in IPs \cup {None} : Write(manifest, ip)
      BY <2>1, CreateIsWrite
    <3>2. object' \in ObjectType /\ version' = version + 1 /\ object'.version = version'
      BY <1>0, <3>1, WriteType
    <3>. QED
      BY <1>2, <3>2 DEF Create, TypeOK, Steps, ObjectType
  <2>2. CASE ~CreateObject(manifest)
    BY <1>2, <2>2 DEF Create, TypeOK, Steps
  <2>. QED
    BY <2>1, <2>2
<1>3. CASE Update
  <2>. DEFINE req == updateResourceVersion(found)
  <2>1. req.spec = manifest
    BY DEF updateResourceVersion
  <2>2. CASE Write(req.spec, object.ip)
    <3>1. object' \in ObjectType /\ version' = version + 1 /\ object'.version = version'
      BY <1>0, <2>1, <2>2, WriteType
    <3>. QED
      BY <1>3, <3>1 DEF Update, TypeOK, Steps, ObjectType
  <2>3. CASE ~Write(req.spec, object.ip)
    BY <1>3, <2>3 DEF Update, UpdateObject, TypeOK, Steps
  <2>. QED
    BY <2>2, <2>3
<1>4. CASE Restart
  <2>1. raced' \in BOOLEAN /\ failed' \in BOOLEAN
    BY <1>4, Zenon DEF Restart
  <2>. QED
    BY <1>4, <2>1 DEF Restart, TypeOK, Steps
<1>5. CASE Render
  BY <1>5 DEF Render, Op, TypeOK
<1>6. CASE Edit
  <2>1. PICK spec \in Specs : Write(spec, object.ip)
    BY <1>6 DEF Edit
  <2>2. object' \in ObjectType /\ version' = version + 1 /\ object'.version = version'
    BY <1>0, <2>1, WriteType
  <2>3. raced' \in BOOLEAN
    BY <1>6, Zenon DEF Edit
  <2>. QED
    BY <1>6, <2>2, <2>3 DEF Edit, Op, TypeOK, ObjectType
<1>7. CASE CreateByOther
  <2>1. PICK spec \in Specs : CreateObject(spec)
    BY <1>7 DEF CreateByOther
  <2>2. PICK ip \in IPs \cup {None} : Write(spec, ip)
    BY <2>1, CreateIsWrite
  <2>3. object' \in ObjectType /\ version' = version + 1 /\ object'.version = version'
    BY <2>2, WriteType
  <2>4. raced' \in BOOLEAN
    BY <1>7, Zenon DEF CreateByOther
  <2>. QED
    BY <1>7, <2>3, <2>4 DEF CreateByOther, Op, TypeOK, ObjectType
<1>8. CASE Delete
  <2>1. raced' \in BOOLEAN
    BY <1>8, Zenon DEF Delete
  <2>. QED
    BY <1>8, <2>1 DEF Delete, Op, TypeOK, Absent, ObjectType, None
<1>9. CASE GetFails \/ Crash
  <2>1. failed' \in BOOLEAN
    BY <1>9, Zenon DEF GetFails, Crash, Fails
  <2>. QED
    BY <1>9, <2>1 DEF GetFails, Crash, Fails, Op, TypeOK, Steps
<1>10. CASE CreateFails
  <2>1. failed' \in BOOLEAN
    BY <1>10, Zenon DEF CreateFails, Fails
  <2>2. CASE CreateObject(manifest)
    <3>1. PICK ip \in IPs \cup {None} : Write(manifest, ip)
      BY <2>2, CreateIsWrite
    <3>2. object' \in ObjectType /\ version' = version + 1 /\ object'.version = version'
      BY <1>0, <3>1, WriteType
    <3>. QED
      BY <1>10, <2>1, <3>2 DEF CreateFails, Fails, Op, TypeOK, Steps, ObjectType
  <2>3. CASE UNCHANGED <<object, version>>
    BY <1>10, <2>1, <2>3 DEF CreateFails, Fails, Op, TypeOK, Steps
  <2>. QED
    BY <1>10, <2>2, <2>3 DEF CreateFails
<1>11. CASE UpdateFails
  <2>. DEFINE req == updateResourceVersion(found)
  <2>1. req.spec = manifest
    BY DEF updateResourceVersion
  <2>2. failed' \in BOOLEAN
    BY <1>11, Zenon DEF UpdateFails, Fails
  <2>3. CASE Write(req.spec, object.ip)
    <3>1. object' \in ObjectType /\ version' = version + 1 /\ object'.version = version'
      BY <1>0, <2>1, <2>3, WriteType
    <3>. QED
      BY <1>11, <2>2, <3>1 DEF UpdateFails, Fails, Op, TypeOK, Steps, ObjectType
  <2>4. CASE UNCHANGED <<object, version>>
    BY <1>11, <2>2, <2>4 DEF UpdateFails, Fails, Op, TypeOK, Steps
  <2>. QED
    BY <1>11, <2>3, <2>4 DEF UpdateFails, UpdateObject
<1>12. CASE UNCHANGED vars
  BY <1>12 DEF vars, TypeOK
<1>. QED
  BY <1>1, <1>2, <1>3, <1>4, <1>5, <1>6, <1>7, <1>8, <1>9, <1>10, <1>11, <1>12
  DEF Next, Failures, Others

\* Every reachable state is well typed.
THEOREM TypeCorrect == Spec => []TypeOK
BY TypeInit, TypeStep, PTL DEF Spec

(***************************************************************************)
(* ExitNeedsCause and NoLostUpdate.                                        *)
(***************************************************************************)

\* What a Write leaves of CrudInv: the new object differs from what was read.
LEMMA WriteIsNew ==
    ASSUME TypeOK, NEW spec \in Specs, NEW ip \in IPs \cup {None}, Write(spec, ip),
           found' = found
    PROVE  /\ object'.version # None
           /\ object'.version # found'.version
           /\ object'.ip = ip
<1>1. object'.version = version + 1 /\ object'.ip = ip /\ object'.version # None
  BY WriteType
<1>2. found.version \in Nat /\ found.version <= version /\ version \in Nat
  BY DEF TypeOK, ObjectType
<1>. QED
  BY <1>1, <1>2

\* The list of the code has every kind of a manifest whose update needs a
\* resourceVersion.
LEMMA ListIsComplete ==
    ASSUME NEW k \in Kinds, VersionRequired(k)
    PROVE  needToUpdateResourceVersion(k)
BY CrudAssumption
DEF VersionRequired, CustomResources, OpenShiftKinds, needToUpdateResourceVersion

\* The API server accepts what CRUD sends for an object that it has read and
\* nobody has changed since.
LEMMA AcceptsFound ==
    ASSUME TypeOK, CrudInv, pc = "update", ~raced
    PROVE  Accepts(updateResourceVersion(found))
<1>1. object = found /\ found # Absent /\ found.version # None
  BY DEF CrudInv
<1>2. kind # "Service" => object.ip = None
  BY DEF CrudInv
<1>3. VersionRequired(kind) => needToUpdateResourceVersion(kind)
  BY ListIsComplete DEF TypeOK
<1>. QED
  BY <1>1, <1>2, <1>3 DEF Accepts, updateResourceVersion

\* At first nothing was read.
LEMMA CrudInit == Init => CrudInv
<1>1. Init => pc = "get" /\ object = Absent /\ found = Absent
  BY DEF Init
<1>. QED
  BY <1>1 DEF CrudInv, ExitNeedsCause, Absent, None

\* Whoever writes the object in between sets raced.
LEMMA CrudStep == TypeOK /\ CrudInv /\ [Next]_vars => CrudInv'
<1>. SUFFICES ASSUME TypeOK, CrudInv, [Next]_vars
              PROVE  CrudInv'
  OBVIOUS
<1>0. manifest \in Specs /\ object.ip \in IPs \cup {None}
  BY DEF TypeOK, ObjectType
<1>. USE DEF CrudInv, ExitNeedsCause
<1>1. CASE Get
  BY <1>1 DEF Get
<1>2. CASE Create
  <2>1. CASE CreateObject(manifest) /\ pc' = "get"
    <3>1. PICK ip \in IPs \cup {None} :
              Write(manifest, ip) /\ (kind # "Service" => ip = None)
      BY <2>1, CreateIsWrite
    <3>2. found' = found /\ kind' = kind
      BY <1>2 DEF Create
    <3>. QED
      BY <1>0, <2>1, <3>1, <3>2, WriteIsNew
  <2>2. CASE object # Absent /\ pc' = "exited" /\ UNCHANGED <<object, version>>
    BY <1>2, <2>2 DEF Create
  <2>. QED
    BY <1>2, <2>1, <2>2 DEF Create
<1>3. CASE Update
  <2>. DEFINE req == updateResourceVersion(found)
  <2>1. found' = found /\ kind' = kind /\ raced' = raced /\ pc = "update"
    BY <1>3 DEF Update
  <2>2. CASE UpdateObject(req) /\ pc' = "get"
    <3>1. req.spec = manifest
      BY DEF updateResourceVersion
    <3>2. CASE UNCHANGED <<object, version>>
      BY <2>1, <2>2, <3>2
    <3>3. CASE Write(manifest, object.ip)
      BY <1>0, <2>1, <2>2, <3>3, WriteIsNew
    <3>. QED
      BY <2>2, <3>1, <3>2, <3>3 DEF UpdateObject
  <2>3. CASE ~Accepts(req) /\ pc' = "exited" /\ UNCHANGED <<object, version>>
    <3>1. raced
      BY <2>1, <2>3, AcceptsFound
    <3>. QED
      BY <2>1, <2>3, <3>1
  <2>. QED
    BY <1>3, <2>2, <2>3 DEF Update
<1>4. CASE Restart
  BY <1>4 DEF Restart
<1>5. CASE Render
  BY <1>5 DEF Render
<1>6. CASE Edit
  <2>1. PICK spec \in Specs : Write(spec, object.ip)
    BY <1>6 DEF Edit
  <2>2. found' = found /\ kind' = kind /\ raced' /\ pc' = pc
    BY <1>6 DEF Edit
  <2>. QED
    BY <1>0, <2>1, <2>2, WriteIsNew
<1>7. CASE CreateByOther
  <2>1. PICK spec \in Specs : CreateObject(spec)
    BY <1>7 DEF CreateByOther
  <2>2. PICK ip \in IPs \cup {None} :
            Write(spec, ip) /\ (kind # "Service" => ip = None)
    BY <2>1, CreateIsWrite
  <2>3. found' = found /\ kind' = kind /\ raced' /\ pc' = pc
    BY <1>7 DEF CreateByOther
  <2>. QED
    BY <2>2, <2>3, WriteIsNew
<1>8. CASE Delete
  BY <1>8 DEF Delete, Absent, None
<1>9. CASE GetFails \/ Crash
  BY <1>9 DEF GetFails, Crash, Fails
<1>10. CASE CreateFails
  <2>1. found' = found /\ kind' = kind /\ failed' /\ pc' = "exited"
    BY <1>10 DEF CreateFails, Fails
  <2>2. CASE CreateObject(manifest)
    <3>1. PICK ip \in IPs \cup {None} :
              Write(manifest, ip) /\ (kind # "Service" => ip = None)
      BY <2>2, CreateIsWrite
    <3>. QED
      BY <1>0, <2>1, <3>1, WriteIsNew
  <2>3. CASE UNCHANGED <<object, version>>
    BY <2>1, <2>3
  <2>. QED
    BY <1>10, <2>2, <2>3 DEF CreateFails
<1>11. CASE UpdateFails
  <2>. DEFINE req == updateResourceVersion(found)
  <2>1. found' = found /\ kind' = kind /\ failed' /\ pc' = "exited"
    BY <1>11 DEF UpdateFails, Fails
  <2>2. req.spec = manifest
    BY DEF updateResourceVersion
  <2>3. CASE Write(manifest, object.ip)
    BY <1>0, <2>1, <2>3, WriteIsNew
  <2>4. CASE UNCHANGED <<object, version>>
    BY <2>1, <2>4
  <2>. QED
    BY <1>11, <2>2, <2>3, <2>4 DEF UpdateFails, UpdateObject
<1>12. CASE UNCHANGED vars
  BY <1>12 DEF vars
<1>. QED
  BY <1>1, <1>2, <1>3, <1>4, <1>5, <1>6, <1>7, <1>8, <1>9, <1>10, <1>11, <1>12
  DEF Next, Failures, Others

\* The API server refuses CRUD only after a race with another writer; the
\* process ends for no other reason than that or a failure.
THEOREM ExitsNeedCauses == Spec => []ExitNeedsCause
<1>1. CrudInv => ExitNeedsCause
  BY DEF CrudInv
<1>. QED
  BY <1>1, TypeInit, TypeStep, CrudInit, CrudStep, PTL DEF Spec

\* CRUD replaces no version of an object that it has not read.
THEOREM UpdatesAreFresh == Spec => NoLostUpdate
<1>1. TypeOK /\ CrudInv /\ [Next]_vars
          => [(Update \/ UpdateFails) /\ object' # object /\ VersionRequired(kind)
                 => object = found]_vars
  <2>. SUFFICES ASSUME TypeOK, CrudInv, Update \/ UpdateFails, object' # object,
                       VersionRequired(kind)
                PROVE  object = found
    OBVIOUS
  <2>. DEFINE req == updateResourceVersion(found)
  <2>1. Accepts(req)
    BY DEF Update, UpdateFails, UpdateObject
  <2>2. req.version = found.version
    BY ListIsComplete DEF updateResourceVersion, TypeOK
  <2>3. object.version # None /\ object.version = found.version
    BY <2>1, <2>2 DEF Accepts, CrudInv
  <2>. QED
    BY <2>3 DEF CrudInv
<1>. QED
  BY <1>1, TypeInit, TypeStep, CrudInit, CrudStep, PTL DEF Spec, NoLostUpdate

=============================================================================
