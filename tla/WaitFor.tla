------------------------------ MODULE WaitFor ------------------------------
(***************************************************************************)
(* One waitForResource: a poll until the object exists, and then one until *)
(* it is available; for a BuildConfig, one after the other for the Builds  *)
(* that were listed in between.  Each poll is a wait.Poll: a goroutine     *)
(* that ticks and closes its channel at the timeout, and a consumer that   *)
(* asks the API server once for every tick it is ready for, and once more  *)
(* when the channel is closed.  The objects change at any time.            *)
(***************************************************************************)
EXTENDS Integers

CONSTANTS
    Object,         \* the object of the manifest
    Builds,         \* Builds that the namespace may have
    Kinds,          \* kinds that it may be of
    Timeout         \* the timeout, in retry intervals

ASSUME WaitForAssumption ==
    /\ Timeout \in Nat \ {0}
    /\ Object \notin Builds

Objects == {Object} \cup Builds

VARIABLES
    kind,       \* of the object
    state,      \* of each object: "absent", "bare" (without the field of
                \* its status that is read), "waiting", "ready" or "failed"
    pc,         \* the call that waits, or what it returned
    cur,        \* the object that is polled
    listed,     \* the Builds that were listed
    todo,       \* those that have still to be waited for
    elapsed,    \* retry intervals since the poll started
    open,       \* the channel of the goroutine is open
    call        \* the consumer: "idle", "asks", or "last" when it was closed

pollVars == <<elapsed, open, call>>
vars     == <<kind, state, pc, cur, listed, todo, pollVars>>

Returned == {"nil", "timeout", "error", "exit"}
Steps    == {"availability", "list", "full"} \cup Returned

\* The kinds for which waitFor has a function.
HasWait == {"Pod", "DaemonSet", "BuildConfig"}

Init ==
    /\ kind \in Kinds
    /\ state \in [Objects -> {"absent", "waiting"}]
    /\ pc = IF kind \in HasWait THEN "availability" ELSE "nil"
    /\ cur = Object
    /\ listed = {} /\ todo = {}
    /\ elapsed = 0 /\ open = TRUE /\ call = "idle"

(***************************************************************************)
(* wait.Poll.                                                              *)
(***************************************************************************)
Polling == pc \in {"availability", "full"}

NewPoll == elapsed' = 0 /\ open' = TRUE /\ call' = "idle"

\* Mutant: the ticker does not stop at the timeout.
TickPast ==
    /\ Polling /\ open
    /\ elapsed <= Timeout
    /\ elapsed' = elapsed + 1
    /\ call' = IF call = "idle" THEN "asks" ELSE call
    /\ UNCHANGED <<kind, state, pc, cur, listed, todo, open>>

\* A tick the consumer is not ready for is dropped.
Tick ==
    /\ Polling /\ open
    /\ elapsed < Timeout
    /\ elapsed' = elapsed + 1
    /\ call' = IF call = "idle" THEN "asks" ELSE call
    /\ UNCHANGED <<kind, state, pc, cur, listed, todo, open>>

\* The timer fires; it may win against the last tick.
Close ==
    /\ Polling /\ open
    /\ elapsed >= Timeout - 1
    /\ elapsed' = Timeout
    /\ open' = FALSE
    /\ UNCHANGED <<kind, state, pc, cur, listed, todo, call>>

\* Mutant: the closed channel ends the poll without another call.
ReceiveGivesUp ==
    /\ Polling /\ ~open
    /\ call = "idle"
    /\ pc' = "timeout"
    /\ UNCHANGED <<kind, state, cur, listed, todo, pollVars>>

\* The closed channel is received from once.
Receive ==
    /\ Polling /\ ~open
    /\ call = "idle"
    /\ call' = "last"
    /\ UNCHANGED <<kind, state, pc, cur, listed, todo, elapsed, open>>

(***************************************************************************)
(* The conditions.                                                         *)
(***************************************************************************)

\* waitForResourceAvailability: Get finds the object.
Exists ==
    /\ pc = "availability"
    /\ call # "idle"
    /\ state[cur] # "absent"
    /\ pc' = IF kind = "BuildConfig" THEN "list" ELSE "full"
    /\ NewPoll
    /\ UNCHANGED <<kind, state, cur, listed, todo>>

\* waitForBuild: the Builds of the namespace, as they are now.
List ==
    /\ pc = "list"
    /\ listed' = {b \in Builds : state[b] # "absent"}
    /\ \/ listed' = {} /\ pc' = "nil" /\ UNCHANGED <<cur, todo>>
       \/ \E b \in listed' : /\ pc' = "full"
                             /\ cur' = b
                             /\ todo' = listed' \ {b}
    /\ UNCHANGED <<kind, state, pollVars>>

\* Mutant: the first Build that is complete ends the wait.
FirstBuild ==
    /\ pc = "full"
    /\ call # "idle"
    /\ state[cur] = "ready"
    /\ pc' = "nil"
    /\ NewPoll
    /\ UNCHANGED <<kind, state, cur, listed, todo>>

\* The status has the expected value; the next Build, if there is one.
Full ==
    /\ pc = "full"
    /\ call # "idle"
    /\ state[cur] = "ready"
    /\ \/ todo = {} /\ pc' = "nil" /\ UNCHANGED <<cur, todo>>
       \/ \E b \in todo : cur' = b /\ todo' = todo \ {b} /\ UNCHANGED pc
    /\ NewPoll
    /\ UNCHANGED <<kind, state, listed>>

\* Mutant: it is asked again after the channel was closed.
NotYetAgain ==
    /\ \/ pc = "availability" /\ state[cur] = "absent"
       \/ pc = "full" /\ state[cur] \in {"waiting", "failed"}
    /\ call # "idle"
    /\ call' = "idle"
    /\ UNCHANGED <<kind, state, pc, cur, listed, todo, elapsed, open>>

\* It is not there yet: once more, unless this was the last time.
NotYet ==
    /\ \/ pc = "availability" /\ state[cur] = "absent"
       \/ pc = "full" /\ state[cur] \in {"waiting", "failed"}
    /\ call # "idle"
    /\ call' = "idle"
    /\ pc' = IF call = "last" THEN "timeout" ELSE pc
    /\ UNCHANGED <<kind, state, cur, listed, todo, elapsed, open>>

\* The status has no such field: exitOnErrorOrNotFound.
NoStatus ==
    /\ pc = "full"
    /\ call # "idle"
    /\ state[cur] = "bare"
    /\ pc' = "exit"
    /\ UNCHANGED <<kind, state, cur, listed, todo, pollVars>>

\* Get fails, of an object that was deleted or for another reason, or List.
GetError ==
    /\ (Polling /\ call # "idle") \/ pc = "list"
    /\ pc' = "error"
    /\ UNCHANGED <<kind, state, cur, listed, todo, pollVars>>

(***************************************************************************)
(* The objects.  Builds and Pods end as complete or failed; a DaemonSet    *)
(* may lose its pods.  The API server gives all three a status when they   *)
(* are created, another controller's object may be without one at first.   *)
(***************************************************************************)
Becomes(o, from, to) ==
    /\ state[o] = from
    /\ state' = [state EXCEPT ![o] = to]
    /\ UNCHANGED <<kind, pc, cur, listed, todo, pollVars>>

Change(o) ==
    /\ o \in Builds => kind = "BuildConfig"
    /\ \/ Becomes(o, "absent", "waiting")
       \/ Becomes(o, "absent", "bare")
       \/ Becomes(o, "bare", "waiting")
       \/ Becomes(o, "waiting", "ready")
       \/ Becomes(o, "waiting", "failed") /\ kind # "DaemonSet"
       \/ Becomes(o, "ready", "waiting") /\ kind = "DaemonSet"

Wait ==
    \/ Tick \/ Close \/ Receive
    \/ Exists \/ List \/ Full \/ NotYet \/ NoStatus \/ GetError

Next == Wait \/ \E o \in Objects : Change(o)

Spec == Init /\ [][Next]_vars

\* Time passes, the scheduler runs both goroutines, and a call returns.
Fairness ==
    /\ WF_vars(Tick) /\ WF_vars(Close)
    /\ WF_vars(Receive \/ Exists \/ List \/ Full \/ NotYet \/ NoStatus)

(***************************************************************************)
(* Properties.                                                             *)
(***************************************************************************)

\* Every variable has its type.
TypeOK ==
    /\ kind \in Kinds
    /\ state \in [Objects -> {"absent", "bare", "waiting", "ready", "failed"}]
    /\ pc \in Steps
    /\ cur \in Objects
    /\ listed \subseteq Builds /\ todo \subseteq Builds
    /\ elapsed \in 0..Timeout
    /\ open \in BOOLEAN
    /\ call \in {"idle", "asks", "last"}

\* waitForBuild returns nil only when all Builds that it listed are Complete,
\* in whichever order they end.
NilMeansComplete ==
    pc = "nil" /\ kind = "BuildConfig" => \A b \in listed : state[b] = "ready"

\* A wait gives up only at its timeout, and only if the object is not
\* available then, however many ticks were dropped while a call was under way.
GivesUpLate ==
    [][pc' = "timeout" /\ pc # "timeout" =>
           /\ elapsed = Timeout
           /\ state[cur] # "ready" /\ (pc = "availability" => state[cur] = "absent")]_vars

\* Every wait returns.
Returns == <>(pc \in Returned)

\* The inductive strengthening of NilMeansComplete and GivesUpLate.
PollInv ==
    /\ kind = "BuildConfig" /\ pc \in {"full", "nil"} =>
          \A b \in listed \ todo : state[b] = "ready" \/ (pc = "full" /\ b = cur)
    /\ pc \in {"availability", "list", "nil"} => todo = {}
    /\ pc = "full" /\ kind = "BuildConfig" => cur \in Builds
    /\ ~open => elapsed = Timeout
    /\ call = "last" => ~open

=============================================================================
