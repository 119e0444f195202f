-------------------------- MODULE AfterCRUDProofs --------------------------
(***************************************************************************)
(* Proofs about the waits of afterCRUDhooks taken together: the wait for   *)
(* the resource keeps what WaitForProofs shows of it alone, and the wait   *)
(* for the logs of an object with the label app succeeds only after one of *)
(* its pods has logged what was asked for.                                 *)
(***************************************************************************)
EXTENDS AfterCRUD, WaitForProofs

(***************************************************************************)
(* The component WaitFor in the composition.                               *)
(***************************************************************************)

\* A step of the composition is a step of waitForResource or leaves it alone.
LEMMA WaitStep == [HookNext]_hookVars => [Next]_vars
BY DEF HookNext, hookVars

\* afterCRUDhooks uses waitForResource as it is: every behaviour of the
\* composition is one of WaitFor.
THEOREM ImplementsWaitFor == HookSpec => Spec
<1>1. HookInit => Init
  BY DEF HookInit
<1>. QED
  BY <1>1, WaitStep, PTL DEF HookSpec, Spec

\* waitForBuild returns nil only when all Builds it listed are complete, also
\* when the wait for logs follows.
THEOREM NilIsCompleteInHooks == HookSpec => []NilMeansComplete
BY ImplementsWaitFor, NilIsComplete

\* A wait gives up only at its timeout, also when the wait for logs follows.
THEOREM TimeoutIsLateInHooks == HookSpec => GivesUpLate
BY ImplementsWaitFor, TimeoutIsLate

(***************************************************************************)
(* Types.                                                                  *)
(***************************************************************************)

\* The logs are empty when the wait for the object has returned.
LEMMA LogsTypeInit == Logs!Init => LogsTypeOK
BY LogsAssumption DEF Logs!Init, LogsTypeOK, Logs!TypeOK, Logs!NoMatch

\* What a pod writes comes after what it wrote before, and a container that is
\* started again has an empty log, so that a match stays within its log.
LEMMA LogsTypeStep == LogsTypeOK /\ [Logs!Next]_logVars => LogsTypeOK'
<1>. SUFFICES ASSUME LogsTypeOK, [Logs!Next]_logVars
              PROVE  LogsTypeOK'
  OBVIOUS
<1>. USE LogsAssumption DEF LogsTypeOK, Logs!TypeOK, Logs!NoMatch
<1>1. ASSUME NEW p \in Pods, NEW n \in Writes, Logs!Write(p, n)
      PROVE  LogsTypeOK'
  BY <1>1 DEF Logs!Write
<1>2. ASSUME NEW p \in Pods, Logs!WriteMatch(p)
      PROVE  LogsTypeOK'
  BY <1>2 DEF Logs!WriteMatch
<1>3. ASSUME NEW p \in Pods, Logs!RestartContainer(p)
      PROVE  LogsTypeOK'
  BY <1>3 DEF Logs!RestartContainer
<1>4. CASE Logs!waitForDaemonSetLogs
  BY <1>4 DEF Logs!waitForDaemonSetLogs
<1>5. CASE Logs!StreamError
  BY <1>5 DEF Logs!StreamError
<1>6. CASE UNCHANGED logVars
  BY <1>6 DEF logVars
<1>. QED
  BY <1>1, <1>2, <1>3, <1>4, <1>5, <1>6 DEF Logs!Next

\* A step of the composition is a step of the wait for logs or leaves it alone.
LEMMA LogsStep == [HookNext]_hookVars => [Logs!Next]_logVars
BY DEF HookNext, hookVars

(***************************************************************************)
(* ReadyMeansLogged.                                                       *)
(***************************************************************************)

\* A pod with a match in its log has logged it, also when its container was
\* started again.
LEMMA LoggedStep == LogsTypeOK /\ LogsInv /\ [Logs!Next]_logVars => LogsInv'
<1>. SUFFICES ASSUME LogsTypeOK, LogsInv, [Logs!Next]_logVars
              PROVE  LogsInv'
  OBVIOUS
<1>. USE DEF LogsInv, LogsTypeOK, Logs!TypeOK, Logs!NoMatch
<1>1. ASSUME NEW p \in Pods, NEW n \in Writes, Logs!Write(p, n)
      PROVE  LogsInv'
  BY <1>1 DEF Logs!Write
<1>2. ASSUME NEW p \in Pods, Logs!WriteMatch(p)
      PROVE  LogsInv'
  BY <1>2 DEF Logs!WriteMatch
<1>3. ASSUME NEW p \in Pods, Logs!RestartContainer(p)
      PROVE  LogsInv'
  BY <1>3 DEF Logs!RestartContainer
<1>4. CASE Logs!waitForDaemonSetLogs
  BY <1>4 DEF Logs!waitForDaemonSetLogs
<1>5. CASE Logs!StreamError
  BY <1>5 DEF Logs!StreamError
<1>6. CASE UNCHANGED logVars
  BY <1>6 DEF logVars
<1>. QED
  BY <1>1, <1>2, <1>3, <1>4, <1>5, <1>6 DEF Logs!Next

\* waitForResource does nothing any more when it has returned nil.
LEMMA NilIsFinal == pc = "nil" /\ [Next]_vars => pc' = "nil"
BY DEF Next, Wait, Tick, Close, Receive, Exists, List, Full, NotYet, NoStatus,
       GetError, Change, Becomes, Polling, vars

\* A step that makes the wait for logs succeed finds the match of a pod.
LEMMA NilNeedsMatch ==
    ASSUME HasAppLabel, Pods # {}, LogsTypeOK, LogsInv, Logs!Next,
           result' = "nil", result # "nil"
    PROVE  logged' # {}
<1>1. Logs!waitForDaemonSetLogs
  BY DEF Logs!Next, Logs!Write, Logs!WriteMatch, Logs!RestartContainer, Logs!StreamError
<1>2. PICK p \in Pods : Logs!Matches(p)
  BY <1>1 DEF Logs!waitForDaemonSetLogs, Logs!Listed
<1>. QED
  BY <1>1, <1>2 DEF Logs!waitForDaemonSetLogs, Logs!Matches, LogsInv

\* The pods that have logged a match are only ever more.
LEMMA LoggedGrows == [Logs!Next]_logVars => logged \subseteq logged'
BY DEF Logs!Next, Logs!Write, Logs!WriteMatch, Logs!RestartContainer,
       Logs!waitForDaemonSetLogs, Logs!StreamError, logVars

\* The wait for the logs of an object with the label app (and with a pod)
\* succeeds only after the object was available and one of its pods has
\* logged what the pattern asks for (callbacks.go:68).
THEOREM ReadyIsLogged ==
    ASSUME HasAppLabel, Pods # {}
    PROVE  HookSpec => []ReadyMeansLogged
<1>1. HookInit => LogsTypeOK /\ LogsInv /\ ReadyMeansLogged
  BY LogsTypeInit DEF HookInit, Logs!Init, LogsInv, ReadyMeansLogged
<1>2. LogsTypeOK /\ LogsInv /\ ReadyMeansLogged /\ [HookNext]_hookVars => ReadyMeansLogged'
  <2>. SUFFICES ASSUME LogsTypeOK, LogsInv, ReadyMeansLogged, [HookNext]_hookVars,
                       result' = "nil"
                PROVE  pc' = "nil" /\ logged' # {}
    BY DEF ReadyMeansLogged
  <2>1. CASE result = "nil"
    BY <2>1, WaitStep, LogsStep, NilIsFinal, LoggedGrows DEF ReadyMeansLogged
  <2>2. CASE result # "nil"
    <3>1. WaitForLogs /\ Logs!Next /\ UNCHANGED vars
      BY <2>2 DEF HookNext, hookVars, logVars
    <3>2. pc' = "nil"
      BY <3>1 DEF WaitForLogs, vars
    <3>. QED
      BY <2>2, <3>1, <3>2, NilNeedsMatch
  <2>. QED
    BY <2>1, <2>2
<1>. QED
  BY <1>1, <1>2, LogsStep, LogsTypeStep, LoggedStep, PTL DEF HookSpec

=============================================================================
