----------------------------- MODULE AfterCRUD -----------------------------
(***************************************************************************)
(* The waits of afterCRUDhooks for one object: waitForResource (WaitFor)   *)
(* and, when it has returned nil for an object with the annotation         *)
(* wait-for-logs, of whatever kind, waitForDaemonSetLogs (DaemonSetLogs),  *)
(* pass after pass until the logs match.  The waits of those later passes  *)
(* are left out: they begin as this one.  The object has both annotations; *)
(* without the first one it is as an object for which there is no wait.    *)
(***************************************************************************)
EXTENDS WaitFor

CONSTANTS Pods, HasAppLabel, Pattern, Writes, MaxLog, MaxRestarts

ASSUME LogsAssumption ==
    /\ HasAppLabel \in BOOLEAN
    /\ Pattern \in Nat \ {0}
    /\ Writes \subseteq Nat
    /\ MaxLog \in Nat /\ MaxRestarts \in Nat

VARIABLES length, match, logged, result, restarts

logVars == <<length, match, logged, result, restarts>>

Logs == INSTANCE DaemonSetLogs

hookVars == <<vars, logVars>>

HookInit == Init /\ Logs!Init

\* afterCRUDhooks returns at the error of waitForResource.
WaitForLogs == pc = "nil"

HookNext ==
    \/ Next /\ UNCHANGED logVars
    \/ WaitForLogs /\ Logs!Next /\ UNCHANGED vars

\* Time passes, calls return, and an error of afterCRUDhooks requeues the pass.
HookSpec ==
    /\ HookInit /\ [][HookNext]_hookVars
    /\ Fairness
    /\ WF_logVars(WaitForLogs /\ Logs!waitForDaemonSetLogs)

-----------------------------------------------------------------------------
(***************************************************************************)
(* The nodes are labelled after the wait for logs (callbacks.go:68) only   *)
(* if the object was available and one of the pods with its label has      *)
(* logged what the pattern of the manifest asks for.                       *)
(***************************************************************************)
ReadyMeansLogged == result = "nil" => pc = "nil" /\ logged # {}

(***************************************************************************)
(* The inductive strengthening of ReadyMeansLogged: the variables of       *)
(* DaemonSetLogs have their types, and the log of a container has a match  *)
(* only if its pod has written one.                                        *)
(***************************************************************************)
LogsTypeOK == Logs!TypeOK

LogsInv == \A p \in Pods : match[p] # Logs!NoMatch => p \in logged

InTail(p) == match[p] # Logs!NoMatch /\ length[p] > 100 /\ match[p] >= length[p] - 100

(***************************************************************************)
(* A driver whose log is longer than 100 bytes and keeps the pattern in    *)
(* its last 100 (waitfor.go:253) is found, in whatever order the pods are  *)
(* listed.  A log of up to 100 bytes is not: it is cut to nothing.         *)
(***************************************************************************)
EventuallyReady == (<>[](\A p \in Pods : InTail(p))) => <>(result = "nil")

=============================================================================
