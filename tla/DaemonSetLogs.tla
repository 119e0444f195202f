--------------------------- MODULE DaemonSetLogs ---------------------------
(***************************************************************************)
(* The annotation wait-for-logs: each pass calls waitForDaemonSetLogs,     *)
(* which matches a pattern against the last bytes of the log of one of the *)
(* pods, while the pods write.  A log is its length and the position at    *)
(* which the last match of the pattern starts; lengths are in bytes.       *)
(***************************************************************************)
EXTENDS Integers

CONSTANTS
    Pods,           \* the pods with the label app of the object
    HasAppLabel,    \* whether the object has the label app
    Pattern,        \* the length of what the pattern matches
    Writes,         \* lengths of what else a pod writes
    MaxLog,         \* bound on the length of a log
    MaxRestarts     \* bound on restarts of containers

NoMatch == -1

VARIABLES
    length,     \* of the log of each pod
    match,      \* where the last match starts in it, or NoMatch
    logged,     \* pods that have written what the pattern matches
    result,     \* what the last call returned: "none", "nil" or "error"
    restarts

vars == <<length, match, logged, result, restarts>>

\* The wait for the object has just found it available.
Init ==
    /\ length = [p \in Pods |-> 0]
    /\ match = [p \in Pods |-> NoMatch]
    /\ logged = {}
    /\ result = "none"
    /\ restarts = 0

Write(p, n) ==
    /\ length[p] + n <= MaxLog
    /\ length' = [length EXCEPT ![p] = @ + n]
    /\ UNCHANGED <<match, logged, result, restarts>>

WriteMatch(p) ==
    /\ length[p] + Pattern <= MaxLog
    /\ match' = [match EXCEPT ![p] = length[p]]
    /\ length' = [length EXCEPT ![p] = @ + Pattern]
    /\ logged' = logged \cup {p}
    /\ UNCHANGED <<result, restarts>>

\* The log is the one of the container that runs now.
RestartContainer(p) ==
    /\ restarts < MaxRestarts
    /\ restarts' = restarts + 1
    /\ length' = [length EXCEPT ![p] = 0]
    /\ match' = [match EXCEPT ![p] = NoMatch]
    /\ UNCHANGED <<logged, result>>

\* The pods with the label app of the object; without it, app is "".
Listed == IF HasAppLabel THEN Pods ELSE {}

\* Mutant: the cutoff is the wrong way round.
cutoffSwapped(n) == IF n <= 100 THEN n ELSE 0

cutoff(n) == IF n <= 100 THEN 0 ELSE 100

\* Mutant: nothing to match against counts as a match.
MatchesEmpty(p) ==
    \/ cutoff(length[p]) = 0
    \/ match[p] >= length[p] - cutoff(length[p])

\* The last cutoff bytes contain a match.
Matches(p) ==
    /\ match[p] # NoMatch
    /\ match[p] >= length[p] - cutoff(length[p])

\* The pass labels the nodes on nil, and is repeated on an error.  Only the
\* first pod of the list is looked at.
waitForDaemonSetLogs ==
    /\ result # "nil"
    /\ result' \in IF Listed = {} THEN {"nil"}
                   ELSE {IF Matches(p) THEN "nil" ELSE "error" : p \in Listed}
    /\ UNCHANGED <<length, match, logged, restarts>>

\* The list of pods or the stream of the log fails.
StreamError ==
    /\ result # "nil"
    /\ result' = "error"
    /\ UNCHANGED <<length, match, logged, restarts>>

Next ==
    \/ \E p \in Pods : \/ \E n \in Writes : Write(p, n)
                       \/ WriteMatch(p)
                       \/ RestartContainer(p)
    \/ waitForDaemonSetLogs \/ StreamError

Spec == Init /\ [][Next]_vars

-----------------------------------------------------------------------------
\* Every variable has its type, and a match lies within its log.
TypeOK ==
    /\ length \in [Pods -> 0 .. MaxLog]
    /\ match \in [Pods -> {NoMatch} \cup 0 .. MaxLog - Pattern]
    /\ \A p \in Pods : match[p] = NoMatch \/ match[p] + Pattern <= length[p]
    /\ logged \subseteq Pods
    /\ result \in {"none", "nil", "error"}
    /\ restarts \in 0 .. MaxRestarts

=============================================================================
