--------------------------- MODULE WaitForProofs ---------------------------
(***************************************************************************)
(* Proofs about WaitFor, for any kind, set of Builds and timeout.          *)
(***************************************************************************)
EXTENDS WaitFor, TLAPS

\* A poll starts with an open channel.
LEMMA TypeInit == Init => TypeOK
<1>1. Init => open \in BOOLEAN
  BY Zenon DEF Init
<1>. QED
  BY <1>1, WaitForAssumption DEF Init, TypeOK, Objects, Steps, Returned, HasWait

\* Every step keeps the types; the clock of a poll stops at its timeout.
LEMMA TypeStep == TypeOK /\ [Next]_vars => TypeOK'
<1>. SUFFICES ASSUME TypeOK, [Next]_vars
              PROVE  TypeOK'
  OBVIOUS
<1>. USE WaitForAssumption DEF TypeOK, Objects, Steps, Returned, pollVars
<1>1. CASE Tick
  BY <1>1 DEF Tick
<1>2. CASE Close
  <2>1. open' \in BOOLEAN
    BY <1>2, Zenon DEF Close
  <2>. QED
    BY <1>2, <2>1 DEF Close
<1>3. CASE Receive
  BY <1>3 DEF Receive
<1>4. CASE Exists
  <2>1. open' \in BOOLEAN
    BY <1>4, Zenon DEF Exists, NewPoll
  <2>. QED
    BY <1>4, <2>1 DEF Exists, NewPoll
<1>5. CASE List
  BY <1>5 DEF List
<1>6. CASE Full
  <2>1. open' \in BOOLEAN
    BY <1>6, Zenon DEF Full, NewPoll
  <2>. QED
    BY <1>6, <2>1 DEF Full, NewPoll
<1>7. CASE NotYet
  BY <1>7 DEF NotYet
<1>8. CASE GetError
  BY <1>8 DEF GetError
<1>9. CASE NoStatus
  BY <1>9 DEF NoStatus
<1>10. ASSUME NEW o \in Objects, Change(o)
      PROVE  TypeOK'
  BY <1>10 DEF Change, Becomes
<1>11. CASE UNCHANGED vars
  BY <1>11 DEF vars
<1>. QED
  BY <1>1, <1>2, <1>3, <1>4, <1>5, <1>6, <1>7, <1>8, <1>9, <1>10, <1>11
  DEF Next, Wait

\* Every reachable state is well typed.
THEOREM TypeCorrect == Spec => []TypeOK
BY TypeInit, TypeStep, PTL DEF Spec

\* No Build is listed yet.
LEMMA PollInit == Init => PollInv
BY DEF Init, PollInv

\* A Build that was found complete stays so while the others are polled, and
\* the last call of a poll comes after its timeout.
LEMMA PollStep == TypeOK /\ PollInv /\ [Next]_vars => PollInv'
<1>. SUFFICES ASSUME TypeOK, PollInv, [Next]_vars
              PROVE  PollInv'
  OBVIOUS
<1>. USE WaitForAssumption DEF TypeOK, PollInv, pollVars
<1>1. CASE Tick
  BY <1>1 DEF Tick
<1>2. CASE Close
  BY <1>2 DEF Close
<1>3. CASE Receive
  BY <1>3 DEF Receive, Polling
<1>4. CASE Exists
  BY <1>4 DEF Exists, NewPoll
<1>5. CASE List
  <2>1. CASE listed' = {} /\ pc' = "nil" /\ UNCHANGED <<cur, todo>>
    BY <1>5, <2>1 DEF List
  <2>2. ASSUME NEW b \in listed', pc' = "full", cur' = b, todo' = listed' \ {b}
        PROVE  PollInv'
    BY <1>5, <2>2 DEF List
  <2>. QED
    BY <1>5, <2>1, <2>2 DEF List
<1>6. CASE Full
  BY <1>6 DEF Full, NewPoll
<1>7. CASE NotYet
  BY <1>7 DEF NotYet
<1>8. CASE GetError
  BY <1>8 DEF GetError
<1>9. CASE NoStatus
  BY <1>9 DEF NoStatus
<1>10. ASSUME NEW o \in Objects, Change(o)
      PROVE  PollInv'
  <2>1. \A b \in Builds : state[b] = "ready" /\ kind # "DaemonSet" => state'[b] = "ready"
    BY <1>10 DEF Change, Becomes, Objects
  <2>2. UNCHANGED <<kind, pc, cur, listed, todo, pollVars>>
    BY <1>10 DEF Change, Becomes
  <2>. QED
    BY <2>1, <2>2
<1>11. CASE UNCHANGED vars
  BY <1>11 DEF vars
<1>. QED
  BY <1>1, <1>2, <1>3, <1>4, <1>5, <1>6, <1>7, <1>8, <1>9, <1>10, <1>11
  DEF Next, Wait

\* waitForBuild returns nil only when all Builds it listed are complete.
THEOREM NilIsComplete == Spec => []NilMeansComplete
<1>1. PollInv => NilMeansComplete
  BY DEF PollInv, NilMeansComplete
<1>. QED
  BY <1>1, TypeInit, TypeStep, PollInit, PollStep, PTL DEF Spec

\* A wait gives up only at its timeout, and only if the object is not
\* available then.
THEOREM TimeoutIsLate == Spec => GivesUpLate
<1>. DEFINE A == pc' = "timeout" /\ pc # "timeout" =>
                     /\ elapsed = Timeout
                     /\ state[cur] # "ready"
                     /\ pc = "availability" => state[cur] = "absent"
<1>1. TypeOK /\ PollInv /\ [Next]_vars => [A]_vars
  <2>. SUFFICES ASSUME TypeOK, PollInv, Next, pc' = "timeout", pc # "timeout"
                PROVE  A
    OBVIOUS
  <2>1. NotYet /\ call = "last"
    BY DEF Next, Wait, Tick, Close, Receive, Exists, List, Full, NotYet, NoStatus,
           GetError, Change, Becomes
  <2>. QED
    BY <2>1 DEF NotYet, PollInv
<1>. QED
  BY <1>1, TypeInit, TypeStep, PollInit, PollStep, PTL DEF Spec, GivesUpLate

=============================================================================
