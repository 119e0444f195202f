------------------------ MODULE HardwareStatesProofs ------------------------
(***************************************************************************)
(* Proofs about HardwareStates: the pass over the manifests of any recipe  *)
(* is well typed, and that over the manifests of a WellFormed recipe       *)
(* implements Rollout and applies every document.                          *)
(***************************************************************************)
EXTENDS HardwareStates, TLAPS

\* The documents are numbered.
LEMMA LengthIsNat == N \in Nat
BY DocsAssumption DEF N

\* The state of a document is a known one, or none.
LEMMA DocState ==
    ASSUME NEW p \in Positions
    PROVE  Docs[p].state \in StateNames \cup {"none"}
<1>1. Docs[p] \in DocType
  BY DocsAssumption DEF N, Positions
<1>. QED
  BY <1>1 DEF DocType

(***************************************************************************)
(* TypeOK.                                                                 *)
(***************************************************************************)

\* The first document has the number 1, also when there is none.
LEMMA TypeInit == Init => TypeOK
<1>1. Init => updateVendor \in BOOLEAN /\ pending \in BOOLEAN
  BY Zenon DEF Init
<1>. QED
  BY <1>1, LengthIsNat DEF Init, TypeOK, Positions, Steps

\* Every step keeps the types, and the document of the pass in range.
LEMMA TypeStep == TypeOK /\ [Next]_vars => TypeOK'
<1>. SUFFICES ASSUME TypeOK, [Next]_vars
              PROVE  TypeOK'
  OBVIOUS
<1>. USE LengthIsNat DEF TypeOK, Positions, Steps, clusterVars, readyVars, passVars, boundVars
<1>1. CASE Restart
  BY <1>1 DEF Restart, Advance
<1>2. CASE Resync
  BY <1>2 DEF Resync
<1>3. CASE StartPass
  <2>1. updateVendor' \in BOOLEAN /\ pending' \in BOOLEAN
    BY <1>3, Zenon DEF StartPass
  <2>. QED
    BY <1>3, <2>1 DEF StartPass
<1>4. CASE EndPass
  BY <1>4 DEF EndPass, Advance
<1>5. CASE SkipManifest
  BY <1>5 DEF SkipManifest
<1>6. CASE Crud
  BY <1>6 DEF Crud
<1>7. CASE SkipCheck
  BY <1>7 DEF SkipCheck, Advance
<1>8. CASE CheckPods
  BY <1>8 DEF CheckPods, Advance, Requeue
<1>9. CASE NoPods
  BY <1>9 DEF NoPods, Requeue
<1>10. CASE NothingToWaitFor
  BY <1>10 DEF NothingToWaitFor, Advance
<1>11. CASE Available
  BY <1>11 DEF Available, Advance
<1>12. CASE Timeout
  BY <1>12 DEF Timeout, Requeue
<1>13. CASE LogsMatched
  BY <1>13 DEF LogsMatched, Advance
<1>14. CASE LogsNotMatched
  BY <1>14 DEF LogsNotMatched, Requeue
<1>15. CASE NoLabel
  BY <1>15 DEF NoLabel, NextDocument
<1>16. CASE Label
  BY <1>16, DocState DEF Label, NextDocument, Doc
<1>17. CASE Crash
  <2>1. updateVendor' \in BOOLEAN /\ pending' \in BOOLEAN
    BY <1>17, Zenon DEF Crash, Fault
  <2>. QED
    BY <1>17, <2>1 DEF Crash, Fault
<1>18. CASE ApiError
  BY <1>18 DEF ApiError, Requeue, Fault
<1>19. CASE PollError
  <2>1. updateVendor' \in BOOLEAN /\ pending' \in BOOLEAN
    BY <1>19, Zenon DEF PollError, Advance, Fault
  <2>. QED
    BY <1>19, <2>1 DEF PollError, Advance, Fault
<1>20. CASE StatusError
  BY <1>20, DocState DEF StatusError, Fault, Doc
<1>21. ASSUME NEW p \in Positions, BuildStarts(p)
      PROVE  TypeOK'
  BY <1>21 DEF BuildStarts
<1>22. ASSUME NEW p \in Positions, BuildCompletes(p)
      PROVE  TypeOK'
  BY <1>22 DEF BuildCompletes
<1>23. ASSUME NEW p \in Positions, ComesUp(p)
      PROVE  TypeOK'
  BY <1>23 DEF ComesUp, Event
<1>24. ASSUME NEW p \in Positions, Break(p)
      PROVE  TypeOK'
  BY <1>24 DEF Break, Event
<1>25. ASSUME NEW p \in Positions, Delete(p)
      PROVE  TypeOK'
  BY <1>25 DEF Delete, Event
<1>26. CASE UNCHANGED vars
  BY <1>26 DEF vars
<1>. QED
  BY <1>1, <1>2, <1>3, <1>4, <1>5, <1>6, <1>7, <1>8, <1>9, <1>10,
     <1>11, <1>12, <1>13, <1>14, <1>15, <1>16, <1>17, <1>18,
     <1>19, <1>20, <1>21, <1>22, <1>23, <1>24, <1>25, <1>26
  DEF Next, Pass, Failure, Environment

\* Every reachable state is well typed, for any recipe.
THEOREM TypeCorrect == Spec => []TypeOK
BY TypeInit, TypeStep, PTL DEF Spec

(***************************************************************************)
(* The documents the pass has behind it.                                   *)
(***************************************************************************)

\* A BuildConfig that is skipped takes no other document with it.
LEMMA SkipsOne ==
    ASSUME WellFormed, TypeOK, SkipManifest
    PROVE  i' = i + 1 /\ i \in Positions /\ Docs[i].kind = "BuildConfig"
<1>1. i \in Positions /\ Docs[i].kind = "BuildConfig"
  BY LengthIsNat DEF SkipManifest, TypeOK, Positions, Doc
<1>2. PICK q \in i+1 .. N+1 : NextManifest(i, q) /\ i' = q
  BY DEF SkipManifest
<1>3. CASE i = N
  BY <1>1, <1>2, <1>3, LengthIsNat
<1>4. CASE i # N
  <2>1. i + 1 \in i+1 .. N /\ Docs[i+1].file # Docs[i].file
    BY <1>1, <1>4, LengthIsNat DEF WellFormed, Positions
  <2>2. ~(i + 1 \in i+1 .. q-1)
    BY <1>2, <2>1 DEF NextManifest
  <2>. QED
    BY <1>1, <1>2, <2>2, LengthIsNat DEF Positions
<1>. QED
  BY <1>1, <1>3, <1>4

\* There is nothing behind it at first.
LEMMA PassInit == Init => PassInv
BY LengthIsNat DEF Init, PassInv, Positions

\* A pass moves on from what it applied, or may leave out, and from what it
\* validated.
LEMMA PassStep ==
    ASSUME WellFormed
    PROVE  TypeOK /\ PassInv /\ [Next]_vars => PassInv'
<1>. SUFFICES ASSUME TypeOK, PassInv, [Next]_vars
              PROVE  PassInv'
  OBVIOUS
<1>. USE LengthIsNat DEF TypeOK, PassInv, Positions, clusterVars, readyVars, passVars, boundVars
<1>1. CASE Restart
  BY <1>1 DEF Restart, Advance
<1>2. CASE Resync
  BY <1>2 DEF Resync
<1>3. CASE StartPass
  BY <1>3 DEF StartPass
<1>4. CASE EndPass
  BY <1>4 DEF EndPass, Advance
<1>5. CASE SkipManifest
  <2>1. i' = i + 1 /\ i \in Positions /\ Docs[i].kind = "BuildConfig"
    BY <1>5, SkipsOne
  <2>2. pc' = "doc" /\ applied' = applied
    BY <1>5 DEF SkipManifest
  <2>. QED
    BY <2>1, <2>2
<1>6. CASE Crud
  BY <1>6 DEF Crud
<1>7. CASE SkipCheck
  BY <1>7 DEF SkipCheck, Advance
<1>8. CASE CheckPods
  BY <1>8 DEF CheckPods, Advance, Requeue
<1>9. CASE NoPods
  BY <1>9 DEF NoPods, Requeue
<1>10. CASE NothingToWaitFor
  BY <1>10 DEF NothingToWaitFor, Advance, NoBuild, MustValidate, Doc
<1>11. CASE Available
  BY <1>11 DEF Available, Advance
<1>12. CASE Timeout
  BY <1>12 DEF Timeout, Requeue
<1>13. CASE LogsMatched
  BY <1>13 DEF LogsMatched, Advance
<1>14. CASE LogsNotMatched
  BY <1>14 DEF LogsNotMatched, Requeue
<1>15. CASE NoLabel
  BY <1>15 DEF NoLabel, NextDocument
<1>16. CASE Label
  BY <1>16 DEF Label, NextDocument
<1>17. CASE Crash
  BY <1>17 DEF Crash
<1>18. CASE ApiError
  BY <1>18 DEF ApiError, Requeue
<1>19. CASE PollError
  BY <1>19 DEF PollError, Advance
<1>20. CASE StatusError
  BY <1>20 DEF StatusError
<1>21. ASSUME NEW p \in Positions, BuildStarts(p)
      PROVE  PassInv'
  BY <1>21 DEF BuildStarts
<1>22. ASSUME NEW p \in Positions, BuildCompletes(p)
      PROVE  PassInv'
  BY <1>22 DEF BuildCompletes
<1>23. ASSUME NEW p \in Positions, ComesUp(p)
      PROVE  PassInv'
  BY <1>23 DEF ComesUp
<1>24. ASSUME NEW p \in Positions, Break(p)
      PROVE  PassInv'
  BY <1>24 DEF Break
<1>25. ASSUME NEW p \in Positions, Delete(p)
      PROVE  PassInv'
  BY <1>25 DEF Delete
<1>26. CASE UNCHANGED vars
  BY <1>26 DEF vars
<1>. QED
  BY <1>1, <1>2, <1>3, <1>4, <1>5, <1>6, <1>7, <1>8, <1>9, <1>10,
     <1>11, <1>12, <1>13, <1>14, <1>15, <1>16, <1>17, <1>18,
     <1>19, <1>20, <1>21, <1>22, <1>23, <1>24, <1>25, <1>26
  DEF Next, Pass, Failure, Environment

\* A pass over the manifests of a WellFormed recipe that gets to its end has
\* applied every document but the BuildConfigs.
THEOREM EverythingApplied == WellFormed => (Spec => []AllApplied)
<1>. SUFFICES ASSUME WellFormed
              PROVE  Spec => []AllApplied
  OBVIOUS
<1>1. TypeOK /\ PassInv => AllApplied
  BY LengthIsNat DEF TypeOK, PassInv, AllApplied, Positions
<1>2. TypeOK /\ PassInv /\ [Next]_vars => PassInv'
  BY PassStep
<1>. QED
  BY <1>1, <1>2, TypeInit, TypeStep, PassInit, PTL DEF Spec

(***************************************************************************)
(* The refinement.                                                         *)
(***************************************************************************)

\* The stages that are announced as ready.
Ready == {p \in Positions : Docs[p].state \in labels}

\* A state belongs to one document: its label announces no other one.
LEMMA ReadyGrows ==
    ASSUME WellFormed, i \in Positions, Docs[i].state # "none",
           labels' = labels \cup {Docs[i].state}
    PROVE  Ready' = Ready \cup {i}
BY DEF Ready, WellFormed

\* A document with a state is a DaemonSet that is waited for.
LEMMA StatefulIsValidated ==
    ASSUME WellFormed, NEW p \in Positions, Docs[p].state # "none"
    PROVE  p \in MustValidate
BY DocsAssumption DEF WellFormed, MustValidate, HasWait, Positions, N

\* The machine starts in its initial state.
LEMMA RolloutInit == Init => R!Init
BY DEF Init, R!Init

\* Every step of the pass and of the cluster is one of Rollout, or none.
LEMMA RolloutStep ==
    ASSUME WellFormed
    PROVE  TypeOK /\ PassInv /\ [Next]_vars => [R!Next]_(R!vars)
<1>. SUFFICES ASSUME TypeOK, PassInv, [Next]_vars
              PROVE  [R!Next]_(R!vars)
  OBVIOUS
<1>. USE LengthIsNat DEF TypeOK, PassInv, Positions, clusterVars, readyVars, passVars, boundVars
<1>1. CASE Restart
  BY <1>1 DEF Restart, Advance, R!vars
<1>2. CASE Resync
  BY <1>2 DEF Resync, R!vars
<1>3. CASE StartPass
  BY <1>3 DEF StartPass, R!Next, R!StartOver
<1>4. CASE EndPass
  BY <1>4 DEF EndPass, Advance, R!vars
<1>5. CASE SkipManifest
  <2>1. i' = i + 1 /\ i \in Positions /\ Docs[i].kind = "BuildConfig"
    BY <1>5, SkipsOne
  <2>2. i \in Optional /\ i \notin MustValidate
    BY <2>1 DEF Optional, MustValidate
  <2>3. UNCHANGED <<objects, available, applied, proven, labels>>
    BY <1>5 DEF SkipManifest
  <2>. QED
    BY <2>1, <2>2, <2>3 DEF R!Next, R!Advance
<1>6. CASE Crud
  BY <1>6 DEF Crud, R!Next, R!Apply
<1>7. CASE SkipCheck
  BY <1>7 DEF SkipCheck, Advance, R!vars
<1>8. CASE CheckPods
  BY <1>8 DEF CheckPods, Advance, Requeue, R!vars
<1>9. CASE NoPods
  BY <1>9 DEF NoPods, Requeue, R!vars
<1>10. CASE NothingToWaitFor
  BY <1>10 DEF NothingToWaitFor, Advance, R!vars
<1>11. CASE Available
  BY <1>11 DEF Available, Advance, R!Next, R!Prove
<1>12. CASE Timeout
  BY <1>12 DEF Timeout, Requeue, R!vars
<1>13. CASE LogsMatched
  BY <1>13 DEF LogsMatched, Advance, R!vars
<1>14. CASE LogsNotMatched
  BY <1>14 DEF LogsNotMatched, Requeue, R!vars
<1>15. CASE NoLabel
  <2>1. /\ pc = "label" /\ i' = i + 1 /\ i \in Positions
        /\ UNCHANGED <<objects, available, applied, proven>>
    BY <1>15 DEF NoLabel, NextDocument
  <2>2. labels' = labels
    BY <1>15 DEF NoLabel
  <2>. QED
    BY <2>1, <2>2 DEF R!Next, R!Advance
<1>16. CASE Label
  <2>1. /\ pc = "label" /\ i' = i + 1 /\ i \in Positions
        /\ UNCHANGED <<objects, available, applied, proven>>
    BY <1>16 DEF Label, NextDocument
  <2>2. labels' = labels \cup {Docs[i].state} /\ Docs[i].state # "none"
    BY <1>16 DEF Label, Doc
  <2>3. Ready' = Ready \cup {i} /\ i \in MustValidate
    BY <2>1, <2>2, ReadyGrows, StatefulIsValidated
  <2>. QED
    BY <2>1, <2>3 DEF R!Next, R!Advance, Ready
<1>17. CASE Crash
  BY <1>17 DEF Crash, R!vars
<1>18. CASE ApiError
  BY <1>18 DEF ApiError, Requeue, R!vars
<1>19. CASE PollError
  BY <1>19 DEF PollError, Advance, R!vars
<1>20. CASE StatusError
  <2>1. /\ pc = "label" /\ i' = i + 1 /\ i \in Positions
        /\ UNCHANGED <<objects, available, applied, proven>>
    BY <1>20 DEF StatusError
  <2>2. labels' = labels \cup {Docs[i].state} /\ Docs[i].state # "none"
    BY <1>20 DEF StatusError, Doc
  <2>3. Ready' = Ready \cup {i} /\ i \in MustValidate
    BY <2>1, <2>2, ReadyGrows, StatefulIsValidated
  <2>. QED
    BY <2>1, <2>3 DEF R!Next, R!Advance, Ready
<1>21. ASSUME NEW p \in Positions, BuildStarts(p)
      PROVE  [R!Next]_(R!vars)
  BY <1>21 DEF BuildStarts, R!vars
<1>22. ASSUME NEW p \in Positions, BuildCompletes(p)
      PROVE  [R!Next]_(R!vars)
  <2>1. R!Heal(p)
    BY <1>22 DEF BuildCompletes, R!Heal
  <2>. QED
    BY <2>1 DEF R!Next, R!Stages
<1>23. ASSUME NEW p \in Positions, ComesUp(p)
      PROVE  [R!Next]_(R!vars)
  <2>1. R!Heal(p)
    BY <1>23 DEF ComesUp, R!Heal
  <2>. QED
    BY <2>1 DEF R!Next, R!Stages
<1>24. ASSUME NEW p \in Positions, Break(p)
      PROVE  [R!Next]_(R!vars)
  <2>1. R!Break(p)
    BY <1>24 DEF Break, R!Break
  <2>. QED
    BY <2>1 DEF R!Next, R!Stages
<1>25. ASSUME NEW p \in Positions, Delete(p)
      PROVE  [R!Next]_(R!vars)
  <2>1. R!Lose(p)
    BY <1>25 DEF Delete, R!Lose
  <2>. QED
    BY <2>1 DEF R!Next, R!Stages
<1>26. CASE UNCHANGED vars
  BY <1>26 DEF vars, R!vars
<1>. QED
  BY <1>1, <1>2, <1>3, <1>4, <1>5, <1>6, <1>7, <1>8, <1>9, <1>10,
     <1>11, <1>12, <1>13, <1>14, <1>15, <1>16, <1>17, <1>18,
     <1>19, <1>20, <1>21, <1>22, <1>23, <1>24, <1>25, <1>26
  DEF Next, Pass, Failure, Environment

\* The pass over the manifests of a WellFormed recipe implements the state
\* machine with a validation step for each state.
THEOREM ImplementsRollout == WellFormed => (Spec => Validated)
<1>. SUFFICES ASSUME WellFormed
              PROVE  Spec => Validated
  OBVIOUS
<1>1. TypeOK /\ PassInv /\ [Next]_vars => PassInv'
  BY PassStep
<1>2. TypeOK /\ PassInv /\ [Next]_vars => [R!Next]_(R!vars)
  BY RolloutStep
<1>. QED
  BY <1>1, <1>2, TypeInit, TypeStep, PassInit, RolloutInit, PTL DEF Spec, Validated, R!Spec

=============================================================================
