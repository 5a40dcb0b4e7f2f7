--------------------- MODULE StabilizedSensitivityProofs ---------------------
(***************************************************************************)
(* Proofs about StabilizedSensitivity: type correctness, the windows of the *)
(* march, and the refinement of WindowMarch, for every number of files,     *)
(* steps and evaluations.                                                   *)
(***************************************************************************)
EXTENDS StabilizedSensitivity, FiniteSetTheorems, TLAPS

-----------------------------------------------------------------------------
(* Type correctness. *)

Means == [levels : SUBSET Nat, span : Nat, even : BOOLEAN]

\* A mean stays a mean when a level is added to it.
LEMMA MeanType ==
  ASSUME NEW m \in Means, NEW k \in Nat, NEW n \in Nat
  PROVE  AddToMean(m, k, n) \in Means
<1>1. (IF n = 1 THEN {k} ELSE m.levels \cup {k}) \in SUBSET Nat
  BY DEF Means
<1>2. (n = 1 \/ (m.even /\ m.span = n - 1)) \in BOOLEAN
  OBVIOUS
<1> QED  BY <1>1, <1>2 DEF AddToMean, Means

\* No window is measured backwards: the window starts no later than it ends,
\* and a solve in progress, one of those the driver still makes, has advanced
\* the clock and the index alike.
Ahead ==
  /\ index1 >= index0 /\ time >= t0
  /\ pc \in {"iterate", "judge"} => calls < NSteps
  /\ pc \in {"iterate", "judge"} => index1 > index0
  /\ pc \in {"iterate", "judge"} => time - t0 = index1 - index0

\* With an ordered window every step keeps the types.
LEMMA TypeStep ==
  ASSUME TypeOK, Ahead, [Next]_vars
  PROVE  TypeOK'
<1> USE DriverAssumption DEF TypeOK
<1>1. CASE BeginSolve
  <2>1. mavg' \in Means
    BY <1>1 DEF BeginSolve, StepsLeft, NoMean, Means
  <2> QED  BY <1>1, <2>1 DEF BeginSolve, StepsLeft, WindowStart, ClearedIntegral, Means
<1>2. CASE MissingFile
  BY <1>2 DEF MissingFile, indices, matrices, output
<1>3. CASE Assemble
  <2> USE <1>3 DEF Assemble
  <2>1. mavg' \in Means
    <3>1. time - t0 \in Nat
      BY DEF Ahead
    <3> QED  BY <3>1, MeanType DEF Means
  <2>2. X(index1) \in Vec /\ dsol1' \in Vec
    BY DEF Propagated, Vec, X, DX, ZeroVec, MixedVec
  <2> QED  BY <2>1, <2>2 DEF indices, output, Means
<1>4. CASE Accept
  <2>1. calls' \in 0 .. NSteps
    BY <1>4 DEF Accept, Ahead
  <2> QED  BY <2>1, <1>4 DEF Accept, indices, matrices, output
<1>5. CASE Reject
  <2>1. calls' \in 0 .. NSteps
    BY <1>5 DEF Reject, Ahead
  <2>2. ZeroVec \in Vec
    BY DEF Vec
  <2> QED  BY <2>1, <2>2, <1>5 DEF Reject, indices, matrices, output
<1>6. CASE Widen
  BY <1>6 DEF Widen, matrices, output
<1>7. CASE EvaluateQ
  <2>1. X(index1) \in Vec
    BY DEF Vec, X
  <2>2. time' \in Nat
    BY <1>7 DEF EvaluateQ
  <2>3. qspan' \in Nat
    BY <1>7 DEF EvaluateQ, Ahead
  <2> QED  BY <1>7, <2>1, <2>2, <2>3 DEF EvaluateQ, indices, matrices
<1>8. CASE UNCHANGED vars
  BY <1>8 DEF vars
<1> QED  BY <1>1, <1>2, <1>3, <1>4, <1>5, <1>6, <1>7, <1>8 DEF Next, Iterate

LEMMA AheadStep ==
  ASSUME TypeOK, Ahead, [Next]_vars
  PROVE  Ahead'
<1> USE DriverAssumption DEF TypeOK, Ahead
<1>1. CASE BeginSolve
  BY <1>1 DEF BeginSolve, StepsLeft, WindowStart
<1>2. CASE MissingFile
  BY <1>2 DEF MissingFile, indices
<1>3. CASE Assemble
  BY <1>3 DEF Assemble, indices
<1>4. CASE Accept
  BY <1>4 DEF Accept, indices
<1>5. CASE Reject
  BY <1>5 DEF Reject, indices
<1>6. CASE Widen
  BY <1>6 DEF Widen
<1>7. CASE EvaluateQ
  BY <1>7 DEF EvaluateQ, indices
<1>8. CASE UNCHANGED vars
  BY <1>8 DEF vars
<1> QED  BY <1>1, <1>2, <1>3, <1>4, <1>5, <1>6, <1>7, <1>8 DEF Next, Iterate

LEMMA TypeInit == Init => TypeOK /\ Ahead
<1> SUFFICES ASSUME Init PROVE TypeOK /\ Ahead
  OBVIOUS
<1> USE DriverAssumption DEF Init
<1>1. ZeroVec \in Vec /\ DX(0) \in Vec /\ X(LastFile + 1) \in Vec
  BY DEF Vec, DX, X
<1>2. NoMean \in [levels : SUBSET Nat, span : Nat, even : BOOLEAN]
  BY DEF NoMean
<1>3. locSol \in Vec /\ sysSol \in {ZeroVec, X(LastFile + 1)}
  BY <1>1
<1>4. TypeOK
  <2>1. /\ calls \in 0 .. NSteps /\ evaluations \in 0 .. MaxEvaluations
        /\ index0 \in Nat /\ index1 \in Nat /\ t0 \in Nat /\ time \in Nat
        /\ qspan \in Nat
    OBVIOUS
  <2>2. mavg \in [levels : SUBSET Nat, span : Nat, even : BOOLEAN]
    BY <1>2
  <2>3. dsol0 \in Vec /\ dsol1 \in Vec
    BY <1>1
  <2> QED  BY <1>3, <2>1, <2>2, <2>3 DEF TypeOK
<1>5. Ahead
  BY DEF Ahead
<1> QED  BY <1>4, <1>5

LEMMA TypeInvariant == Spec => [](TypeOK /\ Ahead)
<1>1. (TypeOK /\ Ahead) /\ [Next]_vars => (TypeOK /\ Ahead)'
  BY TypeStep, AheadStep
<1> QED  BY TypeInit, <1>1, PTL DEF Spec

\* Every variable of the march keeps its type.
THEOREM TypeCorrect == Spec => []TypeOK
BY TypeInvariant, PTL

-----------------------------------------------------------------------------
(* The windows. *)

\* The first n levels after the start of the window, and a mean over them.
Covered(n) == index0 + 1 .. index0 + n
MeanOver(n) == [levels |-> Covered(n), span |-> n, even |-> TRUE]

\* The matrices of a solve cover the passes it has made, whether or not a window
\* was thrown out before.
Passes ==
  /\ pc = "iterate" =>
       /\ jint = Covered(index1 - index0 - 1)
       /\ mavg = MeanOver(index1 - index0 - 1)
  /\ pc = "judge" =>
       /\ jint = Covered(index1 - index0)
       /\ mavg = MeanOver(index1 - index0)

\* Adding the next level to a window extends what it covers by one level.
LEMMA CoveredNext ==
  ASSUME NEW i \in Nat, NEW n \in Nat
  PROVE  (i + 1 .. i + n) \cup {i + n + 1} = i + 1 .. i + (n + 1)
OBVIOUS

\* A pass adds the level of the window's end to the matrices.
LEMMA AssemblePasses ==
  ASSUME TypeOK, Ahead, Passes, Assemble
  PROVE  /\ jint' = Covered(index1 - index0)
         /\ mavg' = MeanOver(index1 - index0)
<1> DEFINE n == index1 - index0 - 1
<1>1. n \in Nat /\ index0 + n + 1 = index1 /\ n + 1 = index1 - index0
  BY DEF Assemble, Ahead, TypeOK
<1>2. jint = Covered(n) /\ mavg = MeanOver(n)
  BY DEF Assemble, Passes
<1>3. Covered(n) \cup {index1} = Covered(n + 1)
  BY <1>1, CoveredNext DEF Covered, TypeOK
<1>4. jint' = Covered(index1 - index0)
  BY <1>1, <1>2, <1>3 DEF Assemble
<1>5. time - t0 = n + 1
  BY <1>1 DEF Assemble, Ahead
<1>6. AddToMean(MeanOver(n), index1, n + 1) = MeanOver(n + 1)
  <2>1. n + 1 = 1 => Covered(n + 1) = {index1}
    BY <1>1 DEF Covered, TypeOK
  <2>2. (n + 1) - 1 = n
    BY <1>1
  <2> QED  BY <1>3, <2>1, <2>2 DEF AddToMean, MeanOver
<1>7. mavg' = MeanOver(index1 - index0)
  BY <1>1, <1>2, <1>5, <1>6 DEF Assemble
<1> QED  BY <1>4, <1>7

LEMMA PassesStep ==
  ASSUME TypeOK, Ahead, Passes, [Next]_vars
  PROVE  Passes'
<1> USE DEF Passes
<1>1. CASE BeginSolve
  <2> USE <1>1 DEF BeginSolve, StepsLeft, TypeOK
  <2>1. Covered(0)' = {}
    BY DEF Covered
  <2>2. index1' - index0' - 1 = 0
    OBVIOUS
  <2>3. jint' = {} /\ mavg' = MeanOver(0)'
    BY <2>1, Zenon DEF ClearedIntegral, NoMean, MeanOver
  <2> QED  BY <2>1, <2>2, <2>3
<1>2. CASE MissingFile
  BY <1>2 DEF MissingFile
<1>3. CASE Assemble
  <2>1. jint' = Covered(index1 - index0) /\ mavg' = MeanOver(index1 - index0)
    BY <1>3, AssemblePasses
  <2> QED  BY <1>3, <2>1 DEF Assemble, indices, Covered, MeanOver
<1>4. CASE Accept
  BY <1>4 DEF Accept
<1>5. CASE Reject
  BY <1>5 DEF Reject
<1>6. CASE Widen
  <2> USE <1>6 DEF Widen, matrices
  <2>1. index1' - index0' - 1 = index1 - index0
    BY DEF TypeOK
  <2> QED  BY <2>1 DEF Covered, MeanOver
<1>7. CASE EvaluateQ
  BY <1>7 DEF EvaluateQ
<1>8. CASE UNCHANGED vars
  BY <1>8 DEF vars, Covered, MeanOver
<1> QED  BY <1>1, <1>2, <1>3, <1>4, <1>5, <1>6, <1>7, <1>8 DEF Next, Iterate

LEMMA PassesInvariant == Spec => []Passes
<1>1. Init => Passes
  BY DEF Init, Passes
<1>2. TypeOK /\ Ahead /\ Passes /\ [Next]_vars => Passes'
  BY PassesStep
<1> QED  BY TypeInvariant, <1>1, <1>2, PTL DEF Spec

\* The clock of a window counts the levels its matrices cover, for every
\* sequence of windows, discarded ones and output evaluations.
THEOREM WindowsMeasured == Spec => []WindowMeasured
<1>1. TypeOK /\ Ahead /\ Passes => WindowMeasured
  <2> SUFFICES ASSUME TypeOK, Ahead, Passes, pc = "judge"
      PROVE  time - t0 = Cardinality(jint)
    BY DEF WindowMeasured
  <2>1. jint = index0 + 1 .. index0 + (index1 - index0)
    BY DEF Passes, Covered
  <2>2. index0 + 1 \in Int /\ index0 + (index1 - index0) \in Int
    BY DEF TypeOK
  <2>3. Cardinality(jint) =
          IF index0 + 1 > index0 + (index1 - index0) THEN 0
          ELSE (index0 + (index1 - index0)) - (index0 + 1) + 1
    BY <2>1, <2>2, FS_Interval
  <2> QED  BY <2>3 DEF Ahead, TypeOK
<1> QED  BY TypeInvariant, PassesInvariant, <1>1, PTL

\* Between the end of a solve and the first evaluation after it the clock is at
\* the end of the window.
Evaluated ==
  /\ pc \in {"iterate", "judge"} => evaluations = 0
  /\ pc = "idle" /\ calls > 0 /\ evaluations = 0 => time - t0 = index1 - index0
  /\ evaluations = 1 => qspan = index1 - index0

LEMMA EvaluatedStep ==
  ASSUME TypeOK, Ahead, Evaluated, [Next]_vars
  PROVE  Evaluated'
<1> USE DEF TypeOK, Ahead, Evaluated
<1>1. CASE BeginSolve
  BY <1>1 DEF BeginSolve
<1>2. CASE MissingFile
  BY <1>2 DEF MissingFile, indices, output
<1>3. CASE Assemble
  BY <1>3 DEF Assemble, indices, output
<1>4. CASE Accept
  BY <1>4 DEF Accept, indices, output
<1>5. CASE Reject
  BY <1>5 DEF Reject, indices, output
<1>6. CASE Widen
  BY <1>6 DEF Widen, output
<1>7. CASE EvaluateQ
  BY <1>7 DEF EvaluateQ, indices
<1>8. CASE UNCHANGED vars
  BY <1>8 DEF vars
<1> QED  BY <1>1, <1>2, <1>3, <1>4, <1>5, <1>6, <1>7, <1>8 DEF Next, Iterate

\* However often outputs were evaluated before a solve, the first evaluation
\* after it spans its window.
THEOREM EvaluatedOverWindow == Spec => []FirstEvaluationOverWindow
<1>1. Init => Evaluated
  BY DriverAssumption DEF Init, Evaluated
<1>2. TypeOK /\ Ahead /\ Evaluated /\ [Next]_vars => Evaluated'
  BY EvaluatedStep
<1>3. Evaluated => FirstEvaluationOverWindow
  BY DEF Evaluated, FirstEvaluationOverWindow
<1> QED  BY TypeInvariant, <1>1, <1>2, <1>3, PTL DEF Spec

\* What holds while no window has been thrown out: the solve starts from the
\* sensitivity of its window's first level, and the linear solve has the
\* sensitivity of the window's end.
Windows ==
  ~discarded =>
    /\ pc = "idle" => dsol0 = DX(index1) /\ dsol1 = DX(index1)
    /\ pc \in {"iterate", "judge"} => dsol0 = DX(index0)
    /\ pc = "judge" => dsol1 = DX(index1)

LEMMA WindowsStep ==
  ASSUME TypeOK, Ahead, Passes, Windows, [Next]_vars
  PROVE  Windows'
<1> USE DEF Windows
<1>1. CASE BeginSolve
  BY <1>1 DEF BeginSolve, DX
<1>2. CASE MissingFile
  BY <1>2 DEF MissingFile, indices
<1>3. CASE Assemble
  <2> SUFFICES ASSUME ~discarded
      PROVE  dsol0 = DX(index0) /\ dsol1' = DX(index1)
    BY <1>3 DEF Assemble, indices, DX
  <2>1. dsol0 = DX(index0)
    BY <1>3 DEF Assemble
  <2>2. jint' = Covered(index1 - index0) /\ mavg' = MeanOver(index1 - index0)
    BY <1>3, AssemblePasses
  <2>3. Covered(index1 - index0) = Window
    BY <1>3 DEF Assemble, Ahead, Covered, Window, TypeOK
  <2>4. dsol1' = DX(index1)
    BY <1>3, <2>1, <2>2, <2>3 DEF Assemble, Propagated, MeanOver
  <2> QED  BY <2>1, <2>4
<1>4. CASE Accept
  BY <1>4 DEF Accept, indices
<1>5. CASE Reject
  BY <1>5 DEF Reject
<1>6. CASE Widen
  BY <1>6 DEF Widen
<1>7. CASE EvaluateQ
  BY <1>7 DEF EvaluateQ, indices
<1>8. CASE UNCHANGED vars
  BY <1>8 DEF vars
<1> QED  BY <1>1, <1>2, <1>3, <1>4, <1>5, <1>6, <1>7, <1>8 DEF Next, Iterate

LEMMA WindowsInvariant == Spec => []Windows
<1>1. Init => Windows
  BY DEF Init, Windows
<1>2. TypeOK /\ Ahead /\ Passes /\ Windows /\ [Next]_vars => Windows'
  BY WindowsStep
<1> QED  BY TypeInvariant, PassesInvariant, <1>1, <1>2, PTL DEF Spec

\* A solve that accepts its window leaves the sensitivity of the window's end
\* in both slots, whatever windows and evaluations came before.
THEOREM WindowsCorrect == Spec => []AcceptedBelongsToWindow
<1>1. Windows => AcceptedBelongsToWindow
  BY DEF Windows, AcceptedBelongsToWindow
<1> QED  BY WindowsInvariant, <1>1, PTL

-----------------------------------------------------------------------------
(* Refinement. *)

\* A window is thrown out past max_index only, and then only a file beyond the
\* last one would let the march go on; a window's end was read from a file.
Stops ==
  /\ discarded => pc # "judge" /\ index1 >= LastFile
  /\ discarded /\ pc = "iterate" => index1 > LastFile
  /\ pc = "judge" => index1 <= LastFile

LEMMA StopsStep ==
  ASSUME LastFile <= MaxIndex + 1, TypeOK, Stops, [Next]_vars
  PROVE  Stops'
<1> USE DriverAssumption, MaxIndexAssumption DEF TypeOK, Stops
<1>1. CASE BeginSolve
  BY <1>1 DEF BeginSolve, StepsLeft
<1>2. CASE MissingFile
  BY <1>2 DEF MissingFile, indices
<1>3. CASE Assemble
  BY <1>3 DEF Assemble, indices
<1>4. CASE Accept
  BY <1>4 DEF Accept, indices
<1>5. CASE Reject
  BY <1>5 DEF Reject, indices
<1>6. CASE Widen
  BY <1>6 DEF Widen
<1>7. CASE EvaluateQ
  BY <1>7 DEF EvaluateQ, indices
<1>8. CASE UNCHANGED vars
  BY <1>8 DEF vars
<1> QED  BY <1>1, <1>2, <1>3, <1>4, <1>5, <1>6, <1>7, <1>8 DEF Next, Iterate

\* Every step of the solver is a step of the march or leaves it unchanged.
LEMMA MarchStep ==
  ASSUME TypeOK, Ahead, Windows, Stops, [Next]_vars
  PROVE  [March!Next]_(March!mvars)
<1> USE DEF March!mvars
<1>1. CASE BeginSolve
  BY <1>1 DEF BeginSolve, StepsLeft
<1>2. CASE MissingFile
  <2>1. CASE discarded
    BY <1>2, <2>1 DEF MissingFile
  <2>2. CASE ~discarded
    BY <1>2, <2>2 DEF MissingFile, March!Next, March!End
  <2> QED  BY <2>1, <2>2
<1>3. CASE Assemble
  BY <1>3 DEF Assemble
<1>4. CASE Accept
  <2>1. ~discarded /\ pc = "judge"
    BY <1>4 DEF Accept, Stops
  <2>2. dsol0[2] = index0 /\ dsol0'[2] = index1
    BY <1>4, <2>1 DEF Accept, Windows, DX
  <2>3. index1 \in index0 + 1 .. LastFile
    BY <2>1, DriverAssumption DEF Ahead, Stops, TypeOK
  <2> QED  BY <1>4, <2>1, <2>2, <2>3 DEF Accept, March!Next, March!Advance
<1>5. CASE Reject
  <2>1. ~discarded
    BY <1>5 DEF Reject, Stops
  <2> QED  BY <1>5, <2>1 DEF Reject, March!Next, March!End
<1>6. CASE Widen
  BY <1>6 DEF Widen
<1>7. CASE EvaluateQ
  BY <1>7 DEF EvaluateQ
<1>8. CASE UNCHANGED vars
  BY <1>8 DEF vars
<1> QED  BY <1>1, <1>2, <1>3, <1>4, <1>5, <1>6, <1>7, <1>8 DEF Next, Iterate

\* With no solution file beyond the one the last widening may ask for, the
\* solver implements the march: a discarded window ends it for good.
THEOREM MarchImplemented ==
  ASSUME LastFile <= MaxIndex + 1
  PROVE  Spec => ImplementsMarch
<1>1. Init => March!Init
  BY DEF Init, March!Init, DX
<1>2. Init => Stops
  BY DriverAssumption DEF Init, Stops
<1>3. TypeOK /\ Stops /\ [Next]_vars => Stops'
  BY StopsStep
<1>4. TypeOK /\ Ahead /\ Windows /\ Stops /\ [Next]_vars
        => [March!Next]_(March!mvars)
  BY MarchStep
<1> QED
  BY <1>1, <1>2, <1>3, <1>4, TypeInvariant, WindowsInvariant, PTL
     DEF Spec, ImplementsMarch, March!Spec
=============================================================================
