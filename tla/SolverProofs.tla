------------------------------ MODULE SolverProofs ------------------------------
(***************************************************************************)
(* Proofs about the two solvers that march.                                *)
(*                                                                         *)
(* First, TransientSolver, for every order, number of stored levels,       *)
(* number of steps and set of drivers.                                     *)
(*                                                                         *)
(* Then, ContinuationSolver, for every iteration limit and every choice of *)
(* step sizes. Restarts that are started in exactly the same state and the *)
(* range of the arc length follow from one invariant.                      *)
(***************************************************************************)
EXTENDS TransientSolver, ContinuationSolver, FiniteSetTheorems, TLAPS

-----------------------------------------------------------------------------
(* TransientSolver: the slots of the histories. *)

\* Vectors of the model are vectors.
LEMMA VecFacts ==
  /\ ZeroVec \in Vec /\ MixedVec \in Vec
  /\ \A n \in Nat : X(n) \in Vec /\ DX(n) \in Vec
BY DEF Vec, ZeroVec, MixedVec, X, DX

\* Slot 1 exists, and velocity and acceleration have a slot 0 besides.
LEMMA SlotFacts ==
  /\ 1 \in Older /\ 0 \in Stored /\ 1 \in Stored
  /\ Older \subseteq Stored /\ 0 \notin Older
BY NStoreAssumption DEF Older, Stored

\* A rate is one of the vectors it is computed from, or the mixed one.
LEMMA RateType ==
  ASSUME NEW v \in Vec, NEW prev
  PROVE  NewmarkRate(v, prev) \in Vec
BY VecFacts DEF NewmarkRate

\* So is the solution of a step.
LEMMA SolutionType ==
  ASSUME NEW f \in {"x", "dx"}, NEW t \in Int, NEW prev
  PROVE  SolutionAt(f, t, prev) \in Vec
BY VecFacts DEF SolutionAt, Vec

\* The shift keeps the slots of a history.
LEMMA ShiftType ==
  ASSUME NEW D \in {Older, Stored}, NEW h \in [D -> Vec], NEW c \in Vec
  PROVE  ShiftHistory(h, c) \in [D -> Vec]
BY NStoreAssumption DEF ShiftHistory, Older, Stored

\* Writing slot 0 keeps them too, and does not touch the older slots.
LEMMA WriteType ==
  ASSUME NEW h \in [Stored -> Vec], NEW c \in Vec
  PROVE  /\ [h EXCEPT ![0] = c] \in [Stored -> Vec]
         /\ \A i \in Older : [h EXCEPT ![0] = c][i] = h[i]
BY SlotFacts DEF Older, Stored

\* One shift makes a history of the last levels up to k one of the last levels
\* up to k + 1.
LEMMA ShiftHolds ==
  ASSUME NEW D \in {Older, Stored}, NEW h \in [D -> Vec],
         NEW f, NEW k \in Int, k >= -1, HoldsLast(h, f, k)
  PROVE  HoldsLast(ShiftHistory(h, <<f, k + 1>>), f, k + 1)
<1> DEFINE g == ShiftHistory(h, <<f, k + 1>>)
<1> SUFFICES ASSUME NEW i \in Older
             PROVE  g[i] = IF i <= (k + 1) + 1 THEN <<f, (k + 1) + 1 - i>>
                                               ELSE ZeroVec
  BY Zenon DEF HoldsLast
<1>1. i \in D /\ i \in Int /\ i >= 1
  BY SlotFacts, NStoreAssumption DEF Older
<1>2. CASE i = 1
  BY <1>1, <1>2 DEF ShiftHistory
<1>3. CASE i > 1
  <2>1. i - 1 \in Older
    BY <1>1, <1>3, NStoreAssumption DEF Older
  <2>2. g[i] = h[i - 1]
    BY <1>1, <1>3 DEF ShiftHistory
  <2>3. h[i - 1] = IF i - 1 <= k + 1 THEN <<f, k + 1 - (i - 1)>> ELSE ZeroVec
    BY <2>1 DEF HoldsLast
  <2>4. QED BY <1>1, <2>2, <2>3
<1>4. QED BY <1>1, <1>2, <1>3

\* The same with slot 0 written first, the way velocities are shifted.
LEMMA ShiftWrittenHolds ==
  ASSUME NEW h \in [Stored -> Vec], NEW f \in {"x", "dx"},
         NEW k \in Int, k >= -1, HoldsLast(h, f, k)
  PROVE  HoldsLast(ShiftHistory([h EXCEPT ![0] = <<f, k + 1>>], <<f, k + 1>>),
                   f, k + 1)
<1>1. <<f, k + 1>> \in Vec
  BY DEF Vec
<1> DEFINE w == [h EXCEPT ![0] = <<f, k + 1>>]
<1>2. w \in [Stored -> Vec] /\ \A i \in Older : w[i] = h[i]
  BY <1>1, WriteType
<1>3. HoldsLast(w, f, k)
  BY <1>2 DEF HoldsLast
<1>4. QED BY <1>2, <1>3, ShiftHolds

-----------------------------------------------------------------------------
(* Type correctness. *)

\* Between the head of the driver's loop and the advance of its step there is
\* a step left to take.
StepInLoop ==
  stage \in {"read", "psolved", "solved", "padvanced"} => step < nSteps

LEMMA InitStep == Init => StepInLoop
BY DEF Init, StepInLoop

LEMMA NextStep ==
  ASSUME TypeOK, StepInLoop, [Next]_vars
  PROVE  StepInLoop'
<1> USE DEF TypeOK, StepInLoop, driver
<1>1. CASE UNCHANGED vars
  BY <1>1 DEF vars
<1>2. CASE Next
  <2>1. CASE Solve
    BY <2>1 DEF Solve
  <2>2. CASE ReadInVector
    BY <2>2 DEF ReadInVector
  <2>3. CASE SensitivitySolve
    BY <2>3 DEF SensitivitySolve
  <2>4. CASE AdvanceTimeStep
    BY <2>4 DEF AdvanceTimeStep
  <2>5. stage' \notin {"read", "psolved", "solved", "padvanced"}
        \/ Solve \/ ReadInVector \/ SensitivitySolve \/ AdvanceTimeStep
    BY <1>2 DEF Next, SetElemOperationObject, ClearElemOperationObject,
                InitializeSolution, SolveHighestDerivativeAndAdvanceTimeStep,
                SolveHighestDerivativeAndAdvanceTimeStepWithSensitivity,
                AdvanceTimeStepWithSensitivity, StartProgram
  <2>6. QED BY <2>1, <2>2, <2>3, <2>4, <2>5
<1>3. QED BY <1>1, <1>2

LEMMA InitType == Init => TypeOK
BY VecFacts, StepsAssumption
   DEF Init, TypeOK, AllMarches, Stages, Older, Stored, Vec, ZeroVec, NoFile

LEMMA NextType ==
  ASSUME TypeOK, StepInLoop, [Next]_vars
  PROVE  TypeOK'
<1> USE DEF TypeOK
<1>1. ASSUME NEW m \in Marches, NEW fresh \in BOOLEAN,
             SetElemOperationObject(m, fresh)
      PROVE  TypeOK'
  BY <1>1, VecFacts, MarchAssumption, StepsAssumption
     DEF SetElemOperationObject, AllMarches, Stages
<1>2. CASE ClearElemOperationObject
  BY <1>2, VecFacts DEF ClearElemOperationObject, AllMarches, Stages
<1>3. CASE InitializeSolution
  <2>1. [vel EXCEPT ![0] = X(0)] \in [Stored -> Vec]
    BY VecFacts, WriteType
  <2>2. [dsol EXCEPT ![1] = DX(0)] \in [Older -> Vec]
    BY VecFacts
  <2>3. [dvel EXCEPT ![1] = DX(0)] \in [Stored -> Vec]
    BY VecFacts
  <2>4. QED
    BY <1>3, <2>1, <2>2, <2>3, VecFacts
       DEF InitializeSolution, Stages, StartTime, driver
<1>4. CASE SolveHighestDerivativeAndAdvanceTimeStep
  <2> DEFINE rate == IF Order = 1 \/ vel[0] = locSol THEN locSol ELSE MixedVec
             v    == IF Order = 1 THEN rate ELSE vel[0]
  <2>1. rate \in Vec /\ v \in Vec
    BY VecFacts, SlotFacts
  <2>2. /\ ShiftHistory([vel EXCEPT ![0] = v], v) \in [Stored -> Vec]
        /\ ShiftHistory([acc EXCEPT ![0] = rate], rate) \in [Stored -> Vec]
    BY <2>1, WriteType, ShiftType
  <2>3. ShiftHistory(sol, sysSol) \in [Older -> Vec]
    BY ShiftType
  <2>4. vel' \in [Stored -> Vec] /\ acc' \in [Stored -> Vec]
    BY <1>4, <2>2 DEF SolveHighestDerivativeAndAdvanceTimeStep
  <2>5. sol' \in [Older -> Vec]
    BY <1>4, <2>3 DEF SolveHighestDerivativeAndAdvanceTimeStep
  <2>6. time' \in Nat
    BY <1>4 DEF SolveHighestDerivativeAndAdvanceTimeStep, Stages, driver,
                sensitivity
  <2>7. firstStep' \in BOOLEAN /\ stage' \in Stages /\ locSol' \in Vec
    BY <1>4 DEF SolveHighestDerivativeAndAdvanceTimeStep, Stages, driver,
                sensitivity
  <2>8. UNCHANGED <<march, nSteps, step, began, firstSens, sysSol, dsol0, dsol,
                       dvel, saved>>
    BY <1>4 DEF SolveHighestDerivativeAndAdvanceTimeStep, Stages, driver,
                sensitivity
  <2>9. QED
    BY <2>4, <2>5, <2>6, <2>7, <2>8
<1>5. CASE SolveHighestDerivativeAndAdvanceTimeStepWithSensitivity
  <2> DEFINE rate == IF PreviousSensitivity = {ZeroVec} THEN dsol0 ELSE MixedVec
  <2>1. ShiftHistory([dvel EXCEPT ![0] = rate], rate) \in [Stored -> Vec]
    BY VecFacts, WriteType, ShiftType
  <2>2. ShiftHistory(dsol, dsol0) \in [Older -> Vec]
    BY ShiftType
  <2>4. dvel' \in [Stored -> Vec] /\ dsol' \in [Older -> Vec]
    BY <1>5, <2>1, <2>2
       DEF SolveHighestDerivativeAndAdvanceTimeStepWithSensitivity
  <2>5. time' \in Nat
    BY <1>5 DEF SolveHighestDerivativeAndAdvanceTimeStepWithSensitivity,
                Stages, driver, primary
  <2>6. firstSens' \in BOOLEAN /\ stage' \in Stages
    BY <1>5 DEF SolveHighestDerivativeAndAdvanceTimeStepWithSensitivity,
                Stages, driver, primary
  <2>7. UNCHANGED <<march, nSteps, step, began, firstStep, sysSol, locSol,
                       sol, vel, acc, dsol0, saved>>
    BY <1>5 DEF SolveHighestDerivativeAndAdvanceTimeStepWithSensitivity,
                Stages, driver, primary
  <2>8. QED
    BY <2>4, <2>5, <2>6, <2>7
<1>6. CASE Solve
  <2> DEFINE v == SolutionAt("x", Elapsed, PreviousPrimary)
  <2>1. v \in Vec
    BY SolutionType DEF Elapsed
  <2>2. PICK rate \in {NewmarkRate(v, PreviousPrimary), MixedVec} :
          /\ vel' = [vel EXCEPT ![0] = rate]
          /\ acc' = IF Order = 1 THEN acc ELSE [acc EXCEPT ![0] = rate]
    BY <1>6, Zenon DEF Solve
  <2>3. rate \in Vec
    BY <2>1, <2>2, RateType, VecFacts
  <2>4. sysSol' \in Vec /\ locSol' \in Vec
    BY <1>6, <2>1 DEF Solve
  <2>5. vel' \in [Stored -> Vec] /\ acc' \in [Stored -> Vec]
    BY <2>2, <2>3, WriteType
  <2>6. QED
    BY <1>6, <2>4, <2>5 DEF Solve, WriteSolution, Stages, driver, sensitivity
<1>7. CASE ReadInVector
  <2>1. step \in 0 .. MaxSteps /\ saved[step] \in Vec
    BY <1>7 DEF ReadInVector, FileExists
  <2>2. QED
    BY <1>7, <2>1 DEF ReadInVector, Stages, driver, sensitivity
<1>8. CASE SensitivitySolve
  <2> DEFINE rate == NewmarkRate(sysSol, PreviousPrimary)
  <2>1. rate \in Vec
    BY RateType
  <2>2. [vel EXCEPT ![0] = rate] \in [Stored -> Vec]
    BY <2>1, WriteType
  <2>3. SolutionAt("dx", Elapsed, PreviousSensitivity) \in Vec
    BY SolutionType DEF Elapsed
  <2>4. QED
    BY <1>8, <2>1, <2>2, <2>3
       DEF SensitivitySolve, ConvergedRate, Stages, driver
<1>9. CASE AdvanceTimeStep
  <2> DEFINE rate == NewmarkRate(sysSol, PreviousPrimary)
  <2>1. rate \in Vec
    BY RateType
  <2>2. /\ ShiftHistory([vel EXCEPT ![0] = rate], rate) \in [Stored -> Vec]
        /\ ShiftHistory([acc EXCEPT ![0] = rate], rate) \in [Stored -> Vec]
    BY <2>1, WriteType, ShiftType
  <2>3. ShiftHistory(sol, sysSol) \in [Older -> Vec]
    BY ShiftType
  <2>4. vel' \in [Stored -> Vec] /\ acc' \in [Stored -> Vec]
    BY <1>9, <2>2 DEF AdvanceTimeStep, ConvergedRate
  <2>5. sol' \in [Older -> Vec]
    BY <1>9, <2>3 DEF AdvanceTimeStep
  <2>6. time' \in Nat /\ step' \in 0 .. MaxSteps
    BY <1>9, StepsAssumption
       DEF AdvanceTimeStep, Stages, driver, sensitivity, StepInLoop
  <2>7. firstStep' \in BOOLEAN /\ stage' \in Stages /\ locSol' \in Vec
    BY <1>9
       DEF AdvanceTimeStep, Stages, driver, sensitivity
  <2>8. UNCHANGED <<march, nSteps, began, firstSens, sysSol, dsol0, dsol,
                       dvel, saved>>
    BY <1>9, StepsAssumption
       DEF AdvanceTimeStep, Stages, driver, sensitivity, StepInLoop
  <2>9. QED
    BY <2>4, <2>5, <2>6, <2>7, <2>8
<1>10. CASE AdvanceTimeStepWithSensitivity
  <2> DEFINE rate == NewmarkRate(dsol0, PreviousSensitivity)
  <2>1. rate \in Vec
    BY RateType
  <2>2. ShiftHistory([dvel EXCEPT ![0] = rate], rate) \in [Stored -> Vec]
    BY <2>1, WriteType, ShiftType
  <2>3. ShiftHistory(dsol, dsol0) \in [Older -> Vec]
    BY ShiftType
  <2>4. dvel' \in [Stored -> Vec] /\ dsol' \in [Older -> Vec]
    BY <1>10, <2>2, <2>3 DEF AdvanceTimeStepWithSensitivity
  <2>5. time' \in Nat /\ step' \in 0 .. MaxSteps
    BY <1>10, StepsAssumption
       DEF AdvanceTimeStepWithSensitivity, Stages, driver, primary, StepInLoop
  <2>6. firstSens' \in BOOLEAN /\ stage' \in Stages
    BY <1>10
       DEF AdvanceTimeStepWithSensitivity, Stages, driver, primary
  <2>7. UNCHANGED <<march, nSteps, began, firstStep, sysSol, locSol, sol, vel,
                       acc, dsol0, saved>>
    BY <1>10, StepsAssumption
       DEF AdvanceTimeStepWithSensitivity, Stages, driver, primary, StepInLoop
  <2>8. QED
    BY <2>4, <2>5, <2>6, <2>7
<1>11. CASE StartProgram
  <2>1. UNCHANGED saved /\ nSteps' \in 0 .. MaxSteps
    BY <1>11 DEF StartProgram
  <2>2. /\ step' \in 0 .. MaxSteps /\ time' \in Nat /\ began' \in Nat
        /\ march' \in AllMarches \cup {"none"} /\ stage' \in Stages
        /\ firstStep' \in BOOLEAN /\ firstSens' \in BOOLEAN
    BY <1>11, StepsAssumption DEF StartProgram, Stages
  <2>3. sysSol' \in Vec /\ locSol' \in Vec /\ dsol0' \in Vec
    BY <1>11, VecFacts DEF StartProgram
  <2>4. sol' \in [Older -> Vec] /\ vel' \in [Stored -> Vec]
        /\ acc' \in [Stored -> Vec]
    BY <1>11, VecFacts DEF StartProgram
  <2>5. dsol' \in [Older -> Vec] /\ dvel' \in [Stored -> Vec]
    BY <1>11, VecFacts DEF StartProgram
  <2>6. QED
    BY <2>1, <2>2, <2>3, <2>4, <2>5
<1>12. CASE UNCHANGED vars
  BY <1>12 DEF vars
<1>13. QED
  BY <1>1, <1>2, <1>3, <1>4, <1>5, <1>6, <1>7, <1>8, <1>9, <1>10, <1>11, <1>12,
     MarchAssumption DEF Next

\* Every reachable state is well typed: no march ever reads a file that is not
\* there or a slot the solver did not add.
THEOREM TypeCorrect == Spec => []TypeOK
<1>1. Init => TypeOK /\ StepInLoop
  BY InitType, InitStep
<1>2. TypeOK /\ StepInLoop /\ [Next]_vars => TypeOK' /\ StepInLoop'
  BY NextType, NextStep
<1>3. QED
  BY <1>1, <1>2, PTL DEF Spec

-----------------------------------------------------------------------------
(* The primary march keeps its histories aligned. *)

\* The three histories of the primary quantities hold the levels up to k.
PrimaryHolds(k) ==
  /\ HoldsLast(sol, "x", k)
  /\ HoldsLast(vel, "x", k)
  /\ Order = 2 => HoldsLast(acc, "x", k)

\* Before the first solve, and between a solve and the advance that follows it.
PrimaryInv ==
  /\ march = "primary" =>
       stage \in {"attached", "initial", "ready", "solved"}
  /\ stage = "attached" => step = 0 /\ PrimaryHolds(-1)
  /\ (stage = "initial" /\ march = "primary") =>
       /\ step = 0 /\ time = began
       /\ sysSol = X(0) /\ locSol = X(0)
       /\ Order = 2 => vel[0] = X(0)
       /\ PrimaryHolds(-1)
  /\ (stage = "solved" /\ march = "primary") =>
       /\ time = began + step + 1
       /\ sysSol = X(step + 1)
       /\ PrimaryHolds(step)

\* What the Newmark formulas read of aligned histories.
LEMMA PreviousIsLast ==
  ASSUME NEW k \in Nat, PrimaryHolds(k)
  PROVE  PreviousPrimary = {X(k)}
<1>1. 1 <= k + 1 /\ k + 1 - 1 = k
  OBVIOUS
<1>2. \A h, f : HoldsLast(h, f, k) => h[1] = <<f, k>>
  BY <1>1, SlotFacts DEF HoldsLast
<1>3. sol[1] = X(k) /\ vel[1] = X(k) /\ (Order = 2 => acc[1] = X(k))
  BY <1>2, Zenon DEF PrimaryHolds, X
<1>4. CASE Order = 1
  BY <1>3, <1>4, Zenon DEF PreviousPrimary
<1>5. CASE Order = 2
  <2>1. 2 # 1
    OBVIOUS
  <2>2. QED
    BY <1>3, <1>5, <2>1 DEF PreviousPrimary
<1>6. QED
  BY <1>4, <1>5, OrderAssumption

\* On data of one level they give the next one.
LEMMA NextLevel ==
  ASSUME NEW k \in Nat
  PROVE  /\ SolutionAt("x", k + 1, {X(k)}) = X(k + 1)
         /\ NewmarkRate(X(k + 1), {X(k)}) = X(k + 1)
         /\ SolutionAt("dx", k + 1, {DX(k)}) = DX(k + 1)
         /\ NewmarkRate(DX(k + 1), {DX(k)}) = DX(k + 1)
<1>1. k + 1 > 0 /\ (k + 1) - 1 = k
  OBVIOUS
<1>2. /\ X(k + 1)[1] = "x"  /\ X(k + 1)[2] = k + 1
      /\ DX(k + 1)[1] = "dx" /\ DX(k + 1)[2] = k + 1
  BY DEF X, DX
<1>3. QED
  BY <1>1, <1>2 DEF SolutionAt, NewmarkRate, X, DX

\* Shifting in level k + 1 with slot 0 written, as every advance does.
LEMMA AdvancePrimary ==
  ASSUME TypeOK, NEW k \in Int, k >= -1, PrimaryHolds(k),
         sol' = ShiftHistory(sol, X(k + 1)),
         vel' = ShiftHistory([vel EXCEPT ![0] = X(k + 1)], X(k + 1)),
         Order = 2 =>
           acc' = ShiftHistory([acc EXCEPT ![0] = X(k + 1)], X(k + 1))
  PROVE  PrimaryHolds(k + 1)'
<1>1. HoldsLast(ShiftHistory(sol, X(k + 1)), "x", k + 1)
  BY ShiftHolds DEF TypeOK, PrimaryHolds, X
<1>2. HoldsLast(ShiftHistory([vel EXCEPT ![0] = X(k + 1)], X(k + 1)),
                "x", k + 1)
  BY ShiftWrittenHolds DEF TypeOK, PrimaryHolds, X
<1>3. Order = 2 =>
        HoldsLast(ShiftHistory([acc EXCEPT ![0] = X(k + 1)], X(k + 1)),
                  "x", k + 1)
  BY ShiftWrittenHolds DEF TypeOK, PrimaryHolds, X
<1>4. QED
  BY <1>1, <1>2, <1>3 DEF PrimaryHolds, HoldsLast

LEMMA InitPrimary == Init => PrimaryInv /\ PrimaryHistoryAligned
BY DEF Init, PrimaryInv, PrimaryHistoryAligned

\* One step per action; only the actions of the primary march can disturb the
\* invariant, the others end in another march or another stage.
LEMMA StepPrimary ==
  ASSUME TypeOK, PrimaryInv, PrimaryHistoryAligned, [Next]_vars
  PROVE  PrimaryInv' /\ PrimaryHistoryAligned'
<1> DEFINE Zeroed(h, D) == h = [i \in D |-> ZeroVec]
<1>1. ASSUME NEW m \in Marches, NEW fresh \in BOOLEAN,
             SetElemOperationObject(m, fresh)
      PROVE  PrimaryInv' /\ PrimaryHistoryAligned'
  <2>1. stage' = "attached" /\ step' = 0
    BY <1>1 DEF SetElemOperationObject
  <2>2. /\ sol' = [i \in Older |-> ZeroVec]
        /\ vel' = [i \in Stored |-> ZeroVec]
        /\ acc' = [i \in Stored |-> ZeroVec]
    BY <1>1 DEF SetElemOperationObject
  <2>3. \A i \in Older : ~(i <= -1 + 1)
    BY NStoreAssumption DEF Older
  <2>4. PrimaryHolds(-1)'
    BY <2>2, <2>3, SlotFacts DEF PrimaryHolds, HoldsLast
  <2>5. QED
    BY <2>1, <2>4 DEF PrimaryInv, PrimaryHistoryAligned
<1>2. CASE ClearElemOperationObject
  BY <1>2 DEF ClearElemOperationObject, PrimaryInv, PrimaryHistoryAligned
<1>3. CASE InitializeSolution
  <2>1. /\ stage = "attached" /\ stage' = "initial" /\ march' = march
        /\ step' = 0 /\ time' = began' /\ sysSol' = X(0)
        /\ march = "primary" => locSol' = X(0)
    BY <1>3 DEF InitializeSolution, driver, PrimaryInv
  <2>2. /\ sol' = sol /\ acc' = acc
        /\ vel' = IF Order = 2 THEN [vel EXCEPT ![0] = X(0)] ELSE vel
    BY <1>3 DEF InitializeSolution
  <2>3. /\ \A i \in Older : vel'[i] = vel[i]
        /\ Order = 2 => vel'[0] = X(0)
    BY <2>2, SlotFacts DEF TypeOK
  <2>4. PrimaryHolds(-1)
    BY <2>1 DEF PrimaryInv
  <2>5. PrimaryHolds(-1)'
    BY <2>2, <2>3, <2>4 DEF PrimaryHolds, HoldsLast
  <2>6. QED
    BY <2>1, <2>3, <2>5 DEF PrimaryInv, PrimaryHistoryAligned
<1>4. CASE SolveHighestDerivativeAndAdvanceTimeStep
  <2>1. /\ stage = "initial" /\ stage' = "ready" /\ march' = march
        /\ step' = step /\ time' = time + 1 /\ began' = began
        /\ sysSol' = sysSol /\ locSol' = sysSol
        /\ sol' = ShiftHistory(sol, sysSol)
    BY <1>4 DEF SolveHighestDerivativeAndAdvanceTimeStep, driver
  <2>2. ASSUME march = "primary" PROVE PrimaryHistoryAligned'
    <3>1. /\ step = 0 /\ time = began /\ sysSol = X(0) /\ locSol = X(0)
          /\ Order = 2 => vel[0] = X(0)
          /\ PrimaryHolds(-1)
      BY <2>1, <2>2 DEF PrimaryInv
    <3>2. /\ vel' = ShiftHistory([vel EXCEPT ![0] = X(0)], X(0))
          /\ Order = 2 => acc' = ShiftHistory([acc EXCEPT ![0] = X(0)], X(0))
      <4>1. CASE Order = 1
        BY <1>4, <3>1, <4>1 DEF SolveHighestDerivativeAndAdvanceTimeStep
      <4>2. CASE Order = 2
        <5>1. Order # 1 /\ vel[0] = locSol /\ locSol = X(0)
          BY <3>1, <4>2
        <5>2. QED
          BY <1>4, <5>1 DEF SolveHighestDerivativeAndAdvanceTimeStep
      <4>3. QED
        BY <4>1, <4>2, OrderAssumption
    <3>3. -1 + 1 = 0 /\ -1 \in Int
      OBVIOUS
    <3>4. PrimaryHolds(-1 + 1)'
      BY <2>1, <3>1, <3>2, <3>3, AdvancePrimary
    <3>5. began + 0 = began
      BY DEF TypeOK
    <3>6. QED
      BY <2>1, <3>1, <3>3, <3>4, <3>5 DEF PrimaryHistoryAligned, PrimaryHolds
  <2>3. QED
    BY <2>1, <2>2 DEF PrimaryInv, PrimaryHistoryAligned
<1>5. CASE SolveHighestDerivativeAndAdvanceTimeStepWithSensitivity
  BY <1>5 DEF SolveHighestDerivativeAndAdvanceTimeStepWithSensitivity, driver,
              PrimaryInv, PrimaryHistoryAligned
<1>6. CASE Solve
  <2>1. /\ stage = "ready" /\ march' = march /\ step' = step /\ time' = time
        /\ began' = began /\ sol' = sol
    BY <1>6 DEF Solve, driver
  <2>2. CASE march = "primary"
    <3>1. /\ stage' = "solved"
          /\ sysSol' = SolutionAt("x", Elapsed, PreviousPrimary)
      BY <1>6, <2>2 DEF Solve
    <3>2. /\ time = began + step + 1 /\ Elapsed = step + 1
          /\ PrimaryHolds(step) /\ step \in Nat
      BY <2>1, <2>2 DEF PrimaryHistoryAligned, PrimaryHolds, TypeOK, Elapsed
    <3>3. sysSol' = X(step + 1)
      BY <3>1, <3>2, PreviousIsLast, NextLevel
    <3>4. \A i \in Older : vel'[i] = vel[i] /\ acc'[i] = acc[i]
      BY <1>6, SlotFacts DEF Solve, TypeOK
    <3>5. PrimaryHolds(step)'
      BY <2>1, <3>2, <3>4 DEF PrimaryHolds, HoldsLast
    <3>6. QED
      BY <2>1, <2>2, <3>1, <3>2, <3>3, <3>5
         DEF PrimaryInv, PrimaryHistoryAligned
  <2>3. CASE march # "primary"
    BY <1>6, <2>1, <2>3 DEF Solve, PrimaryInv, PrimaryHistoryAligned
  <2>4. QED BY <2>2, <2>3
<1>7. CASE ReadInVector
  BY <1>7 DEF ReadInVector, driver, PrimaryInv, PrimaryHistoryAligned
<1>8. CASE SensitivitySolve
  BY <1>8 DEF SensitivitySolve, driver, PrimaryInv, PrimaryHistoryAligned
<1>9. CASE AdvanceTimeStep
  <2>1. /\ stage = "solved" /\ march' = march /\ time' = time + 1
        /\ began' = began /\ sysSol' = sysSol /\ locSol' = sysSol
        /\ sol' = ShiftHistory(sol, sysSol)
    BY <1>9 DEF AdvanceTimeStep, driver
  <2>2. CASE march = "primary"
    <3>1. stage' = "ready" /\ step' = step + 1
      BY <1>9, <2>2 DEF AdvanceTimeStep
    <3>2. /\ time = began + step + 1 /\ sysSol = X(step + 1)
          /\ PrimaryHolds(step) /\ step \in Nat /\ began \in Nat
      BY <2>1, <2>2 DEF PrimaryInv, TypeOK
    <3>3. NewmarkRate(sysSol, PreviousPrimary) = X(step + 1)
      BY <3>2, PreviousIsLast, NextLevel
    <3>4. /\ vel' = ShiftHistory([vel EXCEPT ![0] = X(step + 1)], X(step + 1))
          /\ Order = 2 => acc' = ShiftHistory([acc EXCEPT ![0] = X(step + 1)],
                                              X(step + 1))
      BY <1>9, <3>3 DEF AdvanceTimeStep, ConvergedRate
    <3>5. PICK k \in Nat : k = step
      BY <3>2
    <3>6. k \in Int /\ k >= -1
      BY <3>5
    <3>7. PrimaryHolds(k + 1)'
      BY <2>1, <3>2, <3>4, <3>5, <3>6, AdvancePrimary
    <3>8. PrimaryHolds(step)'
      BY <3>1, <3>5, <3>7
    <3>9. QED
      BY <2>1, <2>2, <3>1, <3>2, <3>8
         DEF PrimaryInv, PrimaryHistoryAligned, PrimaryHolds
  <2>3. CASE march # "primary"
    BY <1>9, <2>1, <2>3 DEF AdvanceTimeStep, PrimaryInv, PrimaryHistoryAligned
  <2>4. QED BY <2>2, <2>3
<1>10. CASE AdvanceTimeStepWithSensitivity
  BY <1>10 DEF AdvanceTimeStepWithSensitivity, driver, PrimaryInv,
               PrimaryHistoryAligned
<1>11. CASE StartProgram
  BY <1>11 DEF StartProgram, PrimaryInv, PrimaryHistoryAligned
<1>12. CASE UNCHANGED vars
  BY <1>12 DEF vars, PrimaryInv, PrimaryHistoryAligned, PrimaryHolds, HoldsLast
<1>13. QED
  BY <1>1, <1>2, <1>3, <1>4, <1>5, <1>6, <1>7, <1>8, <1>9, <1>10, <1>11, <1>12,
     MarchAssumption DEF Next

\* The time-marching promise of the integrators, for every order, number of
\* stored levels and number of steps: whenever a primary march is about to
\* solve a step, solution(i), velocity(i) and acceleration(i) are level
\* step + 1 - i, and system.time is step + 1 steps after the march began.
THEOREM PrimaryMarchAligned == Spec => []PrimaryHistoryAligned
<1>1. Init => PrimaryInv /\ PrimaryHistoryAligned
  BY InitPrimary
<1>2. TypeOK /\ PrimaryInv /\ PrimaryHistoryAligned /\ [Next]_vars
        => PrimaryInv' /\ PrimaryHistoryAligned'
  BY StepPrimary
<1>3. QED
  BY <1>1, <1>2, TypeCorrect, PTL DEF Spec

-----------------------------------------------------------------------------
(* Solution files. *)

\* A step writes a file only from the top of the primary driver's loop, where
\* system.solution is the level of the loop counter.
LEMMA StepFiles ==
  ASSUME TypeOK, PrimaryHistoryAligned, FilesHoldTheirLevel, [Next]_vars
  PROVE  FilesHoldTheirLevel'
<1>1. CASE Solve
  <2>1. /\ stage = "ready"
        /\ saved' = IF march = "primary" THEN [saved EXCEPT ![step] = sysSol]
                                         ELSE saved
    BY <1>1 DEF Solve, WriteSolution
  <2>2. march = "primary" => sysSol = X(step)
    BY <2>1 DEF PrimaryHistoryAligned
  <2>3. QED
    BY <2>1, <2>2 DEF FilesHoldTheirLevel, TypeOK
<1>2. CASE ~Solve
  <2>1. saved' = saved
    BY <1>2 DEF Next, vars, SetElemOperationObject, ClearElemOperationObject,
         InitializeSolution, SolveHighestDerivativeAndAdvanceTimeStep,
         SolveHighestDerivativeAndAdvanceTimeStepWithSensitivity, ReadInVector,
         SensitivitySolve, AdvanceTimeStep, AdvanceTimeStepWithSensitivity,
         StartProgram
  <2>2. QED
    BY <2>1 DEF FilesHoldTheirLevel
<1>3. QED
  BY <1>1, <1>2

\* File k holds the solution of level k, whatever marches run, and in whatever
\* order, before and after it is written.
THEOREM FilesCorrect == Spec => []FilesHoldTheirLevel
<1>1. Init => FilesHoldTheirLevel
  BY DEF Init, FilesHoldTheirLevel
<1>2. TypeOK /\ PrimaryHistoryAligned /\ FilesHoldTheirLevel /\ [Next]_vars
        => FilesHoldTheirLevel'
  BY StepFiles
<1>3. QED
  BY <1>1, <1>2, TypeCorrect, PrimaryMarchAligned, PTL DEF Spec

-----------------------------------------------------------------------------
(* The sensitivity march keeps its histories aligned. *)

SensitivityHolds(k) ==
  HoldsLast(dsol, "dx", k) /\ HoldsLast(dvel, "dx", k)

SensitivityInv ==
  /\ march = "sensitivity" =>
       stage \in {"attached", "initial", "ready", "read", "solved"}
  /\ stage = "attached" => step = 0 /\ SensitivityHolds(-1)
  /\ (stage = "initial" /\ march = "sensitivity") =>
       step = 0 /\ time = 0 /\ dsol0 = DX(0) /\ SensitivityHolds(-1)
  /\ (stage \in {"initial", "ready", "read"} /\ march = "sensitivity") =>
       began = 0
  /\ (stage = "read" /\ march = "sensitivity") =>
       time = step + 1 /\ SensitivityHolds(step)
  /\ (stage = "solved" /\ march = "sensitivity") =>
       began = 0 /\ time = step + 1 /\ dsol0 = DX(step + 1) /\ SensitivityHolds(step)

LEMMA PreviousSensitivityIsLast ==
  /\ \A k \in Nat : SensitivityHolds(k) => PreviousSensitivity = {DX(k)}
  /\ SensitivityHolds(-1) => PreviousSensitivity = {ZeroVec}
<1>1. ASSUME NEW k \in Nat, SensitivityHolds(k)
      PROVE  PreviousSensitivity = {DX(k)}
  <2>1. 1 <= k + 1 /\ k + 1 - 1 = k
    OBVIOUS
  <2>2. dsol[1] = <<"dx", k>> /\ dvel[1] = <<"dx", k>>
    BY <1>1, <2>1, SlotFacts DEF SensitivityHolds, HoldsLast
  <2>3. QED
    BY <2>2 DEF PreviousSensitivity, DX
<1>2. ASSUME SensitivityHolds(-1) PROVE PreviousSensitivity = {ZeroVec}
  <2>1. ~(1 <= -1 + 1)
    OBVIOUS
  <2>2. dsol[1] = ZeroVec /\ dvel[1] = ZeroVec
    BY <1>2, <2>1, SlotFacts DEF SensitivityHolds, HoldsLast
  <2>3. QED
    BY <2>2 DEF PreviousSensitivity
<1>3. QED
  BY <1>1, <1>2

LEMMA AdvanceSensitivity ==
  ASSUME TypeOK, NEW k \in Int, k >= -1, SensitivityHolds(k),
         dsol' = ShiftHistory(dsol, DX(k + 1)),
         dvel' = ShiftHistory([dvel EXCEPT ![0] = DX(k + 1)], DX(k + 1))
  PROVE  SensitivityHolds(k + 1)'
<1>1. HoldsLast(ShiftHistory(dsol, DX(k + 1)), "dx", k + 1)
  BY ShiftHolds DEF TypeOK, SensitivityHolds, DX
<1>2. HoldsLast(ShiftHistory([dvel EXCEPT ![0] = DX(k + 1)], DX(k + 1)),
                "dx", k + 1)
  BY ShiftWrittenHolds DEF TypeOK, SensitivityHolds, DX
<1>3. QED
  BY <1>1, <1>2 DEF SensitivityHolds, HoldsLast

LEMMA StepSensitivity ==
  ASSUME TypeOK, SensitivityInv, SensitivityHistoryAligned, [Next]_vars
  PROVE  SensitivityInv' /\ SensitivityHistoryAligned'
<1> USE DEF SensitivityInv, SensitivityHistoryAligned
<1>1. ASSUME NEW m \in Marches, NEW fresh \in BOOLEAN,
             SetElemOperationObject(m, fresh)
      PROVE  SensitivityInv' /\ SensitivityHistoryAligned'
  <2>1. stage' = "attached" /\ step' = 0
    BY <1>1 DEF SetElemOperationObject
  <2>2. /\ dsol' = [i \in Older |-> ZeroVec]
        /\ dvel' = [i \in Stored |-> ZeroVec]
    BY <1>1 DEF SetElemOperationObject
  <2>3. \A i \in Older : ~(i <= -1 + 1)
    BY NStoreAssumption DEF Older
  <2>4. SensitivityHolds(-1)'
    BY <2>2, <2>3, SlotFacts DEF SensitivityHolds, HoldsLast
  <2>5. QED
    BY <2>1, <2>4
<1>2. CASE ClearElemOperationObject
  BY <1>2 DEF ClearElemOperationObject
<1>3. CASE InitializeSolution
  <2>1. /\ stage = "attached" /\ stage' = "initial" /\ march' = march
        /\ step' = 0
        /\ march = "sensitivity" => /\ time' = 0 /\ began' = 0
                                    /\ dsol0' = DX(0) /\ UNCHANGED <<dsol, dvel>>
    BY <1>3 DEF InitializeSolution, StartTime, driver
  <2>2. march = "sensitivity" => SensitivityHolds(-1)'
    BY <2>1 DEF SensitivityHolds, HoldsLast
  <2>3. QED
    BY <2>1, <2>2
<1>4. CASE SolveHighestDerivativeAndAdvanceTimeStep
  BY <1>4 DEF SolveHighestDerivativeAndAdvanceTimeStep, driver
<1>5. CASE SolveHighestDerivativeAndAdvanceTimeStepWithSensitivity
  <2>1. /\ stage' = "ready" /\ step' = 0 /\ time' = 1 /\ dsol0' = DX(0)
        /\ began' = 0 /\ SensitivityHolds(-1) /\ dsol0 = DX(0)
        /\ dsol' = ShiftHistory(dsol, dsol0)
    BY <1>5 DEF SolveHighestDerivativeAndAdvanceTimeStepWithSensitivity
  <2>2. dvel' = ShiftHistory([dvel EXCEPT ![0] = DX(0)], DX(0))
    BY <1>5, <2>1, PreviousSensitivityIsLast
       DEF SolveHighestDerivativeAndAdvanceTimeStepWithSensitivity
  <2>3. -1 + 1 = 0 /\ -1 \in Int
    OBVIOUS
  <2>4. SensitivityHolds(-1 + 1)'
    BY <2>1, <2>2, <2>3, AdvanceSensitivity
  <2>5. QED
    BY <2>1, <2>3, <2>4 DEF SensitivityHolds
<1>6. CASE Solve
  BY <1>6 DEF Solve, driver
<1>7. CASE ReadInVector
  BY <1>7 DEF ReadInVector, driver, sensitivity, SensitivityHolds, HoldsLast
<1>8. CASE SensitivitySolve
  <2>1. /\ stage \in {"read", "psolved"} /\ stage' = "solved"
        /\ march' = march /\ step' = step /\ time' = time /\ began' = began
        /\ dsol' = dsol /\ dvel' = dvel
        /\ dsol0' = SolutionAt("dx", Elapsed, PreviousSensitivity)
    BY <1>8 DEF SensitivitySolve, driver
  <2>2. ASSUME march = "sensitivity"
        PROVE  /\ began = 0 /\ time = step + 1
               /\ dsol0' = DX(step + 1) /\ SensitivityHolds(step)
    <3>1. /\ began = 0 /\ time = step + 1 /\ Elapsed = step + 1
          /\ SensitivityHolds(step) /\ step \in Nat
      BY <1>8, <2>1, <2>2 DEF TypeOK, Elapsed
    <3>2. QED
      BY <2>1, <3>1, PreviousSensitivityIsLast, NextLevel
  <2>3. QED
    BY <2>1, <2>2 DEF SensitivityHolds, HoldsLast
<1>9. CASE AdvanceTimeStep
  BY <1>9 DEF AdvanceTimeStep, driver
<1>10. CASE AdvanceTimeStepWithSensitivity
  <2>1. /\ stage' = "ready" /\ march' = march /\ time' = time + 1
        /\ step' = step + 1 /\ dsol0' = dsol0
        /\ dsol' = ShiftHistory(dsol, dsol0)
    BY <1>10 DEF AdvanceTimeStepWithSensitivity, driver
  <2>2. ASSUME march = "sensitivity"
        PROVE  SensitivityHistoryAligned' /\ began' = 0
    <3>1. /\ time = step + 1 /\ dsol0 = DX(step + 1) /\ SensitivityHolds(step)
          /\ step \in Nat /\ began' = 0
      BY <1>10, <2>2 DEF AdvanceTimeStepWithSensitivity, TypeOK
    <3>2. NewmarkRate(dsol0, PreviousSensitivity) = DX(step + 1)
      BY <3>1, PreviousSensitivityIsLast, NextLevel
    <3>3. dvel' = ShiftHistory([dvel EXCEPT ![0] = DX(step + 1)], DX(step + 1))
      BY <1>10, <3>2 DEF AdvanceTimeStepWithSensitivity
    <3>4. PICK k \in Nat : k = step
      BY <3>1
    <3>5. k \in Int /\ k >= -1
      BY <3>4
    <3>6. SensitivityHolds(k + 1)'
      BY <2>1, <3>1, <3>3, <3>4, <3>5, AdvanceSensitivity
    <3>7. QED
      BY <2>1, <3>1, <3>4, <3>6 DEF SensitivityHolds
  <2>3. QED
    BY <2>1, <2>2
<1>11. CASE StartProgram
  BY <1>11 DEF StartProgram
<1>12. CASE UNCHANGED vars
  BY <1>12 DEF vars, SensitivityHolds, HoldsLast
<1>13. QED
  BY <1>1, <1>2, <1>3, <1>4, <1>5, <1>6, <1>7, <1>8, <1>9, <1>10, <1>11, <1>12,
     MarchAssumption DEF Next

\* The promise of the time march for the direct sensitivities: their stored
\* levels stay aligned with each other and with the clock.
THEOREM SensitivityMarchAligned == Spec => []SensitivityHistoryAligned
<1>1. Init => SensitivityInv /\ SensitivityHistoryAligned
  BY DEF Init, SensitivityInv, SensitivityHistoryAligned
<1>2. TypeOK /\ SensitivityInv /\ SensitivityHistoryAligned /\ [Next]_vars
        => SensitivityInv' /\ SensitivityHistoryAligned'
  BY StepSensitivity
<1>3. QED
  BY <1>1, <1>2, TypeCorrect, PTL DEF Spec

-----------------------------------------------------------------------------
(* ContinuationSolver: the arc lengths the updates can give. *)

\* A new arc length is a positive integer.
LEMMA ArcsPositive ==
  ASSUME NEW a \in Nat \ {0}, NEW n \in Nat
  PROVE  Halved(a) \in Nat \ {0} /\ Adapted(a, n) \subseteq Nat \ {0}
<1> USE StepAssumption, ItersAssumption
<1>1. Halved(a) \in Nat \ {0}
  BY DEF Halved, Larger
<1>2. Increased(a) \subseteq Nat \ {0} /\ Reduced(a) \subseteq Nat \ {0}
  BY DEF Increased, Reduced
<1>3. CASE DesiredIters > n + 1
  BY <1>1, <1>2, <1>3 DEF Adapted
<1>4. CASE DesiredIters = n + 1
  BY <1>1, <1>4 DEF Adapted
<1>5. CASE DesiredIters < n + 1
  BY <1>1, <1>2, <1>5 DEF Adapted
<1> QED  BY <1>3, <1>4, <1>5

\* Restarting and adapting keep an arc length between min_step and max_step.
LEMMA ArcsInRange ==
  ASSUME NEW a \in MinStep .. MaxStep, NEW n \in Nat
  PROVE  Halved(a) \in MinStep .. MaxStep /\ Adapted(a, n) \subseteq MinStep .. MaxStep
<1> USE StepAssumption, ItersAssumption
<1>1. Halved(a) \in MinStep .. MaxStep
  BY DEF Halved, Larger
<1>2. Increased(a) \subseteq MinStep .. MaxStep /\ Reduced(a) \subseteq MinStep .. MaxStep
  BY DEF Increased, Reduced
<1>3. CASE DesiredIters > n + 1
  BY <1>1, <1>2, <1>3 DEF Adapted
<1>4. CASE DesiredIters = n + 1
  BY <1>1, <1>4 DEF Adapted
<1>5. CASE DesiredIters < n + 1
  BY <1>1, <1>2, <1>5 DEF Adapted
<1> QED  BY <1>3, <1>4, <1>5

-----------------------------------------------------------------------------
(* The inductive invariant. *)

\* A check follows an iteration; an attempt in progress has made as many
\* updates of X and the load as iterations and twice as many of the direction
\* after the first; restarts go back to the direction saved at the beginning.
Attempt ==
  /\ pc \in {"iterate", "check"} => dir0 = 1
  /\ pc \in {"iterate", "check"} => x = iter /\ p = iter /\ dir = 2 * iter + 1
  /\ pc = "iterate" => iter < MaxIt

ContinuationInv == ContinuationTypeOK /\ Attempt /\ GaveUpOnlyAtMinStep

LEMMA ContinuationInvInit == ContinuationInit => ContinuationInv
<1> SUFFICES ASSUME ContinuationInit PROVE ContinuationInv
  OBVIOUS
<1> USE ItersAssumption, ArcAssumption DEF ContinuationInit
<1>1. ContinuationTypeOK
  <2>1. arc \in Nat \ {0} /\ lastArc \in Nat /\ firstArc \in Nat
    OBVIOUS
  <2>2. /\ solves \in 0 .. MaxSolves /\ iter \in 0 .. MaxIt
        /\ lastIter \in 0 .. MaxIt
    OBVIOUS
  <2>3. initialized \in BOOLEAN /\ conv \in BOOLEAN
    OBVIOUS
  <2> QED  BY <2>1, <2>2, <2>3 DEF ContinuationTypeOK
<1>2. Attempt
  BY DEF Attempt
<1>3. GaveUpOnlyAtMinStep
  BY DEF GaveUpOnlyAtMinStep
<1> QED  BY <1>1, <1>2, <1>3 DEF ContinuationInv

LEMMA ContinuationInvStep == ContinuationInv /\ [ContinuationNext]_ContinuationVars => ContinuationInv'
<1> SUFFICES ASSUME ContinuationInv, [ContinuationNext]_ContinuationVars PROVE ContinuationInv'
  OBVIOUS
<1> USE ItersAssumption, StepAssumption DEF ContinuationInv
<1>1. ASSUME NEW q \in Parameters, SetAssemblyAndLoadParameter(q) PROVE ContinuationInv'
  BY <1>1 DEF SetAssemblyAndLoadParameter, iterate, last, ContinuationTypeOK, Attempt,
              GaveUpOnlyAtMinStep
<1>2. CASE ClearAssemblyAndLoadParameters
  BY <1>2 DEF ClearAssemblyAndLoadParameters, iterate, last, ContinuationTypeOK, Attempt,
              GaveUpOnlyAtMinStep
<1>3. CASE Initialize
  BY <1>3 DEF Initialize, iterate, last, ContinuationTypeOK, Attempt, GaveUpOnlyAtMinStep
<1>4. CASE BeginSolve
  <2> USE <1>4 DEF BeginSolve, NormDirection, Redirected, SavedDirection, object, last
  <2>1. /\ solves' \in 0 .. MaxSolves /\ iter' \in 0 .. MaxIt
        /\ firstArc' \in Nat /\ dir' = 1 /\ dir0' = 1
    BY DEF ContinuationTypeOK
  <2>2. ContinuationTypeOK'
    <3>1. /\ arc' \in Nat \ {0} /\ lastArc' \in Nat /\ lastIter' \in 0 .. MaxIt
          /\ x' \in Nat /\ p' \in Nat /\ dir' \in Nat /\ dir0' \in Nat
          /\ restarts' \in Nat
      BY <2>1 DEF ContinuationTypeOK
    <3> QED  BY <2>1, <3>1 DEF ContinuationTypeOK
  <2>3. Attempt'
    BY DEF Attempt
  <2> QED  BY <2>2, <2>3 DEF GaveUpOnlyAtMinStep
<1>5. CASE Iterate
  <2> USE <1>5 DEF Iterate, Incremented, NormDirection, Redirected, object, last
  <2>1. ContinuationTypeOK'
    BY DEF ContinuationTypeOK, Attempt
  <2>2. Attempt'
    BY DEF ContinuationTypeOK, Attempt
  <2> QED  BY <2>1, <2>2 DEF GaveUpOnlyAtMinStep
<1>6. CASE Continue
  BY <1>6 DEF Continue, IterationsLeft, object, iterate, last, ContinuationTypeOK, Attempt,
              GaveUpOnlyAtMinStep
<1>7. CASE Restart
  <2> USE <1>7 DEF Restart, object, last
  <2>1. arc' \in Nat \ {0}
    BY ArcsPositive DEF ContinuationTypeOK
  <2>2. ContinuationTypeOK'
    BY <2>1 DEF ContinuationTypeOK
  <2>3. Attempt'
    BY DEF Attempt
  <2> QED  BY <2>2, <2>3 DEF GaveUpOnlyAtMinStep
<1>8. CASE Return
  <2> USE <1>8 DEF Return, object, iterate
  <2>1. arc' \in Nat \ {0}
    BY ArcsPositive DEF ContinuationTypeOK
  <2>2. ContinuationTypeOK'
    BY <2>1 DEF ContinuationTypeOK
  <2>3. Attempt'
    BY DEF Attempt
  <2>4. GaveUpOnlyAtMinStep'
    BY DEF GaveUpOnlyAtMinStep, ContinuationTypeOK, IterationsLeft, CanRetry
  <2> QED  BY <2>2, <2>3, <2>4
<1>9. CASE UNCHANGED ContinuationVars
  BY <1>9 DEF ContinuationVars, ContinuationTypeOK, Attempt, GaveUpOnlyAtMinStep
<1> QED
  BY <1>1, <1>2, <1>3, <1>4, <1>5, <1>6, <1>7, <1>8, <1>9 DEF ContinuationNext, Newton

LEMMA ContinuationInvariant == ContinuationSpec => []ContinuationInv
BY ContinuationInvInit, ContinuationInvStep, PTL DEF ContinuationSpec

\* Every variable of the solver keeps its type; in particular no attempt makes
\* more than max_it iterations.
THEOREM ContinuationTypeCorrect == ContinuationSpec => []ContinuationTypeOK
<1>1. ContinuationInv => ContinuationTypeOK
  BY DEF ContinuationInv
<1> QED  BY ContinuationInvariant, <1>1, PTL

\* Every attempt at a load step begins at the same solution, load and search
\* direction.
THEOREM RestartsAreExact == ContinuationSpec => []AttemptsStartAlike
<1>1. ContinuationInv => AttemptsStartAlike
  BY DEF ContinuationInv, Attempt, AttemptsStartAlike, ContinuationTypeOK
<1> QED  BY ContinuationInvariant, <1>1, PTL

\* No load step is given up while its arc length could still be reduced.
THEOREM GivesUpLast == ContinuationSpec => []GaveUpOnlyAtMinStep
<1>1. ContinuationInv => GaveUpOnlyAtMinStep
  BY DEF ContinuationInv
<1> QED  BY ContinuationInvariant, <1>1, PTL

-----------------------------------------------------------------------------
(* The arc length. *)

\* An arc length the driver chooses within the bounds never leaves them.
THEOREM ArcStaysInRange ==
  ASSUME InitialArcs \subseteq MinStep .. MaxStep
  PROVE  ContinuationSpec => []ArcLengthInRange
<1>1. ContinuationInit => ArcLengthInRange
  BY DEF ContinuationInit, ArcLengthInRange
<1>2. ASSUME ContinuationInv, ArcLengthInRange, [ContinuationNext]_ContinuationVars PROVE ArcLengthInRange'
  <2>1. CASE Restart
    BY <1>2, <2>1, ArcsInRange DEF Restart, ArcLengthInRange, ContinuationInv, ContinuationTypeOK
  <2>2. CASE Return
    <3>1. Adapted(arc, iter) \subseteq MinStep .. MaxStep
      BY <1>2, ArcsInRange DEF ArcLengthInRange, ContinuationInv, ContinuationTypeOK
    <3> QED  BY <3>1, <2>2 DEF Return, ArcLengthInRange
  <2>3. CASE arc' = arc
    BY <1>2, <2>3 DEF ArcLengthInRange
  <2>4. Restart \/ Return \/ arc' = arc
    BY <1>2 DEF ContinuationNext, Newton, SetAssemblyAndLoadParameter,
                ClearAssemblyAndLoadParameters, Initialize, BeginSolve, Iterate,
                Continue, ContinuationVars
  <2> QED  BY <2>1, <2>2, <2>3, <2>4
<1> QED  BY ContinuationInvariant, <1>1, <1>2, PTL DEF ContinuationSpec

-----------------------------------------------------------------------------
(* The number of restarts. Powers of two are counted as subsets. *)

\* A power of two with a natural exponent is the number of subsets.
LEMMA PowerCounts ==
  ASSUME NEW n \in Nat
  PROVE  /\ IsFiniteSet(SUBSET (1 .. n)) /\ Cardinality(SUBSET (1 .. n)) = 2 ^ n
         /\ 2 ^ n \in Nat
<1>1. IsFiniteSet(1 .. n) /\ Cardinality(1 .. n) = n
  BY FS_Interval
<1>2. IsFiniteSet(SUBSET (1 .. n)) /\ Cardinality(SUBSET (1 .. n)) = 2 ^ n
  BY <1>1, FS_SUBSET, Zenon
<1> QED  BY <1>2, FS_CardinalityType, Zenon

\* A new element doubles the number of subsets.
LEMMA PowerNext ==
  ASSUME NEW n \in Nat
  PROVE  2 ^ (n + 1) = 2 ^ n + 2 ^ n
<1> DEFINE S == 1 .. n
           A == SUBSET S
           B == {a \cup {n + 1} : a \in A}
           F == [a \in A |-> a \cup {n + 1}]
<1>1. n + 1 \in Nat /\ n + 1 \notin S /\ S \cup {n + 1} = 1 .. n + 1
  OBVIOUS
<1>2. SUBSET (1 .. n + 1) = A \cup B
  <2>1. ASSUME NEW t \in SUBSET (1 .. n + 1) PROVE t \in A \cup B
    <3>1. CASE n + 1 \in t
      <4>1. t \ {n + 1} \in A /\ t = (t \ {n + 1}) \cup {n + 1}
        BY <1>1, <2>1, <3>1
      <4> QED  BY <4>1
    <3>2. CASE n + 1 \notin t
      BY <1>1, <2>1, <3>2
    <3> QED  BY <3>1, <3>2
  <2>2. A \cup B \subseteq SUBSET (1 .. n + 1)
    BY <1>1
  <2> QED  BY <2>1, <2>2
<1>3. A \cap B = {}
  BY <1>1
<1>4. F \in Bijection(A, B)
  <2>1. F \in [A -> B]
    OBVIOUS
  <2>2. \A a, b \in A : F[a] = F[b] => a = b
    <3> TAKE a, b \in A
    <3> HAVE F[a] = F[b]
    <3>1. a \cup {n + 1} = b \cup {n + 1} /\ n + 1 \notin a /\ n + 1 \notin b
      BY <1>1
    <3> QED  BY <3>1
  <2>3. \A b \in B : \E a \in A : F[a] = b
    OBVIOUS
  <2> QED  BY <2>1, <2>2, <2>3 DEF Bijection, Injection, IsInjective, Surjection
<1>5. IsFiniteSet(A) /\ Cardinality(A) = 2 ^ n /\ 2 ^ n \in Nat
  BY PowerCounts
<1>6. IsFiniteSet(B) /\ Cardinality(B) = 2 ^ n
  <2>1. ExistsBijection(A, B)
    BY <1>4 DEF ExistsBijection
  <2> HIDE DEF A, B
  <2> QED  BY <2>1, <1>5, FS_Bijection
<1>7. Cardinality(A \cup B) = 2 ^ n + 2 ^ n - Cardinality(A \cap B)
  <2> HIDE DEF A, B
  <2> QED  BY <1>5, <1>6, FS_Union
<1>8. Cardinality(SUBSET (1 .. n + 1)) = 2 ^ (n + 1)
  BY <1>1, PowerCounts
<1>9. Cardinality(A \cap B) = 0
  BY <1>3, FS_EmptySet, Zenon
<1>10. Cardinality(A \cup B) = 2 ^ (n + 1)
  BY <1>2, <1>8, Zenon
<1> HIDE DEF A, B
<1> QED  BY <1>5, <1>7, <1>9, <1>10

\* While an arc length can still be reduced, all the halvings since the load
\* step began fit between it and the first one.
Halvings ==
  pc # "ready" =>
    /\ arc > MinStep => (2 ^ restarts) * arc <= firstArc
    /\ restarts > 0 => (2 ^ (restarts - 1)) * MinStep < firstArc

LEMMA PowerZero == 2 ^ 0 = 1
<1>1. 1 .. 0 = {} /\ SUBSET {} = {{}}
  OBVIOUS
<1>2. Cardinality(SUBSET (1 .. 0)) = 2 ^ 0
  BY PowerCounts
<1>3. Cardinality({{}}) = 1
  BY FS_Singleton, Zenon
<1> QED  BY <1>1, <1>2, <1>3

\* Powers of two are positive: the empty set is a subset.
LEMMA PowerPositive ==
  ASSUME NEW n \in Nat
  PROVE  2 ^ n > 0
<1>1. SUBSET (1 .. n) # {}
  OBVIOUS
<1>2. IsFiniteSet(SUBSET (1 .. n)) /\ Cardinality(SUBSET (1 .. n)) = 2 ^ n /\ 2 ^ n \in Nat
  BY PowerCounts
<1>3. 2 ^ n # 0
  BY <1>1, <1>2, FS_EmptySet, Zenon
<1> QED  BY <1>2, <1>3

\* One halving of a product with a power.
LEMMA HalvedProduct ==
  ASSUME NEW q \in Nat, NEW a \in Nat, NEW b \in Nat, q * a <= b
  PROVE  (q + q) * (a \div 2) <= b
<1>1. PICK h \in Nat : h = a \div 2 /\ h + h <= a
  OBVIOUS
<1>2. (q + q) * h = q * (h + h)
  BY <1>1
<1>3. q * (h + h) <= q * a
  BY <1>1
<1> QED  BY <1>1, <1>2, <1>3

LEMMA HalvingsStep ==
  ASSUME ContinuationInv, Halvings, [ContinuationNext]_ContinuationVars
  PROVE  Halvings'
<1> USE StepAssumption, ItersAssumption DEF Halvings, ContinuationInv, ContinuationTypeOK
<1>1. ASSUME NEW q \in Parameters, SetAssemblyAndLoadParameter(q) PROVE Halvings'
  BY <1>1 DEF SetAssemblyAndLoadParameter
<1>2. CASE ClearAssemblyAndLoadParameters
  BY <1>2 DEF ClearAssemblyAndLoadParameters
<1>3. CASE Initialize
  BY <1>3 DEF Initialize
<1>4. CASE BeginSolve
  BY <1>4, PowerZero DEF BeginSolve
<1>5. CASE Iterate
  BY <1>5 DEF Iterate
<1>6. CASE Continue
  BY <1>6 DEF Continue
<1>7. CASE Restart
  <2> USE <1>7 DEF Restart, CanRetry
  <2> DEFINE q == 2 ^ restarts
  <2>1. q \in Nat /\ 2 ^ (restarts + 1) = q + q
    BY PowerCounts, PowerNext
  <2>2. q * arc <= firstArc /\ arc \in Nat /\ firstArc \in Nat
    BY DEF Attempt
  <2>3. q * MinStep < firstArc
    <3>1. q > 0
      BY PowerPositive
    <3>2. q * MinStep < q * arc
      <4> HIDE DEF q
      <4> QED  BY <2>1, <2>2, <3>1
    <3> HIDE DEF q
    <3> QED  BY <2>1, <2>2, <3>2
  <2>4. arc' > MinStep => arc' = arc \div 2
    BY DEF Halved, Larger
  <2>5. (q + q) * (arc \div 2) <= firstArc
    <3> HIDE DEF q
    <3> QED  BY <2>1, <2>2, HalvedProduct
  <2>6. CASE restarts < RestartBound
    <3>1. restarts' = restarts + 1 /\ restarts' - 1 = restarts
      BY <2>6
    <3>2. 2 ^ restarts' = q + q /\ 2 ^ (restarts' - 1) = q
      BY <2>1, <3>1
    <3> HIDE DEF q
    <3> QED  BY <2>3, <2>4, <2>5, <3>2
  <2>7. CASE ~(restarts < RestartBound)
    <3>1. restarts' = restarts
      BY <2>7
    <3>2. 2 ^ restarts' = q
      BY <3>1
    <3>3. q * (arc \div 2) <= firstArc
      <4>1. arc \div 2 \in Nat /\ arc \div 2 <= arc
        BY <2>2
      <4>2. q * (arc \div 2) <= q * arc
        <5> HIDE DEF q
        <5> QED  BY <2>1, <2>2, <4>1
      <4> HIDE DEF q
      <4> QED  BY <2>1, <2>2, <4>1, <4>2
    <3>4. firstArc' = firstArc /\ MinStep' = MinStep
      OBVIOUS
    <3>5. restarts' > 0 => (2 ^ (restarts' - 1)) * MinStep < firstArc'
      BY <3>1, <3>4
    <3>6. arc' > MinStep => (2 ^ restarts') * arc' <= firstArc'
      <4> HIDE DEF q
      <4> QED  BY <2>4, <3>2, <3>3, <3>4
    <3> QED  BY <3>5, <3>6
  <2> QED  BY <2>6, <2>7
<1>8. CASE Return
  BY <1>8 DEF Return
<1>9. CASE UNCHANGED ContinuationVars
  BY <1>9 DEF ContinuationVars
<1> QED
  BY <1>1, <1>2, <1>3, <1>4, <1>5, <1>6, <1>7, <1>8, <1>9 DEF ContinuationNext, Newton

\* A load step is restarted at most once per halving of its first arc length,
\* for every arc length and every min_step.
THEOREM RestartsAreBounded == ContinuationSpec => []RestartsBounded
<1>1. ContinuationInit => Halvings
  BY DEF ContinuationInit, Halvings
<1>2. ContinuationInv /\ Halvings /\ [ContinuationNext]_ContinuationVars => Halvings'
  BY HalvingsStep
<1>3. Halvings => RestartsBounded
  BY DEF Halvings, RestartsBounded
<1> QED  BY ContinuationInvariant, <1>1, <1>2, <1>3, PTL DEF ContinuationSpec
=============================================================================
