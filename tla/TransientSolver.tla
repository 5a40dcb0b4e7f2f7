--------------------------- MODULE TransientSolver ---------------------------
(***************************************************************************)
(* The implicit time integrators of src/solver: TransientSolverBase and the *)
(* Newmark solvers derived from it, marched the way the transient drivers   *)
(* of the repository march them.                                            *)
(*                                                                          *)
(* A vector of the system is abstracted to a pair <<family, level>>: the    *)
(* quantity it holds ("x" the primary solution or a time derivative of it,  *)
(* "dx" its sensitivity) and the time level that quantity belongs to: the   *)
(* number of steps since the initial conditions of its march.               *)
(* ZeroVec is a vector that was added and never written; MixedVec is a      *)
(* vector computed from data of different time levels, i.e. a wrong answer  *)
(* that no assertion of the code notices.                                   *)
(***************************************************************************)
EXTENDS Integers

CONSTANTS
  Order,        \* _ode_order: 1 or 2
  NStore,       \* _n_iters_to_store: time levels kept by the solver
  MaxSteps,     \* largest n_transient_steps a driver is given
  MaxStart,     \* bound: the latest system.time a primary march is attached at
  Marches,      \* the drivers that run: a subset of AllMarches
  ReuseSolver   \* may a driver clear a solver object and attach it again

AllMarches == {"primary", "sensitivity", "coupled"}

ASSUME OrderAssumption  == Order \in {1, 2}
ASSUME NStoreAssumption == NStore \in Nat /\ NStore >= 2
ASSUME StepsAssumption  == MaxSteps \in Nat /\ MaxStart \in Nat
ASSUME MarchAssumption  ==
  /\ Marches \subseteq AllMarches
  /\ ReuseSolver \in BOOLEAN
  \* SecondOrderNewmark refuses sensitivities (libmesh_assert(false))
  /\ Order = 2 => Marches \subseteq {"primary"}

VARIABLES
  march,      \* the driver that owns the solver, or "none"
  stage,      \* the driver's place in its time loop
  nSteps,     \* n_transient_steps, the same input for every driver
  step,       \* t_step of the driver
  time,       \* system.time, in steps of dt; t_initial is 0, its default
  began,      \* observer: system.time when the march got its initial conditions
  firstStep,  \* _first_step
  firstSens,  \* _first_sensitivity_step
  sysSol,     \* system.solution
  locSol,     \* system.current_local_solution: what solution(0) returns
  sol,        \* solution(i), i > 0
  vel,        \* velocity(i)
  acc,        \* acceleration(i), order 2 only
  dsol0,      \* solution_sensitivity(0)
  dsol,       \* solution_sensitivity(i), i > 0
  dvel,       \* velocity_sensitivity(i)
  saved       \* files <root>_sol_t_<k>

primary     == <<sysSol, locSol, sol, vel, acc>>
sensitivity == <<dsol0, dsol, dvel>>
driver      == <<march, nSteps>>
vars == <<march, stage, nSteps, step, time, began, firstStep, firstSens, sysSol,
          locSol, sol, vel, acc, dsol0, dsol, dvel, saved>>

X(n)     == <<"x", n>>
DX(n)    == <<"dx", n>>
ZeroVec  == <<"zero", 0>>
MixedVec == <<"mixed", 0>>
NoFile   == <<"none", 0>>
Vec      == ({"x", "dx"} \X Nat) \cup {ZeroVec, MixedVec}

Older   == 1 .. NStore - 1
Stored  == 0 .. NStore - 1
Stages  == {"off", "attached", "initial", "ready", "read", "psolved", "solved",
            "padvanced"}

-----------------------------------------------------------------------------
(* Operators the handlers share. A definition commented as a slip is a wrong   *)
(* form of the one after it, kept to see which property would notice it.      *)

\* What update_velocity and update_acceleration read of the history.
PreviousPrimary == IF Order = 1 THEN {sol[1], vel[1]}
                                ELSE {sol[1], vel[1], acc[1]}
PreviousSensitivity == {dsol[1], dvel[1]}

\* The Newmark rate of a solution x: right when every previous quantity it is
\* built from belongs to the level before x.
NewmarkRate(x, previous) ==
  IF x[2] > 0 /\ previous = {<<x[1], x[2] - 1>>} THEN x ELSE MixedVec

\* The unknown solved for n steps after the initial conditions, given the
\* stored quantities.
SolutionAt(family, n, previous) ==
  IF n > 0 /\ previous = {<<family, n - 1>>} THEN <<family, n>> ELSE MixedVec

\* Where the clock says the march is.
Elapsed == time - began

\* Slip: the rates the nonlinear solver left in velocity(0) and acceleration(0).
IterateRate == vel[0]

\* update_velocity and update_acceleration of the converged solution.
ConvergedRate == NewmarkRate(sysSol, PreviousPrimary)

\* Slip: a shift loop that runs from slot 1 upwards.
ShiftAscending(h, current) == [i \in DOMAIN h |-> current]

\* The loop that moves every stored vector one time level back, from the
\* oldest slot to slot 1; slot 0, where there is one, keeps the current vector.
ShiftHistory(h, current) ==
  [i \in DOMAIN h |-> IF i <= 1 THEN current ELSE h[i - 1]]

\* Slip: a missing file goes unnoticed.
AnyFile(k) == TRUE

\* read_in_vector aborts on a file that is not there.
FileExists(k) == saved[k] # NoFile

\* Slip: the sensitivity driver, too, goes on where the last march left the clock.
StaleTime == time

\* Only the sensitivity driver assigns system.time; a primary march goes on from
\* whatever time the system has.
StartTime == IF march = "sensitivity" THEN 0 ELSE time

\* Slip: the file is named after system.time instead of the loop counter.
WriteSolutionByClock ==
  saved' = IF march = "primary" THEN [saved EXCEPT ![time] = sysSol] ELSE saved

\* The primary driver writes system.solution at the top of its loop.
WriteSolution ==
  saved' = IF march = "primary" THEN [saved EXCEPT ![step] = sysSol] ELSE saved

-----------------------------------------------------------------------------
\* A system that has just been set up: time 0, no vectors of a solver.
Init ==
  /\ march = "none"
  /\ stage = "off"
  /\ nSteps \in 0 .. MaxSteps
  /\ step = 0
  /\ time = 0
  /\ began = 0
  /\ firstStep = TRUE
  /\ firstSens = TRUE
  /\ sysSol = ZeroVec
  /\ locSol = ZeroVec
  /\ sol  = [i \in Older  |-> ZeroVec]
  /\ vel  = [i \in Stored |-> ZeroVec]
  /\ acc  = [i \in Stored |-> ZeroVec]
  /\ dsol0 = ZeroVec
  /\ dsol = [i \in Older  |-> ZeroVec]
  /\ dvel = [i \in Stored |-> ZeroVec]
  /\ saved = [k \in 0 .. MaxSteps |-> NoFile]

\* main is run again, with another number of steps: after the last run ended,
\* failed (read_in_vector aborts on a missing file) or was killed. Only the files
\* survive, and they are written at the top of the time loop, so that to be
\* killed there or later in the step is the same.
StartProgram ==
  /\ stage \in {"off", "ready"}
  /\ march' = "none"
  /\ stage' = "off"
  /\ nSteps' \in 0 .. MaxSteps
  /\ step' = 0
  /\ time' = 0
  /\ began' = 0
  /\ firstStep' = TRUE
  /\ firstSens' = TRUE
  /\ sysSol' = ZeroVec
  /\ locSol' = ZeroVec
  /\ sol'  = [i \in Older  |-> ZeroVec]
  /\ vel'  = [i \in Stored |-> ZeroVec]
  /\ acc'  = [i \in Stored |-> ZeroVec]
  /\ dsol0' = ZeroVec
  /\ dsol' = [i \in Older  |-> ZeroVec]
  /\ dvel' = [i \in Stored |-> ZeroVec]
  /\ UNCHANGED saved

\* set_elem_operation_object: clear, then add the zeroed vectors. The vectors
\* live in the system under fixed names, so a second solver object starts from
\* zeroed vectors as well. Only a newly constructed object has
\* _first_sensitivity_step set; attaching an old one does not reset it.
SetElemOperationObject(m, fresh) ==
  /\ stage = "off"
  /\ m # "sensitivity" => time <= MaxStart
  /\ march' = m
  /\ stage' = "attached"
  /\ step'  = 0
  /\ firstStep' = TRUE
  /\ firstSens' = (fresh \/ firstSens)
  /\ sol'  = [i \in Older  |-> ZeroVec]
  /\ vel'  = [i \in Stored |-> ZeroVec]
  /\ acc'  = [i \in Stored |-> ZeroVec]
  /\ dsol' = [i \in Older  |-> ZeroVec]
  /\ dvel' = [i \in Stored |-> ZeroVec]
  /\ UNCHANGED <<nSteps, time, began, sysSol, locSol, dsol0, saved>>

\* clear_elem_operation_object, by the caller or by the solver's destructor.
ClearElemOperationObject ==
  /\ stage = "ready"
  /\ step = nSteps
  /\ march' = "none"
  /\ stage' = "off"
  /\ firstStep' = TRUE
  /\ sol'  = [i \in Older  |-> ZeroVec]
  /\ vel'  = [i \in Stored |-> ZeroVec]
  /\ acc'  = [i \in Stored |-> ZeroVec]
  /\ dsol' = [i \in Older  |-> ZeroVec]
  /\ dvel' = [i \in Stored |-> ZeroVec]
  /\ UNCHANGED <<nSteps, step, time, began, firstSens, sysSol, locSol, dsol0,
                 saved>>

\* The driver's initial conditions. project_solution writes system.solution and
\* localizes it. The sensitivity driver projects the initial sensitivity
\* through system.solution as well (swap, project, swap back), which leaves the
\* initial sensitivity in current_local_solution. An order 2 march takes
\* velocity(0) as given, at rest unless the caller writes it; a caller that
\* solves a step and then its sensitivity starts from sensitivities at rest,
\* for which the zeroed slots are level 0.
InitializeSolution ==
  /\ stage = "attached"
  /\ stage'  = "initial"
  /\ time'   = StartTime
  /\ began'  = time'
  /\ sysSol' = X(0)
  /\ locSol' = IF march = "sensitivity" THEN DX(0) ELSE X(0)
  /\ vel'    = IF Order = 2 THEN [vel EXCEPT ![0] = X(0)] ELSE vel
  /\ dsol0'  = IF march = "primary" THEN dsol0 ELSE DX(0)
  /\ dsol'   = IF march = "coupled" THEN [dsol EXCEPT ![1] = DX(0)] ELSE dsol
  /\ dvel'   = IF march = "coupled" THEN [dvel EXCEPT ![1] = DX(0)] ELSE dvel
  /\ UNCHANGED <<driver, step, firstStep, firstSens, sol, acc, saved>>

\* solve_highest_derivative_and_advance_time_step: the residual is assembled
\* from solution() -- current_local_solution -- and the stored lower
\* derivatives; system.update() comes after the solve and before the shift.
SolveHighestDerivativeAndAdvanceTimeStep ==
  /\ stage = "initial"
  /\ march \in {"primary", "coupled"}
  /\ firstStep
  /\ LET rate == IF Order = 1 \/ vel[0] = locSol THEN locSol ELSE MixedVec
         v == IF Order = 1 THEN rate ELSE vel[0]
     IN /\ vel' = ShiftHistory([vel EXCEPT ![0] = v], v)
        /\ acc' = IF Order = 1 THEN acc
                  ELSE ShiftHistory([acc EXCEPT ![0] = rate], rate)
  /\ locSol' = sysSol
  /\ sol'  = ShiftHistory(sol, sysSol)
  /\ time' = time + 1
  /\ firstStep' = FALSE
  /\ stage' = "ready"
  /\ UNCHANGED <<driver, step, began, firstSens, sysSol, sensitivity, saved>>

\* solve_highest_derivative_and_advance_time_step_with_sensitivity: the same
\* for the sensitivity. The assembly adds the contribution of the previous
\* sensitivities, which has to vanish on a first step.
SolveHighestDerivativeAndAdvanceTimeStepWithSensitivity ==
  /\ stage = "initial"
  /\ march = "sensitivity"
  /\ firstSens
  /\ LET rate == IF PreviousSensitivity = {ZeroVec} THEN dsol0 ELSE MixedVec
     IN dvel' = ShiftHistory([dvel EXCEPT ![0] = rate], rate)
  /\ dsol' = ShiftHistory(dsol, dsol0)
  /\ time' = time + 1
  /\ firstSens' = FALSE
  /\ stage' = "ready"
  /\ UNCHANGED <<driver, step, began, firstStep, primary, dsol0, saved>>

\* solve: the Newton iterations call build_local_quantities, which recomputes
\* velocity(0) and acceleration(0) from each iterate; the last iterate that was
\* assembled need not be the solution (a rejected trial of the line search, the
\* constraints enforced at the end), and its rates are of no level. The nonlinear
\* solver leaves the solution in system.solution and localizes it.
Solve ==
  /\ stage = "ready"
  /\ march \in {"primary", "coupled"}
  /\ step < nSteps
  /\ LET x == SolutionAt("x", Elapsed, PreviousPrimary)
     IN /\ sysSol' = x
        /\ locSol' = x
        /\ \E rate \in {NewmarkRate(x, PreviousPrimary), MixedVec} :
             /\ vel' = [vel EXCEPT ![0] = rate]
             /\ acc' = IF Order = 1 THEN acc ELSE [acc EXCEPT ![0] = rate]
  /\ WriteSolution
  /\ stage' = IF march = "coupled" THEN "psolved" ELSE "solved"
  /\ UNCHANGED <<driver, step, time, began, firstStep, firstSens, sol,
                 sensitivity>>

\* read_in_vector: the file goes to system.solution; current_local_solution is
\* not refreshed. The driver reads the file of its own loop counter.
ReadInVector ==
  /\ stage = "ready"
  /\ march = "sensitivity"
  /\ step < nSteps
  /\ FileExists(step)
  /\ sysSol' = saved[step]
  /\ stage'  = "read"
  /\ UNCHANGED <<driver, step, time, began, firstStep, firstSens, locSol, sol,
                 vel, acc, sensitivity, saved>>

\* sensitivity_solve: assembled at the velocity that build_local_quantities
\* writes into velocity(0) from system.solution.
SensitivitySolve ==
  /\ stage \in {"read", "psolved"}
  /\ vel' = [vel EXCEPT ![0] = ConvergedRate]
  /\ dsol0' = SolutionAt("dx", Elapsed, PreviousSensitivity)
  /\ stage' = "solved"
  /\ UNCHANGED <<driver, step, time, began, firstStep, firstSens, sysSol, locSol,
                 sol, acc, dsol, dvel, saved>>

\* advance_time_step: system.update(), the rates of the converged solution,
\* the shift, the time.
AdvanceTimeStep ==
  /\ stage = "solved"
  /\ march \in {"primary", "coupled"}
  /\ LET rate == ConvergedRate
     IN /\ vel' = ShiftHistory([vel EXCEPT ![0] = rate], rate)
        /\ acc' = IF Order = 1 THEN acc
                  ELSE ShiftHistory([acc EXCEPT ![0] = rate], rate)
  /\ locSol' = sysSol
  /\ sol'  = ShiftHistory(sol, sysSol)
  /\ time' = time + 1
  /\ firstStep' = FALSE
  /\ stage' = IF march = "coupled" THEN "padvanced" ELSE "ready"
  /\ step'  = IF march = "coupled" THEN step ELSE step + 1
  /\ UNCHANGED <<driver, began, firstSens, sysSol, sensitivity, saved>>

\* advance_time_step_with_sensitivity.
AdvanceTimeStepWithSensitivity ==
  /\ \/ stage = "solved" /\ march = "sensitivity"
     \/ stage = "padvanced"
  /\ LET rate == NewmarkRate(dsol0, PreviousSensitivity)
     IN dvel' = ShiftHistory([dvel EXCEPT ![0] = rate], rate)
  /\ dsol' = ShiftHistory(dsol, dsol0)
  /\ time' = time + 1
  /\ firstSens' = FALSE
  /\ stage' = "ready"
  /\ step'  = step + 1
  /\ UNCHANGED <<driver, began, firstStep, primary, dsol0, saved>>

Next ==
  \/ StartProgram
  \/ \E m \in Marches, fresh \in {TRUE} \cup {~ReuseSolver} :
       SetElemOperationObject(m, fresh)
  \/ ClearElemOperationObject
  \/ InitializeSolution
  \/ SolveHighestDerivativeAndAdvanceTimeStep
  \/ SolveHighestDerivativeAndAdvanceTimeStepWithSensitivity
  \/ Solve
  \/ ReadInVector
  \/ SensitivitySolve
  \/ AdvanceTimeStep
  \/ AdvanceTimeStepWithSensitivity

Spec == Init /\ [][Next]_vars

-----------------------------------------------------------------------------
(* Properties. *)

\* Every vector holds one of the quantities of a time level, each history has
\* the slots set_elem_operation_object adds, and the flags are booleans.
TypeOK ==
  /\ march \in AllMarches \cup {"none"}
  /\ stage \in Stages
  /\ nSteps \in 0 .. MaxSteps
  /\ step \in 0 .. MaxSteps
  /\ time \in Nat /\ began \in Nat
  /\ firstStep \in BOOLEAN
  /\ firstSens \in BOOLEAN
  /\ sysSol \in Vec
  /\ locSol \in Vec
  /\ sol \in [Older -> Vec]
  /\ vel \in [Stored -> Vec]
  /\ acc \in [Stored -> Vec]
  /\ dsol0 \in Vec
  /\ dsol \in [Older -> Vec]
  /\ dvel \in [Stored -> Vec]
  /\ saved \in [0 .. MaxSteps -> Vec \cup {NoFile}]

\* The slots a march has filled after n advances hold the last n levels, newest
\* first, and the slots not reached yet are the zeroed vectors.
HoldsLast(h, family, newest) ==
  \A i \in Older :
    h[i] = IF i <= newest + 1 THEN <<family, newest + 1 - i>> ELSE ZeroVec

\* While the primary march waits for its next solve, solution(i), velocity(i)
\* and acceleration(i) are the last i-th time level, for every i the solver
\* stores, and system.time is that of the level about to be solved, counted from
\* where the march began: the shifts of
\* solve_highest_derivative_and_advance_time_step and advance_time_step keep the
\* three histories aligned with each other and with the clock, whatever rates
\* the nonlinear solver left and whatever an earlier march left in the system.
PrimaryHistoryAligned ==
  (stage = "ready" /\ march = "primary") =>
    /\ time = began + step + 1
    /\ sysSol = X(step) /\ locSol = X(step)
    /\ HoldsLast(sol, "x", step)
    /\ HoldsLast(vel, "x", step)
    /\ Order = 2 => HoldsLast(acc, "x", step)

\* The same of the sensitivity march and its own history; its clock is that of
\* a primary march in a new system, whose files it reads.
SensitivityHistoryAligned ==
  (stage = "ready" /\ march = "sensitivity") =>
    /\ time = step + 1
    /\ dsol0 = DX(step)
    /\ HoldsLast(dsol, "dx", step)
    /\ HoldsLast(dvel, "dx", step)

\* A solution file holds the level its name says, whichever marches ran before
\* and after it was written, also when programs were killed half way and run
\* again with another number of steps.
FilesHoldTheirLevel ==
  \A k \in DOMAIN saved : saved[k] \in {NoFile, X(k)}
=============================================================================
