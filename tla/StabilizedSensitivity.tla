------------------------ MODULE StabilizedSensitivity ------------------------
(***************************************************************************)
(* StabilizedFirstOrderNewmarkTransientSensitivitySolver: sensitivity_solve *)
(* widens a window of time steps, reading one nonlinear solution file per   *)
(* step, until the propagation over the window is stable, and then accepts  *)
(* or discards the sensitivity at its end. The driver is                    *)
(* compute_transient_stabilized_sensitivity of examples/fluid/example_1.    *)
(*                                                                          *)
(* Vectors are pairs <<family, level>> as in TransientSolver. Matrices are  *)
(* the set of time levels they were assembled at; the amplification factor  *)
(* is abstracted to the choice of a stable or an unstable window.           *)
(***************************************************************************)
EXTENDS Integers, FiniteSets

CONSTANTS
  MaxIndex,        \* max_index, the driver's n_transient_steps
  LastFile,        \* the nonlinear solution files are 0 .. LastFile
  NSteps,          \* sensitivity_solve calls of the driver's time loop
  MaxEvaluations   \* bound: output sensitivities evaluated per interval

\* sensitivity_solve asserts max_index > 0
ASSUME MaxIndexAssumption == MaxIndex \in Nat \ {0}
ASSUME DriverAssumption ==
  /\ LastFile \in Nat
  /\ NSteps \in Nat
  /\ MaxEvaluations \in Nat

VARIABLES
  pc,          \* idle, iterate, judge, aborted
  calls,       \* sensitivity_solve calls that returned
  index0,      \* _index0: the level the window starts from
  index1,      \* _index1: the level the window ends at
  t0,          \* _t0, in steps of dt
  time,        \* system.time
  sysSol,      \* system.solution
  locSol,      \* system.current_local_solution, this->solution()
  jint,        \* the levels summed in the integral of the Jacobian
  mavg,        \* the levels averaged in the mean mass matrix
  fint,        \* the vectors the forcing was assembled at
  dsol0,       \* solution_sensitivity(1)
  dsol1,       \* solution_sensitivity(0)
  discarded,   \* a window was thrown out
  evaluations, \* outputs evaluated since the last solve
  qspan        \* t1 - t0 of the last output evaluation

indices  == <<index0, index1>>
matrices == <<jint, mavg, fint>>
output   == <<evaluations, qspan>>
vars == <<pc, calls, index0, index1, t0, time, sysSol, locSol, jint, mavg,
          fint, dsol0, dsol1, discarded, evaluations, qspan>>

X(n)     == <<"x", n>>
DX(n)    == <<"dx", n>>
ZeroVec  == <<"zero", 0>>
MixedVec == <<"mixed", 0>>
Vec      == ({"x", "dx"} \X Nat) \cup {ZeroVec, MixedVec}

Window == index0 + 1 .. index1

-----------------------------------------------------------------------------
(* Operators the handlers share. A definition commented as a slip is a wrong   *)
(* form of the one after it, kept to see which property would notice it.      *)

\* A mean over span steps; it is even while every level weighs the same.
NoMean == [levels |-> {}, span |-> 0, even |-> TRUE]

\* Slip: scaled by the width of one step instead of that of the window.
AddToMeanUnscaled(mean, k, span) ==
  [levels |-> mean.levels \cup {k}, span |-> 1,
   even   |-> mean.even /\ mean.span = span - 1]

\* MatScale by (span - 1)/span and add of 1/span times the mass of level k.
AddToMean(mean, k, span) ==
  [levels |-> IF span = 1 THEN {k} ELSE mean.levels \cup {k},
   span   |-> span,
   even   |-> span = 1 \/ (mean.even /\ mean.span = span - 1)]

\* The linear solve over a window: right when the sensitivity it starts from
\* and the matrices both belong to the window.
Propagated(from, jac, mean) ==
  IF /\ from = DX(index0)
     /\ jac = Window
     /\ mean.levels = Window /\ mean.even
  THEN DX(index1) ELSE MixedVec

\* Slip: _t0 from the file index.
WindowStartByIndex == index1

\* _t0 = sys.time: the window is measured on the system's clock.
WindowStart == time

\* while (t_step < n_steps) of the driver.
StepsLeft == calls < NSteps

\* Slip: J_int keeps what the last solve left in it.
KeptIntegral == jint

\* J_int.zero() when a solve begins.
ClearedIntegral == {}

-----------------------------------------------------------------------------
\* set_elem_operation_object adds zeroed sensitivities, which is what they are
\* at level 0; the driver resets system.time. What an earlier march left in
\* system.solution is its last level, or the zero vector in a new process.
Init ==
  /\ pc = "idle"
  /\ calls = 0
  /\ index0 = 0 /\ index1 = 0
  /\ t0 = 0 /\ time = 0
  /\ sysSol \in {ZeroVec, X(LastFile + 1)}
  /\ locSol = sysSol
  /\ jint = {} /\ mavg = NoMean /\ fint = {}
  /\ dsol0 = DX(0) /\ dsol1 = DX(0)
  /\ discarded = FALSE
  /\ evaluations = 0 /\ qspan = 0

\* sensitivity_solve up to its loop.
BeginSolve ==
  /\ pc = "idle"
  /\ StepsLeft
  /\ pc' = "iterate"
  /\ index0' = index1
  /\ index1' = index1 + 1
  /\ t0' = WindowStart
  /\ time' = time + 1
  /\ jint' = ClearedIntegral
  /\ mavg' = NoMean
  /\ fint' = {}
  /\ evaluations' = 0
  /\ UNCHANGED <<calls, sysSol, locSol, dsol0, dsol1, discarded, qspan>>

\* read_in_vector raises an error when the file is missing.
MissingFile ==
  /\ pc = "iterate"
  /\ index1 > LastFile
  /\ pc' = "aborted"
  /\ UNCHANGED <<calls, indices, t0, time, sysSol, locSol, matrices, dsol0,
                 dsol1, discarded, output>>

\* One pass: the solution of level index1 is read into solution() and the
\* Jacobian and the mass are assembled there; sensitivity_assemble takes the
\* system's own solution vector; the linear solve writes dsol1.
Assemble ==
  /\ pc = "iterate"
  /\ index1 <= LastFile
  /\ pc' = "judge"
  /\ locSol' = X(index1)
  /\ jint' = jint \cup {index1}
  /\ mavg' = AddToMean(mavg, index1, time - t0)
  /\ fint' = fint \cup {sysSol}
  /\ dsol1' = Propagated(dsol0, jint', mavg')
  /\ UNCHANGED <<calls, indices, t0, time, sysSol, dsol0, discarded, output>>

\* amp <= max_amp: dsol1 becomes the previous sensitivity.
Accept ==
  /\ pc = "judge"
  /\ pc' = "idle"
  /\ calls' = calls + 1
  /\ dsol0' = dsol1
  /\ UNCHANGED <<indices, t0, time, sysSol, locSol, matrices, dsol1, discarded,
                 output>>

\* amp > max_amp past the last index: the window is thrown out. dsol1 is set to
\* dsol0 and then zeroed.
Reject ==
  /\ pc = "judge"
  /\ index1 > MaxIndex
  /\ pc' = "idle"
  /\ calls' = calls + 1
  /\ dsol1' = ZeroVec
  /\ discarded' = TRUE
  /\ UNCHANGED <<indices, t0, time, sysSol, locSol, matrices, dsol0, output>>

\* Slip: the clock is not advanced with the index.
WidenIndexOnly ==
  /\ pc = "judge"
  /\ index1 <= MaxIndex
  /\ pc' = "iterate"
  /\ index1' = index1 + 1
  /\ UNCHANGED <<calls, index0, t0, time, sysSol, locSol, matrices, dsol0, dsol1,
                 discarded, output>>

\* Slip: no test of max_index.
WidenAlways ==
  /\ pc = "judge"
  /\ pc' = "iterate"
  /\ index1' = index1 + 1
  /\ time' = time + 1
  /\ UNCHANGED <<calls, index0, t0, sysSol, locSol, matrices, dsol0, dsol1,
                 discarded, output>>

\* amp > max_amp: try a window one step longer.
Widen ==
  /\ pc = "judge"
  /\ index1 <= MaxIndex
  /\ pc' = "iterate"
  /\ index1' = index1 + 1
  /\ time' = time + 1
  /\ UNCHANGED <<calls, index0, t0, sysSol, locSol, matrices, dsol0, dsol1,
                 discarded, output>>

\* evaluate_q_sens_for_previous_interval: one pass per level from index0 to
\* index1 - 1, each reading the file of index1, with system.time left at the
\* time of the last pass.
EvaluateQ ==
  /\ pc = "idle"
  /\ calls > 0
  /\ evaluations < MaxEvaluations
  /\ index1 > index0
  /\ evaluations' = evaluations + 1
  /\ qspan' = time - t0
  /\ locSol' = X(index1)
  /\ time' = t0 + (index1 - 1 - index0)
  /\ UNCHANGED <<pc, calls, indices, t0, sysSol, matrices, dsol0, dsol1,
                 discarded>>

Iterate == MissingFile \/ Assemble \/ Accept \/ Reject \/ Widen

Next == BeginSolve \/ Iterate \/ EvaluateQ

Spec == Init /\ [][Next]_vars

\* The loop runs on the caller's thread without waiting for anything.
FairSpec == Spec /\ WF_vars(Iterate)

-----------------------------------------------------------------------------
(* Properties. *)

\* Indices, clocks and vectors have their types and a window is never empty
\* once a solve has begun.
TypeOK ==
  /\ pc \in {"idle", "iterate", "judge", "aborted"}
  /\ calls \in 0 .. NSteps
  /\ index0 \in Nat /\ index1 \in Nat
  /\ t0 \in Nat /\ time \in Nat
  /\ sysSol \in {ZeroVec, X(LastFile + 1)} /\ locSol \in Vec
  /\ jint \subseteq Nat
  /\ mavg \in [levels : SUBSET Nat, span : Nat, even : BOOLEAN]
  /\ fint \subseteq {ZeroVec, X(LastFile + 1)}
  /\ dsol0 \in Vec /\ dsol1 \in Vec
  /\ discarded \in BOOLEAN
  /\ evaluations \in 0 .. MaxEvaluations
  /\ qspan \in Nat

\* Until a window is thrown out, both stored sensitivities are that of the last
\* window's end when a solve returns: each window starts from the level where
\* the one before it ended, its Jacobian integral and mean mass cover exactly
\* its own levels, and the mean weighs them evenly.
AcceptedBelongsToWindow ==
  (pc = "idle" /\ ~discarded) => dsol0 = DX(index1) /\ dsol1 = DX(index1)

\* The width of the window on the clock is the number of solutions read for it,
\* also when output evaluations have moved the clock back: the weights of the
\* mean mass matrix and the length of the interval are taken from that clock.
WindowMeasured == pc = "judge" => time - t0 = Cardinality(jint)

\* The first output evaluated after a solve is interpolated over the window of
\* that solve, however often outputs were evaluated before it. (A second
\* evaluation is not: the first leaves the clock inside the window.)
FirstEvaluationOverWindow == evaluations = 1 => qspan = index1 - index0

\* The solver implements the march it promises; a discarded window or a missing
\* file ends the march.
March == INSTANCE WindowMarch WITH
  LastLevel <- LastFile,
  level <- dsol0[2],
  phase <- IF discarded \/ pc = "aborted" THEN "ended" ELSE "marching"

ImplementsMarch == March!Spec

\* With the files up to max_index + 1 a solve that begins inside the time
\* integration returns to the driver and does not run out of files, however
\* unstable its windows are: the loop stops widening past max_index.
SolveReturns == (pc = "iterate" /\ index0 <= MaxIndex) ~> (pc = "idle")

\* "present sol is same as previous sol", of a rejected window.
RejectedKeepsPrevious == (pc = "idle" /\ discarded) => dsol1 = dsol0
=============================================================================
