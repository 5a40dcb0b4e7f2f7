--------------------------- MODULE AnalysisSystem ---------------------------
(***************************************************************************)
(* NonlinearSystem and AssemblyBase: the solves of one system of equations, *)
(* one action per call, for drivers that EXTEND this module.                *)
(*                                                                          *)
(* elem is what the element operations read while they assemble: the design *)
(* in the parameters and field functions, and the mode a driver has put its *)
(* material in. A vector or matrix is named by what it was assembled from;  *)
(* the solution also by how far Newton's method has come. Asserts of the    *)
(* code are guards, so a driver that fails one is stuck.                    *)
(***************************************************************************)
EXTENDS Integers

CONSTANTS
  Designs,   \* vectors of design variables
  Modes,     \* settings of the material the driver switches between
  MaxNewton  \* bound: Newton iterations of one solve

ASSUME AnalysisAssumption == MaxNewton \in Nat \ {0}

VARIABLES
  op,         \* _operation
  attached,   \* element operations are attached to the assembly
  dependence, \* an ElemParameterDependence is attached to the assembly
  elem,       \* <<design, mode>> the elements are evaluated with
  newton,     \* Newton iterations of the solve in progress
  sol,        \* system.solution
  matrix,     \* the Jacobian
  pencil,     \* matrix_A and matrix_B
  eigen,      \* the pencil the eigenpairs of the eigensolver belong to
  nconv,      \* _n_converged_eigenpairs
  adjoint     \* the adjoint solution

protocol == <<op, attached, dependence>>
eigenData == <<pencil, eigen, nconv>>
analysisVars == <<op, attached, dependence, elem, newton, sol, matrix, pencil,
                  eigen, nconv, adjoint>>

None == <<"none">>
Elems == Designs \X Modes

\* Iterates of the solve about elem e; the last is converged.
ZeroSol      == <<"zero">>
Iterate(e)   == <<"iterate", e>>
Converged(e) == <<"solution", e>>

\* The Jacobian of the elements e at the solution s.
Jacobian(e, s) == [elem |-> e, about |-> s]

\* matrix_A and matrix_B, or their derivatives by parameter p.
PencilOf(e)            == [elem |-> e, by |-> {}]
PencilDerivative(e, p) == [elem |-> e, by |-> {p}]

AnalysisInit ==
  /\ op = "NONE" /\ attached = FALSE /\ dependence = FALSE
  /\ elem \in Elems
  /\ newton = 0 /\ nconv = 0
  /\ sol = ZeroSol
  /\ matrix = None /\ pencil = None /\ eigen = None /\ adjoint = None

AnalysisType ==
  /\ op \in {"NONE", "NONLINEAR_SOLVE"}
  /\ attached \in BOOLEAN /\ dependence \in BOOLEAN
  /\ elem \in Elems
  /\ newton \in 0 .. MaxNewton
  /\ nconv \in Nat

Idle == op = "NONE" /\ ~attached

-----------------------------------------------------------------------------
(* Calls of a driver. Each leaves alone what it does not name.               *)

\* The design variables are copied to the field the material reads.
SetElem(e) == elem' = e

\* A driver's assembly object is new in every evaluation.
NewAssembly == attached' = FALSE /\ dependence' = FALSE

\* solution->zero() before a solve.
ZeroSolution == sol' = ZeroSol

\* NonlinearSystem::solve: the operation is taken, element operations attached.
SolveBegin ==
  /\ Idle
  /\ op' = "NONLINEAR_SOLVE"
  /\ attached' = TRUE
  /\ newton' = 0
  /\ UNCHANGED <<dependence, sol, matrix, eigenData, adjoint>>

\* The solver calls residual_and_jacobian at the iterate, then moves it.
NewtonIteration ==
  /\ op = "NONLINEAR_SOLVE"
  /\ newton < MaxNewton
  /\ newton' = newton + 1
  /\ matrix' = Jacobian(elem, sol)
  /\ sol' \in {Iterate(elem), Converged(elem)}
  /\ UNCHANGED <<protocol, elem, eigenData, adjoint>>

\* The solver returns, converged or not; operations are detached again.
SolveEnd ==
  /\ op = "NONLINEAR_SOLVE"
  /\ newton > 0
  /\ op' = "NONE"
  /\ attached' = FALSE
  /\ UNCHANGED <<dependence, elem, newton, sol, matrix, eigenData, adjoint>>

\* adjoint_solve: the transposed Jacobian, assembled on request or left from the
\* last solve, with the derivative of an output as its right hand side.
AdjointSolve(assemble) ==
  /\ Idle
  /\ matrix' = IF assemble THEN Jacobian(elem, sol) ELSE matrix
  /\ adjoint' = [lhs |-> matrix', rhs |-> Jacobian(elem, sol)]
  /\ UNCHANGED <<protocol, elem, newton, sol, eigenData>>

\* eigenproblem_solve: both matrices are assembled and the pencil is solved for n
\* eigenpairs, of which some converge.
EigenproblemSolve(n) ==
  /\ Idle
  /\ pencil' = PencilOf(elem)
  /\ eigen' = elem
  /\ nconv' \in 0 .. n
  /\ UNCHANGED <<protocol, elem, newton, sol, matrix, adjoint>>

\* The eigenpairs counted as converged exist: reinit replaces the eigensolver and
\* keeps the count.
EigenpairsExist == nconv > 0 => eigen # None

\* get_eigenpair scales the vector to a unit product with matrix_B, whatever
\* that holds. The scaling is right if it is the matrix of the pencil solved.
Normalized == pencil = PencilOf(eigen)

\* eigenproblem_sensitivity_solve: eigenpairs and denominators with matrix_B,
\* then both matrices are overwritten with their derivatives by p.
EigenproblemSensitivity(p) ==
  /\ nconv > 0 /\ eigen # None
  /\ ~attached
  /\ pencil' = PencilDerivative(elem, p)
  /\ UNCHANGED <<protocol, elem, newton, sol, matrix, eigen, nconv, adjoint>>

\* The sensitivity of an eigenvalue is right if the denominators were those of
\* the pencil and the derivatives those of the same elements.
EigenSensitivityRight == Normalized /\ elem = eigen

\* EquationSystems::reinit after the mesh has changed to m: the solution is
\* carried over, matrices are empty and the eigensolver is new.
Reinit(m) ==
  /\ elem' = <<elem[1], m>>
  /\ matrix' = None /\ pencil' = None /\ eigen' = None
  /\ UNCHANGED <<protocol, newton, sol, nconv, adjoint>>

AttachDependence == ~dependence /\ dependence' = TRUE
ClearDependence  == dependence' = FALSE
=============================================================================
