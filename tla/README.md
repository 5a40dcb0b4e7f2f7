# Verification of MAST in TLA+

MAST (Multidisciplinary-design Adaptation and Sensitivity Toolkit) is a C++ library on
libMesh and PETSc for multiphysics analysis, sensitivities and optimization. Two things decide
whether an answer is the answer to the right question. One is the control around the
arithmetic: which time level a vector holds, which file is read, which attempt is restarted from
what, which bracket is divided, which design a gradient belongs to. The other is that the
hundreds of hand-written derivatives are the derivatives of the formulas beside them, since
Newton's method and every optimizer rely on it. Both are modelled here, model-checked with TLC,
and the control of the solvers, the cut elements and the derivatives of the property cards are
proved correct with TLAPS for all values of the constants.

Contents: 1 inventory, 2 how the models abstract, 3 modules, 4 runs, 5 fairness, 6 proofs,
7 disagreements between code and documentation, 8 what is not modelled, 9 plan.

## 1. Inventory of the system

| Component | State it keeps | Operations | Hard behaviour | Correct when |
|---|---|---|---|---|
| Time integration (`solver/transient_solver_base`, Newmark of order 1 and 2) | histories of solution, velocity, acceleration and their sensitivities as named vectors of the system; `_first_step`, `_first_sensitivity_step`; `system.time` | attach and clear, two first-step calls, `solve`, `sensitivity_solve`, two advances | several marches over one system; shift loops over any number of stored levels; rates recomputed from iterates; files between marches | slot *i* holds the *i*-th last level in every history, and the clock agrees |
| Stabilized sensitivity (`solver/stabilized_first_order_transient_sensitivity_solver`) | window `_index0.._index1`, `_t0`, integral of the Jacobian, mean mass, two sensitivities | `sensitivity_solve`, `evaluate_q_sens_for_previous_interval` | a window that widens until it is stable, possibly past the last file; outputs move the clock | every accepted sensitivity belongs to the end of its window |
| Continuation (`solver/continuation_solver_base`, pseudo-arclength) | `arc_length`, search direction, `_initialized`, load parameter | attach and clear, `initialize`, `solve` | restarts with a halved step, adaptation of the step, convergence racing the iteration limit | restarts are exact, the step stays in range, the loop ends |
| Flutter (`aeroelasticity`: UG, time domain, PK) | `_flutter_solutions` and the multimap `_flutter_crossovers` | scan, `find_next_root`, `find_critical_root`, bisection, clear | the multimap is re-keyed while it is searched; degenerate brackets | no cross-over point is lost, brackets keep a sign change, the critical root is the first |
| Nonlinear system and assembly (`base`) | `_operation`; attached element operations, discipline, parameter dependence; solution, matrices, eigenpairs, adjoint | `solve`, `eigenproblem_solve`, `sensitivity_solve`, `adjoint_solve`, `reinit`, outputs | attach/detach protocol with early exits; results that outlive the elements they were assembled from | one operation at a time, every product is of one design and one setting of the material |
| Optimization (`optimization`: GCMMA, NLopt, NPSOL, DOT) | GCMMA's iterates, asymptotes and counters, a ring of objective values | `optimize` with inner and outer iterations, `evaluate`, `output` | backtracking, termination by three criteria, designs whose analysis diverges | terminates; the subproblem is about the design it is built for; values and gradients are of one design |
| Function evaluations (`examples/structural/example_5`, `example_6`) | density, level set, mesh, velocity fields, penalties | `evaluate`, sensitivities, `output` | failure in the middle of an evaluation; a mesh and a material every evaluation changes and the next one inherits | the contract of `evaluate`; what was initialized is cleared |
| Functions, parameters, discipline, boundary conditions (`base`, `boundary_condition`) | name-to-function maps; loads by boundary | add, remove, look up; values and derivatives | function objects outlived by their names | derivatives are those of the values |
| Property cards (`property_cards`, `coordinates`) | cached matrices, `_initialized` of beam sections | value and `derivative` of about sixty function objects | products of many parameters, offsets, layers | every derivative is exact, cards agree with each other |
| Elasticity (`elasticity`) | stress data | residuals, Jacobians, sensitivities, stresses, of beams, plates and solids, with loads | hand-written derivatives of nonlinear strains, thermal and aerodynamic loads | derivatives are exact, stresses do the work of the residual |
| Heat conduction (`heat_conduction`) | none | residuals of conduction, capacitance, fluxes, convection, radiation | the same | the same |
| Fluid (`fluid`) | flow constants | fluxes, characteristics, stabilized residual, walls, far field, frequency domain | 5 × 5 Jacobians and eigenvectors written entry by entry | Jacobians are exact, characteristics diagonalize the flux, a uniform flow is a solution |
| Level set (`level_set`) | cut cells, sub-elements, interface dofs, copies of the solution in factored elements | `init`, `clear`, condensation, assembly on cut cells | many geometric cases at vertices and edges; unknowns outside the global system | sub-elements cover the cell once; a condensed step is a step of the full system |
| Complex and multiphysics solvers (`solver`) | block systems, per-discipline assemblies and ops | attach, `solve` | nested PETSc callbacks | the callbacks see the discipline they belong to |
| Mesh, numerics, utility | geometry | shape functions, LAPACK wrappers, plotting | floating-point arithmetic | outside a model checker's reach |
| Examples, tests | drivers | time loops, load loops, optimization loops | they are the environment the solvers are used in | modelled as the environment of the components above |

How they interact: a driver attaches a discipline and a system to an *assembly*, attaches element
operations (or a *transient solver*, which is one) to it, and calls the *nonlinear system*; the
system calls back into the assembly, which asks element operations for local residuals, Jacobians
and sensitivities; an element asks the function objects of its *property card* and of its
*boundary conditions*, which refer to the same *parameters* the optimizer writes into.
The transient solver's histories are vectors owned by the system under fixed names, so solvers
that are attached one after the other share them. Marches communicate by files of solutions
(`write_out_vector`, `read_in_vector`). Continuation and flutter solvers call the assembly from
their own loops. An optimizer calls `evaluate`, which runs the analyses and their sensitivities.
Nothing here runs concurrently: hard behaviours come from the order of calls, from state that
survives a call, from failures in the middle of a loop, and from formulas written twice. No
component waits on another, so deadlock in the sense of mutual waiting does not arise.

`PROJECT.json` has the full list of components with their status, and the hazards, each at its
line with the properties that would notice it.

## 2. How the models abstract

For the control of solvers, evaluations and optimizers:

* **Vectors and matrices are named by where they come from.** In the transient models a vector is
  a quantity and a time level: `<<"x", 3>>` is the solution (or one of its time derivatives) of
  level 3, `<<"dx", 3>>` its sensitivity; what combines different levels is `MixedVec`, and
  nothing computed from it is right again. In `AnalysisSystem` it is the design and the setting
  of the material the elements were evaluated with, and the solution they were assembled about.
  In `StabilizedSensitivity` a matrix is the set of levels it was assembled at.
* **Norms, eigenvalues, amplification factors, objective values** are free choices: a window is
  stable or not, an iterate converges or not, a design diverges or not. The properties hold for
  every choice. The Fortran routines of GCMMA are free choices too.
* **Real quantities that drive control** (arc length, reference velocity) are integers on a grid.

For the arithmetic of cards and elements (`DifferenceQuotient` and what extends it):

* **A real is a residue modulo `Prime`²**, and `++ -- ** //` are exact. A step of `Prime` in an
  argument changes a rational function by exactly `Prime` times its derivative modulo `Prime`²,
  because the higher Taylor terms vanish. So `Quotient` computes the derivative of what the code
  *returns*, modulo `Prime`, with no derivative written by hand, and it is compared with what the
  code returns as the derivative, which is translated on its own. A wrong term survives this
  only if it vanishes modulo 101 at every sample. Two designs and two solutions are sampled, in
  all four combinations; all parameters are nonzero and differ, so no term drops out.
* **Index formulas.** The matrices of the fluid, which the code assigns entry by entry, are written as
  formulas in the indices of equation and direction. The runs show that these formulas are derivatives
  and inverses of each other; that a single entry of the C++ is that of the formula was compared by
  reading, so a slip in one entry shows only as far as that comparison goes.
* **Roots** (the speed of sound, piston theory, the von Mises stress, the p-norm) take one branch modulo
  `Prime`, lifted to `Prime`² by a Newton step; samples are chosen so that roots exist. Which
  characteristics enter, which depends on the sign of a speed, is the constant `Entering`.
* **Exponential and logarithm** of the stress functionals are residue functions with the right
  derivatives, which is all a chain rule can see: `Exp` is its own, that of `Log(a)` is 1/a.
* **One quadrature point**: element vectors are the integrand, with `JxW`, and the values and
  gradients of the unknowns at the point are the unknowns. A shape function and its gradient
  enter linearly, so an identity in these is an identity of the assembled vectors.
* **The imaginary unit** of the frequency-domain fluid is `Iota`, a residue whose square is -1 (there
  is one modulo 101): identities of complex rational functions hold for residues too.
* Rounding is not modelled. `LevelSetIntersection` has integer coordinates, `FactoredElements`
  integers modulo a small prime, for the same reason.

Common to all: wrong forms that a mutation uses are kept beside the right one and commented
"Slip". The models are of a build with assertions enabled: a failing `libmesh_assert` or
`libmesh_error` either disables the action (the caller's duty) or, where the caller cannot avoid
it, is an action into `aborted`. One definition is of a build without them:
`DOrthotropicStiffness2D`, the derivative of the plane stiffness of the orthotropic card, whose last
statement (`orthotropic_material_property_card.cpp:545`) adds a block of size 3 to one of size 2.
Eigen asserts that the sizes agree, so a build with assertions stops there, and every plane
orthotropic sensitivity with it; without assertions the size of the left side counts, and that is
the matrix the model returns and `CardDerivativesExact` compares.

## 3. Modules

### TransientSolver
`TransientSolverBase` with the first- and second-order Newmark solvers, marched as
`examples/fluid/example_1` marches them. `march` is the driver in charge: a primary march
(`compute_flow`) that writes one solution file per level, a sensitivity march
(`compute_transient_sensitivity`) that reads them back, or a coupled march that solves each step
and then its sensitivity. `stage` is the driver's place in its time loop. `sysSol` and `locSol`
are `system.solution` and `current_local_solution`: the latter is what `solution(0)` returns, and
only `System::update()` copies one to the other. `sol`, `vel`, `acc`, `dsol`, `dvel` are the
histories; `saved` the files. One action per call: attach, clear, initial conditions, the two
first-step calls, `solve` (which leaves in `velocity(0)` the rates of whichever iterate was assembled
last, so those of the solution or others), reading a file, `sensitivity_solve`, and the two advances,
which recompute rates, shift the histories by the same loop, and move the clock. `StartProgram` is
`main` run again with another number of steps, after the last run ended, failed or was killed: of
the state only the files survive.

Levels are counted from the initial conditions of a march, not from time 0. Only the sensitivity
drivers assign `system.time` (`example_1.cpp:1202`, `:1312`); `compute_flow` (`:1030-1136`) does not,
nor does attaching, so a second primary march of a program goes on from the old time (`StartTime`).
`began` records the time a march started at, and `PrimaryHistoryAligned` says that the clock is
`step + 1` steps after it.

### StabilizedSensitivity, WindowMarch
`sensitivity_solve` is four steps: `BeginSolve` (the window starts where the last ended, matrices
are zeroed), `Assemble` (read the file of `_index1`, accumulate, solve) or `MissingFile`, and then
`Accept`, `Widen` or `Reject`. `EvaluateQ` is the output evaluation between solves, which
leaves `system.time` inside the interval. `WindowMarch` is what the solver promises: a level that
only advances, or a march that has ended and keeps the last level. `ImplementsMarch` is the
refinement, with `level` the level of the previous sensitivity `dsol0`.

### ContinuationSolver
`solve` is `BeginSolve` (keep `X0`, `p0`, compute the first norm, which already updates the
direction, save the direction), `Iterate` (one Newton iteration; convergence is free), then
`Continue`, `Restart` (halve, put back solution, load and direction) or `Return` (adapt the arc
length). The driver attaches and clears a load parameter and initializes once. `x`, `p`, `dir`
count the updates since the load step began, which is enough to say whether a restart put
everything back. `restarts`, `firstArc` and `last...` are observers.

### FlutterSearch, RootLedger, MCFlutter
Both solvers have the same search over different reference values: velocity upwards
(time domain) or reduced frequency downwards (UG). `ScanForRoots` analyzes the scan points and
identifies cross-over points in one call, as the code does. `FindNextRoot` and `FindCriticalRoot`
are entered from idle; `Narrow`, `Settle` and `FailInsertion` are the iterations of
`_bisection_search` that continue, end, or fail the assertion on the insertion into the map;
`CriticalSearch` and `CriticalReturn` are the loop of `find_critical_root` around it. A settled
cross-over point is reinserted under the velocity of its root, converged or not. `RootLedger` is
what the searches promise: pending points are settled one at a time, none is lost or settled
twice. `KeepsLedger` is the refinement, a point being identified by its mode and bracket.

### AnalysisSystem, DesignEvaluation
`AnalysisSystem` is `NonlinearSystem` with `AssemblyBase`: one action per call for the nonlinear
solve (`SolveBegin`, `NewtonIteration`, `SolveEnd`), the adjoint solve, the eigenvalue solve and its
sensitivity, `reinit`, and the attachment of element operations and of a parameter dependence.
`elem` is the pair of design and material setting the elements read at that moment. It has no
specification of its own: the function evaluations below EXTEND it and say in which order the calls
come. `DesignEvaluation` is what an optimizer relies on: one evaluation at a time, whose values
and gradients are those of the design asked for; a design whose analysis diverges has large values,
and its gradients keep what the arrays held.

### GCMMA
`GCMMAOptimizationInterface::optimize`: outer iterations (`BeginOuter`, `OuterEvaluated`), inner
iterations (`Subproblem`, `Backtrack`, `EvaluateAgain`, `TrialEvaluated`, `NotConservative`), and
the test of convergence (`EndOuter`). `xval`, `xold1`, `xmma`, `fval`, `fnew`, `fapp`, `dfdx` are the
code's arrays, named by the design they were computed at; `ring` is the ring of objective values
and `back` the number of halvings of the backtracking. What `evaluate` answers is what
`DesignEvaluation` promises, which the two evaluations below are checked against.

### SimpOptimization, LevelSetOptimization
The evaluations of `example_6` (penalized density) and `example_5` (level set with mesh
refinement, stress and eigenvalues), one action per call the driver makes, over `AnalysisSystem`.
In `SimpOptimization` the modulus has one penalty for the solve and another for stresses, shared
by everything assembled after it is set, and the density field must be cleared before it can be
initialized again. In `LevelSetOptimization` the mesh is the setting: an evaluation refines it,
and the next one, the eigenpairs and the output inherit it. Both refine `DesignEvaluation`
(`KeepsContract`): `values` and `gradient` are a design only if every function and every entry of
the arrays was computed from a solution, an adjoint, an eigenpair and an element setting of that
design, in the place the optimizer looks for it.

### LevelSetIntersection, MCIntersection
The cutting of one element by the zero contour: selection of the case (`Selected`), new nodes,
pieces, their signs, the marked interface sides, `init` by kind of case, and `clear`. The
constants are any convex quadrilateral with integer corners that the number of cut positions
divides (`CornerAssumption`, which makes every cut an integer point), any finite set of values of
the level set apart from the tolerance, and room for at least the four new sub-elements of the
code's `_max_elem_divs = 4` (`RoomAssumption`, `level_set_intersection.cpp:36`).

### FactoredElements, MCFactored
Newton's method on a mesh where elements around a void node have their own copies of the
solution: condensation of the element equations (`LevelSetInterfaceDofHandler`), assembly
(`LevelSetNonlinearImplicitAssembly`), and the recovery of the copies in a callback after every
iteration (`LevelSetVoidSolution`), which lags behind the line search. `copies` is `_elem_sol`,
`old` the vector "old_solution", `step` what PETSc reports as the update. Assumed: `Prime` makes the
remainders a field (`FieldAssumption`), the mesh is finite and its factored elements have material
and void nodes (`MeshAssumption`) and some volume of material (`FractionAssumption`). A state starts
only with elements whose void equations can be solved (`Regular`): the code inverts them.

### DifferenceQuotient, MaterialCards, SectionCards, StrainOperators
`DifferenceQuotient` has the residues, the matrices and the quotient. `MaterialCards` are isotropic and
orthotropic materials with all their matrices, their orientation, and the three-dimensional card;
`SectionCards` the beam, plate and laminate sections, with every function object a client can ask
for in `CardValue` and `CardDerivative`. `StrainOperators` is `FEMOperatorMatrix` and the strain
operators of the elements: linear maps from names of unknowns to strains.

### PlateElement, BeamElement, SolidElement, HeatElement, StructuralLoads
The residuals, Jacobians, sensitivities and stresses of structures and heat, in von Kármán and
Green-Lagrange strain where the code has them, with thermal loads, lumped and consistent inertia,
pressure on faces and sides, and piston theory of orders 1 to 3. Definitions are named by what the
code computes, with a prefix `D` for the derivative with respect to a parameter and a suffix `DX`
for that with respect to the solution.

### FluidFlux, FluidCharacteristics, FluidElement
`FluidFlux`: conservative and primitive variables, the advection and diffusion flux with
Jacobians. `FluidCharacteristics`: eigenvectors for the major axis of a normal and their inverse,
entropy variables, wall fluxes. `FluidElement`: the stabilized internal and storage residuals, the
side residuals (symmetry, slip wall, no-slip wall, far field), the integrated force and surface
pressure, and the frequency-domain residuals, with their linearizations.

### StressFunctional
The von Mises stress at the stored points (both skins of two elements) and its aggregates: the weighted
p-norm of `StressStrainOutputBase`, also with a point at the cap of its exponential
(`"capped p-norm"`), the KS function and the smooth ramp, with `Functional`, `FunctionalSensitivity`
(a sum over elements, and over boundary points for a topology parameter, whose measure is the
velocity of the boundary) and `FunctionalDX` (one element's contribution, from integrals over both).

### TransientElement
What the time integrators make of the elements: `BeamStep` of `SecondOrderNewmarkTransientSolver` and
of `GeneralizedAlphaTransientSolver` (a beam with lumped inertia, a thermal load, pressure and piston
theory, whose rates are `UpdatedVelocity` and `UpdatedAcceleration` of the unknown displacements, mixed
with the previous step's by `ElementData`), and `FirstStep` of `FirstOrderNewmarkTransientSolver` (heat
conduction, and flow in the plane). The stage `"step"` is `solve`: the solution is unknown, and the
Jacobian weighs `f_m_jac_xddot`, `f_m_jac_xdot` and `f_x_jac` by the derivative of the rates. The stage
`"start"` is `solve_highest_derivative_and_advance_time_step`: the solution is given and the highest rate
unknown. A first-order step is also differentiated by the *previous* solution and rate, which is what
`elem_sensitivity_contribution_previous_timestep` hands to a sensitivity march. The previous state of
a beam is one sample (`Before`), which no derivative is taken by.

### ElementSensitivity, MCElements
The client of all these formulas. A state is a design with a solution and the answer to the last
question. Actions are what happens between questions: the section is initialized, the optimizer
writes parameters, the solver writes a solution (in any order; function objects refer to both),
`AskSensitivity` asks one object for the derivative by one parameter, `AskJacobian` for one column of
its Jacobian, and `UseAnswer` goes on. `Value`, `Sensitivity` and `JacobianColumn` select the object.
`KnownGap` names what the code does not differentiate or differentiates wrongly (section 7): the
properties exclude exactly these pairs of object and variable. The tangent of the nonlinear plate,
which the code writes out product by product and incompletely, is not excluded: `PlateLeftOut` states
the products that are missing, and `ElementTangentsExact` that the tangent and these together are
the derivative of the residual, so that any other missing or wrong product is noticed.

## 4. Runs

| Run | Instance | Shows |
|---|---|---|
| `transient_first` | order 1, 3 stored levels, marches of at most 6 steps, all three drivers in any order, programs killed and run again with another number of steps | `PrimaryHistoryAligned`, `SensitivityHistoryAligned`: histories aligned with each other and the clock; `FilesHoldTheirLevel`; types |
| `transient_second` | order 2, 3 stored levels, marches of at most 6 steps, objects reused and the clock going on | `PrimaryHistoryAligned` for solution, velocity and acceleration, whatever rates the nonlinear solver leaves |
| `stabilized` | files 0..7, `max_index` 6, 6 solves, up to 2 outputs between them, every stability choice | `AcceptedBelongsToWindow`; widths agree with the clock (`WindowMeasured`, `FirstEvaluationOverWindow`); `ImplementsMarch`; `SolveReturns` |
| `continuation` | `max_it` 4, steps in 2..17, initial arc lengths 2, 5, 9, 16, 3 load steps | `AttemptsStartAlike` (exact restarts), `ArcLengthInRange`, `RestartsBounded`, `GaveUpOnlyAtMinStep`, `SolveReturns` |
| `flutter` | both solvers, 3 scan points, 2 modes, 2 iterations | `BracketKeepsSignChange`, `CriticalIsFirstInstability`, `KeepsLedger`, `SearchReturns` |
| `gcmma` | 4 designs of which one is outside the bounds, the objectives 0 and 1, any set of poor and diverging designs, 4 outer and 1 more inner iterations, a ring of 3, 2 halvings | `SubproblemAboutX` (no gradient of an earlier design enters a subproblem), `AcceptedNotPoor`, `EarlyStopSettled`, `OptimizeReturns` |
| `simp` | 2 designs, any of them diverging, 3 variables, 2 Newton iterations | `Released`, `KeepsContract` |
| `levelset` | 2 designs, any of them diverging, 2 meshes, with and without eigenvalues, any number of converged eigenpairs | `KeepsContract`, `ModesOfDesign`, `AbortsWithoutEigenpairs` |
| `intersection` | a parallelogram with four or nine nodes, values -3, -1, 3 with tolerance 2 at each corner, 3 positions of each cut | `Partition`, `InterfaceMatches`, `SignsRight` |
| `factored_elements` | 3 elements, 2 of them factored and sharing a void node, modulo 3, 2 iterations with full and damped steps | `StepSolvesFullSystem`, `TrialResidualExact` |
| `elements` | modulo 101², two designs times two solutions, three layers, flows in the plane and in space, time steps of both integrators | `CardDerivativesExact`, `ElementSensitivitiesExact`, `ElementTangentsExact`, `CardsConsistent`, `StressesDoTheWork`, `FluxesConsistent` |
| `stabilized_reject` | 3 solves, files 0..3, `max_index` 2 | violated: `RejectedKeepsPrevious`, section 7 |

Why the bounds suffice. *Transient*: the shift loop has a middle slot only from 3 stored levels
on, and both runs have 3; 6 steps fill every slot twice, and three drivers one after the other is
every kind of leftover. `MaxStart` bounds the time at which a primary march may begin, as the clock
is never set back by one: 7 is one whole march before, 14 two. *Stabilized*: 8 files allow windows
of one to seven steps, a second window after a wide one, a window that runs past `max_index` and
one that ends exactly there; two outputs are the first one whose predecessor moved the clock.
*Continuation*: `max_it` 4 puts the desired number of iterations (3) below, at and above an
attempt's; arc lengths 2, 5, 9 and 16 are halved to the minimum exactly, with rounding, and in up
to three steps; 3 load steps see an adapted step adapted again. `RestartBound` only stops the
count of restarts; the bound is above any count that is reached. *Flutter*: three scan points
give a mode two cross-over points with a shared scan point, and two modes overlapping brackets;
`Spacing` bounds how often a bracket can be divided and is chosen so that `MaxIters` divisions
always fit. The limit `max_allowable_g` of the UG solver is in the model, but the instance has no
damping above it: that would multiply the number of scans without a new order of searches.
*GCMMA*: a ring of 3 is overwritten in the fourth outer iteration; one inner iteration more than
the first separates the limit from the conservative exit; with two objective values two designs
are within tolerance of each other or not, and 0 is what the unused slots of the ring hold. *Simp, level set*: two designs are the previous one and this
one, which is all that leaks from evaluation to evaluation; three variables have a first, a
middle and a last; two meshes are refined or not. *Intersection*: three values are below, within and
above the tolerance, which gives all sign patterns of the corners; three positions on each side
put a cut before, at and after the middle. *Factored*: two factored elements share a void node
and a material node with an element that is whole, so copies, condensation and plain assembly meet
in one row; the matrices are symmetric and not, and `TrialResidualExact` tries every value of the
copies modulo 3. *Elements*: see section 2 for the
modulus; three layers have a layer with neighbours on both sides, both dimensions of the fluid
have their own matrices, and samples of the normal have different major axes, whose eigenvectors
the code writes separately.

`CHECK_DEADLOCK FALSE` is set where the system may stop: a stabilized march ends with its driver's
loop or with a missing file, a flutter search and the cutting of an element with a failed
assertion, and Newton's method on factored elements with a singular matrix or its last iteration.
In all other runs deadlock is checked: a driver can always go on, which for the function
evaluations says that no call in the middle of one fails an assertion unforeseen.

## 5. Fairness

All loops run on the caller's thread and wait for nothing, so once `solve`, `sensitivity_solve`,
`find_*_root` or `optimize` has been entered its next step happens: weak fairness of `Newton`,
`Iterate`, `Find` and `Optimize`, the steps of those loops and nothing else. A driver is never
forced to call. Which outcome a step has (stable or not, converged or not, conservative or not) is
not subject to fairness: termination holds against a solver that never converges.
`OptimizeReturns` needs the starting design and the zero vector not to be poor: backtracking halves
the distance to `XOLD1`, which is one of these before two outer iterations are made, and does not
end when that is poor. The other models state no liveness: a function evaluation and the cutting of
an element are straight-line code, apart from Newton iterations bounded by PETSc.

## 6. Proofs

TLAPS proves the following for every value of the constants that meets the named assumptions.

* **SolverProofs**, on marches in time. `TypeCorrect`, `PrimaryMarchAligned`, `SensitivityMarchAligned`,
  `FilesCorrect`. Alignment is not inductive: between two waits the histories are in the middle of
  a step. `PrimaryInv` and `SensitivityInv` describe each stage of the march (what was solved,
  what was written into slot 0, how far the clock is from where the march began), and the lemma `ShiftHolds` shows that one
  shift of a history holding the last levels up to *n* gives one up to *n+1*, for any number of
  stored levels. `FilesCorrect` follows from the primary invariant, since only that march writes.
* **StabilizedSensitivityProofs**. `TypeCorrect`, `WindowsCorrect`, `MarchImplemented`,
  `WindowsMeasured`, `EvaluatedOverWindow`. `Ahead` (a window in progress is not empty) and
  `Windows` (what the matrices contain in each stage, and that the clock is inside the window) are
  inductive together; the refinement adds `Stops` (no solve reaches beyond the last file) and needs
  `LastFile <= MaxIndex + 1`: with more files a march may go on after a discarded window. The two
  theorems on the clock need no such bound: they relate the clock, the index and the outputs made
  since the last solve.
* **SolverProofs**, on continuation. `ContinuationTypeCorrect`, `RestartsAreExact`, `GivesUpLast`,
  `RestartsAreBounded` from the invariant `Attempt`, which counts the updates of an attempt (twice
  as many of the direction as of the solution, one more from the first norm). `RestartsAreBounded`
  adds that every restart halves the arc length; `2 ^ n` is known to the provers only as the number
  of subsets of `1 .. n`, from which `PowerNext` derives that it doubles. `ArcStaysInRange` needs the
  driver's initial arc length between `min_step` and `max_step`.
* **FlutterSearchProofs**. `TypeCorrect`, `BracketsKeepSignChange`, `CriticalIsFirst`,
  `LedgerImplemented`. The invariant adds to the properties that pending cross-over points keep
  the sign change (`SignOf`) and, in the time-domain solver, the key (`KeyedAt`) of the scan, and
  that no two have one mode and bracket. That `find_critical_root` returns the first key of the
  multimap then bounds roots found and instabilities pending alike.
* **GCMMAProofs**. `TypeCorrect`, `SubproblemsConsistent`, `NoPoorDesignAccepted`,
  `OutputIsCurrent`, `EarlyStopIsSettled`. The gradients in a subproblem are those of
  `XVAL` because a diverging design is poor and backtracking lets no poor design become `XVAL`; the
  invariant says at each step of `optimize` which arrays belong to which design. The early stop adds
  `RingHolds`: objective *n* is in slot *(n - 1) mod RelIters* until *n + RelIters* overwrites it and
  slots not reached are zero, so that equal slots are the last `RelIters` objectives in some order.
* **SimpOptimizationProofs**. `TypeCorrect`, `FieldsReleased`, `EvaluationKeepsContract`. The
  refinement of `DesignEvaluation`: the invariant says in each step of the evaluation what the
  solution, the Jacobian, the stress and the adjoint were computed from and with which penalty, and
  that the entries of the gradient before the current variable are right, for any number of
  variables, designs and Newton iterations.

* **LevelSetOptimizationProofs**. `TypeCorrect`, `AbortsOnlyWithoutEigenpairs`,
  `ModesWrittenAreCurrent`, `EvaluationKeepsContract`, for any number of variables, eigenvalues,
  refinements and Newton iterations. The mesh, the eigenpairs and the velocity outlive an
  evaluation, so the invariant says for each step on which mesh and for which design the data that
  is still read was computed, the ones a diverged evaluation leaves behind included. The refinement
  adds `Progress` (the entries of the gradients before the current variable are right) and assumes
  `OneKind`: no eigenvalue constraint, or one constraint and one variable. These are the problems for
  which the index of the array of gradients follows its rule; section 7 has the others.
* **LevelSetElementsProofs**, on intersections. `TypeCorrect`, `MaterialWherePositive`,
  `InterfaceSeenFromBothSides`, `ElementIsPartitioned`: everything the run `intersection` checks,
  for every convex quadrilateral, every finite set of values, every tolerance and every position
  of the cuts. `Inv` (also checked by TLC) says that an initialized object holds one of the four
  outcomes of `init` for its element. The argument then has four layers. *Selection*: two cuts
  are two sides, two nodes or one of each, never two of these (`OneKindOfCuts`), so the selected
  mode determines the signs of all four corners seen from its reference side; `QuadHandled` adds
  that some mode fits every divided element without inner nodes, which is why `init` gives up on
  nine-node elements only. *Signs*: each group of pieces has corners of one sign, and
  `FirstIsPositive` picks the list accordingly (`GroupsHaveOneSign`). *Sides*: in every mode the
  marked sides of one group are the reversed marked sides of the other and no other side is shared
  (`GroupsInterlock`). *Shape*: a cut is strictly inside its side, because the division in
  `Between` is exact (`BetweenGrid`); a point strictly inside a side is left of every line that has
  the side's ends on its left (`TurnWithin`), from which each sub-element turns left at every
  node; the areas telescope along the shared sides (`TurnCross`, `CrossWithin`); and the shape
  functions map the local coordinates of a new node to its place (`AlongMapsTo`).
* **LevelSetElementsProofs**, on factored elements. `FactoredInvariant`, `StepsSolveFullSystem`,
  `TrialResidualsExact`, for every finite mesh, every set of factored elements on it, all integer
  element equations with `Regular` void rows and every field of remainders. `FactoredInv` (also
  checked by TLC) is needed because the balance of the nodes shows only after the monitor: while it
  is pending, the reported step solves the equations assembled at `old` and the present `copies`, and
  `solution` is `old` plus the step if the line search kept it. The claims are about sums over the
  nodes and elements of any mesh, so the proof builds them up. *Sums*: `SetInduction` does induction
  over a finite set without an operator for the property, from a smallest counterexample in the set
  of subsets; with it the fold that defines a sum is additive (`TotalIsAdditive`) and sums split and
  exchange (`TotalSplit`, `TotalExchange`). *Equations*: a regular matrix takes different vectors
  to different ones, hence, on a finite set of vectors, onto all of them, so that `Solve` has a
  solution (`SolveCorrect`) and only one (`SolutionUnique`). *Elements*: the condensed residual does
  not change with the solution at the void nodes (`CondensedIgnoresVoid`, which is
  `TrialResidualExact` for one element), and after a whole step the material rows of an element
  with its recovered copies are the condensed ones plus the condensed Jacobian times the step, and
  its void rows are zero (`FactoredStep`). *Mesh*: the assembled row times the step is the sum of the
  rows of the elements (`AssembledRow`), from which `StepBalances`.
* **ElementSensitivityProofs**. `CardsAlwaysExact`: `CardDerivativesExact`, for every prime above
  five, every lay-up of one to three layers, every two designs and every sequence of changes and
  questions; and `CardObjectsExact`, the same for one question about any design and any direction in
  which the object is differentiated at all (`GapOf` is what `KnownGap` leaves of the cards). It is
  the statement the runs can only sample: TLC differentiates at the points of two designs, the
  theorem says that `derivative()` is the derivative of `operator()` as a formula. The invariant
  `CardInv` says that the parameters are those of one of the two designs and that the answer is
  what `derivative()` gives for it. The rest is a calculus of the difference quotient. *Residues*:
  `Prime` divides no product of smaller numbers (`PrimeDivides`, by a least counterexample), so that
  every number it does not divide has a reciprocal modulo `Modulus`, the one `Reciprocal` picks.
  *Tangents*: `Tangent(a, b, x)` says that `a` becomes `b` by a step of which `x` is the derivative;
  sums, products, and quotients by numbers `Prime` does not divide keep it, whatever form the code
  gives the derivative (`TangentOf`), and `Moves` says it of all entries of a matrix, which sums,
  products, transposes, shifts and joins of matrices keep. *Formulas*: one lemma for each material
  and section function of the cards, which compares the form the code gives the derivative with the
  one the rules give; the branch on the longer side in the torsional constant and the rotation of
  `OrthotropicProperty3D` are among them. *Laminates*: the sums over the layers and over the layers
  below (`LayerOffset`) by induction over the finite set of layers. Assumed are `PrimeAssumption`, that
  neither design makes a formula divide by a multiple of `Prime` (`RegularAssumption`, which stands for
  Poisson's ratios, moduli and thicknesses with which the code does not divide by zero), and that
  parameters and unknowns have different names (`NamesAssumption`); TLC evaluates them on the instance of the run.

Model-checked only:

* the liveness properties (`SolveReturns`, `SearchReturns`, `OptimizeReturns`): TLAPS handles
  neither fairness nor ENABLED;
* of `ElementSensitivity`, `ElementSensitivitiesExact`, `ElementTangentsExact`, `CardsConsistent`,
  `StressesDoTheWork` and `FluxesConsistent`: identities of rational functions in up to fifty
  variables, evaluated by TLC at points. The rules that prove those of the cards apply to the elements
  as well, but every element operator needs a lemma of its own.

## 7. Where code and documentation disagree

With a run whose counterexample shows it (`findings` of `PROJECT.json` has the quotes):

1. `stabilized_reject`: a rejected window is meant to keep the previous sensitivity and leaves
   zero, `dsol1.zero()` standing where a `close()` belongs.

Seen while modelling, without a run of their own. Derivatives named in `KnownGap` are marked (G):
the property `ElementSensitivitiesExact` or `ElementTangentsExact` excludes them, or states, for the
nonlinear plate, what is missing.

* Time integration: `_first_sensitivity_step` survives clear and attach, so a second sensitivity
  march fails the assertion of its first step. `compute_flow` neither reads `t_initial` nor assigns
  `system.time` (`example_1.cpp:1030-1136`), so a second primary march in one system goes on from
  the old time, and with a `t_initial` other than 0, which the sensitivity drivers read (`:1202`,
  `:1312`), the clocks of a primary march and of the sensitivity march over its files differ; the
  models have `t_initial` 0. The sensitivity driver reads the file of level *k*
  and solves for level *k+1*. Both advances add `dt` to the one clock, so a primary march
  interleaved with its sensitivities solves at the wrong time, against
  `transient_solver_base.h:216`. The velocity the sensitivity march linearizes about is computed from a
  primary history that march never fills (`first_order_newmark_transient_solver.cpp:158`); its first
  step is linearized about what the swaps of the initial conditions left in `solution(0)`.
  `read_in_vector` leaves `current_local_solution` as it was (`nonlinear_system.cpp:956`).
  Sensitivity files are named by the loop counter. `compute_flow` changes `dt` during the march
  (`example_1.cpp:1088`) while the sensitivity march uses one `dt`.
* Stabilized: the forcing of a window is assembled at a vector no pass updates; every pass of an
  output evaluation reads the file of the last step; a second output evaluation divides by a
  shortened interval; `solution_sensitivity(1)` is overwritten before it is interpolated from;
  the driver of example 1 writes files 0..n-1 while the loop may read `max_index + 1`, which is
  tested only after the file has been read.
* Continuation: a step that converges in its last allowed iteration is restarted.
  `continuation_solver_base.h:88` says the default of `max_it` is 20, the constructor sets 10;
  `norm0` is not recomputed after a restart (`continuation_solver_base.cpp:107`); a step that takes
  exactly `step_desired_iters` iterations is reduced; "reduced" steps grow when the arc length is
  below `min_step`; an unconverged load step returns without a report; clearing the load parameter
  leaves `_initialized` set (`:82`), so a second parameter either fails the assertion of
  `initialize` or follows the direction of the first.
* Flutter: a bisection that did not converge is returned as a root found. A bracket end of exactly
  zero damping is interpolated to a position already stored, and a mode unstable at the first scan
  point has a bracket of one solution and is interpolated to 0/0; both fail
  `libmesh_assert(if_success)`. The comment at `time_domain_flutter_solver.cpp:968` relies on a
  Newton search that is commented out. The headers speak of the lowest velocity cross-over and of
  an average velocity as the key, but a mode that turns stable is keyed by its upper end. The UG
  bisection takes a nonphysical root (g = 0, V = 0) for converged. With no bisection iterations a
  null solution is dereferenced (`ug_flutter_solver.cpp:426`); `scan_for_roots` keeps the
  solutions of an earlier scan (`:265`).
* Eigenvalue sensitivities (read, not modelled): `TimeDomainFlutterSolver::calculate_sensitivity`
  allocates `zero_sol_sens` only when `dXdp` is missing and dereferences it when `dXdV` is
  (`time_domain_flutter_solver.cpp:1025`, `:1059`). The UG sensitivity for a parameter has no
  aerodynamic part (`ug_flutter_solver.cpp`, `a` stays zero). The stiffness about a base solution adds
  the change of the internal tangent with the base, but not that of the load tangents
  (`fluid_structure_assembly_elem_operations.cpp:215`), which second-order piston theory has.
* PK solver and buckling (read, not modelled): `_initialize_matrices` fills corners of `A` and `B`
  without sizing them (`pk_flutter_solver.cpp:1018`); a root found again never replaces the stored
  one, because `dk_old` is the distance of the stored root to itself (`:693-697`). The buckling
  assembly never calls `clear_elem`, so the assertion of `init` fails at a second element
  (`structural_buckling_eigenproblem_elem_operations.cpp:50`, `:65`).
* System and assembly: the comment near `nonlinear_system.cpp:571` normalizes eigenvectors by a
  `matrix_B` that the sensitivity of a first parameter overwrites (`:641`), so a second one is
  normalized by a derivative. `eigenproblem_sensitivity_solve` neither sets nor checks `_operation`.
  For Hermitian problems `eigenproblem_assemble` dereferences the null `matrix_B` that `solve`
  asserts to be null, and the sensitivity subtracts eig · xᵀx. `reinit` keeps
  `_n_converged_eigenpairs`. `calculate_output` clears a solution function it did not initialize;
  `clear_discipline_and_system` leaves element operations, solution function and monitor attached.
  The SNES monitor passes the unscaled step when the line search damps it.
* GCMMA: designs outside the bounds can be evaluated, since `XOLD1` is zero before two outer
  iterations were made and backtracking goes towards it, not ending when zero is poor. `FNEW[0]` is
  read when there are no constraints. `conser` and `raaupd` compare functions at the backtracked design
  with approximations at the subproblem's solution. The default 0 of `max_iters` is never equal to
  the counter. `n_rel_change_iters = 1` stops after the first iteration, and unused slots of the
  ring count as objectives of zero. `output()` can change what makes a design poor.
* Evaluations: `example_6` takes a final residual up to 0.1 for converged (`:1408`), and scales the
  objective's gradient in a loop over the size of the constraints' (`:1455`). `example_5` reads
  eigenpair 0 for every constraint (`get_eigenvalue(0, ...)` in a loop over the eigenpairs, `:1887`),
  and the gradients of eigenvalues that have not converged stay as they were. Its comment says that
  the gradient of function *i* by variable *j* is at `j*NFunc + i` (`:2034`), but that of the stress is
  written to `1*i + 0` for variable *i* (`:2059`): with eigenvalue constraints and more than one variable
  it overwrites entries of others. Hence the problems of the run `levelset` and the hypothesis
  `OneKind` of its theorem.
* Level set: COLINEAR_EDGE with a change of sign, and OPPOSITE_NODES without one, give the area to
  the wrong side (`Degenerate`). A nine-node element that changes sign at its middle nodes only fails
  an assertion. An element with one node exactly zero and the others negative is factored by
  `MaterialPatch` but negative for `LevelSetIntersection`, so its condensed matrix is singular.
  `sensitivity_assemble` of factored elements differentiates the residual of sub-cells while the
  residual is homogenized. `ops.clear_elem` is called twice. `MaterialPatch` assumes an orientation.
* Property cards (G): the inertia matrix of a two-dimensional section has no `rho * drho` coupling
  and drops the offset in its rotary terms
  (`solid_2d_section_element_property_card.cpp:584`), that of a beam has a slip in one
  off-diagonal entry (`solid_1d_section_element_property_card.cpp:978`: `m(5,0)` for `dm(5,0)`), and the transverse
  shear of an orthotropic card is not differentiated by kappa
  (`orthotropic_material_property_card.cpp:453`). Others: the derivative of the
  orthotropic plane stiffness fails an assertion of Eigen in every build that has them
  (`m.topLeftCorner(2, 2) += dm.topLeftCorner(3, 3)/D`, `:545`); `stiffness_matrix(2, plane_stress)` is cached for the first flag;
  prestress factories of multilayer sections and the thermal expansion of the three-dimensional
  isotropic card raise `libmesh_error`; `~LayerOffset` deletes the heights once per layer; copying a `Parameter` ends in a double
  delete.
* Bending: the beam card writes "Izz for v-bending" and "Iyy for w-bending" (`solid_1d_section_element_property_card.cpp:340`, `:343`) on
  two rows of the bending stiffness, while `timoshenko_bending_operator.cpp:77` and `:82` fill row 0
  for both.
* Structural elements (G): the tangent of a nonlinear plate lacks the products that couple the
  Green-Lagrange rows `mat_x`, `mat_y` with the von Kármán and bending strain, and the von Kármán and
  bending rows with them (`structural_element_2d.cpp:1811` against `:1770`; the test
  `jacobian_1D_and_2D.cpp:127` expects agreement); these are `PlateLeftOut`, and nothing else is
  missing. Piston theory loses the coupling of dw/dy
  (`:3393`); the sensitivity of a stress has the wrong sign of the derivative of alpha
  (`structural_element_1d.cpp:464`, `structural_element_2d.cpp:567`); the sensitivity of a thermal
  residual ignores the reference temperature; that of a solid's residual is zero without notice.
  Others: a solid's thermal sensitivity is `libmesh_error`, its stress has no thermal strain, its
  pressure sensitivity is sized for 6n unknowns, and its lumped inertia overwrites the residual; the
  beam's stress leaves `JxW` as it is for its four added points while the plate's is scaled for its
  two; the transverse pressure of a beam in piston theory is pulled through an empty row;
  `Solid1D::PrestressA` discards `ds * T` and the plate's uses `dT` twice.
* Time steps (G): a start of generalized alpha uses `f_m_jac_xddot` as its Jacobian
  (`generalized_alpha_transient_solver.cpp:245`), without the factor `1 - alpha_m` of its own mean
  acceleration (comment at `:234`); Newton's correction is too short or too long, the residual it
  converges to is right. Others: `linearized_internal_residual` and `linearized_inertial_residual`
  (`structural_element_base.cpp:234-247`, `:371-388`) size their matrices six times too large, so the
  linearized product cannot run; `elem_sensitivity_contribution_previous_timestep` of order two asserts
  false (`second_order_newmark_transient_solver.cpp:450`).
* Heat (G): the sensitivity of radiation ignores ambient and zero temperature and the
  Stefan-Boltzmann constant.
* Fluid (G): Jacobians freeze the viscous matrices, the far field's split of characteristics, and, in
  the storage term, the stabilization; the sensitivity of the far field has the rows of the plane and
  differentiates by density whatever the parameter. Others:
  `calculate_diffusion_tensors_sensitivity` omits the derivative of the change of variables; a case
  lacks `break` (harmless); sensitivities of walls and symmetry are empty; `NO_SLIP_WALL` is missing
  in the linearized and frequency-domain sides; the frequency-domain slip wall's sensitivity reads
  "displacement" where the residual reads "velocity", and its residual uses Eigen's `dot` of complex
  vectors, which conjugates one of them, so it is not linear for out-of-phase motion;
  `integrated_force_output.cpp:115-123` zeroes `f` once per element while every side adds to it, so
  a first of two boundary sides counts twice.

## 8. Not modelled

* Structures: prestress, DKT bending, the incompatible modes of solids (zero in the models), surface
  tractions, transformation of tilted elements to local coordinates
  (`structural_element_base.cpp:1530-1640`), the pressure-coefficient outputs of piston theory, and
  most of the boundary-velocity variants for topology.
* Fluid: the discontinuity operator (`fluid_elem_base.cpp:2175-2470`) and the value of the intrinsic
  time matrix, which enter as given matrices because the code does not differentiate them; the surface
  load; assembly and system classes, which forward.
* Solvers: the arclength variant repeats the control of its sibling, and so does generalized alpha, of
  which the element equations are modelled; the linearized product and the perturbed data of the time
  integration; the PK flutter solver, the search without mode tracking and
  root sensitivities; the complex and the multiphysics solver, whose order of calls is PETSc's.
* Optimization: NLopt, NPSOL and DOT are external. The level-set equation itself (transport and
  re-initialization) is not modelled, nor are perimeter outputs and projections.
* Plotting, meshes, quadrature, LAPACK wrappers, build files. `examples/old` (38 000 lines) is not
  part of the build; `tests` (9 000 lines) were read for what they say of the code; headers mostly
  declare. Of the 139 000 lines of the repository the map covers about 23 600 (17 %).

## 9. Plan

Done, in this order: `TransientSolver`, `StabilizedSensitivity`, `ContinuationSolver`, `FlutterSearch`
with their proofs; `GCMMA` and `DesignEvaluation` with proofs; `AnalysisSystem` with
`SimpOptimization` and `LevelSetOptimization`, both proved; `LevelSetIntersection` and
`FactoredElements`, proved; cards, structures, heat and fluid under `ElementSensitivity`, stress
functionals and the element equations of time steps there too, with the proof for the cards.

Left, most important first:

1. `analyze_and_find_critical_root_without_tracking` and the PK solver as further refinements of
   `RootLedger`.
2. Boundary-velocity forms in `PlateElement` and `BeamElement`.
3. The transport of the level set with its re-initialization.
4. Proofs of `CardsConsistent`, and of the derivatives of the elements of heat and structures, with
   the lemmas on `Moves` of `ElementSensitivityProofs`.

The project keeps few runs. A disagreement of section 7 is shown by a run of its own only where
a passing property does not have to exclude it.
