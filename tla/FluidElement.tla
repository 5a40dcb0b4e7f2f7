----------------------------- MODULE FluidElement -----------------------------
(***************************************************************************)
(* ConservativeFluidElementBase and its frequency-domain form at one       *)
(* quadrature point: the residuals of the flow, of its sides and of its    *)
(* perturbations, their Jacobians and sensitivities.                       *)
(***************************************************************************)
EXTENDS FluidCharacteristics

CONSTANTS
  SideNormal,    \* the unit normal of a side, for plane and spatial flow
  Toward,    \* flow_unit_vector
  Entering,  \* the characteristics with a negative speed: residues have no sign
  Tau,       \* the intrinsic time matrix, which the code does not differentiate
  Capture    \* the discontinuity capturing coefficients, not differentiated either

Dims == {2, 3}

ASSUME FlowAssumption ==
  /\ \A dim \in Dims : \A v \in {SideNormal[dim], Toward[dim]} :
       MapThenSumSet(LAMBDA i : Square(v[i]), 1 .. dim) % Modulus = 1
  /\ \A dim \in Dims : Entering[dim] \subseteq 0 .. (dim + 1)
  /\ \E y \in 1 .. (Prime - 1) : (y * y + 1) % Prime = 0

\* The imaginary unit: identities of complex rational functions hold for residues too.
Iota == LET y == CHOOSE z \in 1 .. (Prime - 1) : (z * z + 1) % Prime = 0
        IN y -- ((Square(y) ++ 1) // (2 ** y))

Named(suffix) == [i \in 1 .. 3 |-> suffix \o Letter[i]]
WallSpeed  == Named("wall")     \* velocity of the surface
WallRotation   == Named("rotate")   \* change of its normal
Motion     == Named("motion")   \* displacement of the surface's oscillation
Sway       == Named("sway")     \* change of the normal in that oscillation
FlowH == [p \in (0 .. 4) \X (1 .. 3) \X (1 .. 3) |->
            FlowU[p[1]] \o Letter[IF p[2] < p[3] THEN p[2] ELSE p[3]]
                        \o Letter[IF p[2] < p[3] THEN p[3] ELSE p[2]]]
FlowV == [k \in 0 .. 4 |-> FlowU[k] \o "t"]

FlowParameters ==
  {"cpg", "cvg", "Pr", "rhofar", "speed", "Tfar", "omega", "bV"}
    \cup UNION {{WallSpeed[i], WallRotation[i], Motion[i], Sway[i]} : i \in 1 .. 3}
Equations(dim)     == 0 .. (dim + 1)
FlowValues(dim)    == {FlowU[k] : k \in Equations(dim)}
FlowGradients(dim) == {FlowG[p] : p \in Equations(dim) \X (1 .. dim)}
FlowHessians(dim)  == {FlowH[p] : p \in Equations(dim) \X (1 .. dim) \X (1 .. dim)}
FlowRates(dim)     == {FlowV[k] : k \in Equations(dim)}
FlowUnknowns == FlowValues(3) \cup FlowGradients(3) \cup FlowHessians(3) \cup FlowRates(3)

\* _initialize_fem_interpolation_operator, _gradient_ and _second_derivative_.
OperatorOf(dim, name) == [p \in {<<k, name[k]>> : k \in Equations(dim)} |-> 1]
Interpolate(dim) == OperatorOf(dim, FlowU)
Rate(dim)        == OperatorOf(dim, FlowV)
GradientBy(dim)  == [i \in 1 .. dim |-> OperatorOf(dim, [k \in Equations(dim) |-> FlowG[<<k, i>>]])]
SecondBy(dim)    ==
  [p \in (1 .. dim) \X (1 .. dim) |->
     OperatorOf(dim, [k \in Equations(dim) |-> FlowH[<<k, p[1], p[2]>>]])]

Over(dim, F(_))     == SumAll([i \in 1 .. dim |-> F(i)])
Twice(dim, F(_, _)) == Over(dim, LAMBDA i : Over(dim, LAMBDA j : F(i, j)))
VectorOf(names, c, dim) == [i \in 1 .. dim |-> c[names[i]]]

------------------------------------------------------------------------------
(* internal_residual and velocity_residual *)

\* calculate_differential_operator_matrix.
LS(s, B) ==
  Times(Transpose(Tau[s.dim]),
        Over(s.dim, LAMBDA i : Times(Transpose(AdvectionJacobian(i, s)), B[i])))
StrongAdvection(s, B, c) == Over(s.dim, LAMBDA i : Times(AdvectionJacobian(i, s), Field(B[i], c)))
LSSensitivity(s, B, c, v) ==
  LET lagged == Times(Tau[s.dim], StrongAdvection(s, B, c))
  IN Over(s.dim, LAMBDA i : Pull(B[i], Times(JacobianAlong(i, s, v), lagged)))
StrongDiffusion(s, c) ==
  LET H == SecondBy(s.dim)
  IN Twice(s.dim, LAMBDA i, j : Times(DiffusionJacobian(i, j, s), Field(H[<<i, j>>], c)))

InternalFlow(c, dim, viscous) ==
  LET s == PrimitiveSolution(c, dim)  B == GradientBy(dim)  g == Gradients(s, B, c)
      Flux(i) == SumAll(<<Minus(AdvectionFlux(i, s)), When(viscous, DiffusionFlux(i, s, g)),
                          Scale(Capture[i], Field(B[i], c))>>)
  IN Plus(Over(dim, LAMBDA i : Pull(B[i], Flux(i))),
          Pull(LS(s, B), Plus(StrongAdvection(s, B, c), When(viscous, Minus(StrongDiffusion(s, c))))))
InternalFlowJacobian(c, dim, viscous, r) ==
  LET s == PrimitiveSolution(c, dim)  B == GradientBy(dim)  v == Field(Interpolate(dim), r)
      Diffusion(i) == Over(dim, LAMBDA j : Times(DiffusionJacobian(i, j, s), Field(B[j], r)))
      Flux(i) == SumAll(<<Minus(Times(AdvectionJacobian(i, s), v)), When(viscous, Diffusion(i)),
                          Scale(Capture[i], Field(B[i], r))>>)
      ASens == Over(dim, LAMBDA i : Times(JacobianAlong(i, s, v), Field(B[i], c)))
      strong == SumAll(<<StrongAdvection(s, B, r), When(viscous, Minus(StrongDiffusion(s, r))), ASens>>)
  IN SumAll(<<Over(dim, LAMBDA i : Pull(B[i], Flux(i))), Pull(LS(s, B), strong),
              LSSensitivity(s, B, c, v)>>)

VelocityFlow(c, dim, rate) ==
  LET s == PrimitiveSolution(c, dim)
  IN Plus(Pull(Interpolate(dim), rate), Pull(LS(s, GradientBy(dim)), rate))
\* jac_xdot along a variation's rates; jac, by the solution, is left alone.
VelocityFlowJacobian(c, dim, r) == VelocityFlow(c, dim, Field(Rate(dim), r))

------------------------------------------------------------------------------
(* The sides: symmetry, slip, no-slip and far-field *)

AtSide(dim, flux) == Pull(Interpolate(dim), flux)
Still(dim) == [i \in 1 .. dim |-> 0]
Crossing(s, w, dn) == Along(s, w, [i \in Axes(s) |-> SideNormal[s.dim][i] ++ dn[i]]) -- Along(s, s.u, dn)

Symmetry(c, dim) == LET s == PrimitiveSolution(c, dim) IN AtSide(dim, WallFlux(s, 0, SideNormal[dim]))
SymmetryJacobian(c, dim, r) ==
  LET s == PrimitiveSolution(c, dim)
  IN AtSide(dim, Times(WallJacobian(s, 0, SideNormal[dim], Still(dim)), Field(Interpolate(dim), r)))

SlipWall(c, dim) ==
  LET s == PrimitiveSolution(c, dim)
      un == Crossing(s, VectorOf(WallSpeed, c, dim), VectorOf(WallRotation, c, dim))
  IN AtSide(dim, WallFlux(s, un, SideNormal[dim]))
SlipWallJacobian(c, dim, r) ==
  LET s == PrimitiveSolution(c, dim)  dn == VectorOf(WallRotation, c, dim)
      un == Crossing(s, VectorOf(WallSpeed, c, dim), dn)
  IN AtSide(dim, Times(WallJacobian(s, un, SideNormal[dim], dn), Field(Interpolate(dim), r)))

\* Adiabatic and at rest: only the momentum feels the viscous stress.
NoSlipWall(c, dim) ==
  LET s == PrimitiveSolution(c, dim)  n == SideNormal[dim]
      tau == DiffusionStress(s, Gradients(s, GradientBy(dim), c))
      drag == Balance(s, 0, LAMBDA j : Along(s, n, [i \in Axes(s) |-> tau[<<j, i>>]]), 0)
  IN AtSide(dim, Plus(WallFlux(s, 0, n), Minus(drag)))
NoSlipWallJacobian(c, dim, r) ==
  LET s == PrimitiveSolution(c, dim)  n == SideNormal[dim]  g == Gradients(s, GradientBy(dim), r)
      K(i, j) == Scale(n[i], Times(DiffusionJacobianPrimitive(i, j, Still(dim), 0, s), g[j]))
  IN Plus(SymmetryJacobian(c, dim, r), Minus(AtSide(dim, Twice(dim, K))))

FarField(c, dim) ==
  Balance([dim |-> dim], c.rhofar, LAMBDA j : c.rhofar ** c.speed ** Toward[dim][j],
         (c.rhofar ** c.cvg ** c.Tfar) ++ (Half ** c.rhofar ** Square(c.speed)))
Leaving(dim) == Equations(dim) \ Entering[dim]
SideAxis(s) == CHOOSE m \in MajorAxes(s, SideNormal[s.dim]) : TRUE
SideSplit(s, chosen) == Split(s, SideNormal[s.dim], SideAxis(s), chosen)
FarFieldFlux(s, far) ==
  Plus(Times(SideSplit(s, Entering[s.dim]), far), Times(SideSplit(s, Leaving(s.dim)), Conservatives(s)))
FarSide(c, dim) == AtSide(dim, FarFieldFlux(PrimitiveSolution(c, dim), FarField(c, dim)))
FarSideJacobian(c, dim, r) ==
  LET s == PrimitiveSolution(c, dim)
  IN AtSide(dim, Times(SideSplit(s, Leaving(dim)), Field(Interpolate(dim), r)))
\* By the far-field density whatever the parameter; the rows are those of plane flow.
FarFieldByDensity(c, dim) ==
  Balance([dim |-> 2], 1, LAMBDA j : c.speed ** Toward[dim][j],
         (c.cvg ** c.Tfar) ++ (Half ** Square(c.speed)))
FarSideSensitivity(c, dim) ==
  LET s == PrimitiveSolution(c, dim)
  IN AtSide(dim, Times(SideSplit(s, Entering[dim]), FarFieldByDensity(c, dim)))

\* linearized_slip_wall_surface_residual: a variation r of the solution and of
\* the surface's motion.
Perturbed(s, d, un) ==
  Balance(s, un ** d[FlowU[0]], LAMBDA j : un ** d[FlowU[j]], un ** d[FlowU[Last(s)]])
PressureChange(s, d, dp, un) == Balance(s, 0, LAMBDA j : dp ** SideNormal[s.dim][j], un ** dp)
\* Slip: the perturbed flow does not meet the rotated normal.
RigidDCrossing(s, w, dn, dw, ddn, du) ==
  (Along(s, dw, [i \in Axes(s) |-> SideNormal[s.dim][i] ++ dn[i]]) ++ Along(s, w, ddn))
    -- Along(s, s.u, ddn)
DCrossing(s, w, dn, dw, ddn, du) ==
  ((Along(s, dw, [i \in Axes(s) |-> SideNormal[s.dim][i] ++ dn[i]]) ++ Along(s, w, ddn))
     -- Along(s, s.u, ddn)) -- Along(s, du, dn)
Convected(s, un) == Balance(s, un ** s.rho, LAMBDA j : un ** s.rho ** s.u[j], un ** ((s.rho ** s.e) ++ s.p))
LinearizedWall(c, dim, r) ==
  LET s == PrimitiveSolution(c, dim)  d == Perturbation(s, r)
      w == VectorOf(WallSpeed, c, dim)  dn == VectorOf(WallRotation, c, dim)
      un == Crossing(s, w, dn)
      dun == DCrossing(s, w, dn, VectorOf(WallSpeed, r, dim), VectorOf(WallRotation, r, dim), d.u)
  IN AtSide(dim, SumAll(<<Perturbed(s, r, un), PressureChange(s, r, d.p, un), Convected(s, dun)>>))

------------------------------------------------------------------------------
(* side_integrated_force and its sensitivity *)

IntegratedForce(c, dim, viscous) ==
  LET s == PrimitiveSolution(c, dim)  n == SideNormal[dim]
      tau == DiffusionStress(s, Gradients(s, GradientBy(dim), c))
      drag == [p \in Axes(s) \X {0} |-> Along(s, n, [i \in Axes(s) |-> tau[<<p[1], i>>]])]
  IN Plus([p \in Axes(s) \X {0} |-> s.p ** n[p[1]]], When(viscous, Minus(drag)))
MomentumRows(s, m) == [p \in Axes(s) \X {0} |-> m[p]]
ForceDerivative(c, dim, viscous, r) ==
  LET s == PrimitiveSolution(c, dim)  n == SideNormal[dim]  B == GradientBy(dim)
      dp == Times(Transpose(PressureByConservatives(s)), Field(Interpolate(dim), r))[<<0, 0>>]
      K(i, j) == Scale(n[i], Times(DiffusionJacobian(i, j, s), Field(B[j], r)))
  IN Plus([p \in Axes(s) \X {0} |-> dp ** n[p[1]]],
          When(viscous, Minus(MomentumRows(s, Twice(dim, K)))))
ForceSensitivity(c, dim, viscous, r) ==
  LET s == PrimitiveSolution(c, dim)  n == SideNormal[dim]  d == Perturbation(s, r)
      B == GradientBy(dim)
      dtau == DDiffusionStress(s, d, Gradients(s, B, c), Gradients(s, B, r))
      drag == [p \in Axes(s) \X {0} |-> Along(s, n, [i \in Axes(s) |-> dtau[<<p[1], i>>]])]
  IN Plus([p \in Axes(s) \X {0} |-> d.p ** n[p[1]]], When(viscous, Minus(drag)))

\* IntegratedForceOutput: the force f, and below it the output, its component
\* along a direction, for an element with one side on the boundary.
Output(dim, f) ==
  (<<0, 0>> :> MapThenSumSet(LAMBDA i : Toward[dim][i] ** f[<<i, 0>>], 1 .. dim)) @@ f

\* PressureFunction and FrequencyDomainPressureFunction: the pressure above the
\* far field's, or its coefficient, and how they follow a variation.
FarPressure(c)     == c.rhofar ** (c.cpg -- c.cvg) ** c.Tfar
DynamicPressure(c) == Half ** c.rhofar ** Square(c.speed)
Pressures(c, p) == (<<0, 0>> :> p) @@ (<<1, 0>> :> p // DynamicPressure(c))
SurfacePressure(c, dim)     == Pressures(c, PrimitiveSolution(c, dim).p -- FarPressure(c))
DSurfacePressure(c, dim, r) == Pressures(c, Perturbation(PrimitiveSolution(c, dim), r).p)

------------------------------------------------------------------------------
(* FrequencyDomainLinearizedConservativeFluidElem, on a complex solution x *)

FrequencyFlow(c, dim, viscous, x) ==
  Plus(Scale(c.bV, InternalFlowJacobian(c, dim, viscous, x)),
       Scale(Iota ** c.omega, VelocityFlow(c, dim, Field(Interpolate(dim), x))))
DFrequencyFlow(c, dim, x, d) ==
  Scale(Iota ** d.omega, VelocityFlow(c, dim, Field(Interpolate(dim), x)))

\* The surface oscillates with a displacement and a rotation of its normal.  The
\* solution and the motion are in phase: the code's dot products conjugate them.
FrequencyWall(c, dim, x) ==
  LET s == PrimitiveSolution(c, dim)  d == Perturbation(s, x)
      w == VectorOf(WallSpeed, c, dim)  dn == VectorOf(WallRotation, c, dim)
      un == Crossing(s, w, dn)
      independent == DCrossing(s, w, dn, Still(dim), VectorOf(Sway, c, dim), d.u)
      dependent == Iota ** c.omega **
                   Along(s, VectorOf(Motion, c, dim), [i \in Axes(s) |-> SideNormal[dim][i] ++ dn[i]])
  IN AtSide(dim, SumAll(<<Scale(c.bV, Perturbed(s, x, un)), Scale(c.bV, PressureChange(s, x, d.p, un)),
                          Convected(s, (independent ** c.bV) ++ dependent)>>))
DFrequencyWall(c, dim, d) ==
  LET s == PrimitiveSolution(c, dim)  dn == VectorOf(WallRotation, c, dim)
      faster == Iota ** d.omega **
                Along(s, VectorOf(Motion, c, dim), [i \in Axes(s) |-> SideNormal[dim][i] ++ dn[i]])
  IN AtSide(dim, Convected(s, faster))

------------------------------------------------------------------------------
(* What an element can be asked for, by name *)

FlowTerms ==
  {"primitives", "advection", "advection Jacobian", "diffusion", "Euler", "Navier-Stokes",
   "storage of flow", "pressure", "symmetry wall", "slip wall", "perturbed wall", "no-slip wall", "far field",
   "force", "viscous force", "force by sensitivity", "viscous force by sensitivity",
   "oscillating Euler", "oscillating Navier-Stokes", "oscillating wall"}
Viscous(t) == t \in {"Navier-Stokes", "viscous force", "viscous force by sensitivity",
                     "oscillating Navier-Stokes"}
Oscillating(t) == t \in {"oscillating Euler", "oscillating Navier-Stokes", "oscillating wall"}

\* A stack of columns or matrices, one for every direction.
Stack(dim, F(_)) ==
  Over(dim, LAMBDA i : LET m == F(i) IN [p \in {<<(5 * i) + q[1], q[2]>> : q \in DOMAIN m} |->
                                           m[<<p[1] - (5 * i), p[2]>>]])
\* The primitive variables, then what they imply.
Listed(s) ==
  Balance(s, s.rho, LAMBDA j : s.u[j], s.T) @@ (<<5, 0>> :> s.p) @@ (<<6, 0>> :> s.a) @@
  (<<7, 0>> :> s.mach) @@ (<<8, 0>> :> s.mu) @@ (<<9, 0>> :> s.lambda) @@ (<<10, 0>> :> s.kth)

FlowResidual(t, dim, c) ==
  LET s == PrimitiveSolution(c, dim)
  IN CASE t = "primitives" -> Listed(s)
       [] t = "advection"  -> Stack(dim, LAMBDA i : AdvectionFlux(i, s))
       [] t = "advection Jacobian" -> Stack(dim, LAMBDA i : AdvectionJacobian(i, s))
       [] t = "diffusion" -> Stack(dim, LAMBDA i : DiffusionFlux(i, s, Gradients(s, GradientBy(dim), c)))
       [] t \in {"Euler", "Navier-Stokes"} -> InternalFlow(c, dim, Viscous(t))
       [] t = "storage of flow" -> VelocityFlow(c, dim, Field(Rate(dim), c))
       [] t = "symmetry wall" -> Symmetry(c, dim)
       [] t \in {"slip wall", "perturbed wall"} -> SlipWall(c, dim)
       [] t = "no-slip wall" -> NoSlipWall(c, dim)
       [] t = "far field" -> FarSide(c, dim)
       [] t \in {"force", "viscous force", "force by sensitivity", "viscous force by sensitivity"} ->
            Output(dim, IntegratedForce(c, dim, Viscous(t)))
       [] t = "pressure" -> SurfacePressure(c, dim)
OscillatingResidual(t, dim, c, x) ==
  IF t = "oscillating wall" THEN FrequencyWall(c, dim, x)
                            ELSE FrequencyFlow(c, dim, Viscous(t), x)

\* A column r of the Jacobian that goes with the residual.
FlowJacobian(t, dim, c, r) ==
  LET s == PrimitiveSolution(c, dim)  v == Field(Interpolate(dim), r)
  IN CASE t = "primitives" -> Listed(Perturbation(s, r) @@ [dim |-> dim])
       [] t = "advection"  -> Stack(dim, LAMBDA i : Times(AdvectionJacobian(i, s), v))
       [] t = "advection Jacobian" -> Stack(dim, LAMBDA i : JacobianAlong(i, s, v))
       [] t = "diffusion" ->
            Stack(dim, LAMBDA i : Over(dim, LAMBDA j : Times(DiffusionJacobian(i, j, s),
                                                             Field(GradientBy(dim)[j], r))))
       [] t \in {"Euler", "Navier-Stokes"} -> InternalFlowJacobian(c, dim, Viscous(t), r)
       [] t = "storage of flow" -> VelocityFlowJacobian(c, dim, r)
       [] t = "symmetry wall" -> SymmetryJacobian(c, dim, r)
       [] t = "slip wall" -> SlipWallJacobian(c, dim, r)
       [] t = "perturbed wall" -> LinearizedWall(c, dim, r)
       [] t = "no-slip wall" -> NoSlipWallJacobian(c, dim, r)
       [] t = "far field" -> FarSideJacobian(c, dim, r)
       [] t \in {"force", "viscous force"} -> Output(dim, ForceDerivative(c, dim, Viscous(t), r))
       [] t \in {"force by sensitivity", "viscous force by sensitivity"} ->
            Output(dim, ForceSensitivity(c, dim, Viscous(t), r))
       [] t = "pressure" -> DSurfacePressure(c, dim, r)
\* By a parameter; the sensitivities of the internal residual and of the other
\* sides are empty functions.
FlowSensitivity(t, dim, c, d, x) ==
  CASE t = "far field" -> FarSideSensitivity(c, dim)
    [] t = "perturbed wall" -> LinearizedWall(c, dim, d)
    [] t = "oscillating wall" -> DFrequencyWall(c, dim, d)
    [] t \in {"oscillating Euler", "oscillating Navier-Stokes"} -> DFrequencyFlow(c, dim, x, d)

\* What each is differentiated by.
FlowByParameters(t, dim) ==
  CASE t = "far field" -> {"rhofar", "speed"}
    [] t = "perturbed wall" -> {WallSpeed[i] : i \in 1 .. dim} \cup {WallRotation[i] : i \in 1 .. dim}
    [] Oscillating(t) -> {"omega"}
    [] OTHER -> {}
FlowBySolution(t, dim) ==
  CASE Oscillating(t) -> {}
    [] t = "diffusion" -> FlowGradients(dim)
    [] t = "Euler" -> FlowValues(dim) \cup FlowGradients(dim)
    [] t = "Navier-Stokes" -> FlowValues(dim) \cup FlowGradients(dim) \cup FlowHessians(dim)
    [] t = "storage of flow" -> FlowValues(dim) \cup FlowRates(dim)
    [] t \in {"no-slip wall", "viscous force", "viscous force by sensitivity"} ->
         FlowValues(dim) \cup FlowGradients(dim)
    [] OTHER -> FlowValues(dim)

\* What the code leaves out of a derivative: the change of the viscosity and of
\* the velocity in viscous terms, of the stabilization in the storage, of the
\* characteristics at the far field, and the far field's own parameters but the
\* density of a plane flow.
FlowGap(t, dim, wrt) ==
  \/ t \in {"Navier-Stokes", "no-slip wall", "viscous force", "viscous force by sensitivity",
            "storage of flow", "far field"} /\ wrt \in FlowValues(dim)
  \/ t = "far field" /\ (wrt = "speed" \/ dim = 3)
===============================================================================
