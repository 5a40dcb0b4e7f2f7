------------------------------- MODULE FluidFlux -------------------------------
(***************************************************************************)
(* FluidElemBase: the compressible flow at one point, its fluxes, their    *)
(* Jacobians and characteristics, for plane and spatial flow.  The code    *)
(* writes every matrix entry by entry for each dimension; here an entry is *)
(* a formula of its row and column.  Directions are counted from 1, as the *)
(* momentum rows they belong to.                                           *)
(***************************************************************************)
EXTENDS StrainOperators, Sequences

FlowU  == [k \in 0 .. 4 |-> "U" \o ToString(k)]
Letter == <<"x", "y", "z">>
FlowG  == [p \in (0 .. 4) \X (1 .. 3) |-> FlowU[p[1]] \o Letter[p[2]]]

Delta(i, j) == IF i = j THEN 1 ELSE 0
Half == Reciprocal(2)

------------------------------------------------------------------------------
(* The solution at a point: PrimitiveSolution and its perturbation *)

Sutherland == 1458 // (1000000000 % Modulus)
WarmBy     == 1104 // 10

\* The density, the velocity and the energies, from the conservative variables.
Moving(c, dim, rho, u) ==
  [dim |-> dim, cp |-> c.cpg, cv |-> c.cvg, R |-> c.cpg -- c.cvg, gamma |-> c.cpg // c.cvg,
   Pr |-> c.Pr, rho |-> rho, u |-> u, e |-> c[FlowU[dim + 1]] // rho,
   k |-> Half ** MapThenSumSet(LAMBDA i : Square(u[i]), 1 .. dim)]
\* What follows from the temperature, and from the viscosity.
Heated(s, T, a) ==
  s @@ [T |-> T, a |-> a, p |-> s.R ** T ** s.rho, mach |-> SquareRoot(2 ** s.k) // a,
        mu |-> Sutherland ** T ** (SquareRoot(T) // (T ++ WarmBy))]
Sticky(s) == s @@ [lambda |-> 0 -- ((2 // 3) ** s.mu), kth |-> s.mu ** (s.cp // s.Pr)]
AtTemperature(s, T) ==
  Sticky(Heated(s, T, SquareRoot(s.gamma ** s.R) ** SquareRoot(T)))
WithTemperature(s) == AtTemperature(s, (s.e -- s.k) // s.cv)
PrimitiveSolution(c, dim) ==
  WithTemperature(Moving(c, dim, c[FlowU[0]], [i \in 1 .. dim |-> c[FlowU[i]] // c[FlowU[0]]]))

Last(s) == s.dim + 1
Vars(s) == 0 .. Last(s)
Axes(s) == 1 .. s.dim
Along(s, v, w) == MapThenSumSet(LAMBDA i : v[i] ** w[i], Axes(s)) % Modulus

\* SmallPerturbationPrimitiveSolution: r is a variation of the conservative variables.
VelocityChange(s, r) == [i \in 1 .. s.dim |-> (r[FlowU[i]] -- (r[FlowU[0]] ** s.u[i])) // s.rho]
MachChange(s, dk, da) ==
  (dk // (SquareRoot(2 ** s.k) ** s.a)) -- (SquareRoot(2 ** s.k) ** (da // Square(s.a)))
ViscosityChange(s, dT) ==
  Sutherland ** dT ** (((3 // 2) ** (SquareRoot(s.T) // (s.T ++ WarmBy))) --
                       (s.T ** (SquareRoot(s.T) // Square(s.T ++ WarmBy))))
Changes(s, drho, du, dk, dT, da, dmu) ==
  [rho |-> drho, u |-> du, T |-> dT, p |-> s.R ** ((dT ** s.rho) ++ (s.T ** drho)), a |-> da,
   mach |-> MachChange(s, dk, da),
   mu |-> dmu, lambda |-> 0 -- ((2 // 3) ** dmu), kth |-> dmu ** (s.cp // s.Pr)]
ByHeating(s, drho, du, dk, dT) ==
  Changes(s, drho, du, dk, dT, Half ** (SquareRoot(s.gamma ** s.R) // SquareRoot(s.T)) ** dT,
          ViscosityChange(s, dT))
ByVelocity(s, drho, du, dk, denergy) ==
  ByHeating(s, drho, du, dk, (((denergy -- (drho ** s.e)) // s.rho) -- dk) // s.cv)
Perturbation(s, r) ==
  ByVelocity(s, r[FlowU[0]], VelocityChange(s, r), Along(s, s.u, VelocityChange(s, r)),
             r[FlowU[Last(s)]])

\* A column, and a matrix, of the density, momentum and energy equations.
Balance(s, density, momentum(_), energy) ==
  Computed([p \in {<<j, 0>> : j \in Vars(s)} |->
     IF p[1] = 0 THEN density ELSE IF p[1] = Last(s) THEN energy ELSE momentum(p[1])])
Rows(s, density(_), momentum(_, _), energy(_)) ==
  Computed([p \in Vars(s) \X Vars(s) |->
     IF p[1] = 0 THEN density(p[2])
     ELSE IF p[1] = Last(s) THEN energy(p[2]) ELSE momentum(p[1], p[2])])
\* A row's entry: by density, by the momentum in direction l, by energy.
Entry(s, col, density, momentum(_), energy) ==
  IF col = 0 THEN density ELSE IF col = Last(s) THEN energy ELSE momentum(col)
None(l) == 0

\* calculate_conservative_variable_jacobian.
ConservativesByPrimitives(s) ==
  LET D(c) == Entry(s, c, 1, None, 0)
      M(j, c) == Entry(s, c, s.u[j], LAMBDA l : s.rho ** Delta(j, l), 0)
      E(c) == Entry(s, c, s.e, LAMBDA l : s.rho ** s.u[l], s.rho ** s.cv)
  IN Rows(s, D, M, E)
PrimitivesByConservatives(s) ==
  LET D(c) == Entry(s, c, 1, None, 0)
      M(j, c) == Entry(s, c, 0 -- (s.u[j] // s.rho), LAMBDA l : Delta(j, l) // s.rho, 0)
      E(c) == Entry(s, c, ((2 ** s.k) -- s.e) // (s.cv ** s.rho),
                    LAMBDA l : 0 -- (s.u[l] // (s.cv ** s.rho)), Reciprocal(s.cv ** s.rho))
  IN Rows(s, D, M, E)

------------------------------------------------------------------------------
(* Advection *)

Conservatives(s) == Balance(s, s.rho, LAMBDA j : s.rho ** s.u[j], s.rho ** s.e)
AdvectionFlux(i, s) ==
  Balance(s, s.rho ** s.u[i],
         LAMBDA j : (s.rho ** s.u[i] ** s.u[j]) ++ (Delta(i, j) ** s.p),
         s.u[i] ** ((s.rho ** s.e) ++ s.p))

AdvectionJacobian(i, s) ==
  LET u == s.u  r == s.R // s.cv
      D(c) == Entry(s, c, 0, LAMBDA l : Delta(i, l), 0)
      M(j, c) ==
        Entry(s, c, (Delta(i, j) ** r ** s.k) -- (u[i] ** u[j]),
              LAMBDA l : ((u[i] ** Delta(j, l)) ++ (u[j] ** Delta(i, l))) -- (Delta(i, j) ** u[l] ** r),
              Delta(i, j) ** r)
      E(c) ==
        Entry(s, c, u[i] ** (((s.R ** ((2 ** s.k) -- s.e)) -- (s.e ** s.cv)) // s.cv),
              LAMBDA l : (Delta(i, l) ** (s.e ++ (s.R ** s.T))) -- (u[i] ** u[l] ** r),
              u[i] ** s.gamma)
  IN Rows(s, D, M, E)

\* ..._sensitivity_for_primitive_variable: by a velocity, and by temperature.
JacobianByVelocity(i, m, s) ==
  LET u == s.u  r == s.R // s.cv
      D(c) == 0
      M(j, c) ==
        Entry(s, c, (Delta(i, j) ** r ** u[m]) -- ((Delta(i, m) ** u[j]) ++ (u[i] ** Delta(j, m))),
              LAMBDA l : ((Delta(i, m) ** Delta(j, l)) ++ (Delta(j, m) ** Delta(i, l)))
                           -- (Delta(i, j) ** Delta(l, m) ** r), 0)
      E(c) ==
        Entry(s, c, ((Delta(i, m) ** ((2 ** s.R ** s.k) -- (s.e ** (s.cv ++ s.R))))
                       ++ (u[i] ** u[m] ** (s.R -- s.cv))) // s.cv,
              LAMBDA l : (Delta(i, l) ** u[m])
                           -- (((Delta(i, m) ** u[l]) ++ (u[i] ** Delta(l, m))) ** r),
              Delta(i, m) ** ((s.cv ++ s.R) // s.cv))
  IN Rows(s, D, M, E)
JacobianByTemperature(i, s) ==
  LET D(c) == 0
      M(j, c) == 0
      E(c) == Entry(s, c, 0 -- (s.u[i] ** (s.cv ++ s.R)), LAMBDA l : Delta(i, l) ** (s.cv ++ s.R), 0)
  IN Rows(s, D, M, E)
ByPrimitives(i, s, change) ==
  SumAll([m \in Axes(s) |-> Scale(change[<<m, 0>>], JacobianByVelocity(i, m, s))]
           \o <<Scale(change[<<Last(s), 0>>], JacobianByTemperature(i, s))>>)
\* ..._sensitivity_for_conservative_variable, along a variation v of them: the
\* chain rule over the primitive variables; none depends on density alone.
JacobianAlong(i, s, v) ==
  ByPrimitives(i, s, Times(PrimitivesByConservatives(s), v))

------------------------------------------------------------------------------
(* Diffusion *)

\* calculate_diffusion_tensors, of the solution's gradients in each direction.
Gradients(s, B, c) == [i \in Axes(s) |-> Times(PrimitivesByConservatives(s), Field(B[i], c))]
StressOf(s, mu, lambda, g) ==
  LET divergence == MapThenSumSet(LAMBDA i : g[i][<<i, 0>>], Axes(s))
  IN [p \in Axes(s) \X Axes(s) |->
        (mu ** (g[p[1]][<<p[2], 0>>] ++ g[p[2]][<<p[1], 0>>]))
          ++ (Delta(p[1], p[2]) ** lambda ** divergence)]
DiffusionStress(s, g) == StressOf(s, s.mu, s.lambda, g)
TemperatureGradient(s, g) == [i \in Axes(s) |-> g[i][<<Last(s), 0>>]]
\* calculate_diffusion_tensors_sensitivity: the change of the primitive variables
\* by the conservative ones is that of the solution, not of its variation.
DDiffusionStress(s, d, g, dg) ==
  Plus(StressOf(s, d.mu, d.lambda, g), StressOf(s, s.mu, s.lambda, dg))

DiffusionFlux(i, s, g) ==
  LET tau == DiffusionStress(s, g)
  IN Balance(s, 0, LAMBDA j : tau[<<i, j>>],
            Along(s, s.u, [j \in Axes(s) |-> tau[<<i, j>>]])
              ++ (s.kth ** TemperatureGradient(s, g)[i]))

\* K_ij: by which velocity gradient in direction b the stress on i changes.
Viscosity(i, b, s, j, l) ==
  (s.mu ** ((Delta(i, b) ** Delta(j, l)) ++ (Delta(j, b) ** Delta(l, i))))
    ++ (s.lambda ** Delta(j, i) ** Delta(l, b))
DiffusionJacobianPrimitive(i, b, u, kth, s) ==
  LET K(j, l) == Viscosity(i, b, s, j, l)
      D(c) == 0
      M(j, c) == Entry(s, c, 0, LAMBDA l : K(j, l), 0)
      E(c) == Entry(s, c, 0, LAMBDA l : Along(s, u, [j \in Axes(s) |-> K(j, l)]), Delta(i, b) ** kth)
  IN Rows(s, D, M, E)
DiffusionJacobian(i, b, s) ==
  LET K(j, l) == Viscosity(i, b, s, j, l)
      Stress(j) == Along(s, s.u, [l \in Axes(s) |-> K(j, l)])
      heat == Delta(i, b) ** (s.kth // s.cv)
      D(c) == 0
      M(j, c) == Entry(s, c, 0 -- (Stress(j) // s.rho), LAMBDA l : K(j, l) // s.rho, 0)
      E(c) ==
        Entry(s, c, ((heat ** ((2 ** s.k) -- s.e)) -- Along(s, s.u, [j \in Axes(s) |-> Stress(j)])) // s.rho,
              LAMBDA l : (Along(s, s.u, [j \in Axes(s) |-> K(j, l)]) -- (heat ** s.u[l])) // s.rho,
              heat // s.rho)
  IN Rows(s, D, M, E)
===============================================================================
