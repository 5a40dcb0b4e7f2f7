----------------------------- MODULE SolidElement -----------------------------
(***************************************************************************)
(* StructuralElement3D: the internal, thermal and inertial residual of     *)
(* solids with linear or Green-Lagrange strain, with their tangents.  The  *)
(* incompatible modes are switched off in the code: their operator is      *)
(* never initialized and stays zero.  The rotations of a solid have no     *)
(* stiffness but for 1e-20 on the diagonal, which is not modelled.         *)
(***************************************************************************)
EXTENDS StructuralLoads

SolidLin ==
  (<<0, "ux">> :> 1) @@ (<<1, "vy">> :> 1) @@ (<<2, "wz">> :> 1) @@
  (<<3, "vx">> :> 1) @@ (<<3, "uy">> :> 1) @@ (<<4, "wy">> :> 1) @@
  (<<4, "vz">> :> 1) @@ (<<5, "wx">> :> 1) @@ (<<5, "uz">> :> 1)
\* The gradient of a displacement (NlU, NlV, NlW), and the derivative of all
\* displacements in a direction (NlX, NlY, NlZ).
GradientOf == << <<"ux", "uy", "uz">>, <<"vx", "vy", "vz">>, <<"wx", "wy", "wz">> >>
SolidNl(i)    == [p \in {<<j, GradientOf[i][j + 1]>> : j \in 0 .. 2} |-> 1]
AlongAxis(j)  == [p \in {<<i, GradientOf[i + 1][j]>> : i \in 0 .. 2} |-> 1]

\* The strain's component of row k, in the tensor: 0 1 2 direct, 3 4 5 shear.
Voigt == << {1}, {2}, {3}, {1, 2}, {2, 3}, {1, 3} >>
\* The row of the strain's component (i, j).
RowOf(i, j) == (CHOOSE k \in 1 .. 6 : Voigt[k] = {i, j}) - 1

SolidStrain(c, nonlinear) ==
  LET F == [p \in (0 .. 2) \X (0 .. 2) |-> c[GradientOf[p[1] + 1][p[2] + 1]]]
      E == Scale(Reciprocal(2), SumAll(<<F, Transpose(F), Times(Transpose(F), F)>>))
      EntryOf(k) == LET ends == {e \in Voigt[k] \X Voigt[k] : e[1] # e[2]}
                IN IF ends = {} THEN LET i == CHOOSE i \in Voigt[k] : TRUE IN E[<<i - 1, i - 1>>]
                   ELSE MapThenSumSet(LAMBDA e : E[<<e[1] - 1, e[2] - 1>>], ends) % Modulus
  IN IF nonlinear THEN [p \in {<<k, 0>> : k \in 0 .. 5} |-> EntryOf(p[1] + 1)]
                  ELSE Field(SolidLin, c)
\* mat_x, mat_y, mat_z: row RowOf(j, k) holds the derivatives along axis k.
SolidMat(j, c) ==
  [p \in {<<RowOf(j, k), i>> : k \in 1 .. 3, i \in 0 .. 2} |->
     LET k == CHOOSE k \in 1 .. 3 : RowOf(j, k) = p[1] IN c[GradientOf[p[2] + 1][k]]]
SolidTensor(s) ==
  [p \in (0 .. 2) \X (0 .. 2) |-> At(s, <<RowOf(p[1] + 1, p[2] + 1), 0>>)]

\* The strain's variation along r, and its transpose on a stress.
SolidVary(c, r, nonlinear) ==
  Plus(Field(SolidLin, r),
       When(nonlinear,
            SumAll([j \in 1 .. 3 |-> Times(SolidMat(j, c), Field(AlongAxis(j), r))])))
SolidPull(c, s, nonlinear) ==
  Plus(Pull(SolidLin, s),
       When(nonlinear,
            SumAll([j \in 1 .. 3 |-> Pull(AlongAxis(j), Times(Transpose(SolidMat(j, c)), s))])))
GeometricStiffness(s, r) ==
  SumAll([i \in 1 .. 3 |-> Pull(SolidNl(i), Times(SolidTensor(s), Field(SolidNl(i), r)))])

SolidStress(c, nonlinear) == Times(StiffnessMatrix3D(c), SolidStrain(c, nonlinear))
SolidResidual(c, nonlinear) == Scale(c.JxW, SolidPull(c, SolidStress(c, nonlinear), nonlinear))
SolidJacobian(c, nonlinear, r) ==
  Scale(c.JxW,
        Plus(SolidPull(c, Times(StiffnessMatrix3D(c), SolidVary(c, r, nonlinear)), nonlinear),
             When(nonlinear, GeometricStiffness(SolidStress(c, nonlinear), r))))
\* internal_residual_sensitivity returns without a contribution.
DSolidResidual(c, d, nonlinear) == Nothing

SolidThermalStress(c) ==
  Scale(c.temp -- c.T0, Times(StiffnessMatrix3D(c), ThermalExpansionMatrix(3, c)))
SolidThermal(c, nonlinear) == Scale(c.JxW, Minus(SolidPull(c, SolidThermalStress(c), nonlinear)))
SolidThermalJacobian(c, nonlinear, r) ==
  When(nonlinear, Scale(c.JxW, Minus(GeometricStiffness(SolidThermalStress(c), r))))

\* The inertia of the three displacements.
SolidInertia(c, lumped)     == Scale(c.JxW, InertiaForce(InertiaMatrix3D(c), lumped, 3, c))
SolidInertiaJacobian(c, lumped, r) ==
  Scale(c.JxW, InertiaForce(InertiaMatrix3D(c), lumped, 3, r))
===============================================================================
