---------------------------- MODULE StrainOperators ----------------------------
(***************************************************************************)
(* The finite element at one quadrature point.  The unknowns are the       *)
(* values and gradients of the fields there, which depend linearly on the  *)
(* nodal values through the shape functions; an operator matrix            *)
(* (FEMOperatorMatrix) is a matrix whose columns are unknowns.             *)
(***************************************************************************)
EXTENDS DifferenceQuotient, FiniteSetsExt

\* Displacements u, v, w and rotations tx, ty, tz with their derivatives, the
\* velocities and accelerations, and the temperature with its gradient and rate.
Displacements ==
  {"ux", "uy", "vx", "vy", "wx", "wy", "tx", "ty", "tz", "txx", "txy", "tyx", "tyy", "tzx"}
SolidGradients == {"ux", "uy", "uz", "vx", "vy", "vz", "wx", "wy", "wz"}
Velocities     == {"vt", "wt"}
Accelerations  == {"au", "av", "aw", "atx", "aty", "atz"}
Temperatures   == {"temp", "tempx", "tempy", "rate"}
Unknowns ==
  Displacements \cup SolidGradients \cup Velocities \cup Accelerations \cup Temperatures

Nothing == [p \in {} |-> 0]
When(condition, m) == IF condition THEN m ELSE Nothing
SumAll(list) == FoldFunction(Plus, Nothing, list)
Minus(m)     == Scale(0 - 1, m)

\* vector_mult: the values c of the unknowns, or a variation of them, interpolated.
Field(B, c) ==
  Computed([p \in {<<q[1], 0>> : q \in DOMAIN B} |->
     MapThenSumSet(LAMBDA q : B[q] ** c[q[2]], {q \in DOMAIN B : q[1] = p[1]}) % Modulus])
\* vector_mult_transpose: a generalized stress s collected at the unknowns.
Pull(B, s) == Times(Transpose(B), s)
\* The in-plane stress as a symmetric matrix.
Tensor(s) ==
  (<<0, 0>> :> At(s, <<0, 0>>)) @@ (<<0, 1>> :> At(s, <<2, 0>>)) @@
  (<<1, 0>> :> At(s, <<2, 0>>)) @@ (<<1, 1>> :> At(s, <<1, 0>>))
===============================================================================
