------------------------------ MODULE BeamElement ------------------------------
(***************************************************************************)
(* StructuralElement1D with the Timoshenko bending operator: internal and  *)
(* thermal residual of beams with linear or von Karman strain, their       *)
(* tangents and sensitivities, and the stress at the corners.              *)
(***************************************************************************)
EXTENDS SectionCards, StrainOperators

\* Row 0 is the direct strain, row 1 the twist.
Mem == (<<0, "ux">> :> 1) @@ (<<1, "txx">> :> 1)
\* Bending about both axes strains row 0, at the position y or z in the section.
BendV(y)  == <<0, "tzx">> :> 0 -- y
BendW(z)  == <<0, "tyx">> :> z
VkV       == <<0, "vx">> :> 1
VkW       == <<0, "wx">> :> 1
TransverseV == (<<0, "vx">> :> 1) @@ (<<0, "tz">> :> 0 -- 1)
TransverseW == (<<0, "wx">> :> 1) @@ (<<0, "ty">> :> 1)

Axial(e) == <<0, 0>> :> e
Row0(s)  == Axial(At(s, <<0, 0>>))
Curvature(c)   == Plus(Field(BendV(1), c), Field(BendW(1), c))
BendPull(m)    == Plus(Pull(BendV(1), m), Pull(BendW(1), m))
\* The von Karman strain, its variation r about c, and the transpose of that.
BeamVkStrain(c)    == Axial((Square(c.vx) ++ Square(c.wx)) // 2)
Karman(c, r)       == Plus(Scale(c.vx, Field(VkV, r)), Scale(c.wx, Field(VkW, r)))
KarmanPull(c, s)   == Plus(Pull(VkV, Scale(c.vx, Row0(s))), Pull(VkW, Scale(c.wx, Row0(s))))
StressPull(N, r)   == Plus(Pull(VkV, Times(Row0(N), Field(VkV, r))),
                           Pull(VkW, Times(Row0(N), Field(VkW, r))))

------------------------------------------------------------------------------
(* Internal residual *)

\* The axial force, and below it the torsion, which is linear.
AxialForce(c, A, B, nonlinear) ==
  SumAll(<<Times(A, Field(Mem, c)), Row0(Times(B, Curvature(c))),
           When(nonlinear, Row0(Times(A, BeamVkStrain(c))))>>)
BeamForce(c, A, B, D, nonlinear) ==
  LET s == AxialForce(c, A, B, nonlinear)
      direct == Plus(Axial(c.ux), When(nonlinear, BeamVkStrain(c)))
  IN SumAll(<<Pull(Mem, s), When(nonlinear, KarmanPull(c, s)),
              BendPull(Times(Transpose(B), direct)),
              Pull(BendV(1), Times(D, Field(BendV(1), c))),
              Pull(BendW(1), Times(D, Field(BendW(1), c)))>>)

\* The tangent, on a variation r of the unknowns.
BeamTangent(c, A, B, D, nonlinear, r) ==
  LET lin    == Field(Mem, r)
      karman == Karman(c, r)
      curved == Times(B, Curvature(r))
      Nonlinear ==
        SumAll(<<Pull(Mem, Times(A, karman)), KarmanPull(c, Times(A, lin)),
                 KarmanPull(c, Times(A, karman)), StressPull(AxialForce(c, A, B, TRUE), r),
                 BendPull(Times(Transpose(B), karman)), KarmanPull(c, curved)>>)
  IN SumAll(<<Pull(Mem, Times(A, lin)), When(nonlinear, Nonlinear),
              BendPull(Times(Transpose(B), lin)), Pull(Mem, curved),
              Pull(BendV(1), Times(D, Field(BendV(1), r))),
              Pull(BendW(1), Times(D, Field(BendW(1), r)))>>)
\* Slip: the change of the axial force by the von Karman strain is left out.
StiffTangentDot(c, s, A, B, r) ==
  LET stretched == Karman(s, r)
      N == Plus(Times(A, Field(Mem, s)), Times(B, Curvature(s)))
  IN SumAll(<<Pull(Mem, Times(A, stretched)), KarmanPull(s, Times(A, Field(Mem, r))),
              StressPull(N, r), KarmanPull(s, Times(A, Karman(c, r))),
              KarmanPull(c, Times(A, stretched)), BendPull(Times(Transpose(B), stretched)),
              KarmanPull(s, Times(B, Curvature(r)))>>)
\* internal_residual_jac_dot_state_sensitivity: the change of the tangent with
\* the solution, along its sensitivity s.
TangentDot(c, s, A, B, r) ==
  LET stretched == Karman(s, r)
      N == SumAll(<<Times(A, Field(Mem, s)), Times(B, Curvature(s)), Times(A, Karman(c, s))>>)
  IN SumAll(<<Pull(Mem, Times(A, stretched)), KarmanPull(s, Times(A, Field(Mem, r))),
              StressPull(N, r), KarmanPull(s, Times(A, Karman(c, r))),
              KarmanPull(c, Times(A, stretched)), BendPull(Times(Transpose(B), stretched)),
              KarmanPull(s, Times(B, Curvature(r)))>>)

\* The transverse shear is linear in the unknowns: at the solution r it is the
\* residual, on a variation r the tangent.
BeamShearForce(S, r) ==
  Plus(Pull(TransverseV, Times(S, Field(TransverseV, r))),
       Pull(TransverseW, Times(S, Field(TransverseW, r))))
BeamShear(c, r)     == Scale(c.JxW, BeamShearForce(TransverseStiffness1D(c), r))
DBeamShear(c, d, r) == Scale(c.JxW, BeamShearForce(DTransverseStiffness1D(c, d), r))

BeamResidual(c, nonlinear) ==
  Plus(Scale(c.JxW, BeamForce(c, ExtensionStiffness1D(c), ExtensionBending1D(c), Bending1D(c),
                              nonlinear)),
       BeamShear(c, c))
BeamJacobian(c, nonlinear, r) ==
  Plus(Scale(c.JxW, BeamTangent(c, ExtensionStiffness1D(c), ExtensionBending1D(c), Bending1D(c),
                                nonlinear, r)),
       BeamShear(c, r))
DBeamResidual(c, d, nonlinear) ==
  Plus(Scale(c.JxW, BeamForce(c, DExtensionStiffness1D(c, d), DExtensionBending1D(c, d),
                              DBending1D(c, d), nonlinear)),
       DBeamShear(c, d, c))
DBeamJacobian(c, d, nonlinear, r) ==
  Plus(Scale(c.JxW, BeamTangent(c, DExtensionStiffness1D(c, d), DExtensionBending1D(c, d),
                                DBending1D(c, d), nonlinear, r)),
       DBeamShear(c, d, r))
BeamJacobianDot(c, s, nonlinear, r) ==
  When(nonlinear,
       Scale(c.JxW, TangentDot(c, s, ExtensionStiffness1D(c), ExtensionBending1D(c), r)))

------------------------------------------------------------------------------
(* Thermal residual *)

BeamThermalPull(c, s, m, nonlinear) ==
  Minus(SumAll(<<Pull(Mem, s), BendPull(m), When(nonlinear, KarmanPull(c, s))>>))
BeamThermal(c, nonlinear) ==
  LET dT == c.temp -- c.T0
  IN Scale(c.JxW, BeamThermalPull(c, Scale(dT, ThermalExpansionA1D(c)),
                                  Scale(dT, ThermalExpansionB1D(c)), nonlinear))
BeamThermalJacobian(c, nonlinear, r) ==
  When(nonlinear,
       Scale(c.JxW, Minus(StressPull(Scale(c.temp -- c.T0, ThermalExpansionA1D(c)), r))))
\* The reference temperature's derivative is left out.
DBeamThermal(c, d, nonlinear) ==
  LET dT == c.temp -- c.T0
  IN Scale(c.JxW,
           BeamThermalPull(c, Plus(Scale(d.temp, ThermalExpansionA1D(c)),
                                   Scale(dT, DThermalExpansionA1D(c, d))),
                              Plus(Scale(d.temp, ThermalExpansionB1D(c)),
                                   Scale(dT, DThermalExpansionB1D(c, d))), nonlinear))

------------------------------------------------------------------------------
(* Stress at the corners: sy and sz are 1 or -1 *)

CornerHeight(side, h, off) == (side ** (h // 2)) ++ off
CornerBend(c, at, sy, sz) ==
  Plus(Field(BendV(CornerHeight(sy, at.hy, at.offy)), c),
       Field(BendW(CornerHeight(sz, at.hz, at.offz)), c))
CornerStrain(c, sy, sz, nonlinear) ==
  SumAll(<<Field(Mem, c), Minus(Axial(c.alpha ** (c.temp -- c.T0))),
           When(nonlinear, BeamVkStrain(c)), CornerBend(c, c, sy, sz)>>)
CornerStress(c, sy, sz, nonlinear) ==
  Row0(Times(StiffnessMatrix1D(c), CornerStrain(c, sy, sz, nonlinear)))
DCornerStrainDX(c, sy, sz, nonlinear, r) ==
  SumAll(<<Field(Mem, r), When(nonlinear, Karman(c, r)), CornerBend(r, c, sy, sz)>>)
DCornerStressDX(c, sy, sz, nonlinear, r) ==
  Row0(Times(StiffnessMatrix1D(c), DCornerStrainDX(c, sy, sz, nonlinear, r)))
\* dalpha enters with the wrong sign.
DCornerStress(c, d, sy, sz, nonlinear) ==
  LET thermal == (c.alpha ** (d.temp -- d.T0)) -- (d.alpha ** (c.temp -- c.T0))
      strain == Plus(Minus(Axial(thermal)), CornerBend(c, d, sy, sz))
  IN Row0(Plus(Times(StiffnessMatrix1D(c), strain),
               Times(DStiffnessMatrix1D(c, d), CornerStrain(c, sy, sz, nonlinear))))
===============================================================================
