----------------------------- MODULE MaterialCards -----------------------------
(***************************************************************************)
(* The matrix functions of the isotropic and the orthotropic material      *)
(* property card, and the rotation of an orthotropic solid: operator() as  *)
(* F(c), derivative as DF(c, d), where c holds the values of the           *)
(* parameters and d their derivatives with respect to the one parameter    *)
(* the sensitivity is asked for.                                           *)
(***************************************************************************)
EXTENDS DifferenceQuotient

MaterialParameters ==
  {"E", "nu", "rho", "cp", "kappa", "alpha", "k", "E11", "E22", "E33", "nu12", "nu13",
   "nu23", "G12", "G13", "G23", "tilt"}

------------------------------------------------------------------------------
(* Isotropic material *)

ShearModulus(c) == c.E // (2 ** (1 ++ c.nu))

StiffnessMatrix1D(c) == Single(0, 0, c.E) \uplus Single(1, 1, ShearModulus(c))
DStiffnessMatrix1D(c, d) ==
  Plus(Scale(d.E,  Single(0, 0, 1) \uplus Single(1, 1, 1 // (2 ** (1 ++ c.nu)))),
       Scale(d.nu, Single(0, 0, 0) \uplus Single(1, 1, 0 -- (c.E // (2 ** Square(1 ++ c.nu))))))

TransverseShearStiffnessMatrix(c) == Diagonal(2, ShearModulus(c) ** c.kappa)
DTransverseShearStiffnessMatrix(c, d) ==
  Plus(Plus(Scale(d.E,     Diagonal(2, c.kappa // (2 ** (1 ++ c.nu)))),
            Scale(d.nu,    Diagonal(2, 0 -- ((c.E ** c.kappa) // (2 ** Square(1 ++ c.nu)))))),
       Scale(d.kappa, Diagonal(2, ShearModulus(c))))

StiffnessMatrix2D(c) ==
  LET D == 1 -- c.nu ** c.nu
  IN Block(2, c.E // D, (c.E ** c.nu) // D) \uplus Single(2, 2, ShearModulus(c))
DStiffnessMatrix2D(c, d) ==
  LET D == 1 -- c.nu ** c.nu
  IN Plus(Scale(d.E, Block(2, 1 // D, c.nu // D) \uplus Single(2, 2, 1 // (2 ** (1 ++ c.nu)))),
          Scale(d.nu,
                Block(2, (c.E ** (2 ** c.nu)) // Square(D),
                         (c.E // D) ++ ((c.E ** c.nu ** (2 ** c.nu)) // Square(D)))
                \uplus Single(2, 2, 0 -- (c.E // (2 ** Square(1 ++ c.nu))))))

Compressibility(c) == (1 -- c.nu) -- 2 ** c.nu ** c.nu
StiffnessMatrix3D(c) ==
  LET D == Compressibility(c)
  IN Block(3, (c.E ** (1 -- c.nu)) // D, (c.E ** c.nu) // D)
     \uplus Shifted(Diagonal(3, ShearModulus(c)), 3)

DStiffnessMatrix3D(c, d) ==
  LET D == Compressibility(c)
  IN Plus(Scale(d.E, Block(3, (1 -- c.nu) // D, c.nu // D)
                     \uplus Shifted(Diagonal(3, 1 // (2 ** (1 ++ c.nu))), 3)),
          Scale(d.nu,
                Block(3, ((c.E ** (1 -- c.nu) ** (1 ++ 4 ** c.nu)) // Square(D)) -- (c.E // D),
                         ((c.E ** c.nu ** (1 ++ 4 ** c.nu)) // Square(D)) ++ (c.E // D))
                \uplus Shifted(Diagonal(3, 0 -- (c.E // (2 ** Square(1 ++ c.nu)))), 3)))

InertiaMatrix3D(c)     == Diagonal(3, c.rho)
DInertiaMatrix3D(c, d) == Diagonal(3, d.rho)

\* One column: the strain of a unit temperature in dim directions, no shear.
Column(dim, v) == [p \in {<<i, 0>> : i \in 0 .. (dim - 1)} |-> v]
ThermalExpansionMatrix(dim, c)     == Column(dim, c.alpha)
DThermalExpansionMatrix(dim, c, d) == Column(dim, d.alpha)

ThermalCapacitanceMatrix(c)     == Single(0, 0, c.cp ** c.rho)
DThermalCapacitanceMatrix(c, d) == Single(0, 0, (d.cp ** c.rho) ++ (c.cp ** d.rho))

ThermalConductanceMatrix(dim, c)     == Diagonal(dim, c.k)
DThermalConductanceMatrix(dim, c, d) == Diagonal(dim, d.k)

------------------------------------------------------------------------------
(* Orthotropic material *)

\* kappa's term is added to the scratch matrix, not to the result.
OrthotropicDTransverseShear(c, d) ==
  Plus(Scale(d.E,  Diagonal(2, c.kappa // (2 ** (1 ++ c.nu)))),
       Scale(d.nu, Diagonal(2, 0 -- ((c.E ** c.kappa) // (2 ** Square(1 ++ c.nu))))))

Nu21(c) == (c.nu12 ** c.E22) // c.E11
Nu31(c) == (c.nu13 ** c.E33) // c.E11
Nu32(c) == (c.nu23 ** c.E33) // c.E22
\* d(nu b / a), as the code writes the derivatives of nu21, nu31 and nu32.
DRatio(nu, b, a, dnu, db, da) ==
  (((dnu ** b) // a) ++ ((nu ** db) // a)) -- (((nu ** b) // Square(a)) ** da)
DNu21(c, d) == DRatio(c.nu12, c.E22, c.E11, d.nu12, d.E22, d.E11)
DNu31(c, d) == DRatio(c.nu13, c.E33, c.E11, d.nu13, d.E33, d.E11)
DNu32(c, d) == DRatio(c.nu23, c.E33, c.E22, d.nu23, d.E33, d.E22)

Orthotropic2DBlock(c) ==
  Single(0, 0, c.E11) \uplus Single(0, 1, Nu21(c) ** c.E11) \uplus
  Single(1, 0, c.nu12 ** c.E22) \uplus Single(1, 1, c.E22)
OrthotropicStiffness2D(c) ==
  LET D == 1 -- c.nu12 ** Nu21(c)
  IN Scale(Reciprocal(D), Orthotropic2DBlock(c)) \uplus Single(2, 2, c.G12)
\* The code as built without assertions. Its last statement adds a 3 by 3 block
\* to a 2 by 2 block: with assertions Eigen stops there, without them the size
\* of the left side counts.
DOrthotropicStiffness2D(c, d) ==
  LET D  == 1 -- c.nu12 ** Nu21(c)
      dD == 0 -- ((d.nu12 ** Nu21(c)) ++ (c.nu12 ** DNu21(c, d)))
      dm == Single(0, 0, d.E11) \uplus
            Single(0, 1, (Nu21(c) ** d.E11) ++ (DNu21(c, d) ** c.E11)) \uplus
            Single(1, 0, (c.nu12 ** d.E22) ++ (d.nu12 ** c.E22)) \uplus Single(1, 1, d.E22)
  IN Plus(Scale((0 -- dD) // Square(D), Orthotropic2DBlock(c)), Scale(Reciprocal(D), dm))
     \uplus Single(2, 2, d.G12)

OrthotropicDet(c) ==
  ((((1 -- c.nu12 ** Nu21(c)) -- c.nu13 ** Nu31(c)) -- c.nu23 ** Nu32(c))
    -- c.nu12 ** c.nu23 ** Nu31(c)) -- c.nu13 ** Nu21(c) ** Nu32(c)
DOrthotropicDet(c, d) ==
  0 -- (((d.nu12 ** Nu21(c)) ++ (c.nu12 ** DNu21(c, d))) ++
        ((d.nu13 ** Nu31(c)) ++ (c.nu13 ** DNu31(c, d))) ++
        ((d.nu23 ** Nu32(c)) ++ (c.nu23 ** DNu32(c, d))) ++
        ((d.nu12 ** c.nu23 ** Nu31(c)) ++ (c.nu12 ** d.nu23 ** Nu31(c)) ++
         (c.nu12 ** c.nu23 ** DNu31(c, d))) ++
        ((d.nu13 ** Nu21(c) ** Nu32(c)) ++ (c.nu13 ** DNu21(c, d) ** Nu32(c)) ++
         (c.nu13 ** Nu21(c) ** DNu32(c, d))))
Orthotropic3DBlock(c) ==
  Single(0, 0, (1 -- c.nu23 ** Nu32(c)) ** c.E11) \uplus
  Single(0, 1, (Nu21(c) ++ (c.nu23 ** Nu31(c))) ** c.E11) \uplus
  Single(0, 2, (Nu31(c) ++ (Nu21(c) ** Nu32(c))) ** c.E11) \uplus
  Single(1, 0, (c.nu12 ++ (c.nu13 ** Nu32(c))) ** c.E22) \uplus
  Single(1, 1, (1 -- c.nu13 ** Nu31(c)) ** c.E22) \uplus
  Single(1, 2, (Nu32(c) ++ (c.nu12 ** Nu31(c))) ** c.E22) \uplus
  Single(2, 0, (c.nu13 ++ (c.nu12 ** c.nu23)) ** c.E33) \uplus
  Single(2, 1, (c.nu23 ++ (c.nu13 ** Nu21(c))) ** c.E33) \uplus
  Single(2, 2, (1 -- c.nu12 ** Nu21(c)) ** c.E33)
\* d(s E) for a factor s of one modulus; s and its derivative as in the code.
DScaled(s, ds, E, dE) == (ds ** E) ++ (s ** dE)
DProduct(a, b, da, db) == (da ** b) ++ (a ** db)
DOrthotropic3DBlock(c, d) ==
  LET n21 == Nu21(c)  n31 == Nu31(c)  n32 == Nu32(c)
      d21 == DNu21(c, d)  d31 == DNu31(c, d)  d32 == DNu32(c, d)
  IN Single(0, 0, DScaled(1 -- c.nu23 ** n32, 0 -- DProduct(c.nu23, n32, d.nu23, d32),
                          c.E11, d.E11)) \uplus
     Single(0, 1, DScaled(n21 ++ (c.nu23 ** n31), d21 ++ DProduct(c.nu23, n31, d.nu23, d31),
                          c.E11, d.E11)) \uplus
     Single(0, 2, DScaled(n31 ++ (n21 ** n32), d31 ++ DProduct(n21, n32, d21, d32),
                          c.E11, d.E11)) \uplus
     Single(1, 0, DScaled(c.nu12 ++ (c.nu13 ** n32), d.nu12 ++ DProduct(c.nu13, n32, d.nu13, d32),
                          c.E22, d.E22)) \uplus
     Single(1, 1, DScaled(1 -- c.nu13 ** n31, 0 -- DProduct(c.nu13, n31, d.nu13, d31),
                          c.E22, d.E22)) \uplus
     Single(1, 2, DScaled(n32 ++ (c.nu12 ** n31), d32 ++ DProduct(c.nu12, n31, d.nu12, d31),
                          c.E22, d.E22)) \uplus
     Single(2, 0, DScaled(c.nu13 ++ (c.nu12 ** c.nu23), d.nu13 ++ DProduct(c.nu12, c.nu23, d.nu12, d.nu23),
                          c.E33, d.E33)) \uplus
     Single(2, 1, DScaled(c.nu23 ++ (c.nu13 ** n21), d.nu23 ++ DProduct(c.nu13, n21, d.nu13, d21),
                          c.E33, d.E33)) \uplus
     Single(2, 2, DScaled(1 -- c.nu12 ** n21, 0 -- DProduct(c.nu12, n21, d.nu12, d21),
                          c.E33, d.E33))
ShearBlock(c) == Single(3, 3, c.G12) \uplus Single(4, 4, c.G23) \uplus Single(5, 5, c.G13)
\* Slip: nu31 of the first row replaced by the nu13 it is derived from.
SwappedOrthotropicStiffness3D(c) ==
  Scale(Reciprocal(OrthotropicDet(c)),
        [Orthotropic3DBlock(c) EXCEPT ![<<0, 2>>] = (c.nu13 ++ (Nu21(c) ** Nu32(c))) ** c.E11])
  \uplus ShearBlock(c)
OrthotropicStiffness3D(c) ==
  Scale(Reciprocal(OrthotropicDet(c)), Orthotropic3DBlock(c)) \uplus ShearBlock(c)
DOrthotropicStiffness3D(c, d) ==
  LET D == OrthotropicDet(c)
  IN Plus(Scale((0 -- DOrthotropicDet(c, d)) // Square(D), Orthotropic3DBlock(c)),
          Scale(Reciprocal(D), DOrthotropic3DBlock(c, d)))
     \uplus ShearBlock(d)

------------------------------------------------------------------------------
(* Orientation of a solid *)

\* The basis is a field of the user: here a rotation by a rational angle
\* about z and then about x.
Rotation(u, i, j) ==
  LET r == 1 ++ (u ** u)
      cosine == (1 -- u ** u) // r
      sine   == (2 ** u) // r
      other  == 3 - (i + j)
  IN Single(i, i, cosine) \uplus Single(i, j, 0 -- sine) \uplus
     Single(j, i, sine) \uplus Single(j, j, cosine) \uplus Single(other, other, 1)
Basis(c)     == Times(Rotation(c.tilt, 0, 1), Rotation(c.tilt, 1, 2))
DBasis(c, d) == Quotient(Basis, c, d)

\* The tensor indices of the six stress components.
Ids == << <<0, 0>>, <<1, 1>>, <<2, 2>>, <<0, 1>>, <<1, 2>>, <<2, 0>> >>
StressTransformation(T) ==
  [p \in (0 .. 5) \X (0 .. 5) |->
     LET to == Ids[p[1] + 1]  from == Ids[p[2] + 1]
         direct  == At(T, <<from[1], to[1]>>) ** At(T, <<from[2], to[2]>>)
         crossed == At(T, <<from[1], to[2]>>) ** At(T, <<from[2], to[1]>>)
     IN IF p[2] < 3 THEN direct ELSE direct ++ crossed]
DStressTransformation(T, dT) ==
  [p \in (0 .. 5) \X (0 .. 5) |->
     LET to == Ids[p[1] + 1]  from == Ids[p[2] + 1]
         DTerm(a, b) == (At(dT, <<from[1], a>>) ** At(T, <<from[2], b>>)) ++
                        (At(T, <<from[1], a>>) ** At(dT, <<from[2], b>>))
     IN IF p[2] < 3 THEN DTerm(to[1], to[2])
                    ELSE DTerm(to[1], to[2]) ++ DTerm(to[2], to[1])]

Tinv(c)     == StressTransformation(Transpose(Basis(c)))
DTinv(c, d) == DStressTransformation(Transpose(Basis(c)), Transpose(DBasis(c, d)))

Oriented(m, c) == Times(Times(Tinv(c), m), Transpose(Tinv(c)))
OrientedStiffness(c) == Oriented(OrthotropicStiffness3D(c), c)
DOrientedStiffness(c, d) ==
  LET m == OrthotropicStiffness3D(c)
  IN Plus(Plus(Times(Times(DTinv(c, d), m), Transpose(Tinv(c))),
               Oriented(DOrthotropicStiffness3D(c, d), c)),
          Times(Times(Tinv(c), m), Transpose(DTinv(c, d))))

OrientedExpansion(c) ==
  Times(Times(Tinv(c), OrthotropicStiffness3D(c)), ThermalExpansionMatrix(3, c))
DOrientedExpansion(c, d) ==
  LET m == OrthotropicStiffness3D(c)  mat == ThermalExpansionMatrix(3, c)
  IN Plus(Plus(Times(Times(DTinv(c, d), m), mat),
               Times(Times(Tinv(c), DOrthotropicStiffness3D(c, d)), mat)),
          Times(Times(Tinv(c), m), DThermalExpansionMatrix(3, c, d)))

\* The thermal conductivities of the axes of an orthotropic card; the model
\* gives the three axes the multiples 1, 2 and 3 of k.
AxisConductance(k) == [p \in {<<i, i>> : i \in 0 .. 2} |-> (p[1] + 1) ** k]
OrientedConductance(c) == Times(Times(Transpose(Basis(c)), AxisConductance(c.k)), Basis(c))
DOrientedConductance(c, d) ==
  LET A == Basis(c)  dA == DBasis(c, d)  m == AxisConductance(c.k)
  IN Plus(Plus(Times(Times(Transpose(dA), m), A),
               Times(Times(Transpose(A), AxisConductance(d.k)), A)),
          Times(Times(Transpose(A), m), dA))
===============================================================================
