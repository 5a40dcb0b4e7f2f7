------------------------ MODULE FluidCharacteristics ------------------------
(***************************************************************************)
(* FluidElemBase: the characteristics of the advection flux through a      *)
(* surface, the entropy variables, and the flux at a wall.                 *)
(***************************************************************************)
EXTENDS FluidFlux

\* eig_vals: the convected characteristics, and the two acoustic ones last.
Speeds(s, n) ==
  [c \in Vars(s) |->
     LET un == Along(s, s.u, n)
     IN IF c = s.dim THEN un -- s.a ELSE IF c = Last(s) THEN un ++ s.a ELSE un]

\* dim_for_eig_vec: an axis with the largest component of the normal; residues
\* have no order, and any axis along which the normal has a component will do.
MajorAxes(s, n) == {m \in Axes(s) : n[m] % Prime # 0}

\* l_eig_mat and l_eig_mat_inv_tr; columns are counted from 0 and belong to the
\* characteristics, the column of the major axis m to the entropy.
LeftEigenvectors(s, n, m) ==
  LET u == s.u  un == Along(s, u, n)  sound == s.a // (s.gamma -- 1)
      Acoustic(sign) ==
        Balance(s, s.k -- (sign ** un ** sound), LAMBDA j : (sign ** n[j] ** sound) -- u[j], 1)
      Shear(c) ==
        Balance(s, (n[c] ** (u[m] // n[m])) -- u[c],
               LAMBDA j : Delta(j, c) -- (Delta(j, m) ** (n[c] // n[m])), 0)
      entropy ==
        Balance(s, (un ** (u[m] // n[m])) -- ((s.cv ** s.T ** s.gamma) ++ s.k),
               LAMBDA j : 0 -- (Delta(j, m) ** (un // n[m])), 1)
      Of(c) == IF c = s.dim THEN Acoustic(0 - 1) ELSE IF c = Last(s) THEN Acoustic(1)
               ELSE IF c + 1 = m THEN entropy ELSE Shear(c + 1)
  IN [p \in Vars(s) \X Vars(s) |-> Of(p[2])[<<p[1], 0>>]]
\* Slip: the pressure of an acoustic wave without the kinetic energy of the flow.
StillAcousticInverse(s, n, sign) ==
  LET un == Along(s, s.u, n)  g == s.gamma -- 1
  IN Balance(s, Reciprocal(2 ** s.cv ** s.T ** s.gamma),
             LAMBDA j : Half ** g ** (((sign ** n[j]) ++ (s.u[j] // s.a)) // s.a),
             Half ** (1 ++ (g ** sign ** (un // s.a))))
AcousticInverse(s, n, sign) ==
  LET un == Along(s, s.u, n)  g == s.gamma -- 1
  IN Balance(s, Reciprocal(2 ** s.cv ** s.T ** s.gamma),
             LAMBDA j : Half ** g ** (((sign ** n[j]) ++ (s.u[j] // s.a)) // s.a),
             Half ** (1 ++ (g ** (((sign ** un) ++ (s.k // s.a)) // s.a))))
LeftEigenvectorsInverse(s, n, m) ==
  LET u == s.u  un == Along(s, u, n)  h == s.cv ** s.T ** s.gamma  g == s.gamma -- 1
      Shear(c) ==
        LET uc == g ** (u[c] // Square(s.a))
        IN Balance(s, uc, LAMBDA j : (uc ** u[j]) ++ (Delta(j, c) -- (n[j] ** n[c])),
                  (uc ** s.k) ++ (u[c] -- (n[c] ** un)))
      entropy == Scale(0 -- Reciprocal(h), Balance(s, 1, LAMBDA j : u[j], s.k))
      Of(c) == IF c = s.dim THEN AcousticInverse(s, n, 0 - 1) ELSE IF c = Last(s) THEN AcousticInverse(s, n, 1)
               ELSE IF c + 1 = m THEN entropy ELSE Shear(c + 1)
  IN [p \in Vars(s) \X Vars(s) |-> Of(p[2])[<<p[1], 0>>]]

\* L^-T [omega] L^T over the characteristics in the set chosen.
Split(s, n, m, chosen) ==
  LET weighted == [p \in Vars(s) \X Vars(s) |->
                     IF p[2] \in chosen
                     THEN LeftEigenvectorsInverse(s, n, m)[p] ** Speeds(s, n)[p[2]] ELSE 0]
  IN Times(weighted, Transpose(LeftEigenvectors(s, n, m)))

\* calculate_entropy_variable_jacobian; both are symmetric.
Symmetric(s, dd, dm(_), de, mm(_, _), me(_), ee) ==
  LET D(c) == Entry(s, c, dd, dm, de)
      M(j, c) == Entry(s, c, dm(j), LAMBDA l : mm(j, l), me(j))
      E(c) == Entry(s, c, de, me, ee)
  IN Rows(s, D, M, E)
ConservativesByEntropy(s) ==
  LET t == s.cv ** s.T
  IN Scale(s.rho // (s.gamma -- 1),
       Symmetric(s, 1, LAMBDA j : s.u[j], s.e,
                 LAMBDA j, l : (s.u[j] ** s.u[l]) ++ (Delta(j, l) ** t ** (s.gamma -- 1)),
                 LAMBDA j : s.u[j] ** ((t ** s.gamma) ++ s.k),
                 Square(s.k) ++ (s.gamma ** t ** (t ++ (2 ** s.k)))))
EntropyByConservatives(s) ==
  LET t == s.cv ** s.T
  IN Scale(Reciprocal(s.rho ** Square(t)),
       Symmetric(s, Square(s.k) ++ (s.gamma ** Square(t)), LAMBDA j : 0 -- (s.u[j] ** s.k),
                 (2 ** s.k) -- s.e,
                 LAMBDA j, l : (s.u[j] ** s.u[l]) ++ (Delta(j, l) ** t),
                 LAMBDA j : 0 -- s.u[j], 1))

------------------------------------------------------------------------------
(* Walls *)

PressureByConservatives(s) ==
  LET r == s.R // s.cv
  IN Balance(s, r ** s.k, LAMBDA l : 0 -- (r ** s.u[l]), r)
\* The flux through a wall with normal n that the flow crosses with speed un.
WallFlux(s, un, n) ==
  Balance(s, un ** s.rho, LAMBDA j : (un ** s.rho ** s.u[j]) ++ (s.p ** n[j]),
         un ** ((s.rho ** s.e) ++ s.p))
\* calculate_advection_flux_jacobian_for_moving_solid_wall_boundary: dn is the
\* change of the normal.
WallJacobian(s, un, n, dn) ==
  LET dp(c) == PressureByConservatives(s)[<<c, 0>>]
      D(c) == un ** Delta(0, c)
      M(j, c) == (un ** Delta(j, c)) ++ (n[j] ** dp(c))
      E(c) == un ** (Delta(Last(s), c) ++ dp(c))
      crossing == Balance(s, 1, LAMBDA j : s.u[j], s.e ++ (s.p // s.rho))
      speed == Balance(s, 0 -- Along(s, s.u, dn), LAMBDA l : dn[l], 0)
  IN Plus(Rows(s, D, M, E), Minus(Times(crossing, Transpose(speed))))
===============================================================================
