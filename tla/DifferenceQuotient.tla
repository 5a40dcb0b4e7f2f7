-------------------------- MODULE DifferenceQuotient --------------------------
(***************************************************************************)
(* Rational formulas and their derivatives without rounding.  A Real is a  *)
(* residue modulo Prime^2.  A step of Prime in an argument changes a       *)
(* rational function F by exactly Prime * F' modulo Prime^2 (the higher    *)
(* terms of the Taylor series vanish), so the difference quotient with     *)
(* that step is the derivative modulo Prime, and an identity of rational   *)
(* functions that fails for Reals fails for all but a few residues.  The   *)
(* code is C++ on doubles: rounding is not modelled.                       *)
(***************************************************************************)
EXTENDS Integers, TLC

CONSTANT Prime

ASSUME PrimeAssumption ==
  Prime \in Nat /\ Prime > 5 /\ \A n \in 2 .. (Prime - 1) : Prime % n # 0

Modulus == Prime * Prime

a ++ b == (a + b) % Modulus
a -- b == (a - b) % Modulus
a ** b == (a * b) % Modulus

\* The inverses modulo Prime, and from them those modulo Prime^2 (one Newton
\* step doubles the number of correct digits).  No sample divides by zero.
ReciprocalTable == [r \in 1 .. (Prime - 1) |->
                   CHOOSE y \in 1 .. (Prime - 1) : (r * y) % Prime = 1]
LiftedReciprocal(a, y) == y ** (2 -- (a * y))
Reciprocal(a)   == LiftedReciprocal(a, ReciprocalTable[a % Prime])
a // b       == a ** Reciprocal(b)

\* The root in one fixed branch, which a small step does not leave; samples
\* choose squares.
RootTable ==
  LET half == 1 .. ((Prime - 1) \div 2)
  IN [s \in {(y * y) % Prime : y \in half} |-> CHOOSE y \in half : (y * y) % Prime = s]
LiftedRoot(a, y) == y -- (((y ** y) -- a) // (2 ** y))
SquareRoot(a) == LiftedRoot(a, RootTable[a % Prime])

Square(a) == a ** a
Cube(a)   == a ** a ** a
Fourth(a) == Square(Square(a))

(***************************************************************************)
(* Matrices are functions from positions <<row, column>>, counted from 0   *)
(* as in the code, to residues; an absent position is zero.                *)
(***************************************************************************)
At(m, p)       == IF p \in DOMAIN m THEN m[p] ELSE 0
Diagonal(n, v) == [p \in {<<i, i>> : i \in 0 .. (n - 1)} |-> v]
Block(n, diagonal, other) ==
  [p \in (0 .. (n - 1)) \X (0 .. (n - 1)) |-> IF p[1] = p[2] THEN diagonal ELSE other]
Shifted(m, k)  == [p \in {<<q[1] + k, q[2] + k>> : q \in DOMAIN m} |-> m[<<p[1] - k, p[2] - k>>]]
\* A matrix whose entries are computed once, not at each use.
Computed(m)    == CHOOSE f \in {m} : f = m
\* The entries of m, and those of n at other positions.
m \uplus n     ==
  Computed([p \in DOMAIN m \cup DOMAIN n |-> IF p \in DOMAIN m THEN m[p] ELSE n[p]])
Single(i, j, v) == [p \in {<<i, j>>} |-> v]
Scale(s, m)    == Computed([p \in DOMAIN m |-> s ** m[p]])
Plus(m, n)     == Computed([p \in DOMAIN m \cup DOMAIN n |-> At(m, p) ++ At(n, p)])
Transpose(m)   == [p \in {<<q[2], q[1]>> : q \in DOMAIN m} |-> m[<<p[2], p[1]>>]]
Sum6(term) == (term[0] + term[1] + term[2] + term[3] + term[4] + term[5]) % Modulus
Times(m, n) ==
  Computed([p \in {<<q[1], r[2]>> : q \in DOMAIN m, r \in DOMAIN n} |->
              Sum6([k \in 0 .. 5 |-> At(m, <<p[1], k>>) * At(n, <<k, p[2]>>)])])

Agree(m, n) == \A p \in DOMAIN m \cup DOMAIN n : At(m, p) % Prime = At(n, p) % Prime

\* The derivative of the matrix function F at c in the direction d.
ByStep(here, there) == [p \in DOMAIN here |-> (there[p] -- here[p]) \div Prime]
BySteps(values)     == ByStep(values[0], values[Prime])
Quotient(F(_), c, d) ==
  BySteps([s \in {0, Prime} |-> F([p \in DOMAIN c |-> c[p] + (s * d[p])])])
===============================================================================
