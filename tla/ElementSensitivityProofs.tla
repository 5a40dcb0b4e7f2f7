------------------------ MODULE ElementSensitivityProofs ------------------------
(***************************************************************************)
(* Proofs about ElementSensitivity, for every prime above five, every      *)
(* rotation, every lay-up of one to three layers, every pair of designs    *)
(* whose formulas divide by nothing that vanishes, and every sequence of   *)
(* changes, questions and answers: a property card's derivative() is the   *)
(* derivative of its operator().                                           *)
(*                                                                         *)
(*   - residues: what a Galois field and the difference quotient with a    *)
(*     step of Prime are built from, reciprocals included;                 *)
(*   - Tangent(a, b, x): a becomes b by a step and x is its derivative;    *)
(*     sums, products and quotients keep it; Moves says it of a matrix;    *)
(*   - the formulas of the isotropic and the orthotropic material, of the  *)
(*     oriented solid, of the beam and plate sections and of a laminate;   *)
(*   - the function objects, the invariant CardInv, and the property.      *)
(***************************************************************************)
EXTENDS ElementSensitivity, TLAPS, FiniteSetTheorems, FunctionTheorems, NaturalsInduction
-----------------------------------------------------------------------------
(* Residues: integers that count up to multiples of Prime or of Modulus.    *)

\* a and b differ by a multiple of n.
Equal(n, a, b) == \E q \in Int : a = b + q * n

\* What the residues need of Prime.
LEMMA PrimeFacts ==
  /\ Prime \in Nat /\ Prime \in Int /\ Prime > 5 /\ Prime > 0
  /\ Modulus \in Nat /\ Modulus \in Int /\ Modulus = Prime * Prime /\ Modulus > 0
<1>1. Prime \in Nat /\ Prime > 5
  BY PrimeAssumption
<1>2. Prime * Prime \in Nat /\ Prime * Prime > 0
  BY <1>1
<1> QED
  BY <1>1, <1>2 DEF Modulus

\* Congruence is an equivalence that sums, differences and products keep.
LEMMA EqualFacts ==
  ASSUME NEW n \in Int, NEW a \in Int, NEW b \in Int
  PROVE  /\ Equal(n, a, a)
         /\ Equal(n, a, b) => Equal(n, b, a)
         /\ \A c \in Int : Equal(n, a, b) /\ Equal(n, b, c) => Equal(n, a, c)
         /\ \A c, d \in Int : Equal(n, a, b) /\ Equal(n, c, d)
              => /\ Equal(n, a + c, b + d) /\ Equal(n, a - c, b - d)
                 /\ Equal(n, a * c, b * d)
<1>1. Equal(n, a, a)
  <2>1. a = a + 0 * n
    OBVIOUS
  <2> QED
    BY <2>1 DEF Equal
<1>2. ASSUME Equal(n, a, b) PROVE Equal(n, b, a)
  <2>1. PICK q \in Int : a = b + q * n
    BY <1>2 DEF Equal
  <2>2. b = a + (-q) * n /\ -q \in Int
    BY <2>1
  <2> QED
    BY <2>2 DEF Equal
<1>3. ASSUME NEW c \in Int, Equal(n, a, b), Equal(n, b, c) PROVE Equal(n, a, c)
  <2>1. PICK q \in Int : a = b + q * n
    BY <1>3 DEF Equal
  <2>2. PICK r \in Int : b = c + r * n
    BY <1>3 DEF Equal
  <2>3. a = c + (q + r) * n /\ q + r \in Int
    BY <2>1, <2>2
  <2> QED
    BY <2>3 DEF Equal
<1>4. ASSUME NEW c \in Int, NEW d \in Int, Equal(n, a, b), Equal(n, c, d)
      PROVE  /\ Equal(n, a + c, b + d) /\ Equal(n, a - c, b - d)
             /\ Equal(n, a * c, b * d)
  <2>1. PICK q \in Int : a = b + q * n
    BY <1>4 DEF Equal
  <2>2. PICK r \in Int : c = d + r * n
    BY <1>4 DEF Equal
  <2>3. a + c = (b + d) + (q + r) * n /\ q + r \in Int
    BY <2>1, <2>2
  <2>4. a - c = (b - d) + (q - r) * n /\ q - r \in Int
    BY <2>1, <2>2
  <2>5. a * c = (b * d) + (q * d + b * r + q * r * n) * n /\ q * d + b * r + q * r * n \in Int
    BY <2>1, <2>2
  <2> QED
    BY <2>3, <2>4, <2>5 DEF Equal
<1> QED
  BY <1>1, <1>2, <1>3, <1>4

\* The remainder is congruent; congruent numbers have one remainder.
LEMMA ModFacts ==
  ASSUME NEW n \in Nat, n > 0, NEW a \in Int
  PROVE  /\ a % n \in Int /\ 0 <= a % n /\ a % n < n
         /\ Equal(n, a % n, a) /\ Equal(n, a, a % n)
         /\ \A b \in Int : Equal(n, a, b) <=> a % n = b % n
<1>1. \A k \in Int : /\ k % n \in Int /\ 0 <= k % n /\ k % n < n
                     /\ k = (k % n) + (k \div n) * n /\ k \div n \in Int
  <2> SUFFICES ASSUME NEW k \in Int
               PROVE  /\ k % n \in Int /\ 0 <= k % n /\ k % n < n
                      /\ k = (k % n) + (k \div n) * n /\ k \div n \in Int
    OBVIOUS
  <2>1. k % n \in 0 .. (n - 1)
    OBVIOUS
  <2>2. k = (k % n) + (k \div n) * n /\ k \div n \in Int
    OBVIOUS
  <2> QED
    BY <2>1, <2>2
<1>2. ASSUME NEW k \in Int PROVE Equal(n, k, k % n) /\ Equal(n, k % n, k)
  <2> DEFINE r == k % n
             q == k \div n
  <2>1. r \in Int /\ q \in Int /\ k = r + q * n
    BY <1>1
  <2> HIDE DEF r, q
  <2>2. Equal(n, k, r)
    BY <2>1 DEF Equal
  <2>3. Equal(n, r, k)
    BY <2>1, <2>2, EqualFacts
  <2> QED
    BY <2>2, <2>3 DEF r
<1>3. ASSUME NEW b \in Int, Equal(n, a, b) PROVE a % n = b % n
  <2> DEFINE x == a % n
             y == b % n
  <2>1. x \in Int /\ y \in Int /\ 0 <= x /\ x < n /\ 0 <= y /\ y < n
    BY <1>1
  <2>2. Equal(n, x, a) /\ Equal(n, b, y)
    BY <1>2
  <2> HIDE DEF x, y
  <2>3. Equal(n, x, b)
    BY <1>3, <2>1, <2>2, EqualFacts
  <2>4. Equal(n, x, y)
    BY <2>1, <2>2, <2>3, EqualFacts
  <2>5. PICK q \in Int : x = y + q * n
    BY <2>4 DEF Equal
  <2>6. ~ (q >= 1)
    <3> SUFFICES ASSUME q >= 1 PROVE FALSE
      OBVIOUS
    <3>1. q * n >= n
      BY SMT
    <3> QED
      BY <3>1, <2>1, <2>5
  <2>7. ~ (q <= -1)
    <3> SUFFICES ASSUME q <= -1 PROVE FALSE
      OBVIOUS
    <3>1. q * n <= -n
      BY SMT
    <3> QED
      BY <3>1, <2>1, <2>5
  <2>8. q = 0
    BY <2>6, <2>7
  <2>9. x = y
    BY <2>1, <2>5, <2>8
  <2> QED
    BY <2>9 DEF x, y
<1>4. ASSUME NEW b \in Int, a % n = b % n PROVE Equal(n, a, b)
  <2> DEFINE y == b % n
  <2>1. Equal(n, a, y) /\ Equal(n, y, b) /\ y \in Int
    BY <1>1, <1>2, <1>4
  <2> HIDE DEF y
  <2> QED
    BY <2>1, EqualFacts
<1> QED
  BY <1>1, <1>2, <1>3, <1>4

\* A multiple of Modulus is one of Prime, and Prime times a multiple of Prime is one
\* of Modulus.
LEMMA TwoModuli ==
  ASSUME NEW a \in Int, NEW b \in Int
  PROVE  /\ Equal(Modulus, a, b) => Equal(Prime, a, b)
         /\ Equal(Prime, a, b) <=> Equal(Modulus, Prime * a, Prime * b)
<1> USE PrimeFacts
<1>1. ASSUME Equal(Modulus, a, b) PROVE Equal(Prime, a, b)
  <2>1. PICK q \in Int : a = b + q * Modulus
    BY <1>1 DEF Equal
  <2>2. a = b + (q * Prime) * Prime /\ q * Prime \in Int
    BY <2>1
  <2> QED
    BY <2>2 DEF Equal
<1>2. ASSUME Equal(Prime, a, b) PROVE Equal(Modulus, Prime * a, Prime * b)
  <2>1. PICK q \in Int : a = b + q * Prime
    BY <1>2 DEF Equal
  <2>2. Prime * a = Prime * b + q * Modulus
    BY <2>1
  <2> QED
    BY <2>2 DEF Equal
<1>3. ASSUME Equal(Modulus, Prime * a, Prime * b) PROVE Equal(Prime, a, b)
  <2>1. PICK q \in Int : Prime * a = Prime * b + q * Modulus
    BY <1>3 DEF Equal
  <2>2. Prime * (a - (b + q * Prime)) = 0
    BY <2>1
  <2> DEFINE k == a - (b + q * Prime)
  <2>3. k \in Int /\ Prime * k = 0
    BY <2>2
  <2> HIDE DEF k
  <2>4. k = 0
    BY <2>3
  <2>5. a = b + q * Prime
    BY <2>4 DEF k
  <2> QED
    BY <2>5 DEF Equal
<1> QED
  BY <1>1, <1>2, <1>3
-----------------------------------------------------------------------------
(* Reciprocals.                                                             *)

\* Prime divides no product of two smaller numbers: otherwise the least factor
\* that gives such a product leaves a smaller one as remainder of Prime.
LEMMA PrimeDivides ==
  ASSUME NEW r \in 1 .. (Prime - 1)
  PROVE  \A y \in 1 .. (Prime - 1) : ~ Equal(Prime, r * y, 0)
<1> DEFINE F == 1 .. (Prime - 1)
           Bad == {y \in F : Equal(Prime, r * y, 0)}
<1> USE PrimeFacts
<1>1. SUFFICES ASSUME Bad # {} PROVE FALSE
  OBVIOUS
<1>2. Bad \subseteq Nat
  OBVIOUS
<1>3. PICK y \in Bad : \A z \in Bad : ~ (<<z, y>> \in OpToRel(<, Nat))
  <2> HIDE DEF Bad
  <2> QED
    BY <1>1, <1>2, NatLessThanWellFounded, WFMin
<1>4. \A z \in Bad : ~ (z < y)
  BY <1>2, <1>3 DEF OpToRel
<1>5. y \in Nat /\ 1 <= y /\ y < Prime /\ r \in Nat /\ 1 <= r /\ r < Prime
  OBVIOUS
<1>6. PICK k \in Int : r * y = k * Prime
  BY DEF Equal
<1>7. CASE y = 1
  <2>1. r = k * Prime
    BY <1>5, <1>6, <1>7
  <2>2. ~ (k <= 0)
    <3> SUFFICES ASSUME k <= 0 PROVE FALSE
      OBVIOUS
    <3>1. k * Prime <= 0
      BY SMT
    <3> QED
      BY <3>1, <2>1, <1>5
  <2>3. ~ (k >= 1)
    <3> SUFFICES ASSUME k >= 1 PROVE FALSE
      OBVIOUS
    <3>1. k * Prime >= Prime
      BY SMT
    <3> QED
      BY <3>1, <2>1, <1>5
  <2> QED
    BY <2>2, <2>3
<1>8. CASE y # 1
  <2>1. y \in 2 .. (Prime - 1)
    BY <1>5, <1>8
  <2> DEFINE t == Prime % y
             q == Prime \div y
  <2>2. t # 0
    BY <2>1, PrimeAssumption
  <2>3. t \in Int /\ 0 <= t /\ t < y
    BY <1>5, ModFacts
  <2>4. Prime = t + q * y /\ q \in Int
    BY <1>5
  <2> HIDE DEF t, q
  <2>5. r * t = (r - q * k) * Prime
    <3>1. r * t = r * (Prime - q * y)
      BY <1>5, <2>3, <2>4
    <3>2. r * (Prime - q * y) = r * Prime - q * (r * y)
      BY <1>5, <2>4
    <3>3. q * (k * Prime) = (q * k) * Prime
      BY <2>4
    <3>4. r * Prime - (q * k) * Prime = (r - q * k) * Prime
      BY <1>5, <2>4
    <3> QED
      BY <3>1, <3>2, <3>3, <3>4, <1>6
  <2>6. r * t = 0 + (r - q * k) * Prime /\ r - q * k \in Int
    BY <1>5, <2>4, <2>5
  <2>7. t \in Bad
    BY <1>5, <2>2, <2>3, <2>6 DEF Equal
  <2> QED
    BY <1>4, <2>3, <2>7
<1> QED
  BY <1>7, <1>8

\* Every residue but zero has an inverse modulo Prime: multiplying by it takes
\* different residues to different ones, hence takes one to 1.
LEMMA TableFacts ==
  ASSUME NEW r \in 1 .. (Prime - 1)
  PROVE  ReciprocalTable[r] \in 1 .. (Prime - 1) /\ Equal(Prime, r * ReciprocalTable[r], 1)
<1> DEFINE F == 1 .. (Prime - 1)
           m == [y \in F |-> (r * y) % Prime]
<1> USE PrimeFacts
<1>1. r \in Int /\ \A y \in F : y \in Int /\ r * y \in Int
  OBVIOUS
<1>2. ASSUME NEW y \in F PROVE (r * y) % Prime \in F
  <2> DEFINE p == r * y
  <2>1. p \in Int /\ ~ Equal(Prime, p, 0)
    BY <1>1, PrimeDivides
  <2> HIDE DEF p
  <2>2. p % Prime \in Int /\ 0 <= p % Prime /\ p % Prime < Prime /\ Equal(Prime, p, p % Prime)
    BY <2>1, ModFacts
  <2>3. p % Prime # 0
    BY <2>1, <2>2
  <2> QED
    BY <2>2, <2>3 DEF p
<1>3. ASSUME NEW y \in F, NEW z \in F, y > z
      PROVE  (r * y) % Prime # (r * z) % Prime
  <2> SUFFICES ASSUME (r * y) % Prime = (r * z) % Prime PROVE FALSE
    OBVIOUS
  <2> DEFINE p == r * y
             q == r * z
  <2>1. p \in Int /\ q \in Int /\ p % Prime = q % Prime
    BY <1>1
  <2> HIDE DEF p, q
  <2>2. Equal(Prime, p, q)
    BY <2>1, ModFacts
  <2>3. Equal(Prime, q, q)
    BY <2>1, EqualFacts
  <2>31. Equal(Prime, p - q, q - q)
    BY <2>1, <2>2, <2>3, EqualFacts
  <2>4. p - q = r * (y - z) /\ q - q = 0
    BY <1>1, <2>1 DEF p, q
  <2>5. y - z \in 1 .. (Prime - 1)
    BY <1>3
  <2> QED
    BY <2>31, <2>4, <2>5, PrimeDivides
<1>4. m \in [F -> F]
  BY <1>2
<1>5. ASSUME NEW y \in F, NEW z \in F, m[y] = m[z] PROVE y = z
  BY <1>1, <1>3, <1>5
<1>6. IsFiniteSet(F)
  BY FS_Interval
<1>7. 1 \in F
  OBVIOUS
<1> HIDE DEF F, m
<1>8. m \in Injection(F, F)
  BY <1>4, <1>5 DEF Injection, IsInjective
<1>9. m \in Surjection(F, F)
  BY <1>6, <1>8, FS_Injection
<1>10. PICK y \in F : m[y] = 1
  BY <1>7, <1>9 DEF Surjection
<1>11. \E z \in F : (r * z) % Prime = 1
  BY <1>10 DEF m
<1> DEFINE w == CHOOSE z \in F : (r * z) % Prime = 1
<1>12. w \in F /\ (r * w) % Prime = 1
  BY <1>11
<1>13. ReciprocalTable[r] = w
  BY DEF ReciprocalTable, F
<1> HIDE DEF w
<1>14. Equal(Prime, r * w, 1)
  <2>1. r * w \in Int
    BY <1>1, <1>12 DEF F
  <2>2. Equal(Prime, r * w, (r * w) % Prime)
    BY <2>1, ModFacts
  <2> QED
    BY <2>2, <1>12
<1> QED
  BY <1>12, <1>13, <1>14 DEF F

\* The reciprocal of a number that Prime does not divide is its inverse.
LEMMA ReciprocalFacts ==
  ASSUME NEW a \in Int, a % Prime # 0
  PROVE  Reciprocal(a) \in Int /\ Equal(Modulus, a * Reciprocal(a), 1)
<1> DEFINE r == a % Prime
           y == ReciprocalTable[r]
           s == a ** y
           t == 2 -- (a * y)
           u == y ** t
<1> USE PrimeFacts
<1>1. r \in Int /\ 0 <= r /\ r < Prime /\ r # 0 /\ Equal(Prime, a, r)
  BY ModFacts
<1> HIDE DEF r
<1>2. y \in Int /\ Equal(Prime, r * y, 1)
  BY <1>1, TableFacts
<1>3. Reciprocal(a) = u
  BY DEF Reciprocal, LiftedReciprocal, r
<1> HIDE DEF y
<1>4. /\ Equal(Prime, y, y) /\ Equal(Modulus, y, y) /\ Equal(Modulus, a, a)
      /\ a * y \in Int /\ r * y \in Int
  BY <1>1, <1>2, EqualFacts
<1>41. Equal(Prime, a * y, r * y)
  BY <1>1, <1>2, <1>4, EqualFacts
<1>5. Equal(Prime, a * y, 1)
  BY <1>2, <1>4, <1>41, EqualFacts
<1>6. PICK k \in Int : a * y = 1 + k * Prime
  BY <1>5 DEF Equal
<1> DEFINE v == 2 - (a * y)
<1>7. v \in Int /\ v = 1 - k * Prime
  BY <1>4, <1>6
<1>8. t = v % Modulus
  BY DEF --
<1> HIDE DEF t, v
<1>81. v % Modulus \in Int /\ Equal(Modulus, v % Modulus, v)
  BY <1>7, ModFacts
<1>9. t \in Int /\ Equal(Modulus, t, v)
  BY <1>8, <1>81, Zenon
<1> DEFINE p == y * t
<1>10. p \in Int
  BY <1>2, <1>9
<1>11. u = p % Modulus
  BY DEF **
<1> HIDE DEF p
<1>12. u \in Int /\ Equal(Modulus, u, p)
  BY <1>10, <1>11, ModFacts
<1> HIDE DEF u
<1>13. Equal(Modulus, p, y * v)
  <2>1. \A c, d \in Int : Equal(Modulus, y, y) /\ Equal(Modulus, c, d)
                            => Equal(Modulus, y * c, y * d)
    BY <1>2, EqualFacts
  <2>2. Equal(Modulus, y * t, y * v)
    BY <2>1, <1>4, <1>7, <1>9
  <2> QED
    BY <2>2 DEF p
<1>131. y * v \in Int
  BY <1>2, <1>7
<1>14. Equal(Modulus, u, y * v)
  BY <1>131, <1>10, <1>12, <1>13, EqualFacts
<1>15. Equal(Modulus, a * u, a * (y * v))
  BY <1>4, <1>12, <1>131, <1>14, EqualFacts
<1>151. a * (y * v) \in Int /\ a * u \in Int
  BY <1>12, <1>131
<1>16. a * (y * v) = 1 + (- k * k) * Modulus
  <2>1. a * (y * v) = (a * y) * v
    BY <1>2, <1>7
  <2>2. (1 + k * Prime) * (1 - k * Prime) = 1 + (- k * k) * (Prime * Prime)
    OBVIOUS
  <2> QED
    BY <2>1, <2>2, <1>6, <1>7
<1>17. Equal(Modulus, a * (y * v), 1)
  <2>1. - k * k \in Int
    OBVIOUS
  <2> QED
    BY <1>16, <2>1 DEF Equal
<1>18. Equal(Modulus, a * u, 1)
  BY <1>15, <1>151, <1>17, 1 \in Int, EqualFacts
<1> QED
  BY <1>3, <1>12, <1>18
-----------------------------------------------------------------------------
(* Residues modulo Prime, and how a residue changes.                         *)

\* Two integers with the same residue modulo Prime.
Same(a, b) == a \in Int /\ b \in Int /\ Equal(Prime, a, b)

\* b is what a becomes by a step of Prime in an argument, x its derivative.
Tangent(a, b, x) == a \in Int /\ b \in Int /\ x \in Int /\ Equal(Modulus, b, a + Prime * x)

\* The operations without a modulus, as names the provers do not expand.
Add(a, b) == a + b
Sub(a, b) == a - b
Mul(a, b) == a * b

\* An operation and its result modulo Modulus.
LEMMA ResidueFacts ==
  ASSUME NEW a \in Int, NEW b \in Int
  PROVE  /\ a ++ b \in Int /\ Equal(Modulus, a ++ b, a + b) /\ Equal(Modulus, a + b, a ++ b)
         /\ a -- b \in Int /\ Equal(Modulus, a -- b, a - b) /\ Equal(Modulus, a - b, a -- b)
         /\ a ** b \in Int /\ Equal(Modulus, a ** b, a * b) /\ Equal(Modulus, a * b, a ** b)
<1> USE PrimeFacts
<1>1. ASSUME NEW r \in Int
      PROVE  r % Modulus \in Int /\ Equal(Modulus, r % Modulus, r) /\ Equal(Modulus, r, r % Modulus)
  BY ModFacts
<1> DEFINE s == a + b
           t == a - b
           u == a * b
<1>2. s \in Int /\ t \in Int /\ u \in Int
  OBVIOUS
<1>3. a ++ b = s % Modulus /\ a -- b = t % Modulus /\ a ** b = u % Modulus
  BY DEF ++, --, **
<1> HIDE DEF s, t, u
<1>4. a ++ b \in Int /\ Equal(Modulus, a ++ b, s) /\ Equal(Modulus, s, a ++ b)
  BY <1>1, <1>2, <1>3, Zenon
<1>5. a -- b \in Int /\ Equal(Modulus, a -- b, t) /\ Equal(Modulus, t, a -- b)
  BY <1>1, <1>2, <1>3, Zenon
<1>6. a ** b \in Int /\ Equal(Modulus, a ** b, u) /\ Equal(Modulus, u, a ** b)
  BY <1>1, <1>2, <1>3, Zenon
<1> QED
  BY <1>4, <1>5, <1>6 DEF s, t, u

\* The rules of Same: an equivalence that the operations keep.
LEMMA SameRules ==
  /\ \A a \in Int : Same(a, a)
  /\ \A a, b : Same(a, b) => Same(b, a) /\ a \in Int /\ b \in Int
  /\ \A a, b, c : Same(a, b) /\ Same(b, c) => Same(a, c)
  /\ \A a, b, x, y : Same(a, x) /\ Same(b, y) =>
       /\ Same(a ++ b, Add(x, y)) /\ Same(a -- b, Sub(x, y)) /\ Same(a ** b, Mul(x, y))
       /\ Same(Add(a, b), Add(x, y)) /\ Same(Sub(a, b), Sub(x, y)) /\ Same(Mul(a, b), Mul(x, y))
<1> USE PrimeFacts
<1>1. ASSUME NEW a \in Int PROVE Same(a, a)
  BY EqualFacts DEF Same
<1>2. ASSUME NEW a, NEW b, Same(a, b) PROVE Same(b, a) /\ a \in Int /\ b \in Int
  BY <1>2, EqualFacts DEF Same
<1>3. ASSUME NEW a, NEW b, NEW c, Same(a, b), Same(b, c) PROVE Same(a, c)
  BY <1>3, EqualFacts DEF Same
<1>4. ASSUME NEW a, NEW b, NEW x, NEW y, Same(a, x), Same(b, y)
      PROVE  /\ Same(a ++ b, Add(x, y)) /\ Same(a -- b, Sub(x, y)) /\ Same(a ** b, Mul(x, y))
             /\ Same(Add(a, b), Add(x, y)) /\ Same(Sub(a, b), Sub(x, y))
             /\ Same(Mul(a, b), Mul(x, y))
  <2>1. a \in Int /\ b \in Int /\ x \in Int /\ y \in Int
    BY <1>4 DEF Same
  <2>2. Equal(Prime, a, x) /\ Equal(Prime, b, y)
    BY <1>4 DEF Same
  <2>3. Equal(Prime, a + b, x + y) /\ Equal(Prime, a - b, x - y) /\ Equal(Prime, a * b, x * y)
    BY <2>1, <2>2, EqualFacts
  <2>4. /\ a + b \in Int /\ a - b \in Int /\ a * b \in Int
        /\ x + y \in Int /\ x - y \in Int /\ x * y \in Int
    BY <2>1
  <2>5. Same(Add(a, b), Add(x, y)) /\ Same(Sub(a, b), Sub(x, y)) /\ Same(Mul(a, b), Mul(x, y))
    BY <2>3, <2>4 DEF Same, Add, Sub, Mul
  <2>6. a ++ b \in Int /\ a -- b \in Int /\ a ** b \in Int
    BY <2>1, ResidueFacts
  <2>7. /\ Equal(Modulus, a ++ b, a + b) /\ Equal(Modulus, a -- b, a - b)
        /\ Equal(Modulus, a ** b, a * b)
    BY <2>1, ResidueFacts
  <2>8. Same(a ++ b, Add(a, b)) /\ Same(a -- b, Sub(a, b)) /\ Same(a ** b, Mul(a, b))
    BY <2>4, <2>6, <2>7, TwoModuli DEF Same, Add, Sub, Mul
  <2> QED
    BY <1>3, <2>5, <2>8
<1> QED
  BY <1>1, <1>2, <1>3, <1>4

\* A change keeps the residue modulo Prime, and determines the derivative's.
LEMMA TangentOf ==
  ASSUME NEW a, NEW b, NEW x, Tangent(a, b, x)
  PROVE  /\ a \in Int /\ b \in Int /\ x \in Int /\ Same(a, b)
         /\ \A y : Same(x, y) => Tangent(a, b, y)
<1> USE PrimeFacts
<1>1. a \in Int /\ b \in Int /\ x \in Int /\ Equal(Modulus, b, a + Prime * x)
  BY DEF Tangent
<1>2. PICK q \in Int : b = (a + Prime * x) + q * Modulus
  BY <1>1 DEF Equal
<1>3. a = b + (- x - q * Prime) * Prime /\ - x - q * Prime \in Int
  BY <1>1, <1>2
<1>4. Same(a, b)
  BY <1>1, <1>3 DEF Same, Equal
<1>5. ASSUME NEW y, Same(x, y) PROVE Tangent(a, b, y)
  <2>1. y \in Int
    BY <1>5 DEF Same
  <2>2. PICK k \in Int : x = y + k * Prime
    BY <1>5 DEF Same, Equal
  <2>3. b = (a + Prime * y) + (k + q) * Modulus /\ k + q \in Int
    BY <1>1, <1>2, <2>1, <2>2
  <2> QED
    BY <1>1, <2>1, <2>3 DEF Tangent, Equal
<1> QED
  BY <1>1, <1>4, <1>5

\* Sums, differences and products.
LEMMA TangentOperations ==
  ASSUME NEW a, NEW b, NEW x, NEW e, NEW f, NEW y, Tangent(a, b, x), Tangent(e, f, y)
  PROVE  /\ Tangent(a ++ e, b ++ f, x ++ y)
         /\ Tangent(Add(a, e), Add(b, f), Add(x, y))
         /\ Tangent(Mul(a, e), Mul(b, f), Add(Mul(x, e), Mul(a, y)))
         /\ Tangent(a -- e, b -- f, x -- y)
         /\ Tangent(a ** e, b ** f, (x ** e) ++ (a ** y))
<1> USE PrimeFacts
<1>1. /\ a \in Int /\ b \in Int /\ x \in Int /\ Equal(Modulus, b, a + Prime * x)
      /\ e \in Int /\ f \in Int /\ y \in Int /\ Equal(Modulus, f, e + Prime * y)
  BY DEF Tangent
<1> DEFINE p == a + Prime * x
           q == e + Prime * y
<1>2. p \in Int /\ q \in Int /\ Equal(Modulus, b, p) /\ Equal(Modulus, f, q)
  BY <1>1
<1> HIDE DEF p, q
<1>3. Equal(Modulus, b + f, p + q) /\ Equal(Modulus, b - f, p - q) /\ Equal(Modulus, b * f, p * q)
  BY <1>1, <1>2, EqualFacts
<1>4. /\ a ++ e \in Int /\ a -- e \in Int /\ a ** e \in Int
      /\ b ++ f \in Int /\ b -- f \in Int /\ b ** f \in Int
      /\ x ++ y \in Int /\ x -- y \in Int /\ x ** e \in Int /\ a ** y \in Int
      /\ (x ** e) ++ (a ** y) \in Int
  BY <1>1, ResidueFacts
<1>41. /\ a + e \in Int /\ a - e \in Int /\ a * e \in Int /\ x + y \in Int /\ x - y \in Int
       /\ b + f \in Int /\ b - f \in Int /\ b * f \in Int
       /\ p + q \in Int /\ p - q \in Int /\ p * q \in Int
       /\ x * e + a * y \in Int
  BY <1>1, <1>2
<1>6. ASSUME NEW u \in Int, NEW U \in Int, NEW v \in Int, NEW V \in Int, NEW W \in Int,
             NEW z \in Int,
             Equal(Modulus, u, U), Equal(Modulus, v, V), Equal(Modulus, V, W),
             NEW k \in Int, W = (U + Prime * z) + k * Modulus
      PROVE  Tangent(u, v, z)
  <2>1. PICK i \in Int : u = U + i * Modulus
    BY <1>6 DEF Equal
  <2>2. PICK j \in Int : v = V + j * Modulus
    BY <1>6 DEF Equal
  <2>3. PICK l \in Int : V = W + l * Modulus
    BY <1>6 DEF Equal
  <2>4. v = (u + Prime * z) + (k + l + j - i) * Modulus /\ k + l + j - i \in Int
    BY <2>1, <2>2, <2>3, <1>6
  <2> QED
    BY <2>4 DEF Tangent, Equal
<1>7. Tangent(a ++ e, b ++ f, x + y)
  <2>1. /\ Equal(Modulus, a ++ e, a + e) /\ Equal(Modulus, b ++ f, b + f)
    BY <1>1, ResidueFacts
  <2>2. p + q = ((a + e) + Prime * (x + y)) + 0 * Modulus
    BY <1>1 DEF p, q
  <2> QED
    BY <1>6, <1>3, <1>4, <1>41, <2>1, <2>2, 0 \in Int
<1>71. Tangent(a + e, b + f, x + y)
  <2>1. /\ Equal(Modulus, a + e, a + e) /\ Equal(Modulus, b + f, b + f)
    BY <1>41, EqualFacts
  <2>2. p + q = ((a + e) + Prime * (x + y)) + 0 * Modulus
    BY <1>1 DEF p, q
  <2> QED
    BY <1>6, <1>3, <1>4, <1>41, <2>1, <2>2, 0 \in Int
<1>8. Tangent(a -- e, b -- f, x - y)
  <2>1. /\ Equal(Modulus, a -- e, a - e) /\ Equal(Modulus, b -- f, b - f)
    BY <1>1, ResidueFacts
  <2>2. p - q = ((a - e) + Prime * (x - y)) + 0 * Modulus
    BY <1>1 DEF p, q
  <2> QED
    BY <1>6, <1>3, <1>4, <1>41, <2>1, <2>2, 0 \in Int
<1>9. Tangent(a ** e, b ** f, x * e + a * y)
  <2>1. /\ Equal(Modulus, a ** e, a * e) /\ Equal(Modulus, b ** f, b * f)
    BY <1>1, ResidueFacts
  <2>2. p * q = ((a * e) + Prime * (x * e + a * y)) + (x * y) * Modulus /\ x * y \in Int
    BY <1>1 DEF p, q
  <2> QED
    BY <1>6, <1>3, <1>4, <1>41, <2>1, <2>2
<1>91. Tangent(a * e, b * f, x * e + a * y)
  <2>1. /\ Equal(Modulus, a * e, a * e) /\ Equal(Modulus, b * f, b * f)
    BY <1>41, EqualFacts
  <2>2. p * q = ((a * e) + Prime * (x * e + a * y)) + (x * y) * Modulus /\ x * y \in Int
    BY <1>1 DEF p, q
  <2> QED
    BY <1>6, <1>3, <1>4, <1>41, <2>1, <2>2
<1>10. Same(x + y, x ++ y) /\ Same(x - y, x -- y)
  <2>1. Same(x ++ y, x + y) /\ Same(x -- y, x - y)
    BY <1>1, SameRules DEF Add, Sub
  <2> QED
    BY <2>1, SameRules
<1>11. Same(x * e + a * y, (x ** e) ++ (a ** y))
  <2>1. Same(x ** e, Mul(x, e)) /\ Same(a ** y, Mul(a, y))
    BY <1>1, SameRules
  <2>2. Same((x ** e) ++ (a ** y), Add(Mul(x, e), Mul(a, y)))
    BY <2>1, SameRules
  <2> QED
    BY <2>2, SameRules DEF Add, Mul
<1> QED
  BY <1>7, <1>71, <1>8, <1>9, <1>91, <1>10, <1>11, TangentOf DEF Add, Mul

\* A constant does not change.
LEMMA ConstantTangent == \A k \in Int : Tangent(k, k, 0)
<1> USE PrimeFacts
<1> SUFFICES ASSUME NEW k \in Int PROVE Tangent(k, k, 0)
  OBVIOUS
<1>1. k = (k + Prime * 0) + 0 * Modulus
  OBVIOUS
<1> QED
  BY <1>1 DEF Tangent, Equal

\* The rules, as the proofs below cite them.
LEMMA TangentRules ==
  /\ \A a, b, x, e, f, y : Tangent(a, b, x) /\ Tangent(e, f, y) =>
       /\ Tangent(a ++ e, b ++ f, x ++ y)
       /\ Tangent(a -- e, b -- f, x -- y)
       /\ Tangent(a ** e, b ** f, (x ** e) ++ (a ** y))
  /\ \A k \in Int : Tangent(k, k, 0)
<1>1. ASSUME NEW a, NEW b, NEW x, NEW e, NEW f, NEW y, Tangent(a, b, x), Tangent(e, f, y)
      PROVE  /\ Tangent(a ++ e, b ++ f, x ++ y)
             /\ Tangent(a -- e, b -- f, x -- y)
             /\ Tangent(a ** e, b ** f, (x ** e) ++ (a ** y))
  BY <1>1, TangentOperations
<1> QED
  BY <1>1, ConstantTangent

\* The same without a modulus.
LEMMA PlainRules ==
  \A a, b, x, e, f, y : Tangent(a, b, x) /\ Tangent(e, f, y) =>
    /\ Tangent(Add(a, e), Add(b, f), Add(x, y))
    /\ Tangent(Mul(a, e), Mul(b, f), Add(Mul(x, e), Mul(a, y)))
BY TangentOperations

\* a v is one modulo Prime.
Inverses(a, v) == a \in Int /\ v \in Int /\ Equal(Prime, a * v, 1)

\* Prime does not divide a number that has an inverse.
LEMMA InversesFacts ==
  ASSUME NEW a, NEW v, Inverses(a, v)
  PROVE  a \in Int /\ v \in Int /\ a % Prime # 0 /\ v % Prime # 0 /\ Inverses(v, a)
<1> USE PrimeFacts
<1>1. a \in Int /\ v \in Int /\ Equal(Prime, a * v, 1) /\ v * a = a * v
  BY DEF Inverses
<1>2. Inverses(v, a)
  BY <1>1 DEF Inverses
<1>3. \A b, w \in Int : Equal(Prime, b * w, 1) => b % Prime # 0
  <2> SUFFICES ASSUME NEW b \in Int, NEW w \in Int, Equal(Prime, b * w, 1), b % Prime = 0
               PROVE  FALSE
    OBVIOUS
  <2>1. b % Prime = 0 % Prime
    OBVIOUS
  <2>2. Equal(Prime, b, 0)
    BY <2>1, ModFacts
  <2>3. PICK q \in Int : b = 0 + q * Prime
    BY <2>2 DEF Equal
  <2>4. PICK k \in Int : b * w = 1 + k * Prime
    BY DEF Equal
  <2> DEFINE i == q * w - k
  <2>5. i \in Int /\ i * Prime = 1
    BY <2>3, <2>4
  <2> HIDE DEF i
  <2>6. ~ (i <= 0)
    <3> SUFFICES ASSUME i <= 0 PROVE FALSE
      OBVIOUS
    <3>1. i * Prime <= 0
      BY <2>5, SMT
    <3> QED
      BY <3>1, <2>5
  <2>7. ~ (i >= 1)
    <3> SUFFICES ASSUME i >= 1 PROVE FALSE
      OBVIOUS
    <3>1. i * Prime >= Prime
      BY <2>5, SMT
    <3> QED
      BY <3>1, <2>5
  <2> QED
    BY <2>5, <2>6, <2>7
<1> QED
  BY <1>1, <1>2, <1>3

\* A number that Prime does not divide has its reciprocal as inverse, and no other.
LEMMA ReciprocalSame ==
  /\ \A a \in Int : a % Prime # 0 => Inverses(a, Reciprocal(a))
  /\ \A a, b, v : Same(a, b) /\ Inverses(b, v) => Same(Reciprocal(a), v)
<1> USE PrimeFacts
<1>1. ASSUME NEW a \in Int, a % Prime # 0 PROVE Inverses(a, Reciprocal(a))
  <2> DEFINE u == Reciprocal(a)
  <2>1. u \in Int /\ Equal(Modulus, a * u, 1)
    BY <1>1, ReciprocalFacts
  <2> HIDE DEF u
  <2>2. a * u \in Int /\ 1 \in Int
    BY <2>1
  <2>3. Equal(Prime, a * u, 1)
    BY <2>1, <2>2, TwoModuli
  <2> QED
    BY <2>1, <2>3 DEF Inverses, u
<1>2. ASSUME NEW a, NEW b, NEW v, Same(a, b), Inverses(b, v)
      PROVE  Same(Reciprocal(a), v)
  <2>1. /\ a \in Int /\ b \in Int /\ v \in Int /\ b % Prime # 0
        /\ Equal(Prime, a, b) /\ Equal(Prime, b * v, 1)
    BY <1>2, InversesFacts DEF Same, Inverses
  <2>2. a % Prime = b % Prime
    BY <2>1, ModFacts
  <2> DEFINE u == Reciprocal(a)
  <2>3. Inverses(a, u)
    BY <1>1, <2>1, <2>2
  <2> HIDE DEF u
  <2>4. u \in Int /\ Equal(Prime, a * u, 1)
    BY <2>3 DEF Inverses
  <2>5. PICK i \in Int : a = b + i * Prime
    BY <2>1 DEF Equal
  <2>6. PICK j \in Int : b * v = 1 + j * Prime
    BY <2>1 DEF Equal
  <2>7. PICK k \in Int : a * u = 1 + k * Prime
    BY <2>4 DEF Equal
  <2> DEFINE q == v * k - i * u * v - j * u
  <2>8. q \in Int
    BY <2>1, <2>4
  <2>9. u = v + q * Prime
    <3>1. (a * u) * v = (1 + k * Prime) * v
      BY <2>7
    <3>2. (a * u) * v = (b * v) * u + (i * u * v) * Prime
      BY <2>1, <2>4, <2>5
    <3>3. (b * v) * u = (1 + j * Prime) * u
      BY <2>6
    <3>4. (1 + k * Prime) * v = (1 + j * Prime) * u + (i * u * v) * Prime
      BY <3>1, <3>2, <3>3
    <3> QED
      BY <3>4, <2>1, <2>4
  <2> HIDE DEF q
  <2> QED
    BY <2>1, <2>4, <2>8, <2>9 DEF Same, Equal, u
<1> QED
  BY <1>1, <1>2

\* The derivative of the reciprocal.
LEMMA ReciprocalTangent ==
  ASSUME NEW a, NEW b, NEW x, Tangent(a, b, x), a % Prime # 0
  PROVE  Tangent(Reciprocal(a), Reciprocal(b), 0 -- ((Reciprocal(a) ** Reciprocal(a)) ** x))
<1> USE PrimeFacts
<1>1. a \in Int /\ b \in Int /\ x \in Int /\ Equal(Modulus, b, a + Prime * x)
  BY DEF Tangent
<1>2. Equal(Prime, a, b)
  BY TangentOf DEF Same
<1>3. b % Prime # 0
  BY <1>1, <1>2, ModFacts
<1> DEFINE u == Reciprocal(a)
           w == Reciprocal(b)
<1>4. u \in Int /\ Equal(Modulus, a * u, 1) /\ w \in Int /\ Equal(Modulus, b * w, 1)
  BY <1>1, <1>3, ReciprocalFacts
<1> HIDE DEF u, w
<1> DEFINE z == - (u * u * x)
           v == u + Prime * z
<1>5. z \in Int /\ v \in Int
  BY <1>1, <1>4
<1>6. PICK i \in Int : b = (a + Prime * x) + i * Modulus
  BY <1>1 DEF Equal
<1>7. PICK j \in Int : a * u = 1 + j * Modulus
  BY <1>4 DEF Equal
<1>8. PICK k \in Int : b * w = 1 + k * Modulus
  BY <1>4 DEF Equal
<1> DEFINE l == j - Prime * x * u * j - x * u * u * x + i * v
<1>9. l \in Int
  BY <1>1, <1>4, <1>5
<1>10. b * v = 1 + l * Modulus
  <2>1. b * v = (a + Prime * x) * v + (i * v) * Modulus
    BY <1>1, <1>5, <1>6
  <2>2. (a + Prime * x) * v
          = a * u + Prime * x * u - (a * u) * (Prime * u * x) - (x * u * u * x) * (Prime * Prime)
    BY <1>1, <1>4
  <2>3. (a * u) * (Prime * u * x) = (1 + j * Modulus) * (Prime * u * x)
    BY <1>7
  <2>4. (1 + j * Modulus) * (Prime * u * x) = Prime * x * u + (Prime * x * u * j) * Modulus
    BY <1>1, <1>4
  <2> HIDE DEF v, z
  <2>5. (a + Prime * x) * v
          = 1 + j * Modulus - (Prime * x * u * j) * Modulus - (x * u * u * x) * Modulus
    BY <2>2, <2>3, <2>4, <1>7, <1>1, <1>4
  <2> QED
    BY <2>1, <2>5, <1>1, <1>4, <1>5
<1> HIDE DEF z, l
<1>11. w = v + (w * l - v * k) * (-1) * Modulus
  <2> HIDE DEF v
  <2>1. (b * v) * w = (1 + l * Modulus) * w
    BY <1>10
  <2>2. (b * w) * v = (1 + k * Modulus) * v
    BY <1>8
  <2>3. (b * v) * w = (b * w) * v
    BY <1>1, <1>4, <1>5
  <2> QED
    BY <2>1, <2>2, <2>3, <1>4, <1>5, <1>9
<1>12. Tangent(u, w, z)
  <2>1. (w * l - v * k) * (-1) \in Int
    BY <1>4, <1>5, <1>9
  <2> QED
    BY <1>4, <1>5, <1>11, <2>1 DEF Tangent, Equal
<1>13. Same(z, 0 -- ((u ** u) ** x))
  <2>1. Same(0 -- ((u ** u) ** x), Sub(0, Mul(Mul(u, u), x)))
    BY <1>1, <1>4, SameRules, 0 \in Int
  <2>2. Sub(0, Mul(Mul(u, u), x)) = z
    BY <1>1, <1>4 DEF Sub, Mul, z
  <2> QED
    BY <2>1, <2>2, SameRules
<1> QED
  BY <1>12, <1>13, TangentOf DEF u, w
-----------------------------------------------------------------------------
(* Matrices that change by a step.                                           *)

\* m2 is what the matrix m becomes by a step, dm its derivative.
Moves(m, m2, dm) ==
  /\ DOMAIN m \subseteq Nat \X Nat /\ DOMAIN m2 = DOMAIN m /\ DOMAIN dm = DOMAIN m
  /\ \A p \in DOMAIN m : Tangent(m[p], m2[p], dm[p])

\* Zero in the operations.
LEMMA ZeroFacts ==
  /\ 0 ++ 0 = 0 /\ 0 -- 0 = 0 /\ \A a \in Int : a ** 0 = 0 /\ 0 ** a = 0 /\ 0 + 0 = 0
<1>1. 0 % Modulus = 0
  BY PrimeFacts
<1>2. \A a \in Int : a * 0 = 0 /\ 0 * a = 0
  OBVIOUS
<1>3. 0 + 0 = 0 /\ 0 - 0 = 0
  OBVIOUS
<1> QED
  BY <1>1, <1>2, <1>3 DEF ++, --, **

\* Computing a matrix once does not change it.
LEMMA ComputedFacts == \A m : Computed(m) = m
BY DEF Computed

\* The entries and the derivative at every position, where there is none too.
LEMMA MovesAt ==
  ASSUME NEW m, NEW m2, NEW dm, Moves(m, m2, dm)
  PROVE  \A p : /\ Tangent(At(m, p), At(m2, p), At(dm, p))
                /\ At(m, p) \in Int /\ At(m2, p) \in Int /\ At(dm, p) \in Int
<1> SUFFICES ASSUME NEW p
             PROVE  Tangent(At(m, p), At(m2, p), At(dm, p))
  BY DEF Tangent
<1>1. Tangent(0, 0, 0)
  BY ConstantTangent
<1> QED
  BY <1>1 DEF At, Moves

\* A derivative with the same residues is one too.
LEMMA MovesSame ==
  ASSUME NEW m, NEW m2, NEW dm, NEW dn, Moves(m, m2, dm),
         DOMAIN dn = DOMAIN m, \A p \in DOMAIN m : Same(dm[p], dn[p])
  PROVE  Moves(m, m2, dn)
BY TangentOf DEF Moves

\* The entries of scaled, added and transposed matrices.
LEMMA ScaleFacts ==
  ASSUME NEW s, NEW m
  PROVE  /\ DOMAIN Scale(s, m) = DOMAIN m
         /\ \A p \in DOMAIN m : Scale(s, m)[p] = s ** m[p]
         /\ s \in Int => \A p : At(Scale(s, m), p) = s ** At(m, p)
BY ComputedFacts, ZeroFacts DEF Scale, At

\* The entries of a sum of two matrices.
LEMMA PlusFacts ==
  ASSUME NEW m, NEW n
  PROVE  /\ DOMAIN Plus(m, n) = DOMAIN m \cup DOMAIN n
         /\ \A p \in DOMAIN m \cup DOMAIN n : Plus(m, n)[p] = At(m, p) ++ At(n, p)
         /\ \A p : At(Plus(m, n), p) = At(m, p) ++ At(n, p)
BY ComputedFacts, ZeroFacts DEF Plus, At

\* The entries of a combination of two matrices of one shape.
LEMMA CombineFacts ==
  ASSUME NEW s, NEW t, NEW m, NEW n, DOMAIN n = DOMAIN m
  PROVE  /\ DOMAIN Plus(Scale(s, m), Scale(t, n)) = DOMAIN m
         /\ \A p \in DOMAIN m : Plus(Scale(s, m), Scale(t, n))[p] = (s ** m[p]) ++ (t ** n[p])
<1>1. /\ DOMAIN Scale(s, m) = DOMAIN m /\ DOMAIN Scale(t, n) = DOMAIN m
      /\ \A p \in DOMAIN m : Scale(s, m)[p] = s ** m[p] /\ Scale(t, n)[p] = t ** n[p]
  BY ScaleFacts
<1> DEFINE a == Scale(s, m)
           b == Scale(t, n)
<1>2. DOMAIN a = DOMAIN m /\ DOMAIN b = DOMAIN m /\ DOMAIN a \cup DOMAIN b = DOMAIN m
  BY <1>1
<1> HIDE DEF a, b
<1>3. /\ DOMAIN Plus(a, b) = DOMAIN a \cup DOMAIN b
      /\ \A p \in DOMAIN a \cup DOMAIN b : Plus(a, b)[p] = At(a, p) ++ At(b, p)
  BY PlusFacts
<1>4. \A p \in DOMAIN m : At(a, p) = s ** m[p] /\ At(b, p) = t ** n[p]
  BY <1>1, <1>2 DEF At, a, b
<1> QED
  BY <1>2, <1>3, <1>4 DEF a, b

\* The change of a scaled matrix.
LEMMA ScaleMoves ==
  ASSUME NEW s, NEW s2, NEW ds, NEW m, NEW m2, NEW dm,
         Tangent(s, s2, ds), Moves(m, m2, dm)
  PROVE  Moves(Scale(s, m), Scale(s2, m2), Plus(Scale(ds, m), Scale(s, dm)))
<1> DEFINE D == DOMAIN m
<1>1. D \subseteq Nat \X Nat /\ DOMAIN m2 = D /\ DOMAIN dm = D
  BY DEF Moves
<1>2. DOMAIN Scale(s, m) = D /\ DOMAIN Scale(s2, m2) = D
  BY <1>1, ScaleFacts
<1>3. /\ DOMAIN Plus(Scale(ds, m), Scale(s, dm)) = D
      /\ \A p \in D : Plus(Scale(ds, m), Scale(s, dm))[p] = (ds ** m[p]) ++ (s ** dm[p])
  BY <1>1, CombineFacts
<1>4. ASSUME NEW p \in D
      PROVE  Tangent(Scale(s, m)[p], Scale(s2, m2)[p], Plus(Scale(ds, m), Scale(s, dm))[p])
  <2>1. Tangent(m[p], m2[p], dm[p])
    BY DEF Moves
  <2>2. Scale(s, m)[p] = s ** m[p] /\ Scale(s2, m2)[p] = s2 ** m2[p]
    BY <1>1, ScaleFacts
  <2>3. Tangent(s ** m[p], s2 ** m2[p], (ds ** m[p]) ++ (s ** dm[p]))
    BY <2>1, TangentRules
  <2> QED
    BY <1>3, <2>2, <2>3
<1> QED
  BY <1>1, <1>2, <1>3, <1>4 DEF Moves

\* The change of a sum.
LEMMA PlusMoves ==
  ASSUME NEW m, NEW m2, NEW dm, NEW n, NEW n2, NEW dn,
         Moves(m, m2, dm), Moves(n, n2, dn)
  PROVE  Moves(Plus(m, n), Plus(m2, n2), Plus(dm, dn))
<1> DEFINE D == DOMAIN m \cup DOMAIN n
<1>1. /\ DOMAIN m \subseteq Nat \X Nat /\ DOMAIN m2 = DOMAIN m /\ DOMAIN dm = DOMAIN m
      /\ DOMAIN n \subseteq Nat \X Nat /\ DOMAIN n2 = DOMAIN n /\ DOMAIN dn = DOMAIN n
  BY DEF Moves
<1>2. \A a, b : /\ DOMAIN Plus(a, b) = DOMAIN a \cup DOMAIN b
                /\ \A p \in DOMAIN a \cup DOMAIN b : Plus(a, b)[p] = At(a, p) ++ At(b, p)
  BY PlusFacts
<1>3. DOMAIN Plus(m, n) = D /\ DOMAIN Plus(m2, n2) = D /\ DOMAIN Plus(dm, dn) = D
  <2>1. DOMAIN Plus(m, n) = D
    BY <1>2
  <2>2. DOMAIN Plus(m2, n2) = DOMAIN m2 \cup DOMAIN n2
    BY <1>2
  <2>3. DOMAIN Plus(dm, dn) = DOMAIN dm \cup DOMAIN dn
    BY <1>2
  <2> QED
    BY <1>1, <2>1, <2>2, <2>3
<1>4. ASSUME NEW p \in D PROVE Tangent(Plus(m, n)[p], Plus(m2, n2)[p], Plus(dm, dn)[p])
  <2>1. Tangent(At(m, p), At(m2, p), At(dm, p)) /\ Tangent(At(n, p), At(n2, p), At(dn, p))
    BY MovesAt
  <2>2. /\ Plus(m, n)[p] = At(m, p) ++ At(n, p) /\ Plus(m2, n2)[p] = At(m2, p) ++ At(n2, p)
        /\ Plus(dm, dn)[p] = At(dm, p) ++ At(dn, p)
    BY <1>1, <1>2
  <2> QED
    BY <2>1, <2>2, TangentRules
<1> QED
  BY <1>1, <1>3, <1>4 DEF Moves

\* The change of a transposed matrix.
LEMMA TransposeMoves ==
  ASSUME NEW m, NEW m2, NEW dm, Moves(m, m2, dm)
  PROVE  Moves(Transpose(m), Transpose(m2), Transpose(dm))
<1> DEFINE D == {<<q[2], q[1]>> : q \in DOMAIN m}
<1>1. DOMAIN m \subseteq Nat \X Nat /\ DOMAIN m2 = DOMAIN m /\ DOMAIN dm = DOMAIN m
  BY DEF Moves
<1>2. /\ Transpose(m) = [p \in D |-> m[<<p[2], p[1]>>]]
      /\ Transpose(m2) = [p \in D |-> m2[<<p[2], p[1]>>]]
      /\ Transpose(dm) = [p \in D |-> dm[<<p[2], p[1]>>]]
  BY <1>1 DEF Transpose
<1>3. D \subseteq Nat \X Nat
  BY <1>1
<1>4. ASSUME NEW p \in D PROVE <<p[2], p[1]>> \in DOMAIN m
  BY <1>1
<1> HIDE DEF D
<1> QED
  BY <1>2, <1>3, <1>4 DEF Moves

\* The change of a matrix of one entry, of one value and of two values.
LEMMA SingleMoves ==
  ASSUME NEW i \in Nat, NEW j \in Nat, NEW v, NEW v2, NEW x, Tangent(v, v2, x)
  PROVE  Moves(Single(i, j, v), Single(i, j, v2), Single(i, j, x))
BY DEF Moves, Single

\* The change of a diagonal matrix with one value.
LEMMA DiagonalMoves ==
  ASSUME NEW n \in Nat, NEW v, NEW v2, NEW x, Tangent(v, v2, x)
  PROVE  Moves(Diagonal(n, v), Diagonal(n, v2), Diagonal(n, x))
<1>1. {<<i, i>> : i \in 0 .. (n - 1)} \subseteq Nat \X Nat
  OBVIOUS
<1> QED
  BY <1>1 DEF Moves, Diagonal

\* The change of a matrix with one value on the diagonal and one elsewhere.
LEMMA BlockMoves ==
  ASSUME NEW n \in Nat, NEW a, NEW a2, NEW x, NEW b, NEW b2, NEW y,
         Tangent(a, a2, x), Tangent(b, b2, y)
  PROVE  Moves(Block(n, a, b), Block(n, a2, b2), Block(n, x, y))
<1>1. (0 .. (n - 1)) \X (0 .. (n - 1)) \subseteq Nat \X Nat
  OBVIOUS
<1> QED
  BY <1>1 DEF Moves, Block

\* The change of a matrix made of two parts.
LEMMA JoinMoves ==
  ASSUME NEW m, NEW m2, NEW dm, NEW n, NEW n2, NEW dn,
         Moves(m, m2, dm), Moves(n, n2, dn)
  PROVE  Moves(m \uplus n, m2 \uplus n2, dm \uplus dn)
<1>1. \A a, b : a \uplus b = [p \in DOMAIN a \cup DOMAIN b |->
                                 IF p \in DOMAIN a THEN a[p] ELSE b[p]]
  BY ComputedFacts DEF \uplus
<1> QED
  BY <1>1 DEF Moves
-----------------------------------------------------------------------------
(* Products of matrices.                                                     *)

\* A row of m times a column of n.
RowColumn(m, n, i, j) ==
  (At(m, <<i, 0>>) * At(n, <<0, j>>) + At(m, <<i, 1>>) * At(n, <<1, j>>) +
   At(m, <<i, 2>>) * At(n, <<2, j>>) + At(m, <<i, 3>>) * At(n, <<3, j>>) +
   At(m, <<i, 4>>) * At(n, <<4, j>>) + At(m, <<i, 5>>) * At(n, <<5, j>>)) % Modulus
Places(m, n) == {<<q[1], r[2]>> : q \in DOMAIN m, r \in DOMAIN n}

\* The entries of a product.
LEMMA TimesFacts ==
  ASSUME NEW m, NEW n
  PROVE  /\ DOMAIN Times(m, n) = Places(m, n)
         /\ \A p \in Places(m, n) : Times(m, n)[p] = RowColumn(m, n, p[1], p[2])
<1> DEFINE D == {<<q[1], r[2]>> : q \in DOMAIN m, r \in DOMAIN n}
           S(p) == Sum6([k \in 0 .. 5 |-> At(m, <<p[1], k>>) * At(n, <<k, p[2]>>)])
<1>1. Times(m, n) = [p \in D |-> S(p)]
  BY ComputedFacts DEF Times
<1>2. ASSUME NEW p PROVE S(p) = RowColumn(m, n, p[1], p[2])
  BY DEF Sum6, RowColumn
<1> HIDE DEF S
<1> QED
  BY <1>1, <1>2 DEF Places

\* The change of a sum of six products.
LEMMA SixTangent ==
  ASSUME NEW a \in [0 .. 5 -> Int], NEW b \in [0 .. 5 -> Int], NEW x \in [0 .. 5 -> Int],
         NEW e \in [0 .. 5 -> Int], NEW f \in [0 .. 5 -> Int], NEW y \in [0 .. 5 -> Int],
         \A k \in 0 .. 5 : Tangent(a[k], b[k], x[k]) /\ Tangent(e[k], f[k], y[k])
  PROVE  Tangent((a[0] * e[0] + a[1] * e[1] + a[2] * e[2] + a[3] * e[3] + a[4] * e[4]
                    + a[5] * e[5]) % Modulus,
                 (b[0] * f[0] + b[1] * f[1] + b[2] * f[2] + b[3] * f[3] + b[4] * f[4]
                    + b[5] * f[5]) % Modulus,
                 ((x[0] * e[0] + x[1] * e[1] + x[2] * e[2] + x[3] * e[3] + x[4] * e[4]
                     + x[5] * e[5]) % Modulus)
                 ++ ((a[0] * y[0] + a[1] * y[1] + a[2] * y[2] + a[3] * y[3] + a[4] * y[4]
                     + a[5] * y[5]) % Modulus))
<1> USE PrimeFacts
<1> DEFINE X(k) == x[k] * e[k] + a[k] * y[k]
           A == a[0] * e[0] + a[1] * e[1] + a[2] * e[2] + a[3] * e[3] + a[4] * e[4]
                    + a[5] * e[5]
           B == b[0] * f[0] + b[1] * f[1] + b[2] * f[2] + b[3] * f[3] + b[4] * f[4]
                    + b[5] * f[5]
           Y == x[0] * e[0] + x[1] * e[1] + x[2] * e[2] + x[3] * e[3] + x[4] * e[4]
                     + x[5] * e[5]
           Z == a[0] * y[0] + a[1] * y[1] + a[2] * y[2] + a[3] * y[3] + a[4] * y[4]
                     + a[5] * y[5]
<1>3. A \in Int /\ B \in Int /\ Y \in Int /\ Z \in Int
  <2>1. /\ \A k \in 0 .. 5 : a[k] * e[k] \in Int /\ b[k] * f[k] \in Int
        /\ \A k \in 0 .. 5 : x[k] * e[k] \in Int /\ a[k] * y[k] \in Int
    OBVIOUS
  <2> QED
    BY <2>1
<1>4. Tangent(A, B, Y + Z)
  <2> DEFINE P(k) == Mul(a[k], e[k])
             Q(k) == Mul(b[k], f[k])
             R(k) == Add(Mul(x[k], e[k]), Mul(a[k], y[k]))
  <2>1. \A k \in 0 .. 5 : Tangent(P(k), Q(k), R(k))
    BY PlainRules
  <2>2. Tangent(P(0), Q(0), R(0)) /\ Tangent(P(1), Q(1), R(1)) /\ Tangent(P(2), Q(2), R(2))
    BY <2>1
  <2>3. Tangent(P(3), Q(3), R(3)) /\ Tangent(P(4), Q(4), R(4)) /\ Tangent(P(5), Q(5), R(5))
    BY <2>1
  <2> HIDE DEF P, Q, R
  <2>4. Tangent(Add(Add(Add(Add(Add(P(0), P(1)), P(2)), P(3)), P(4)), P(5)),
                Add(Add(Add(Add(Add(Q(0), Q(1)), Q(2)), Q(3)), Q(4)), Q(5)),
                Add(Add(Add(Add(Add(R(0), R(1)), R(2)), R(3)), R(4)), R(5)))
    BY <2>2, <2>3, PlainRules
  <2>5. /\ Add(Add(Add(Add(Add(P(0), P(1)), P(2)), P(3)), P(4)), P(5)) = A
        /\ Add(Add(Add(Add(Add(Q(0), Q(1)), Q(2)), Q(3)), Q(4)), Q(5)) = B
    BY DEF P, Q, Add, Mul
  <2>6. Add(Add(Add(Add(Add(R(0), R(1)), R(2)), R(3)), R(4)), R(5)) = Y + Z
    <3>1. \A k \in 0 .. 5 : /\ x[k] * e[k] \in Int /\ a[k] * y[k] \in Int
                             /\ R(k) = x[k] * e[k] + a[k] * y[k]
      BY DEF R, Add, Mul
    <3> QED
      BY <3>1 DEF Add
  <2> QED
    BY <2>4, <2>5, <2>6
<1> HIDE DEF A, B, Y, Z
<1>5. ASSUME NEW r \in Int PROVE r % Modulus \in Int /\ Equal(Modulus, r % Modulus, r)
  BY ModFacts
<1>6. Tangent(A % Modulus, B % Modulus, Y + Z)
  <2>1. Y + Z \in Int /\ A % Modulus \in Int /\ B % Modulus \in Int
    BY <1>3, <1>5
  <2>2. PICK i \in Int : B = (A + Prime * (Y + Z)) + i * Modulus
    BY <1>4 DEF Tangent, Equal
  <2>3. PICK j \in Int : A % Modulus = A + j * Modulus
    BY <1>3, <1>5 DEF Equal
  <2>4. PICK k \in Int : B % Modulus = B + k * Modulus
    BY <1>3, <1>5 DEF Equal
  <2> DEFINE u == A % Modulus
             v == B % Modulus
  <2>5. u = A + j * Modulus /\ v = B + k * Modulus /\ u \in Int /\ v \in Int
    BY <2>1, <2>3, <2>4
  <2> HIDE DEF u, v
  <2>6. v = (u + Prime * (Y + Z)) + (i + k - j) * Modulus /\ i + k - j \in Int
    BY <2>2, <2>5, <1>3
  <2>7. Tangent(u, v, Y + Z)
    BY <2>1, <2>5, <2>6 DEF Tangent, Equal
  <2> QED
    BY <2>7 DEF u, v
<1>7. Same(Y + Z, (Y % Modulus) ++ (Z % Modulus))
  <2> DEFINE s == Y % Modulus
             t == Z % Modulus
  <2>1. s \in Int /\ t \in Int /\ Equal(Modulus, s, Y) /\ Equal(Modulus, t, Z)
    BY <1>3, <1>5
  <2> HIDE DEF s, t
  <2>2. Same(s, Y) /\ Same(t, Z)
    BY <1>3, <2>1, TwoModuli DEF Same
  <2>3. Same(s ++ t, Add(Y, Z))
    BY <2>2, SameRules
  <2> QED
    BY <2>3, SameRules DEF Add, s, t
<1>8. Tangent(A % Modulus, B % Modulus, (Y % Modulus) ++ (Z % Modulus))
  BY <1>6, <1>7, TangentOf
<1> QED
  BY <1>8 DEF A, B, Y, Z

\* The change of a product of matrices.
LEMMA TimesMoves ==
  ASSUME NEW m, NEW m2, NEW dm, NEW n, NEW n2, NEW dn,
         Moves(m, m2, dm), Moves(n, n2, dn)
  PROVE  Moves(Times(m, n), Times(m2, n2), Plus(Times(dm, n), Times(m, dn)))
<1> DEFINE D == Places(m, n)
<1>1. /\ DOMAIN m \subseteq Nat \X Nat /\ DOMAIN m2 = DOMAIN m /\ DOMAIN dm = DOMAIN m
      /\ DOMAIN n \subseteq Nat \X Nat /\ DOMAIN n2 = DOMAIN n /\ DOMAIN dn = DOMAIN n
  BY DEF Moves
<1>2. Places(m2, n2) = D /\ Places(dm, n) = D /\ Places(m, dn) = D /\ D \subseteq Nat \X Nat
  BY <1>1 DEF Places
<1>3. /\ DOMAIN Times(m, n) = D /\ DOMAIN Times(m2, n2) = D
      /\ DOMAIN Times(dm, n) = D /\ DOMAIN Times(m, dn) = D
      /\ \A p \in D : /\ Times(m, n)[p] = RowColumn(m, n, p[1], p[2])
                      /\ Times(m2, n2)[p] = RowColumn(m2, n2, p[1], p[2])
                      /\ Times(dm, n)[p] = RowColumn(dm, n, p[1], p[2])
                      /\ Times(m, dn)[p] = RowColumn(m, dn, p[1], p[2])
  <2>1. \A a, b : /\ DOMAIN Times(a, b) = Places(a, b)
                  /\ \A p \in Places(a, b) : Times(a, b)[p] = RowColumn(a, b, p[1], p[2])
    BY TimesFacts
  <2> QED
    BY <1>2, <2>1, Zenon
<1> DEFINE s == Times(dm, n)
           t == Times(m, dn)
<1>4. /\ DOMAIN Plus(s, t) = D
      /\ \A p \in D : Plus(s, t)[p] = s[p] ++ t[p]
  <2>1. DOMAIN s = D /\ DOMAIN t = D /\ DOMAIN s \cup DOMAIN t = D
    BY <1>3
  <2> HIDE DEF s, t, D
  <2>2. /\ DOMAIN Plus(s, t) = DOMAIN s \cup DOMAIN t
        /\ \A p \in DOMAIN s \cup DOMAIN t : Plus(s, t)[p] = At(s, p) ++ At(t, p)
    BY PlusFacts
  <2> QED
    BY <2>1, <2>2 DEF At
<1>5. ASSUME NEW p \in D PROVE Tangent(Times(m, n)[p], Times(m2, n2)[p], Plus(s, t)[p])
  <2> DEFINE i == p[1]
             j == p[2]
             a == [k \in 0 .. 5 |-> At(m, <<i, k>>)]
             b == [k \in 0 .. 5 |-> At(m2, <<i, k>>)]
             x == [k \in 0 .. 5 |-> At(dm, <<i, k>>)]
             e == [k \in 0 .. 5 |-> At(n, <<k, j>>)]
             f == [k \in 0 .. 5 |-> At(n2, <<k, j>>)]
             y == [k \in 0 .. 5 |-> At(dn, <<k, j>>)]
  <2>1. \A k \in 0 .. 5 : /\ Tangent(At(m, <<i, k>>), At(m2, <<i, k>>), At(dm, <<i, k>>))
                          /\ Tangent(At(n, <<k, j>>), At(n2, <<k, j>>), At(dn, <<k, j>>))
    BY MovesAt
  <2>2. /\ a \in [0 .. 5 -> Int] /\ b \in [0 .. 5 -> Int] /\ x \in [0 .. 5 -> Int]
        /\ e \in [0 .. 5 -> Int] /\ f \in [0 .. 5 -> Int] /\ y \in [0 .. 5 -> Int]
        /\ \A k \in 0 .. 5 : Tangent(a[k], b[k], x[k]) /\ Tangent(e[k], f[k], y[k])
    BY <2>1 DEF Tangent
  <2> DEFINE SixOf(g, h) == (g[0] * h[0] + g[1] * h[1] + g[2] * h[2] + g[3] * h[3] + g[4] * h[4]
                             + g[5] * h[5]) % Modulus
  <2>3. Tangent(SixOf(a, e), SixOf(b, f), SixOf(x, e) ++ SixOf(a, y))
    <3> HIDE DEF a, b, x, e, f, y
    <3> QED
      BY <2>2, SixTangent
  <2>4. /\ SixOf(a, e) = RowColumn(m, n, i, j) /\ SixOf(b, f) = RowColumn(m2, n2, i, j)
        /\ SixOf(x, e) = RowColumn(dm, n, i, j) /\ SixOf(a, y) = RowColumn(m, dn, i, j)
    BY DEF RowColumn
  <2> HIDE DEF SixOf, a, b, x, e, f, y
  <2> QED
    BY <2>3, <2>4, <1>3, <1>4
<1> QED
  BY <1>2, <1>3, <1>4, <1>5 DEF Moves
-----------------------------------------------------------------------------
(* The difference quotient, and matrices of one shape.                       *)

\* The difference quotient with a step of Prime is the derivative modulo Prime.
LEMMA StepTangent ==
  ASSUME NEW a, NEW b, NEW x, Tangent(a, b, x)
  PROVE  (b -- a) \div Prime \in Int /\ Same(x, (b -- a) \div Prime)
<1> USE PrimeFacts
<1>1. a \in Int /\ b \in Int /\ x \in Int
  BY DEF Tangent
<1>2. PICK i \in Int : b = (a + Prime * x) + i * Modulus
  BY DEF Tangent, Equal
<1> DEFINE t == b -- a
           r == t \div Prime
<1>3. t \in Int /\ Equal(Modulus, t, b - a)
  BY <1>1, ResidueFacts
<1> HIDE DEF t
<1>4. PICK k \in Int : t = (b - a) + k * Modulus
  BY <1>3 DEF Equal
<1> DEFINE w == x + (i + k) * Prime
<1>5. w \in Int /\ t = w * Prime
  BY <1>1, <1>2, <1>4
<1>6. r \in Int /\ t % Prime \in Int /\ 0 <= t % Prime /\ t % Prime < Prime
  BY <1>3
<1>7. t = (t % Prime) + r * Prime
  BY <1>3
<1> HIDE DEF r, w
<1> DEFINE l == w - r
<1>8. l \in Int /\ l * Prime = t % Prime
  BY <1>5, <1>6, <1>7
<1> HIDE DEF l
<1>9. ~ (l <= -1)
  <2> SUFFICES ASSUME l <= -1 PROVE FALSE
    OBVIOUS
  <2>1. l * Prime <= - Prime
    BY <1>8, SMT
  <2> QED
    BY <2>1, <1>6, <1>8
<1>10. ~ (l >= 1)
  <2> SUFFICES ASSUME l >= 1 PROVE FALSE
    OBVIOUS
  <2>1. l * Prime >= Prime
    BY <1>8, SMT
  <2> QED
    BY <2>1, <1>6, <1>8
<1>11. r = w
  BY <1>5, <1>6, <1>8, <1>9, <1>10 DEF l
<1>12. x = w + (- (i + k)) * Prime /\ - (i + k) \in Int
  BY <1>1 DEF w
<1>13. Same(x, w)
  BY <1>1, <1>5, <1>12 DEF Same, Equal
<1> QED
  BY <1>6, <1>11, <1>13 DEF r, t

\* A derivative agrees with the difference quotient the step gives.
LEMMA StepMoves ==
  ASSUME NEW m, NEW m2, NEW dm, Moves(m, m2, dm)
  PROVE  Moves(m, m2, ByStep(m, m2)) /\ Agree(dm, ByStep(m, m2))
<1>1. /\ DOMAIN ByStep(m, m2) = DOMAIN m
      /\ \A p \in DOMAIN m : ByStep(m, m2)[p] = (m2[p] -- m[p]) \div Prime
  BY DEF ByStep
<1>2. \A p \in DOMAIN m : Tangent(m[p], m2[p], dm[p])
  BY DEF Moves
<1>3. \A p \in DOMAIN m : Same(dm[p], ByStep(m, m2)[p])
  BY <1>1, <1>2, StepTangent
<1>4. Moves(m, m2, ByStep(m, m2))
  BY <1>1, <1>3, MovesSame
<1>5. \A a, b : Same(a, b) => a % Prime = b % Prime
  BY ModFacts, PrimeFacts DEF Same
<1>6. Agree(dm, ByStep(m, m2))
  BY <1>1, <1>3, <1>5 DEF Agree, At, Moves
<1> QED
  BY <1>4, <1>6

\* Scaling and adding matrices of one shape, part by part.
LEMMA ShapeScale ==
  ASSUME NEW s
  PROVE  /\ \A i, j, v : Scale(s, Single(i, j, v)) = Single(i, j, s ** v)
         /\ \A n, v : Scale(s, Diagonal(n, v)) = Diagonal(n, s ** v)
         /\ \A n, a, b : Scale(s, Block(n, a, b)) = Block(n, s ** a, s ** b)
         /\ \A m, n : Scale(s, m \uplus n) = Scale(s, m) \uplus Scale(s, n)
<1> USE ComputedFacts
<1>1. ASSUME NEW i, NEW j, NEW v PROVE Scale(s, Single(i, j, v)) = Single(i, j, s ** v)
  BY DEF Scale, Single
<1>2. ASSUME NEW n, NEW v PROVE Scale(s, Diagonal(n, v)) = Diagonal(n, s ** v)
  <2> DEFINE D == {<<i, i>> : i \in 0 .. (n - 1)}
  <2>1. Diagonal(n, v) = [p \in D |-> v] /\ Diagonal(n, s ** v) = [p \in D |-> s ** v]
    BY DEF Diagonal
  <2> HIDE DEF D
  <2> QED
    BY <2>1 DEF Scale
<1>3. ASSUME NEW n, NEW a, NEW b
      PROVE  Scale(s, Block(n, a, b)) = Block(n, s ** a, s ** b)
  BY DEF Scale, Block
<1>4. ASSUME NEW m, NEW n PROVE Scale(s, m \uplus n) = Scale(s, m) \uplus Scale(s, n)
  <2> DEFINE U == DOMAIN m \cup DOMAIN n
             a == Scale(s, m)
             b == Scale(s, n)
  <2>1. m \uplus n = [p \in U |-> IF p \in DOMAIN m THEN m[p] ELSE n[p]]
    BY DEF \uplus
  <2>2. /\ DOMAIN a = DOMAIN m /\ DOMAIN b = DOMAIN n
        /\ \A p \in DOMAIN m : a[p] = s ** m[p]
        /\ \A p \in DOMAIN n : b[p] = s ** n[p]
    BY DEF Scale
  <2>3. a \uplus b = [p \in DOMAIN a \cup DOMAIN b |-> IF p \in DOMAIN a THEN a[p] ELSE b[p]]
    BY DEF \uplus
  <2>4. Scale(s, m \uplus n)
          = [p \in U |-> s ** (IF p \in DOMAIN m THEN m[p] ELSE n[p])]
    BY <2>1 DEF Scale
  <2> HIDE DEF a, b
  <2>5. a \uplus b = [p \in U |-> s ** (IF p \in DOMAIN m THEN m[p] ELSE n[p])]
    BY <2>2, <2>3
  <2> QED
    BY <2>4, <2>5 DEF a, b
<1> QED
  BY <1>1, <1>2, <1>3, <1>4

\* The sums of matrices of one shape have that shape.
LEMMA ShapePlus ==
  /\ \A i, j, v, w : Plus(Single(i, j, v), Single(i, j, w)) = Single(i, j, v ++ w)
  /\ \A n, v, w : Plus(Diagonal(n, v), Diagonal(n, w)) = Diagonal(n, v ++ w)
  /\ \A n, a, b, e, f : Plus(Block(n, a, b), Block(n, e, f)) = Block(n, a ++ e, b ++ f)
  /\ \A m, n, r, t : DOMAIN m = DOMAIN r /\ DOMAIN n = DOMAIN t =>
       Plus(m \uplus n, r \uplus t) = Plus(m, r) \uplus Plus(n, t)
<1> USE ComputedFacts
<1>1. ASSUME NEW i, NEW j, NEW v, NEW w
      PROVE  Plus(Single(i, j, v), Single(i, j, w)) = Single(i, j, v ++ w)
  BY DEF Plus, Single, At
<1>2. ASSUME NEW n, NEW v, NEW w
      PROVE  Plus(Diagonal(n, v), Diagonal(n, w)) = Diagonal(n, v ++ w)
  <2> DEFINE D == {<<i, i>> : i \in 0 .. (n - 1)}
  <2>1. \A u : Diagonal(n, u) = [p \in D |-> u]
    BY DEF Diagonal
  <2> HIDE DEF D
  <2> QED
    BY <2>1 DEF Plus, At
<1>3. ASSUME NEW n, NEW a, NEW b, NEW e, NEW f
      PROVE  Plus(Block(n, a, b), Block(n, e, f)) = Block(n, a ++ e, b ++ f)
  BY DEF Plus, Block, At
<1>4. ASSUME NEW m, NEW n, NEW r, NEW t, DOMAIN m = DOMAIN r, DOMAIN n = DOMAIN t
      PROVE  Plus(m \uplus n, r \uplus t) = Plus(m, r) \uplus Plus(n, t)
  <2> DEFINE U == DOMAIN m \cup DOMAIN n
             a == m \uplus n
             b == r \uplus t
             e == Plus(m, r)
             f == Plus(n, t)
             V(p) == IF p \in DOMAIN m THEN m[p] ++ r[p] ELSE n[p] ++ t[p]
  <2>1. /\ DOMAIN a = U /\ DOMAIN b = U
        /\ \A p \in U : a[p] = (IF p \in DOMAIN m THEN m[p] ELSE n[p])
        /\ \A p \in U : b[p] = (IF p \in DOMAIN m THEN r[p] ELSE t[p])
    BY <1>4 DEF \uplus
  <2>2. /\ DOMAIN e = DOMAIN m /\ DOMAIN f = DOMAIN n
        /\ \A p \in DOMAIN m : e[p] = m[p] ++ r[p]
        /\ \A p \in DOMAIN n : f[p] = n[p] ++ t[p]
    BY <1>4 DEF Plus, At
  <2> HIDE DEF a, b, e, f
  <2>3. Plus(a, b) = [p \in U |-> V(p)]
    <3>1. Plus(a, b) = [p \in DOMAIN a \cup DOMAIN b |-> At(a, p) ++ At(b, p)]
      BY DEF Plus
    <3>2. DOMAIN a \cup DOMAIN b = U
      BY <2>1
    <3>3. \A p \in U : At(a, p) ++ At(b, p) = V(p)
      BY <2>1 DEF At
    <3> QED
      BY <3>1, <3>2, <3>3
  <2>4. e \uplus f = [p \in U |-> V(p)]
    <3>1. e \uplus f = [p \in U |-> IF p \in DOMAIN m THEN e[p] ELSE f[p]]
      BY <2>2 DEF \uplus
    <3> QED
      BY <2>2, <3>1
  <2> QED
    BY <2>3, <2>4 DEF a, b, e, f
<1> QED
  BY <1>1, <1>2, <1>3, <1>4

\* The domains of the shapes.
LEMMA ShapeDomains ==
  /\ \A i, j, v : DOMAIN Single(i, j, v) = {<<i, j>>}
  /\ \A n, v, w : DOMAIN Diagonal(n, v) = DOMAIN Diagonal(n, w)
  /\ \A n, a, b : DOMAIN Block(n, a, b) = (0 .. (n - 1)) \X (0 .. (n - 1))
  /\ \A m, n : DOMAIN (m \uplus n) = DOMAIN m \cup DOMAIN n
  /\ \A s, m : DOMAIN Scale(s, m) = DOMAIN m
BY ComputedFacts DEF Single, Diagonal, Block, \uplus, Scale

\* Combining matrices of two parts.
LEMMA ShapeCombine ==
  ASSUME NEW s, NEW t, NEW m, NEW n, NEW r, NEW u, DOMAIN m = DOMAIN r, DOMAIN n = DOMAIN u
  PROVE  Plus(Scale(s, m \uplus n), Scale(t, r \uplus u))
           = Plus(Scale(s, m), Scale(t, r)) \uplus Plus(Scale(s, n), Scale(t, u))
<1> DEFINE a == Scale(s, m)
           b == Scale(s, n)
           e == Scale(t, r)
           f == Scale(t, u)
<1>1. Scale(s, m \uplus n) = a \uplus b /\ Scale(t, r \uplus u) = e \uplus f
  BY ShapeScale
<1>2. DOMAIN a = DOMAIN e /\ DOMAIN b = DOMAIN f
  BY ShapeDomains
<1> HIDE DEF a, b, e, f
<1>3. Plus(a \uplus b, e \uplus f) = Plus(a, e) \uplus Plus(b, f)
  BY <1>2, ShapePlus
<1> QED
  BY <1>1, <1>3 DEF a, b, e, f

\* Combining matrices of one value, or of two.
LEMMA SingleValues ==
  ASSUME NEW s, NEW t, NEW i, NEW j, NEW v, NEW w
  PROVE  Plus(Scale(s, Single(i, j, v)), Scale(t, Single(i, j, w)))
           = Single(i, j, (s ** v) ++ (t ** w))
<1>1. /\ Scale(s, Single(i, j, v)) = Single(i, j, s ** v)
      /\ Scale(t, Single(i, j, w)) = Single(i, j, t ** w)
  BY ShapeScale
<1> QED
  BY <1>1, ShapePlus

\* A combination of two such blocks.
LEMMA BlockValues ==
  ASSUME NEW s, NEW t, NEW n, NEW a, NEW b, NEW e, NEW f
  PROVE  Plus(Scale(s, Block(n, a, b)), Scale(t, Block(n, e, f)))
           = Block(n, (s ** a) ++ (t ** e), (s ** b) ++ (t ** f))
<1>1. /\ Scale(s, Block(n, a, b)) = Block(n, s ** a, s ** b)
      /\ Scale(t, Block(n, e, f)) = Block(n, t ** e, t ** f)
  BY ShapeScale
<1> QED
  BY <1>1, ShapePlus

\* A combination of two diagonal matrices.
LEMMA DiagonalValues ==
  ASSUME NEW s, NEW t, NEW n, NEW v, NEW w
  PROVE  Plus(Scale(s, Diagonal(n, v)), Scale(t, Diagonal(n, w)))
           = Diagonal(n, (s ** v) ++ (t ** w))
<1>1. /\ Scale(s, Diagonal(n, v)) = Diagonal(n, s ** v)
      /\ Scale(t, Diagonal(n, w)) = Diagonal(n, t ** w)
  BY ShapeScale
<1> QED
  BY <1>1, ShapePlus

\* A matrix moved down the diagonal.
LEMMA ShiftedMoves ==
  ASSUME NEW m, NEW m2, NEW dm, Moves(m, m2, dm), NEW k \in Nat
  PROVE  Moves(Shifted(m, k), Shifted(m2, k), Shifted(dm, k))
<1> DEFINE D == {<<q[1] + k, q[2] + k>> : q \in DOMAIN m}
<1>1. DOMAIN m \subseteq Nat \X Nat /\ DOMAIN m2 = DOMAIN m /\ DOMAIN dm = DOMAIN m
  BY DEF Moves
<1>2. /\ Shifted(m, k) = [p \in D |-> m[<<p[1] - k, p[2] - k>>]]
      /\ Shifted(m2, k) = [p \in D |-> m2[<<p[1] - k, p[2] - k>>]]
      /\ Shifted(dm, k) = [p \in D |-> dm[<<p[1] - k, p[2] - k>>]]
  BY <1>1 DEF Shifted
<1>3. ASSUME NEW p \in D PROVE p \in Nat \X Nat /\ <<p[1] - k, p[2] - k>> \in DOMAIN m
  <2>1. PICK q \in DOMAIN m : p = <<q[1] + k, q[2] + k>>
    OBVIOUS
  <2>2. q = <<q[1], q[2]>> /\ q[1] \in Nat /\ q[2] \in Nat
    BY <1>1
  <2>3. p[1] - k = q[1] /\ p[2] - k = q[2]
    BY <2>1, <2>2
  <2> QED
    BY <2>1, <2>2, <2>3
<1> HIDE DEF D
<1> QED
  BY <1>2, <1>3 DEF Moves

\* The sum of two matrices moved down the diagonal.
LEMMA ShiftedShape ==
  ASSUME NEW m, NEW n, NEW k \in Nat, DOMAIN m \subseteq Nat \X Nat, DOMAIN n = DOMAIN m
  PROVE  Plus(Shifted(m, k), Shifted(n, k)) = Shifted(Plus(m, n), k)
<1> USE ComputedFacts
<1> DEFINE D == {<<q[1] + k, q[2] + k>> : q \in DOMAIN m}
<1>1. DOMAIN Plus(m, n) = DOMAIN m
  BY DEF Plus
<1>2. /\ Shifted(m, k) = [p \in D |-> m[<<p[1] - k, p[2] - k>>]]
      /\ Shifted(n, k) = [p \in D |-> n[<<p[1] - k, p[2] - k>>]]
      /\ Shifted(Plus(m, n), k) = [p \in D |-> Plus(m, n)[<<p[1] - k, p[2] - k>>]]
  BY <1>1 DEF Shifted
<1>3. ASSUME NEW p \in D PROVE <<p[1] - k, p[2] - k>> \in DOMAIN m
  <2>1. PICK q \in DOMAIN m : p = <<q[1] + k, q[2] + k>>
    OBVIOUS
  <2>2. q = <<q[1], q[2]>> /\ q[1] \in Nat /\ q[2] \in Nat
    OBVIOUS
  <2>3. p[1] - k = q[1] /\ p[2] - k = q[2]
    BY <2>1, <2>2
  <2> QED
    BY <2>1, <2>2, <2>3
<1> DEFINE V(p) == m[<<p[1] - k, p[2] - k>>] ++ n[<<p[1] - k, p[2] - k>>]
<1>4. \A q \in DOMAIN m : Plus(m, n)[q] = m[q] ++ n[q]
  BY DEF Plus, At
<1>5. Shifted(Plus(m, n), k) = [p \in D |-> V(p)]
  BY <1>2, <1>3, <1>4
<1> HIDE DEF D
<1>6. Plus(Shifted(m, k), Shifted(n, k)) = [p \in D |-> V(p)]
  <2> DEFINE a == Shifted(m, k)
             b == Shifted(n, k)
  <2>1. /\ DOMAIN a = D /\ DOMAIN b = D
        /\ \A p \in D : a[p] ++ b[p] = V(p)
    BY <1>2
  <2> HIDE DEF a, b
  <2>2. Plus(a, b) = [p \in D |-> a[p] ++ b[p]]
    BY <2>1 DEF Plus, At
  <2> QED
    BY <2>1, <2>2 DEF a, b
<1> QED
  BY <1>5, <1>6

\* A multiple of a matrix moved down the diagonal.
LEMMA ShiftedScale ==
  ASSUME NEW m, NEW k \in Nat, NEW s, DOMAIN m \subseteq Nat \X Nat
  PROVE  Scale(s, Shifted(m, k)) = Shifted(Scale(s, m), k)
<1> USE ComputedFacts
<1> DEFINE D == {<<q[1] + k, q[2] + k>> : q \in DOMAIN m}
<1>1. DOMAIN Scale(s, m) = DOMAIN m
  BY DEF Scale
<1>2. /\ Shifted(m, k) = [p \in D |-> m[<<p[1] - k, p[2] - k>>]]
      /\ Shifted(Scale(s, m), k) = [p \in D |-> Scale(s, m)[<<p[1] - k, p[2] - k>>]]
  BY <1>1 DEF Shifted
<1>3. ASSUME NEW p \in D PROVE <<p[1] - k, p[2] - k>> \in DOMAIN m
  <2>1. PICK q \in DOMAIN m : p = <<q[1] + k, q[2] + k>>
    OBVIOUS
  <2>2. q = <<q[1], q[2]>> /\ q[1] \in Nat /\ q[2] \in Nat
    OBVIOUS
  <2>3. p[1] - k = q[1] /\ p[2] - k = q[2]
    BY <2>1, <2>2
  <2> QED
    BY <2>1, <2>2, <2>3
<1>4. \A q \in DOMAIN m : Scale(s, m)[q] = s ** m[q]
  BY DEF Scale
<1> DEFINE V(p) == s ** m[<<p[1] - k, p[2] - k>>]
<1>5. Shifted(Scale(s, m), k) = [p \in D |-> V(p)]
  BY <1>2, <1>3, <1>4
<1> HIDE DEF D
<1>6. Scale(s, Shifted(m, k)) = [p \in D |-> V(p)]
  BY <1>2 DEF Scale
<1> QED
  BY <1>5, <1>6
-----------------------------------------------------------------------------
(* Inverses of products, and of the numbers the formulas divide by.         *)

\* A number congruent to one with an inverse has the same inverse.
LEMMA InversesSame == \A a, b, v : Same(a, b) /\ Inverses(b, v) => Inverses(a, v)
<1> USE PrimeFacts
<1>1. ASSUME NEW a, NEW b, NEW v, Same(a, b), Inverses(b, v) PROVE Inverses(a, v)
  <2>1. Same(a, b) /\ Same(v, v) /\ b \in Int /\ a \in Int /\ v \in Int
    BY <1>1, SameRules DEF Inverses
  <2>2. Same(Mul(a, v), Mul(b, v))
    BY <2>1, SameRules
  <2>3. Same(Mul(b, v), 1)
    BY <1>1, <2>1, 1 \in Int DEF Inverses, Same, Mul
  <2>4. Same(Mul(a, v), 1)
    BY <2>2, <2>3, SameRules
  <2> QED
    BY <2>1, <2>4 DEF Inverses, Same, Mul
<1> QED
  BY <1>1

\* The inverse of a product.
LEMMA InversesTimes ==
  \A a, v, b, w : Inverses(a, v) /\ Inverses(b, w) => Inverses(Mul(a, b), Mul(v, w))
<1> USE PrimeFacts
<1>1. ASSUME NEW a, NEW v, NEW b, NEW w, Inverses(a, v), Inverses(b, w)
      PROVE  Inverses(Mul(a, b), Mul(v, w))
  <2>1. a \in Int /\ v \in Int /\ b \in Int /\ w \in Int
    BY <1>1 DEF Inverses
  <2>2. Same(Mul(a, v), 1) /\ Same(Mul(b, w), 1)
    BY <1>1, <2>1, 1 \in Int DEF Inverses, Same, Mul
  <2>3. Same(Mul(Mul(a, v), Mul(b, w)), Mul(1, 1))
    BY <2>2, SameRules
  <2>4. Mul(Mul(a, v), Mul(b, w)) = Mul(a, b) * Mul(v, w) /\ Mul(1, 1) = 1
    BY <2>1 DEF Mul
  <2>5. Mul(a, b) \in Int /\ Mul(v, w) \in Int
    BY <2>1 DEF Mul
  <2> QED
    BY <2>3, <2>4, <2>5 DEF Inverses, Same
<1> QED
  BY <1>1

\* A factor moved from a number to its inverse.
LEMMA InversesMoved ==
  ASSUME NEW a, NEW v, NEW b \in Int, NEW w \in Int, Inverses(a, v), Mul(b, w) = Mul(a, v)
  PROVE  Inverses(b, w)
BY DEF Inverses, Mul

\* The sum, difference and product of integers, by name.
LEMMA PlainFacts ==
  \A a, b \in Int : Add(a, b) \in Int /\ Sub(a, b) \in Int /\ Mul(a, b) \in Int
BY DEF Add, Sub, Mul

\* Prime is above 5: two, three and five have inverses, and so have their products.
LEMMA SmallInverses == \A k \in 2 .. 5 : Inverses(k, Reciprocal(k))
<1>1. \A k \in 2 .. 5 : k % Prime # 0
  BY PrimeFacts, SMT
<1> QED
  BY <1>1, ReciprocalSame

\* A twelfth, and three of them.
LEMMA TwelfthFacts ==
  Inverses(12, Twelfth) /\ Twelfth \in Int /\ Same(Reciprocal(4), Mul(3, Twelfth))
<1>1. Inverses(Mul(4, 3), Mul(Reciprocal(4), Reciprocal(3))) /\ Mul(4, 3) = 12
  BY SmallInverses, InversesTimes DEF Mul
<1>2. 12 % Prime # 0
  BY <1>1, InversesFacts
<1>3. Inverses(12, Twelfth)
  BY <1>2, ReciprocalSame DEF Twelfth
<1>4. Twelfth \in Int
  BY <1>3, InversesFacts
<1>5. Mul(4, Mul(3, Twelfth)) = Mul(12, Twelfth) /\ Mul(3, Twelfth) \in Int
  BY <1>4 DEF Mul
<1>6. Inverses(4, Mul(3, Twelfth))
  BY <1>3, <1>5, InversesMoved
<1>7. Same(4, 4)
  BY SameRules
<1> QED
  BY <1>3, <1>4, <1>6, <1>7, ReciprocalSame

\* The coefficient of the torsion formula and a millionth are integers.
LEMMA HundredFacts == Roundness \in Int /\ Tiny \in Int
<1> DEFINE v == Mul(Reciprocal(4), Mul(Reciprocal(5), Reciprocal(5)))
<1>1. Inverses(4, Reciprocal(4)) /\ Inverses(5, Reciprocal(5))
  BY SmallInverses
<1>2. Inverses(Mul(4, Mul(5, 5)), v)
  BY <1>1, InversesTimes
<1>3. Mul(4, Mul(5, 5)) = 100
  BY DEF Mul
<1>4. Inverses(100, v)
  BY <1>2, <1>3
<1> HIDE DEF v
<1>5. 100 % Prime # 0
  BY <1>4, InversesFacts
<1>6. Reciprocal(100) \in Int
  BY <1>5, ReciprocalSame, InversesFacts
<1>7. Inverses(Mul(100, Mul(100, 100)), Mul(v, Mul(v, v)))
  BY <1>4, InversesTimes
<1>8. Mul(100, Mul(100, 100)) = 1000000
  BY SMT DEF Mul
<1>9. 1000000 % Prime # 0
  BY <1>7, <1>8, InversesFacts, SMT
<1>10. Tiny \in Int
  BY <1>9, ReciprocalSame, InversesFacts, SMT DEF Tiny
<1>11. 21 ** Reciprocal(100) \in Int
  BY <1>6, ResidueFacts
<1> QED
  BY <1>10, <1>11 DEF Roundness, //

\* The parameters of a card change by a step.
CardNames == MaterialParameters \cup SectionParameters
Near(c, c2, d) == \A n \in CardNames : Tangent(c[n], c2[n], d[n])
-----------------------------------------------------------------------------
(* The formulas of the isotropic material.                                   *)

\* What the shear modulus and its derivative divide by.
LEMMA ShearDenominators ==
  ASSUME NEW nu \in Int, (1 ++ nu) % Prime # 0
  PROVE  /\ (2 ** (1 ++ nu)) % Prime # 0 /\ Reciprocal(2 ** (1 ++ nu)) \in Int
         /\ Same(Reciprocal(2 ** Square(1 ++ nu)),
                 Mul(2, Mul(Reciprocal(2 ** (1 ++ nu)), Reciprocal(2 ** (1 ++ nu)))))
<1> DEFINE s == Add(1, nu)
           r == Mul(2, s)
           b == Mul(2, Mul(s, s))
           g == 2 ** (1 ++ nu)
           u == Reciprocal(g)
<1>1. Same(1 ++ nu, s)
  BY SameRules, 1 \in Int
<1>2. s \in Int /\ 1 ++ nu \in Int
  BY <1>1, SameRules
<1>3. Same(g, r) /\ Same(2 ** Square(1 ++ nu), b)
  BY <1>1, SameRules, 2 \in Int DEF Square
<1>4. Inverses(2, Reciprocal(2)) /\ Inverses(1 ++ nu, Reciprocal(1 ++ nu))
  BY <1>2, ReciprocalSame, SmallInverses
<1>5. Inverses(s, Reciprocal(1 ++ nu))
  BY <1>1, <1>4, SameRules, InversesSame
<1>6. Inverses(r, Mul(Reciprocal(2), Reciprocal(1 ++ nu)))
  BY <1>4, <1>5, InversesTimes
<1>7. g % Prime # 0 /\ g \in Int
  <2>1. Inverses(g, Mul(Reciprocal(2), Reciprocal(1 ++ nu)))
    BY <1>3, <1>6, InversesSame
  <2> QED
    BY <2>1, InversesFacts
<1>8. Inverses(g, u) /\ u \in Int
  BY <1>7, ReciprocalSame, InversesFacts
<1>9. Inverses(r, u)
  BY <1>3, <1>8, InversesSame, SameRules
<1> HIDE DEF g, u
<1>10. Inverses(Mul(r, r), Mul(u, u))
  BY <1>9, InversesTimes
<1>11. Mul(b, Mul(2, Mul(u, u))) = Mul(Mul(r, r), Mul(u, u))
  <2> HIDE DEF s
  <2> QED
    BY <1>2, <1>8 DEF Mul
<1>12. b \in Int /\ Mul(2, Mul(u, u)) \in Int
  BY <1>2, <1>8 DEF Mul
<1>13. Inverses(b, Mul(2, Mul(u, u)))
  BY <1>10, <1>11, <1>12, InversesMoved
<1>14. Same(Reciprocal(2 ** Square(1 ++ nu)), Mul(2, Mul(u, u)))
  BY <1>3, <1>13, ReciprocalSame
<1> QED
  BY <1>7, <1>8, <1>14 DEF g, u

\* The derivatives the code forms for E / (2 (1 + nu)), and for it times kappa.
DShear(E, nu, dE, dnu) ==
  (dE ** (1 // (2 ** (1 ++ nu)))) ++ (dnu ** (0 -- (E // (2 ** Square(1 ++ nu)))))
DTransverse(E, nu, kappa, dE, dnu) ==
  (dE ** (kappa // (2 ** (1 ++ nu)))) ++ (dnu ** (0 -- ((E ** kappa) // (2 ** Square(1 ++ nu)))))

\* The shear modulus, alone and times the shear correction.
LEMMA ShearTangent ==
  ASSUME NEW E, NEW E2, NEW dE, NEW nu, NEW nu2, NEW dnu, NEW kappa, NEW kappa2, NEW dkappa,
         Tangent(E, E2, dE), Tangent(nu, nu2, dnu), Tangent(kappa, kappa2, dkappa),
         (1 ++ nu) % Prime # 0
  PROVE  LET G  == E // (2 ** (1 ++ nu))
             G2 == E2 // (2 ** (1 ++ nu2))
         IN /\ Tangent(G, G2, DShear(E, nu, dE, dnu))
            /\ Tangent(G ** kappa, G2 ** kappa2, DTransverse(E, nu, kappa, dE, dnu) ++ (dkappa ** G))
<1> DEFINE g == 2 ** (1 ++ nu)
           g2 == 2 ** (1 ++ nu2)
           u == Reciprocal(g)
           u2 == Reciprocal(g2)
           w == Reciprocal(2 ** Square(1 ++ nu))
           dg == (0 ** (1 ++ nu)) ++ (2 ** (0 ++ dnu))
           du == 0 -- ((u ** u) ** dg)
<1>1. Tangent(g, g2, dg)
  BY TangentRules, 1 \in Int, 2 \in Int
<1>2. /\ E \in Int /\ nu \in Int /\ kappa \in Int /\ dE \in Int /\ dnu \in Int /\ dkappa \in Int
      /\ g % Prime # 0 /\ u \in Int /\ Same(w, Mul(2, Mul(u, u)))
  BY ShearDenominators DEF Tangent
<1>3. /\ E \in Int /\ nu \in Int /\ kappa \in Int
      /\ dE \in Int /\ dnu \in Int /\ dkappa \in Int /\ u \in Int
  BY <1>2
<1>4. Tangent(u, u2, du)
  BY <1>1, <1>2, ReciprocalTangent
<1> HIDE DEF g, g2, u, u2, w
<1>5. Tangent(E ** u, E2 ** u2, (dE ** u) ++ (E ** du))
  BY <1>4, TangentRules
<1>6. Same(du, Sub(0, Mul(Mul(u, u), Add(Mul(0, Add(1, nu)), Mul(2, Add(0, dnu))))))
  BY <1>3, SameRules, 0 \in Int, 1 \in Int, 2 \in Int
<1>7. Same((dE ** u) ++ (E ** du), Add(Mul(dE, u), Mul(E, Sub(0, Mul(Mul(u, u), Add(Mul(0,
        Add(1, nu)), Mul(2, Add(0, dnu))))))))
  BY <1>3, <1>2, <1>6, SameRules, 0 \in Int, 1 \in Int, 2 \in Int
<1>8. Same((dE ** (1 ** u)) ++ (dnu ** (0 -- (E ** w))), Add(Mul(dE, Mul(1, u)), Mul(dnu, Sub(0,
        Mul(E, Mul(2, Mul(u, u)))))))
  BY <1>3, <1>2, <1>6, SameRules, 0 \in Int, 1 \in Int, 2 \in Int
<1>9. Add(Mul(dE, u), Mul(E, Sub(0, Mul(Mul(u, u), Add(Mul(0, Add(1, nu)), Mul(2, Add(0,
        dnu))))))) = Add(Mul(dE, Mul(1, u)), Mul(dnu, Sub(0, Mul(E, Mul(2, Mul(u, u))))))
  BY <1>3 DEF Add, Sub, Mul
<1>10. Same((dE ** u) ++ (E ** du), (dE ** (1 ** u)) ++ (dnu ** (0 -- (E ** w))))
  BY <1>7, <1>8, <1>9, SameRules
<1>11. Tangent((E ** u) ** kappa, (E2 ** u2) ** kappa2, (((dE ** u) ++ (E ** du)) ** kappa) ++
        ((E ** u) ** dkappa))
  BY <1>5, TangentRules
<1>12. Same((((dE ** u) ++ (E ** du)) ** kappa) ++ ((E ** u) ** dkappa), Add(Mul(Add(Mul(dE, u),
        Mul(E, Sub(0, Mul(Mul(u, u), Add(Mul(0, Add(1, nu)), Mul(2, Add(0, dnu))))))), kappa),
        Mul(Mul(E, u), dkappa)))
  BY <1>3, <1>2, <1>6, SameRules, 0 \in Int, 1 \in Int, 2 \in Int
<1>13. Same(((dE ** (kappa ** u)) ++ (dnu ** (0 -- ((E ** kappa) ** w)))) ++ (dkappa ** (E **
        u)), Add(Add(Mul(dE, Mul(kappa, u)), Mul(dnu, Sub(0, Mul(Mul(E, kappa), Mul(2, Mul(u,
        u)))))), Mul(dkappa, Mul(E, u))))
  BY <1>3, <1>2, <1>6, SameRules, 0 \in Int, 1 \in Int, 2 \in Int
<1>14. Add(Mul(Add(Mul(dE, u), Mul(E, Sub(0, Mul(Mul(u, u), Add(Mul(0, Add(1, nu)), Mul(2,
        Add(0, dnu))))))), kappa), Mul(Mul(E, u), dkappa)) = Add(Add(Mul(dE, Mul(kappa, u)),
        Mul(dnu, Sub(0, Mul(Mul(E, kappa), Mul(2, Mul(u, u)))))), Mul(dkappa, Mul(E, u)))
  BY <1>3 DEF Add, Sub, Mul
<1>15. Same((((dE ** u) ++ (E ** du)) ** kappa) ++ ((E ** u) ** dkappa), ((dE ** (kappa ** u))
        ++ (dnu ** (0 -- ((E ** kappa) ** w)))) ++ (dkappa ** (E ** u)))
  BY <1>12, <1>13, <1>14, SameRules
<1>16. DShear(E, nu, dE, dnu) = (dE ** (1 ** u)) ++ (dnu ** (0 -- (E ** w)))
  BY DEF DShear, //, g, u, w
<1>17. DTransverse(E, nu, kappa, dE, dnu) ++ (dkappa ** (E ** u))
         = ((dE ** (kappa ** u)) ++ (dnu ** (0 -- ((E ** kappa) ** w)))) ++ (dkappa ** (E ** u))
  BY DEF DTransverse, //, g, u, w
<1>18. /\ Tangent(E ** u, E2 ** u2, DShear(E, nu, dE, dnu))
       /\ Tangent((E ** u) ** kappa, (E2 ** u2) ** kappa2,
                  DTransverse(E, nu, kappa, dE, dnu) ++ (dkappa ** (E ** u)))
  BY <1>5, <1>10, <1>11, <1>15, <1>16, <1>17, TangentOf
<1>19. E // (2 ** (1 ++ nu)) = E ** u /\ E2 // (2 ** (1 ++ nu2)) = E2 ** u2
  BY DEF //, g, g2, u, u2
<1> QED
  BY <1>18, <1>19

\* The square of a denominator.
LEMMA SquareDenominator ==
  ASSUME NEW D \in Int, D % Prime # 0
  PROVE  Reciprocal(D) \in Int /\ Same(Reciprocal(Square(D)), Mul(Reciprocal(D), Reciprocal(D)))
<1>1. Inverses(D, Reciprocal(D)) /\ Reciprocal(D) \in Int
  BY ReciprocalSame, InversesFacts
<1>2. Inverses(Mul(D, D), Mul(Reciprocal(D), Reciprocal(D)))
  BY <1>1, InversesTimes
<1>3. Same(Square(D), Mul(D, D))
  BY SameRules DEF Square
<1> QED
  BY <1>1, <1>2, <1>3, ReciprocalSame

\* The stiffness of plane stress, and the derivatives the code forms for it.
DPlane(E, nu, dE, dnu) ==
  LET D == 1 -- nu ** nu
  IN (dE ** (1 // D)) ++ (dnu ** ((E ** (2 ** nu)) // Square(D)))
DPlaneCross(E, nu, dE, dnu) ==
  LET D == 1 -- nu ** nu
  IN (dE ** (nu // D)) ++ (dnu ** ((E // D) ++ ((E ** nu ** (2 ** nu)) // Square(D))))

\* The derivatives of plane stress are those of its stiffness.
LEMMA PlaneTangent ==
  ASSUME NEW E, NEW E2, NEW dE, NEW nu, NEW nu2, NEW dnu,
         Tangent(E, E2, dE), Tangent(nu, nu2, dnu),
         (1 -- (nu ** nu)) % Prime # 0
  PROVE  LET D  == 1 -- (nu ** nu)
             D2 == 1 -- (nu2 ** nu2)
         IN /\ Tangent(E // D, E2 // D2, DPlane(E, nu, dE, dnu))
            /\ Tangent((E ** nu) // D, (E2 ** nu2) // D2, DPlaneCross(E, nu, dE, dnu))
<1> DEFINE D == 1 -- (nu ** nu)
           D2 == 1 -- (nu2 ** nu2)
           u == Reciprocal(D)
           u2 == Reciprocal(D2)
           w == Reciprocal(Square(D))
           dD == 0 -- ((dnu ** nu) ++ (nu ** dnu))
           du == 0 -- ((u ** u) ** dD)
<1>1. Tangent(D, D2, dD)
  BY TangentRules, 1 \in Int, 2 \in Int
<1>2. D \in Int /\ D % Prime # 0
  BY <1>1, TangentOf
<1>3. E \in Int /\ nu \in Int /\ dE \in Int /\ dnu \in Int /\ u \in Int
  BY <1>2, SquareDenominator DEF Tangent
<1>4. Same(w, Mul(u, u))
  BY <1>2, SquareDenominator
<1>5. Tangent(u, u2, du)
  BY <1>1, <1>2, ReciprocalTangent
<1>6. Same(dD, Sub(0, Add(Mul(dnu, nu), Mul(nu, dnu))))
  BY <1>3, SameRules, 0 \in Int, 1 \in Int, 2 \in Int
<1> HIDE DEF u, u2, w, dD
<1>7. Same(du, Sub(0, Mul(Mul(u, u), Sub(0, Add(Mul(dnu, nu), Mul(nu, dnu))))))
  BY <1>3, <1>6, SameRules, 0 \in Int
<1> HIDE DEF du
<1>8. Tangent(E ** u, E2 ** u2, (dE ** u) ++ (E ** du))
  BY <1>5, TangentRules, 1 \in Int, 2 \in Int
<1>9. Same((dE ** u) ++ (E ** du), Add(Mul(dE, u), Mul(E, Sub(0, Mul(Mul(u, u), Sub(0,
        Add(Mul(dnu, nu), Mul(nu, dnu))))))))
  BY <1>3, <1>4, <1>7, SameRules, 0 \in Int, 1 \in Int, 2 \in Int
<1>10. Same((dE ** (1 ** u)) ++ (dnu ** ((E ** (2 ** nu)) ** w)), Add(Mul(dE, Mul(1, u)),
        Mul(dnu, Mul(Mul(E, Mul(2, nu)), Mul(u, u)))))
  BY <1>3, <1>4, <1>7, SameRules, 0 \in Int, 1 \in Int, 2 \in Int
<1>11. Add(Mul(dE, u), Mul(E, Sub(0, Mul(Mul(u, u), Sub(0, Add(Mul(dnu, nu), Mul(nu, dnu)))))))
        = Add(Mul(dE, Mul(1, u)), Mul(dnu, Mul(Mul(E, Mul(2, nu)), Mul(u, u))))
  BY <1>3 DEF Add, Sub, Mul
<1>12. Same((dE ** u) ++ (E ** du), (dE ** (1 ** u)) ++ (dnu ** ((E ** (2 ** nu)) ** w)))
  BY <1>9, <1>10, <1>11, SameRules
<1>13. DPlane(E, nu, dE, dnu) = (dE ** (1 ** u)) ++ (dnu ** ((E ** (2 ** nu)) ** w))
  BY DEF DPlane, //, u, w
<1>14. Tangent(E // D, E2 // D2, DPlane(E, nu, dE, dnu))
  BY <1>8, <1>12, <1>13, TangentOf DEF //, u, u2
<1>15. Tangent((E ** nu) ** u, (E2 ** nu2) ** u2, (((dE ** nu) ++ (E ** dnu)) ** u) ++ ((E **
        nu) ** du))
  BY <1>5, TangentRules, 1 \in Int, 2 \in Int
<1>16. Same((((dE ** nu) ++ (E ** dnu)) ** u) ++ ((E ** nu) ** du), Add(Mul(Add(Mul(dE, nu),
        Mul(E, dnu)), u), Mul(Mul(E, nu), Sub(0, Mul(Mul(u, u), Sub(0, Add(Mul(dnu, nu), Mul(nu,
        dnu))))))))
  BY <1>3, <1>4, <1>7, SameRules, 0 \in Int, 1 \in Int, 2 \in Int
<1>17. Same((dE ** (nu ** u)) ++ (dnu ** ((E ** u) ++ (((E ** nu) ** (2 ** nu)) ** w))),
        Add(Mul(dE, Mul(nu, u)), Mul(dnu, Add(Mul(E, u), Mul(Mul(Mul(E, nu), Mul(2, nu)), Mul(u,
        u))))))
  BY <1>3, <1>4, <1>7, SameRules, 0 \in Int, 1 \in Int, 2 \in Int
<1>18. Add(Mul(Add(Mul(dE, nu), Mul(E, dnu)), u), Mul(Mul(E, nu), Sub(0, Mul(Mul(u, u), Sub(0,
        Add(Mul(dnu, nu), Mul(nu, dnu))))))) = Add(Mul(dE, Mul(nu, u)), Mul(dnu, Add(Mul(E, u),
        Mul(Mul(Mul(E, nu), Mul(2, nu)), Mul(u, u)))))
  BY <1>3 DEF Add, Sub, Mul
<1>19. Same((((dE ** nu) ++ (E ** dnu)) ** u) ++ ((E ** nu) ** du), (dE ** (nu ** u)) ++ (dnu **
        ((E ** u) ++ (((E ** nu) ** (2 ** nu)) ** w))))
  BY <1>16, <1>17, <1>18, SameRules
<1>20. DPlaneCross(E, nu, dE, dnu) = (dE ** (nu ** u)) ++ (dnu ** ((E ** u) ++ (((E ** nu) ** (2
        ** nu)) ** w)))
  BY DEF DPlaneCross, //, u, w
<1>21. Tangent((E ** nu) // D, (E2 ** nu2) // D2, DPlaneCross(E, nu, dE, dnu))
  BY <1>15, <1>19, <1>20, TangentOf DEF //, u, u2
<1> QED
  BY <1>14, <1>21

\* The stiffness of a solid, and the derivatives the code forms for it.
DSolid(E, nu, dE, dnu) ==
  LET D == (1 -- nu) -- 2 ** nu ** nu
  IN (dE ** ((1 -- nu) // D)) ++
     (dnu ** (((E ** (1 -- nu) ** (1 ++ 4 ** nu)) // Square(D)) -- (E // D)))
DSolidCross(E, nu, dE, dnu) ==
  LET D == (1 -- nu) -- 2 ** nu ** nu
  IN (dE ** (nu // D)) ++ (dnu ** (((E ** nu ** (1 ++ 4 ** nu)) // Square(D)) ++ (E // D)))

\* The derivatives of a solid are those of its stiffness.
LEMMA SolidTangent ==
  ASSUME NEW E, NEW E2, NEW dE, NEW nu, NEW nu2, NEW dnu,
         Tangent(E, E2, dE), Tangent(nu, nu2, dnu),
         ((1 -- nu) -- ((2 ** nu) ** nu)) % Prime # 0
  PROVE  LET D  == (1 -- nu) -- ((2 ** nu) ** nu)
             D2 == (1 -- nu2) -- ((2 ** nu2) ** nu2)
         IN /\ Tangent((E ** (1 -- nu)) // D, (E2 ** (1 -- nu2)) // D2, DSolid(E, nu, dE, dnu))
            /\ Tangent((E ** nu) // D, (E2 ** nu2) // D2, DSolidCross(E, nu, dE, dnu))
<1> DEFINE D == (1 -- nu) -- ((2 ** nu) ** nu)
           D2 == (1 -- nu2) -- ((2 ** nu2) ** nu2)
           u == Reciprocal(D)
           u2 == Reciprocal(D2)
           w == Reciprocal(Square(D))
           dD == (0 -- dnu) -- ((((0 ** nu) ++ (2 ** dnu)) ** nu) ++ ((2 ** nu) ** dnu))
           du == 0 -- ((u ** u) ** dD)
<1>1. Tangent(D, D2, dD)
  BY TangentRules, 1 \in Int, 2 \in Int
<1>2. D \in Int /\ D % Prime # 0
  BY <1>1, TangentOf
<1>3. E \in Int /\ nu \in Int /\ dE \in Int /\ dnu \in Int /\ u \in Int
  BY <1>2, SquareDenominator DEF Tangent
<1>4. Same(w, Mul(u, u))
  BY <1>2, SquareDenominator
<1>5. Tangent(u, u2, du)
  BY <1>1, <1>2, ReciprocalTangent
<1>6. Same(dD, Sub(Sub(0, dnu), Add(Mul(Add(Mul(0, nu), Mul(2, dnu)), nu), Mul(Mul(2, nu),
        dnu))))
  BY <1>3, SameRules, 0 \in Int, 1 \in Int, 2 \in Int
<1> HIDE DEF u, u2, w, dD
<1>7. Same(du, Sub(0, Mul(Mul(u, u), Sub(Sub(0, dnu), Add(Mul(Add(Mul(0, nu), Mul(2, dnu)), nu),
        Mul(Mul(2, nu), dnu))))))
  BY <1>3, <1>6, SameRules, 0 \in Int
<1> HIDE DEF du
<1>8. Tangent((E ** (1 -- nu)) ** u, (E2 ** (1 -- nu2)) ** u2, (((dE ** (1 -- nu)) ++ (E ** (0
        -- dnu))) ** u) ++ ((E ** (1 -- nu)) ** du))
  BY <1>5, TangentRules, 1 \in Int, 2 \in Int
<1>9. Same((((dE ** (1 -- nu)) ++ (E ** (0 -- dnu))) ** u) ++ ((E ** (1 -- nu)) ** du),
        Add(Mul(Add(Mul(dE, Sub(1, nu)), Mul(E, Sub(0, dnu))), u), Mul(Mul(E, Sub(1, nu)),
        Sub(0, Mul(Mul(u, u), Sub(Sub(0, dnu), Add(Mul(Add(Mul(0, nu), Mul(2, dnu)), nu),
        Mul(Mul(2, nu), dnu))))))))
  BY <1>3, <1>4, <1>7, SameRules, 0 \in Int, 1 \in Int, 2 \in Int
<1>10. Same((dE ** ((1 -- nu) ** u)) ++ (dnu ** ((((E ** (1 -- nu)) ** (1 ++ (4 ** nu))) ** w)
        -- (E ** u))), Add(Mul(dE, Mul(Sub(1, nu), u)), Mul(dnu, Sub(Mul(Mul(Mul(E, Sub(1, nu)),
        Add(1, Mul(4, nu))), Mul(u, u)), Mul(E, u)))))
  BY <1>3, <1>4, <1>7, SameRules, 0 \in Int, 1 \in Int, 2 \in Int
<1>11. Add(Mul(Add(Mul(dE, Sub(1, nu)), Mul(E, Sub(0, dnu))), u), Mul(Mul(E, Sub(1, nu)), Sub(0,
        Mul(Mul(u, u), Sub(Sub(0, dnu), Add(Mul(Add(Mul(0, nu), Mul(2, dnu)), nu), Mul(Mul(2,
        nu), dnu))))))) = Add(Mul(dE, Mul(Sub(1, nu), u)), Mul(dnu, Sub(Mul(Mul(Mul(E, Sub(1,
        nu)), Add(1, Mul(4, nu))), Mul(u, u)), Mul(E, u))))
  BY <1>3 DEF Add, Sub, Mul
<1>12. Same((((dE ** (1 -- nu)) ++ (E ** (0 -- dnu))) ** u) ++ ((E ** (1 -- nu)) ** du), (dE **
        ((1 -- nu) ** u)) ++ (dnu ** ((((E ** (1 -- nu)) ** (1 ++ (4 ** nu))) ** w) -- (E **
        u))))
  BY <1>9, <1>10, <1>11, SameRules
<1>13. DSolid(E, nu, dE, dnu) = (dE ** ((1 -- nu) ** u)) ++ (dnu ** ((((E ** (1 -- nu)) ** (1 ++
        (4 ** nu))) ** w) -- (E ** u)))
  BY DEF DSolid, //, u, w
<1>14. Tangent((E ** (1 -- nu)) // D, (E2 ** (1 -- nu2)) // D2, DSolid(E, nu, dE, dnu))
  BY <1>8, <1>12, <1>13, TangentOf DEF //, u, u2
<1>15. Tangent((E ** nu) ** u, (E2 ** nu2) ** u2, (((dE ** nu) ++ (E ** dnu)) ** u) ++ ((E **
        nu) ** du))
  BY <1>5, TangentRules, 1 \in Int, 2 \in Int
<1>16. Same((((dE ** nu) ++ (E ** dnu)) ** u) ++ ((E ** nu) ** du), Add(Mul(Add(Mul(dE, nu),
        Mul(E, dnu)), u), Mul(Mul(E, nu), Sub(0, Mul(Mul(u, u), Sub(Sub(0, dnu),
        Add(Mul(Add(Mul(0, nu), Mul(2, dnu)), nu), Mul(Mul(2, nu), dnu))))))))
  BY <1>3, <1>4, <1>7, SameRules, 0 \in Int, 1 \in Int, 2 \in Int
<1>17. Same((dE ** (nu ** u)) ++ (dnu ** ((((E ** nu) ** (1 ++ (4 ** nu))) ** w) ++ (E ** u))),
        Add(Mul(dE, Mul(nu, u)), Mul(dnu, Add(Mul(Mul(Mul(E, nu), Add(1, Mul(4, nu))), Mul(u,
        u)), Mul(E, u)))))
  BY <1>3, <1>4, <1>7, SameRules, 0 \in Int, 1 \in Int, 2 \in Int
<1>18. Add(Mul(Add(Mul(dE, nu), Mul(E, dnu)), u), Mul(Mul(E, nu), Sub(0, Mul(Mul(u, u),
        Sub(Sub(0, dnu), Add(Mul(Add(Mul(0, nu), Mul(2, dnu)), nu), Mul(Mul(2, nu), dnu))))))) =
        Add(Mul(dE, Mul(nu, u)), Mul(dnu, Add(Mul(Mul(Mul(E, nu), Add(1, Mul(4, nu))), Mul(u,
        u)), Mul(E, u))))
  BY <1>3 DEF Add, Sub, Mul
<1>19. Same((((dE ** nu) ++ (E ** dnu)) ** u) ++ ((E ** nu) ** du), (dE ** (nu ** u)) ++ (dnu **
        ((((E ** nu) ** (1 ++ (4 ** nu))) ** w) ++ (E ** u))))
  BY <1>16, <1>17, <1>18, SameRules
<1>20. DSolidCross(E, nu, dE, dnu) = (dE ** (nu ** u)) ++ (dnu ** ((((E ** nu) ** (1 ++ (4 **
        nu))) ** w) ++ (E ** u)))
  BY DEF DSolidCross, //, u, w
<1>21. Tangent((E ** nu) // D, (E2 ** nu2) // D2, DSolidCross(E, nu, dE, dnu))
  BY <1>15, <1>19, <1>20, TangentOf DEF //, u, u2
<1> QED
  BY <1>14, <1>21

\* The modulus itself, as the code adds its derivative to that of the others.
LEMMA UnitTangent ==
  ASSUME NEW a, NEW b, NEW x, NEW y \in Int, Tangent(a, b, x)
  PROVE  Tangent(a, b, (x ** 1) ++ (y ** 0))
<1>1. x \in Int
  BY DEF Tangent
<1>2. Same((x ** 1) ++ (y ** 0), Add(Mul(x, 1), Mul(y, 0)))
  BY <1>1, SameRules, 0 \in Int, 1 \in Int
<1>3. Add(Mul(x, 1), Mul(y, 0)) = x
  BY <1>1 DEF Add, Mul
<1> QED
  BY <1>2, <1>3, SameRules, TangentOf

\* The parameters of the isotropic material.
LEMMA IsotropicNear ==
  ASSUME NEW c, NEW c2, NEW d, Near(c, c2, d), Regular(c)
  PROVE  /\ Tangent(c.E, c2.E, d.E) /\ Tangent(c.nu, c2.nu, d.nu)
         /\ Tangent(c.kappa, c2.kappa, d.kappa) /\ Tangent(c.rho, c2.rho, d.rho)
         /\ Tangent(c.alpha, c2.alpha, d.alpha) /\ Tangent(c.k, c2.k, d.k)
         /\ Tangent(c.cp, c2.cp, d.cp)
         /\ d.E \in Int /\ d.nu \in Int /\ d.kappa \in Int
         /\ (1 ++ c.nu) % Prime # 0 /\ (1 -- (c.nu ** c.nu)) % Prime # 0
         /\ Compressibility(c) % Prime # 0
BY DEF Near, CardNames, MaterialParameters, Regular, Tangent

\* StiffnessMatrix1D.
LEMMA Stiffness1DMoves ==
  ASSUME NEW c, NEW c2, NEW d, Near(c, c2, d), Regular(c)
  PROVE  Moves(StiffnessMatrix1D(c), StiffnessMatrix1D(c2), DStiffnessMatrix1D(c, d))
<1> DEFINE a == 1 // (2 ** (1 ++ c.nu))
           b == 0 -- (c.E // (2 ** Square(1 ++ c.nu)))
           x == (d.E ** 1) ++ (d.nu ** 0)
           y == (d.E ** a) ++ (d.nu ** b)
<1>1. Tangent(c.E, c2.E, x)
  BY IsotropicNear, UnitTangent
<1>2. Tangent(ShearModulus(c), ShearModulus(c2), y)
  BY IsotropicNear, ShearTangent DEF ShearModulus, DShear
<1> HIDE DEF a, b
<1>3. Moves(StiffnessMatrix1D(c), StiffnessMatrix1D(c2), Single(0, 0, x) \uplus Single(1, 1, y))
  BY <1>1, <1>2, SingleMoves, JoinMoves DEF StiffnessMatrix1D
<1>4. DStiffnessMatrix1D(c, d) = Single(0, 0, x) \uplus Single(1, 1, y)
  <2> DEFINE m == Single(0, 0, 1)
             n == Single(1, 1, a)
             r == Single(0, 0, 0)
             t == Single(1, 1, b)
  <2>1. DStiffnessMatrix1D(c, d) = Plus(Scale(d.E, m \uplus n), Scale(d.nu, r \uplus t))
    BY DEF DStiffnessMatrix1D, a, b
  <2>2. DOMAIN m = DOMAIN r /\ DOMAIN n = DOMAIN t
    BY DEF Single
  <2>3. /\ Plus(Scale(d.E, m), Scale(d.nu, r)) = Single(0, 0, x)
        /\ Plus(Scale(d.E, n), Scale(d.nu, t)) = Single(1, 1, y)
    BY SingleValues, BlockValues
  <2> HIDE DEF m, n, r, t
  <2> QED
    BY <2>1, <2>2, <2>3, ShapeCombine
<1> QED
  BY <1>3, <1>4

\* TransverseShearStiffnessMatrix, and the orthotropic card's, which leaves out kappa.
LEMMA TransverseMoves ==
  ASSUME NEW c, NEW c2, NEW d, Near(c, c2, d), Regular(c)
  PROVE  /\ Moves(TransverseShearStiffnessMatrix(c), TransverseShearStiffnessMatrix(c2),
                  DTransverseShearStiffnessMatrix(c, d))
         /\ d.kappa = 0 => Moves(TransverseShearStiffnessMatrix(c),
                                 TransverseShearStiffnessMatrix(c2),
                                 OrthotropicDTransverseShear(c, d))
<1> DEFINE a == c.kappa // (2 ** (1 ++ c.nu))
           b == 0 -- ((c.E ** c.kappa) // (2 ** Square(1 ++ c.nu)))
           G == ShearModulus(c)
           x == (d.E ** a) ++ (d.nu ** b)
           y == x ++ (d.kappa ** G)
<1>1. Tangent(G ** c.kappa, ShearModulus(c2) ** c2.kappa, y)
  BY IsotropicNear, ShearTangent DEF ShearModulus, DTransverse
<1>2. OrthotropicDTransverseShear(c, d) = Diagonal(2, x)
  <2>1. OrthotropicDTransverseShear(c, d)
          = Plus(Scale(d.E, Diagonal(2, a)), Scale(d.nu, Diagonal(2, b)))
    BY DEF OrthotropicDTransverseShear
  <2> HIDE DEF a, b
  <2> QED
    BY <2>1, DiagonalValues
<1>3. DTransverseShearStiffnessMatrix(c, d) = Diagonal(2, y)
  <2>1. DTransverseShearStiffnessMatrix(c, d)
          = Plus(OrthotropicDTransverseShear(c, d), Scale(d.kappa, Diagonal(2, G)))
    BY DEF DTransverseShearStiffnessMatrix, OrthotropicDTransverseShear
  <2>2. Scale(d.kappa, Diagonal(2, G)) = Diagonal(2, d.kappa ** G)
    BY ShapeScale
  <2> QED
    BY <1>2, <2>1, <2>2, ShapePlus
<1>4. ASSUME d.kappa = 0 PROVE Tangent(G ** c.kappa, ShearModulus(c2) ** c2.kappa, x)
  <2> HIDE DEF x
  <2>1. G \in Int /\ x \in Int
    <3>1. Tangent(G, ShearModulus(c2), DShear(c.E, c.nu, d.E, d.nu))
      BY IsotropicNear, ShearTangent DEF ShearModulus
    <3>2. c.E \in Int /\ c.nu \in Int /\ c.kappa \in Int /\ d.E \in Int /\ d.nu \in Int
      BY IsotropicNear DEF Tangent
    <3>3. Reciprocal(2 ** (1 ++ c.nu)) \in Int /\ Reciprocal(2 ** Square(1 ++ c.nu)) \in Int
      BY <3>2, IsotropicNear, ShearDenominators, SameRules
    <3>4. a \in Int /\ b \in Int
      BY <3>2, <3>3, ResidueFacts, 0 \in Int DEF //
    <3>5. x \in Int
      BY <3>2, <3>4, ResidueFacts DEF x
    <3> QED
      BY <3>1, <3>5 DEF Tangent
  <2>2. Same(y, Add(x, Mul(0, G)))
    BY <1>4, <2>1, SameRules, 0 \in Int
  <2>3. Add(x, Mul(0, G)) = x
    BY <2>1 DEF Add, Mul
  <2> QED
    BY <1>1, <2>2, <2>3, TangentOf
<1> HIDE DEF a, b, x, y, G
<1>5. Moves(Diagonal(2, G ** c.kappa), Diagonal(2, ShearModulus(c2) ** c2.kappa), Diagonal(2, y))
  BY <1>1, DiagonalMoves
<1>6. ASSUME d.kappa = 0
      PROVE  Moves(Diagonal(2, G ** c.kappa), Diagonal(2, ShearModulus(c2) ** c2.kappa),
                   Diagonal(2, x))
  BY <1>4, <1>6, DiagonalMoves
<1> QED
  BY <1>2, <1>3, <1>5, <1>6 DEF TransverseShearStiffnessMatrix, G

\* StiffnessMatrix2D, of plane stress.
LEMMA Stiffness2DMoves ==
  ASSUME NEW c, NEW c2, NEW d, Near(c, c2, d), Regular(c)
  PROVE  Moves(StiffnessMatrix2D(c), StiffnessMatrix2D(c2), DStiffnessMatrix2D(c, d))
<1> DEFINE D(e) == 1 -- (e.nu ** e.nu)
           P == 1 // D(c)
           Q == c.nu // D(c)
           R == 1 // (2 ** (1 ++ c.nu))
           S == (c.E ** (2 ** c.nu)) // Square(D(c))
           T == (c.E // D(c)) ++ ((c.E ** c.nu ** (2 ** c.nu)) // Square(D(c)))
           U == 0 -- (c.E // (2 ** Square(1 ++ c.nu)))
           x == (d.E ** P) ++ (d.nu ** S)
           y == (d.E ** Q) ++ (d.nu ** T)
           z == (d.E ** R) ++ (d.nu ** U)
<1>1. Tangent(c.E // D(c), c2.E // D(c2), x)
  BY IsotropicNear, PlaneTangent DEF DPlane
<1>2. Tangent((c.E ** c.nu) // D(c), (c2.E ** c2.nu) // D(c2), y)
  BY IsotropicNear, PlaneTangent DEF DPlaneCross
<1>3. Tangent(ShearModulus(c), ShearModulus(c2), z)
  BY IsotropicNear, ShearTangent DEF ShearModulus, DShear
<1>4. DStiffnessMatrix2D(c, d)
        = Plus(Scale(d.E, Block(2, P, Q) \uplus Single(2, 2, R)),
               Scale(d.nu, Block(2, S, T) \uplus Single(2, 2, U)))
  BY DEF DStiffnessMatrix2D
<1>5. StiffnessMatrix2D(c)
        = Block(2, c.E // D(c), (c.E ** c.nu) // D(c)) \uplus Single(2, 2, ShearModulus(c))
  BY DEF StiffnessMatrix2D
<1>6. StiffnessMatrix2D(c2)
        = Block(2, c2.E // D(c2), (c2.E ** c2.nu) // D(c2)) \uplus Single(2, 2, ShearModulus(c2))
  BY DEF StiffnessMatrix2D
<1> HIDE DEF D, P, Q, R, S, T, U
<1>7. Moves(StiffnessMatrix2D(c), StiffnessMatrix2D(c2), Block(2, x, y) \uplus Single(2, 2, z))
  BY <1>1, <1>2, <1>3, <1>5, <1>6, BlockMoves, SingleMoves, JoinMoves
<1>8. DStiffnessMatrix2D(c, d) = Block(2, x, y) \uplus Single(2, 2, z)
  <2> DEFINE m == Block(2, P, Q)
             n == Single(2, 2, R)
             r == Block(2, S, T)
             t == Single(2, 2, U)
  <2>1. DOMAIN m = DOMAIN r /\ DOMAIN n = DOMAIN t
    BY DEF Block, Single
  <2>2. /\ Plus(Scale(d.E, m), Scale(d.nu, r)) = Block(2, x, y)
        /\ Plus(Scale(d.E, n), Scale(d.nu, t)) = Single(2, 2, z)
    BY SingleValues, BlockValues
  <2>3. DStiffnessMatrix2D(c, d) = Plus(Scale(d.E, m \uplus n), Scale(d.nu, r \uplus t))
    BY <1>4
  <2> HIDE DEF m, n, r, t
  <2> QED
    BY <2>1, <2>2, <2>3, ShapeCombine
<1> QED
  BY <1>7, <1>8

\* StiffnessMatrix3D.
LEMMA Stiffness3DMoves ==
  ASSUME NEW c, NEW c2, NEW d, Near(c, c2, d), Regular(c)
  PROVE  Moves(StiffnessMatrix3D(c), StiffnessMatrix3D(c2), DStiffnessMatrix3D(c, d))
<1> DEFINE D(e) == Compressibility(e)
           P == (1 -- c.nu) // D(c)
           Q == c.nu // D(c)
           R == 1 // (2 ** (1 ++ c.nu))
           S == ((c.E ** (1 -- c.nu) ** (1 ++ 4 ** c.nu)) // Square(D(c))) -- (c.E // D(c))
           T == ((c.E ** c.nu ** (1 ++ 4 ** c.nu)) // Square(D(c))) ++ (c.E // D(c))
           U == 0 -- (c.E // (2 ** Square(1 ++ c.nu)))
           x == (d.E ** P) ++ (d.nu ** S)
           y == (d.E ** Q) ++ (d.nu ** T)
           z == (d.E ** R) ++ (d.nu ** U)
           Low(v) == Shifted(Diagonal(3, v), 3)
<1>1. Tangent((c.E ** (1 -- c.nu)) // D(c), (c2.E ** (1 -- c2.nu)) // D(c2), x)
  BY IsotropicNear, SolidTangent DEF DSolid, Compressibility
<1>2. Tangent((c.E ** c.nu) // D(c), (c2.E ** c2.nu) // D(c2), y)
  BY IsotropicNear, SolidTangent DEF DSolidCross, Compressibility
<1>3. Tangent(ShearModulus(c), ShearModulus(c2), z)
  BY IsotropicNear, ShearTangent DEF ShearModulus, DShear
<1>4. DStiffnessMatrix3D(c, d)
        = Plus(Scale(d.E, Block(3, P, Q) \uplus Low(R)), Scale(d.nu, Block(3, S, T) \uplus Low(U)))
  BY DEF DStiffnessMatrix3D
<1>5. \A e : StiffnessMatrix3D(e)
               = Block(3, (e.E ** (1 -- e.nu)) // D(e), (e.E ** e.nu) // D(e))
                 \uplus Low(ShearModulus(e))
  BY DEF StiffnessMatrix3D
<1> HIDE DEF D, P, Q, R, S, T, U
<1>6. Moves(Low(ShearModulus(c)), Low(ShearModulus(c2)), Low(z))
  BY <1>3, DiagonalMoves, ShiftedMoves
<1>7. /\ \A s, v : Scale(s, Low(v)) = Low(s ** v)
      /\ \A v, w : Plus(Low(v), Low(w)) = Low(v ++ w) /\ DOMAIN Low(v) = DOMAIN Low(w)
  <2>1. \A v, w : /\ DOMAIN Diagonal(3, v) \subseteq Nat \X Nat
                  /\ DOMAIN Diagonal(3, v) = DOMAIN Diagonal(3, w)
    BY DEF Diagonal
  <2>2. \A s, v : Scale(s, Low(v)) = Low(s ** v)
    BY <2>1, ShiftedScale, ShapeScale
  <2>3. \A v, w : Plus(Low(v), Low(w)) = Low(v ++ w)
    BY <2>1, ShiftedShape, ShapePlus
  <2>4. \A v, w : DOMAIN Low(v) = DOMAIN Low(w)
    BY <2>1 DEF Shifted
  <2> QED
    BY <2>2, <2>3, <2>4
<1> HIDE DEF Low
<1>8. Moves(StiffnessMatrix3D(c), StiffnessMatrix3D(c2), Block(3, x, y) \uplus Low(z))
  <2>1. Moves(Block(3, (c.E ** (1 -- c.nu)) // D(c), (c.E ** c.nu) // D(c)),
              Block(3, (c2.E ** (1 -- c2.nu)) // D(c2), (c2.E ** c2.nu) // D(c2)),
              Block(3, x, y))
    BY <1>1, <1>2, BlockMoves
  <2> QED
    BY <1>5, <1>6, <2>1, JoinMoves
<1>9. DStiffnessMatrix3D(c, d) = Block(3, x, y) \uplus Low(z)
  <2> DEFINE m == Block(3, P, Q)
             n == Low(R)
             r == Block(3, S, T)
             t == Low(U)
  <2>1. DOMAIN m = DOMAIN r /\ DOMAIN n = DOMAIN t
    BY <1>7 DEF Block
  <2>2. Plus(Scale(d.E, m), Scale(d.nu, r)) = Block(3, x, y)
    BY SingleValues, BlockValues
  <2>3. Plus(Scale(d.E, n), Scale(d.nu, t)) = Low(z)
    <3>1. Scale(d.E, n) = Low(d.E ** R) /\ Scale(d.nu, t) = Low(d.nu ** U)
      BY <1>7
    <3> QED
      BY <1>7, <3>1
  <2>4. DStiffnessMatrix3D(c, d) = Plus(Scale(d.E, m \uplus n), Scale(d.nu, r \uplus t))
    BY <1>4
  <2> HIDE DEF m, n, r, t
  <2> QED
    BY <2>1, <2>2, <2>3, <2>4, ShapeCombine
<1> QED
  BY <1>8, <1>9

\* The other functions of the isotropic material.
LEMMA PlainMoves ==
  ASSUME NEW c, NEW c2, NEW d, Near(c, c2, d), Regular(c)
  PROVE  /\ Moves(InertiaMatrix3D(c), InertiaMatrix3D(c2), DInertiaMatrix3D(c, d))
         /\ Moves(ThermalCapacitanceMatrix(c), ThermalCapacitanceMatrix(c2),
                  DThermalCapacitanceMatrix(c, d))
         /\ \A dim \in Nat :
              /\ Moves(ThermalExpansionMatrix(dim, c), ThermalExpansionMatrix(dim, c2),
                       DThermalExpansionMatrix(dim, c, d))
              /\ Moves(ThermalConductanceMatrix(dim, c), ThermalConductanceMatrix(dim, c2),
                       DThermalConductanceMatrix(dim, c, d))
<1>1. Moves(InertiaMatrix3D(c), InertiaMatrix3D(c2), DInertiaMatrix3D(c, d))
  BY IsotropicNear, DiagonalMoves DEF InertiaMatrix3D, DInertiaMatrix3D
<1>2. Moves(ThermalCapacitanceMatrix(c), ThermalCapacitanceMatrix(c2),
            DThermalCapacitanceMatrix(c, d))
  <2>1. Tangent(c.cp ** c.rho, c2.cp ** c2.rho, (d.cp ** c.rho) ++ (c.cp ** d.rho))
    BY IsotropicNear, TangentRules
  <2> QED
    BY <2>1, SingleMoves DEF ThermalCapacitanceMatrix, DThermalCapacitanceMatrix
<1>3. ASSUME NEW dim \in Nat
      PROVE  /\ Moves(ThermalExpansionMatrix(dim, c), ThermalExpansionMatrix(dim, c2),
                      DThermalExpansionMatrix(dim, c, d))
             /\ Moves(ThermalConductanceMatrix(dim, c), ThermalConductanceMatrix(dim, c2),
                      DThermalConductanceMatrix(dim, c, d))
  <2>1. {<<i, 0>> : i \in 0 .. (dim - 1)} \subseteq Nat \X Nat
    OBVIOUS
  <2>2. Tangent(c.alpha, c2.alpha, d.alpha) /\ Tangent(c.k, c2.k, d.k)
    BY IsotropicNear
  <2>3. Moves(Column(dim, c.alpha), Column(dim, c2.alpha), Column(dim, d.alpha))
    BY <2>1, <2>2 DEF Moves, Column
  <2> QED
    BY <2>2, <2>3, DiagonalMoves DEF ThermalExpansionMatrix, DThermalExpansionMatrix,
       ThermalConductanceMatrix, DThermalConductanceMatrix
<1> QED
  BY <1>1, <1>2, <1>3
-----------------------------------------------------------------------------
(* The formulas of the orthotropic material.                                 *)

\* Sums and products in either order are one.
LEMMA Commutes == \A a, b \in Int : a ++ b = b ++ a /\ a ** b = b ** a
<1> SUFFICES ASSUME NEW a \in Int, NEW b \in Int PROVE a ++ b = b ++ a /\ a ** b = b ** a
  OBVIOUS
<1>1. a + b = b + a /\ a * b = b * a
  OBVIOUS
<1> QED
  BY <1>1 DEF ++, **

\* The product rule in the other order.
LEMMA ProductTangent ==
  ASSUME NEW a, NEW b, NEW x, NEW e, NEW f, NEW y, Tangent(a, b, x), Tangent(e, f, y)
  PROVE  /\ Tangent(a ** e, b ** f, (x ** e) ++ (a ** y))
         /\ Tangent(a ** e, b ** f, (a ** y) ++ (x ** e))
<1>1. Tangent(a ** e, b ** f, (x ** e) ++ (a ** y))
  BY TangentRules
<1>2. x ** e \in Int /\ a ** y \in Int
  BY ResidueFacts DEF Tangent
<1> QED
  BY <1>1, <1>2, Commutes

\* The derivative of a reciprocal as the code writes it.
LEMMA InverseTangent ==
  ASSUME NEW D, NEW D2, NEW x, Tangent(D, D2, x), D % Prime # 0
  PROVE  /\ Tangent(Reciprocal(D), Reciprocal(D2), (0 -- x) // Square(D))
         /\ Reciprocal(D) \in Int /\ (0 -- x) // Square(D) \in Int
<1> DEFINE u == Reciprocal(D)
           w == Reciprocal(Square(D))
<1>1. D \in Int /\ x \in Int
  BY DEF Tangent
<1>2. u \in Int /\ Same(w, Mul(u, u))
  BY <1>1, SquareDenominator
<1>3. Tangent(u, Reciprocal(D2), 0 -- ((u ** u) ** x))
  BY ReciprocalTangent
<1> HIDE DEF u, w
<1>4. Same(0 -- ((u ** u) ** x), Sub(0, Mul(Mul(u, u), x)))
  BY <1>1, <1>2, SameRules, 0 \in Int
<1>5. Same((0 -- x) ** w, Mul(Sub(0, x), Mul(u, u)))
  BY <1>1, <1>2, SameRules, 0 \in Int
<1>6. Sub(0, Mul(Mul(u, u), x)) = Mul(Sub(0, x), Mul(u, u))
  BY <1>1, <1>2 DEF Sub, Mul
<1>7. Same(0 -- ((u ** u) ** x), (0 -- x) ** w)
  BY <1>4, <1>5, <1>6, SameRules
<1>8. Tangent(u, Reciprocal(D2), (0 -- x) ** w)
  BY <1>3, <1>7, TangentOf
<1> QED
  BY <1>2, <1>8 DEF Tangent, //, u, w

\* A Poisson's ratio that follows from the others.
LEMMA RatioTangent ==
  ASSUME NEW nu, NEW nu2, NEW dnu, NEW b, NEW b2, NEW db, NEW a, NEW a2, NEW da,
         Tangent(nu, nu2, dnu), Tangent(b, b2, db), Tangent(a, a2, da), a % Prime # 0
  PROVE  Tangent((nu ** b) // a, (nu2 ** b2) // a2, DRatio(nu, b, a, dnu, db, da))
<1> DEFINE u == Reciprocal(a)
           u2 == Reciprocal(a2)
           w == Reciprocal(Square(a))
           du == 0 -- ((u ** u) ** da)
<1>1. a \in Int
  BY DEF Tangent
<1>2. Tangent(u, u2, du)
  BY ReciprocalTangent
<1>3. /\ nu \in Int /\ b \in Int /\ a \in Int /\ dnu \in Int /\ db \in Int /\ da \in Int
      /\ u \in Int
  BY <1>1, SquareDenominator DEF Tangent
<1>4. Same(w, Mul(u, u))
  BY <1>1, SquareDenominator
<1> HIDE DEF u, u2, w
<1>5. Same(du, Sub(0, Mul(Mul(u, u), da)))
  BY <1>3, SameRules, 0 \in Int, 1 \in Int
<1> HIDE DEF du
<1>6. Tangent((nu ** b) ** u, (nu2 ** b2) ** u2, (((dnu ** b) ++ (nu ** db)) ** u) ++ ((nu ** b)
        ** du))
  BY <1>2, TangentRules
<1>7. Same((((dnu ** b) ++ (nu ** db)) ** u) ++ ((nu ** b) ** du), Add(Mul(Add(Mul(dnu, b),
        Mul(nu, db)), u), Mul(Mul(nu, b), Sub(0, Mul(Mul(u, u), da)))))
  BY <1>3, <1>4, <1>5, SameRules, 0 \in Int, 1 \in Int, 2 \in Int
<1>8. Same((((dnu ** b) ** u) ++ ((nu ** db) ** u)) -- (((nu ** b) ** w) ** da),
        Sub(Add(Mul(Mul(dnu, b), u), Mul(Mul(nu, db), u)), Mul(Mul(Mul(nu, b), Mul(u, u)), da)))
  BY <1>3, <1>4, <1>5, SameRules, 0 \in Int, 1 \in Int, 2 \in Int
<1>9. Add(Mul(Add(Mul(dnu, b), Mul(nu, db)), u), Mul(Mul(nu, b), Sub(0, Mul(Mul(u, u), da)))) =
        Sub(Add(Mul(Mul(dnu, b), u), Mul(Mul(nu, db), u)), Mul(Mul(Mul(nu, b), Mul(u, u)), da))
  BY <1>3 DEF Add, Sub, Mul
<1>10. Same((((dnu ** b) ++ (nu ** db)) ** u) ++ ((nu ** b) ** du), (((dnu ** b) ** u) ++ ((nu
        ** db) ** u)) -- (((nu ** b) ** w) ** da))
  BY <1>7, <1>8, <1>9, SameRules
<1>11. DRatio(nu, b, a, dnu, db, da) = (((dnu ** b) ** u) ++ ((nu ** db) ** u)) -- (((nu ** b)
        ** w) ** da)
  BY DEF DRatio, //, u, w
<1> QED
  BY <1>6, <1>10, <1>11, TangentOf DEF //, u, u2

\* The parameters of the orthotropic material and the ratios that follow.
LEMMA OrthotropicNear ==
  ASSUME NEW c, NEW c2, NEW d, Near(c, c2, d), Regular(c)
  PROVE  /\ Tangent(c.E11, c2.E11, d.E11) /\ Tangent(c.E22, c2.E22, d.E22)
         /\ Tangent(c.E33, c2.E33, d.E33) /\ Tangent(c.nu12, c2.nu12, d.nu12)
         /\ Tangent(c.nu13, c2.nu13, d.nu13) /\ Tangent(c.nu23, c2.nu23, d.nu23)
         /\ Tangent(c.G12, c2.G12, d.G12) /\ Tangent(c.G13, c2.G13, d.G13)
         /\ Tangent(c.G23, c2.G23, d.G23)
         /\ Tangent(Nu21(c), Nu21(c2), DNu21(c, d)) /\ Tangent(Nu31(c), Nu31(c2), DNu31(c, d))
         /\ Tangent(Nu32(c), Nu32(c2), DNu32(c, d))
<1>1. /\ Tangent(c.E11, c2.E11, d.E11) /\ Tangent(c.E22, c2.E22, d.E22)
      /\ Tangent(c.E33, c2.E33, d.E33) /\ Tangent(c.nu12, c2.nu12, d.nu12)
      /\ Tangent(c.nu13, c2.nu13, d.nu13) /\ Tangent(c.nu23, c2.nu23, d.nu23)
      /\ Tangent(c.G12, c2.G12, d.G12) /\ Tangent(c.G13, c2.G13, d.G13)
      /\ Tangent(c.G23, c2.G23, d.G23)
  BY DEF Near, CardNames, MaterialParameters
<1>2. c.E11 % Prime # 0 /\ c.E22 % Prime # 0
  BY DEF Regular
<1> QED
  BY <1>1, <1>2, RatioTangent DEF Nu21, Nu31, Nu32, DNu21, DNu31, DNu32

\* OrthotropicStiffness2D.
LEMMA Orthotropic2DMoves ==
  ASSUME NEW c, NEW c2, NEW d, Near(c, c2, d), Regular(c)
  PROVE  Moves(OrthotropicStiffness2D(c), OrthotropicStiffness2D(c2),
               DOrthotropicStiffness2D(c, d))
<1> DEFINE D(e) == 1 -- (e.nu12 ** Nu21(e))
           dD == 0 -- ((d.nu12 ** Nu21(c)) ++ (c.nu12 ** DNu21(c, d)))
           x == (Nu21(c) ** d.E11) ++ (DNu21(c, d) ** c.E11)
           y == (c.nu12 ** d.E22) ++ (d.nu12 ** c.E22)
           dm == Single(0, 0, d.E11) \uplus Single(0, 1, x) \uplus Single(1, 0, y)
                 \uplus Single(1, 1, d.E22)
<1>1. Tangent(D(c), D(c2), dD)
  BY OrthotropicNear, TangentRules, 1 \in Int
<1>2. Tangent(Reciprocal(D(c)), Reciprocal(D(c2)), (0 -- dD) // Square(D(c)))
  BY <1>1, InverseTangent DEF Regular
<1>3. /\ Tangent(Nu21(c) ** c.E11, Nu21(c2) ** c2.E11, x)
      /\ Tangent(c.nu12 ** c.E22, c2.nu12 ** c2.E22, y)
  BY OrthotropicNear, ProductTangent
<1> HIDE DEF D, dD, x, y
<1>4. Moves(Orthotropic2DBlock(c), Orthotropic2DBlock(c2), dm)
  <2>1. /\ Moves(Single(0, 0, c.E11), Single(0, 0, c2.E11), Single(0, 0, d.E11))
        /\ Moves(Single(1, 1, c.E22), Single(1, 1, c2.E22), Single(1, 1, d.E22))
    BY OrthotropicNear, SingleMoves
  <2>2. /\ Moves(Single(0, 1, Nu21(c) ** c.E11), Single(0, 1, Nu21(c2) ** c2.E11), Single(0, 1, x))
        /\ Moves(Single(1, 0, c.nu12 ** c.E22), Single(1, 0, c2.nu12 ** c2.E22), Single(1, 0, y))
    BY <1>3, SingleMoves
  <2> QED
    BY <2>1, <2>2, JoinMoves DEF Orthotropic2DBlock
<1>5. Moves(Single(2, 2, c.G12), Single(2, 2, c2.G12), Single(2, 2, d.G12))
  BY OrthotropicNear, SingleMoves
<1>6. Moves(Scale(Reciprocal(D(c)), Orthotropic2DBlock(c)),
            Scale(Reciprocal(D(c2)), Orthotropic2DBlock(c2)),
            Plus(Scale((0 -- dD) // Square(D(c)), Orthotropic2DBlock(c)),
                 Scale(Reciprocal(D(c)), dm)))
  BY <1>2, <1>4, ScaleMoves
<1>7. DOrthotropicStiffness2D(c, d)
        = Plus(Scale((0 -- dD) // Square(D(c)), Orthotropic2DBlock(c)),
               Scale(Reciprocal(D(c)), dm)) \uplus Single(2, 2, d.G12)
  BY DEF DOrthotropicStiffness2D, D, dD, x, y
<1>8. \A e : OrthotropicStiffness2D(e)
               = Scale(Reciprocal(D(e)), Orthotropic2DBlock(e)) \uplus Single(2, 2, e.G12)
  BY DEF OrthotropicStiffness2D, D
<1> HIDE DEF dm
<1> QED
  BY <1>5, <1>6, <1>7, <1>8, JoinMoves

\* The determinant of the orthotropic compliance.
LEMMA DetTangent ==
  ASSUME NEW c, NEW c2, NEW d, Near(c, c2, d), Regular(c)
  PROVE  Tangent(OrthotropicDet(c), OrthotropicDet(c2), DOrthotropicDet(c, d))
<1> DEFINE n12 == c.nu12
           n13 == c.nu13
           n23 == c.nu23
           n21 == Nu21(c)
           n31 == Nu31(c)
           n32 == Nu32(c)
           d12 == d.nu12
           d13 == d.nu13
           d23 == d.nu23
           d21 == DNu21(c, d)
           d31 == DNu31(c, d)
           d32 == DNu32(c, d)
<1>1. /\ Tangent(n12, c2.nu12, d12) /\ Tangent(n13, c2.nu13, d13) /\ Tangent(n23, c2.nu23, d23)
      /\ Tangent(n21, Nu21(c2), d21) /\ Tangent(n31, Nu31(c2), d31) /\ Tangent(n32, Nu32(c2), d32)
  BY OrthotropicNear
<1>2. OrthotropicDet(c)
        = ((((1 -- (n12 ** n21)) -- (n13 ** n31)) -- (n23 ** n32)) -- ((n12 ** n23) ** n31))
          -- ((n13 ** n21) ** n32)
  BY DEF OrthotropicDet
<1>3. OrthotropicDet(c2) = ((((1 -- (c2.nu12 ** Nu21(c2))) -- (c2.nu13 ** Nu31(c2))) -- (c2.nu23
        ** Nu32(c2))) -- ((c2.nu12 ** c2.nu23) ** Nu31(c2))) -- ((c2.nu13 ** Nu21(c2)) **
        Nu32(c2))
  BY DEF OrthotropicDet
<1>4. DOrthotropicDet(c, d) = 0 -- ((((((d12 ** n21) ++ (n12 ** d21)) ++ ((d13 ** n31) ++ (n13
        ** d31))) ++ ((d23 ** n32) ++ (n23 ** d32))) ++ ((((d12 ** n23) ** n31) ++ ((n12 ** d23)
        ** n31)) ++ ((n12 ** n23) ** d31))) ++ ((((d13 ** n21) ** n32) ++ ((n13 ** d21) ** n32))
        ++ ((n13 ** n21) ** d32)))
  BY DEF DOrthotropicDet
<1> HIDE DEF n12, n13, n23, n21, n31, n32, d12, d13, d23, d21, d31, d32
<1>5. /\ n12 \in Int /\ n13 \in Int /\ n23 \in Int /\ n21 \in Int /\ n31 \in Int /\ n32 \in Int
      /\ d12 \in Int /\ d13 \in Int /\ d23 \in Int /\ d21 \in Int /\ d31 \in Int /\ d32 \in Int
  BY <1>1 DEF Tangent
<1>6. Tangent(((((1 -- (n12 ** n21)) -- (n13 ** n31)) -- (n23 ** n32)) -- ((n12 ** n23) ** n31))
        -- ((n13 ** n21) ** n32), ((((1 -- (c2.nu12 ** Nu21(c2))) -- (c2.nu13 ** Nu31(c2))) --
        (c2.nu23 ** Nu32(c2))) -- ((c2.nu12 ** c2.nu23) ** Nu31(c2))) -- ((c2.nu13 ** Nu21(c2))
        ** Nu32(c2)), ((((0 -- ((d12 ** n21) ++ (n12 ** d21))) -- ((d13 ** n31) ++ (n13 **
        d31))) -- ((d23 ** n32) ++ (n23 ** d32))) -- ((((d12 ** n23) ++ (n12 ** d23)) ** n31) ++
        ((n12 ** n23) ** d31))) -- ((((d13 ** n21) ++ (n13 ** d21)) ** n32) ++ ((n13 ** n21) **
        d32)))
  BY <1>1, TangentRules, 1 \in Int
<1>7. Same(((((0 -- ((d12 ** n21) ++ (n12 ** d21))) -- ((d13 ** n31) ++ (n13 ** d31))) -- ((d23
        ** n32) ++ (n23 ** d32))) -- ((((d12 ** n23) ++ (n12 ** d23)) ** n31) ++ ((n12 ** n23)
        ** d31))) -- ((((d13 ** n21) ++ (n13 ** d21)) ** n32) ++ ((n13 ** n21) ** d32)),
        Sub(Sub(Sub(Sub(Sub(0, Add(Mul(d12, n21), Mul(n12, d21))), Add(Mul(d13, n31), Mul(n13,
        d31))), Add(Mul(d23, n32), Mul(n23, d32))), Add(Mul(Add(Mul(d12, n23), Mul(n12, d23)),
        n31), Mul(Mul(n12, n23), d31))), Add(Mul(Add(Mul(d13, n21), Mul(n13, d21)), n32),
        Mul(Mul(n13, n21), d32))))
  BY <1>5, <1>1, SameRules, 0 \in Int, 1 \in Int, 2 \in Int
<1>8. Same(0 -- ((((((d12 ** n21) ++ (n12 ** d21)) ++ ((d13 ** n31) ++ (n13 ** d31))) ++ ((d23
        ** n32) ++ (n23 ** d32))) ++ ((((d12 ** n23) ** n31) ++ ((n12 ** d23) ** n31)) ++ ((n12
        ** n23) ** d31))) ++ ((((d13 ** n21) ** n32) ++ ((n13 ** d21) ** n32)) ++ ((n13 ** n21)
        ** d32))), Sub(0, Add(Add(Add(Add(Add(Mul(d12, n21), Mul(n12, d21)), Add(Mul(d13, n31),
        Mul(n13, d31))), Add(Mul(d23, n32), Mul(n23, d32))), Add(Add(Mul(Mul(d12, n23), n31),
        Mul(Mul(n12, d23), n31)), Mul(Mul(n12, n23), d31))), Add(Add(Mul(Mul(d13, n21), n32),
        Mul(Mul(n13, d21), n32)), Mul(Mul(n13, n21), d32)))))
  BY <1>5, <1>1, SameRules, 0 \in Int, 1 \in Int, 2 \in Int
<1>9. Sub(Sub(Sub(Sub(Sub(0, Add(Mul(d12, n21), Mul(n12, d21))), Add(Mul(d13, n31), Mul(n13,
        d31))), Add(Mul(d23, n32), Mul(n23, d32))), Add(Mul(Add(Mul(d12, n23), Mul(n12, d23)),
        n31), Mul(Mul(n12, n23), d31))), Add(Mul(Add(Mul(d13, n21), Mul(n13, d21)), n32),
        Mul(Mul(n13, n21), d32))) = Sub(0, Add(Add(Add(Add(Add(Mul(d12, n21), Mul(n12, d21)),
        Add(Mul(d13, n31), Mul(n13, d31))), Add(Mul(d23, n32), Mul(n23, d32))),
        Add(Add(Mul(Mul(d12, n23), n31), Mul(Mul(n12, d23), n31)), Mul(Mul(n12, n23), d31))),
        Add(Add(Mul(Mul(d13, n21), n32), Mul(Mul(n13, d21), n32)), Mul(Mul(n13, n21), d32))))
  BY <1>5 DEF Add, Sub, Mul
<1>10. Same(((((0 -- ((d12 ** n21) ++ (n12 ** d21))) -- ((d13 ** n31) ++ (n13 ** d31))) -- ((d23
        ** n32) ++ (n23 ** d32))) -- ((((d12 ** n23) ++ (n12 ** d23)) ** n31) ++ ((n12 ** n23)
        ** d31))) -- ((((d13 ** n21) ++ (n13 ** d21)) ** n32) ++ ((n13 ** n21) ** d32)), 0 --
        ((((((d12 ** n21) ++ (n12 ** d21)) ++ ((d13 ** n31) ++ (n13 ** d31))) ++ ((d23 ** n32)
        ++ (n23 ** d32))) ++ ((((d12 ** n23) ** n31) ++ ((n12 ** d23) ** n31)) ++ ((n12 ** n23)
        ** d31))) ++ ((((d13 ** n21) ** n32) ++ ((n13 ** d21) ** n32)) ++ ((n13 ** n21) **
        d32))))
  BY <1>7, <1>8, <1>9, SameRules
<1> QED
  BY <1>2, <1>3, <1>4, <1>6, <1>10, TangentOf

\* The factors of OrthotropicStiffness3D, without the determinant.
LEMMA Orthotropic3DBlockMoves ==
  ASSUME NEW c, NEW c2, NEW d, Near(c, c2, d), Regular(c)
  PROVE  Moves(Orthotropic3DBlock(c), Orthotropic3DBlock(c2), DOrthotropic3DBlock(c, d))
<1>1. ASSUME NEW s, NEW s2, NEW ds, NEW E, NEW E2, NEW dE, Tangent(s, s2, ds), Tangent(E, E2, dE),
             NEW i \in Nat, NEW j \in Nat
      PROVE  Moves(Single(i, j, s ** E), Single(i, j, s2 ** E2),
                   Single(i, j, DScaled(s, ds, E, dE)))
  BY <1>1, TangentRules, SingleMoves DEF DScaled
<1>2. ASSUME NEW a, NEW a2, NEW da, NEW b, NEW b2, NEW db, Tangent(a, a2, da), Tangent(b, b2, db)
      PROVE  Tangent(a ** b, a2 ** b2, DProduct(a, b, da, db))
  BY <1>2, TangentRules DEF DProduct
<1>3. /\ Tangent(c.E11, c2.E11, d.E11) /\ Tangent(c.E22, c2.E22, d.E22)
      /\ Tangent(c.E33, c2.E33, d.E33) /\ Tangent(c.nu12, c2.nu12, d.nu12)
      /\ Tangent(c.nu13, c2.nu13, d.nu13) /\ Tangent(c.nu23, c2.nu23, d.nu23)
      /\ Tangent(Nu21(c), Nu21(c2), DNu21(c, d)) /\ Tangent(Nu31(c), Nu31(c2), DNu31(c, d))
      /\ Tangent(Nu32(c), Nu32(c2), DNu32(c, d))
  BY OrthotropicNear
<1>4. 0 \in Nat /\ 1 \in Nat /\ 2 \in Nat /\ 1 \in Int
  OBVIOUS
<1> DEFINE n21 == Nu21(c)
           n31 == Nu31(c)
           n32 == Nu32(c)
           d21 == DNu21(c, d)
           d31 == DNu31(c, d)
           d32 == DNu32(c, d)
<1> DEFINE m1 == Single(0, 0, (1 -- c.nu23 ** n32) ** c.E11)
           p1 == Single(0, 0, (1 -- c2.nu23 ** Nu32(c2)) ** c2.E11)
           q1 == Single(0, 0, DScaled(1 -- c.nu23 ** n32, 0 -- DProduct(c.nu23, n32, d.nu23,
                d32), c.E11, d.E11))
           m2 == Single(0, 1, (n21 ++ (c.nu23 ** n31)) ** c.E11)
           p2 == Single(0, 1, (Nu21(c2) ++ (c2.nu23 ** Nu31(c2))) ** c2.E11)
           q2 == Single(0, 1, DScaled(n21 ++ (c.nu23 ** n31), d21 ++ DProduct(c.nu23, n31,
                d.nu23, d31), c.E11, d.E11))
           m3 == Single(0, 2, (n31 ++ (n21 ** n32)) ** c.E11)
           p3 == Single(0, 2, (Nu31(c2) ++ (Nu21(c2) ** Nu32(c2))) ** c2.E11)
           q3 == Single(0, 2, DScaled(n31 ++ (n21 ** n32), d31 ++ DProduct(n21, n32, d21, d32),
                c.E11, d.E11))
           m4 == Single(1, 0, (c.nu12 ++ (c.nu13 ** n32)) ** c.E22)
           p4 == Single(1, 0, (c2.nu12 ++ (c2.nu13 ** Nu32(c2))) ** c2.E22)
           q4 == Single(1, 0, DScaled(c.nu12 ++ (c.nu13 ** n32), d.nu12 ++ DProduct(c.nu13, n32,
                d.nu13, d32), c.E22, d.E22))
           m5 == Single(1, 1, (1 -- c.nu13 ** n31) ** c.E22)
           p5 == Single(1, 1, (1 -- c2.nu13 ** Nu31(c2)) ** c2.E22)
           q5 == Single(1, 1, DScaled(1 -- c.nu13 ** n31, 0 -- DProduct(c.nu13, n31, d.nu13,
                d31), c.E22, d.E22))
           m6 == Single(1, 2, (n32 ++ (c.nu12 ** n31)) ** c.E22)
           p6 == Single(1, 2, (Nu32(c2) ++ (c2.nu12 ** Nu31(c2))) ** c2.E22)
           q6 == Single(1, 2, DScaled(n32 ++ (c.nu12 ** n31), d32 ++ DProduct(c.nu12, n31,
                d.nu12, d31), c.E22, d.E22))
           m7 == Single(2, 0, (c.nu13 ++ (c.nu12 ** c.nu23)) ** c.E33)
           p7 == Single(2, 0, (c2.nu13 ++ (c2.nu12 ** c2.nu23)) ** c2.E33)
           q7 == Single(2, 0, DScaled(c.nu13 ++ (c.nu12 ** c.nu23), d.nu13 ++ DProduct(c.nu12,
                c.nu23, d.nu12, d.nu23), c.E33, d.E33))
           m8 == Single(2, 1, (c.nu23 ++ (c.nu13 ** n21)) ** c.E33)
           p8 == Single(2, 1, (c2.nu23 ++ (c2.nu13 ** Nu21(c2))) ** c2.E33)
           q8 == Single(2, 1, DScaled(c.nu23 ++ (c.nu13 ** n21), d.nu23 ++ DProduct(c.nu13, n21,
                d.nu13, d21), c.E33, d.E33))
           m9 == Single(2, 2, (1 -- c.nu12 ** n21) ** c.E33)
           p9 == Single(2, 2, (1 -- c2.nu12 ** Nu21(c2)) ** c2.E33)
           q9 == Single(2, 2, DScaled(1 -- c.nu12 ** n21, 0 -- DProduct(c.nu12, n21, d.nu12,
                d21), c.E33, d.E33))
<1>5. Moves(m1, p1, q1)
  BY <1>1, <1>2, <1>3, <1>4, TangentRules
<1>6. Moves(m2, p2, q2)
  BY <1>1, <1>2, <1>3, <1>4, TangentRules
<1>7. Moves(m3, p3, q3)
  BY <1>1, <1>2, <1>3, <1>4, TangentRules
<1>8. Moves(m4, p4, q4)
  BY <1>1, <1>2, <1>3, <1>4, TangentRules
<1>9. Moves(m5, p5, q5)
  BY <1>1, <1>2, <1>3, <1>4, TangentRules
<1>10. Moves(m6, p6, q6)
  BY <1>1, <1>2, <1>3, <1>4, TangentRules
<1>11. Moves(m7, p7, q7)
  BY <1>1, <1>2, <1>3, <1>4, TangentRules
<1>12. Moves(m8, p8, q8)
  BY <1>1, <1>2, <1>3, <1>4, TangentRules
<1>13. Moves(m9, p9, q9)
  BY <1>1, <1>2, <1>3, <1>4, TangentRules
<1>14. Orthotropic3DBlock(c) =
         m1 \uplus m2 \uplus m3 \uplus m4 \uplus m5 \uplus m6 \uplus m7 \uplus m8 \uplus m9
  BY DEF Orthotropic3DBlock
<1>15. Orthotropic3DBlock(c2) =
         p1 \uplus p2 \uplus p3 \uplus p4 \uplus p5 \uplus p6 \uplus p7 \uplus p8 \uplus p9
  BY DEF Orthotropic3DBlock
<1>16. DOrthotropic3DBlock(c, d) =
         q1 \uplus q2 \uplus q3 \uplus q4 \uplus q5 \uplus q6 \uplus q7 \uplus q8 \uplus q9
  BY DEF DOrthotropic3DBlock
<1> HIDE DEF m1, m2, m3, m4, m5, m6, m7, m8, m9, p1, p2, p3, p4, p5, p6, p7, p8, p9,
             q1, q2, q3, q4, q5, q6, q7, q8, q9
<1>17. Moves(m1 \uplus m2 \uplus m3, p1 \uplus p2 \uplus p3, q1 \uplus q2 \uplus q3)
  BY <1>5, <1>6, <1>7, JoinMoves
<1>18. Moves(m1 \uplus m2 \uplus m3 \uplus m4 \uplus m5 \uplus m6,
          p1 \uplus p2 \uplus p3 \uplus p4 \uplus p5 \uplus p6,
          q1 \uplus q2 \uplus q3 \uplus q4 \uplus q5 \uplus q6)
  BY <1>17, <1>8, <1>9, <1>10, JoinMoves
<1>19. Moves(m1 \uplus m2 \uplus m3 \uplus m4 \uplus m5 \uplus m6 \uplus m7 \uplus m8 \uplus m9,
          p1 \uplus p2 \uplus p3 \uplus p4 \uplus p5 \uplus p6 \uplus p7 \uplus p8 \uplus p9,
          q1 \uplus q2 \uplus q3 \uplus q4 \uplus q5 \uplus q6 \uplus q7 \uplus q8 \uplus q9)
  BY <1>18, <1>11, <1>12, <1>13, JoinMoves
<1> QED
  BY <1>14, <1>15, <1>16, <1>19

\* OrthotropicStiffness3D.
LEMMA Orthotropic3DMoves ==
  ASSUME NEW c, NEW c2, NEW d, Near(c, c2, d), Regular(c)
  PROVE  Moves(OrthotropicStiffness3D(c), OrthotropicStiffness3D(c2),
               DOrthotropicStiffness3D(c, d))
<1>1. Moves(Orthotropic3DBlock(c), Orthotropic3DBlock(c2), DOrthotropic3DBlock(c, d))
  BY Orthotropic3DBlockMoves
<1>2. Tangent(Reciprocal(OrthotropicDet(c)), Reciprocal(OrthotropicDet(c2)),
              (0 -- DOrthotropicDet(c, d)) // Square(OrthotropicDet(c)))
  <2>1. OrthotropicDet(c) % Prime # 0
    BY DEF Regular
  <2> QED
    BY <2>1, DetTangent, InverseTangent
<1>3. Moves(ShearBlock(c), ShearBlock(c2), ShearBlock(d))
  <2>1. /\ Moves(Single(3, 3, c.G12), Single(3, 3, c2.G12), Single(3, 3, d.G12))
        /\ Moves(Single(4, 4, c.G23), Single(4, 4, c2.G23), Single(4, 4, d.G23))
        /\ Moves(Single(5, 5, c.G13), Single(5, 5, c2.G13), Single(5, 5, d.G13))
    BY OrthotropicNear, SingleMoves
  <2> QED
    BY <2>1, JoinMoves DEF ShearBlock
<1> QED
  BY <1>1, <1>2, <1>3, ScaleMoves, JoinMoves
  DEF OrthotropicStiffness3D, DOrthotropicStiffness3D
-----------------------------------------------------------------------------
(* The orientation of a solid.                                               *)

\* A product of a sum of rows is the sum of the products, modulo Prime.
LEMMA SixSum ==
  ASSUME NEW p \in [0 .. 5 -> Int], NEW q \in [0 .. 5 -> Int], NEW e \in [0 .. 5 -> Int],
         NEW s \in [0 .. 5 -> Int], \A k \in 0 .. 5 : s[k] = p[k] ++ q[k]
  PROVE  Same((s[0] * e[0] + s[1] * e[1] + s[2] * e[2] + s[3] * e[3] + s[4] * e[4]
                 + s[5] * e[5]) % Modulus,
              ((p[0] * e[0] + p[1] * e[1] + p[2] * e[2] + p[3] * e[3] + p[4] * e[4]
                  + p[5] * e[5]) % Modulus)
              ++ ((q[0] * e[0] + q[1] * e[1] + q[2] * e[2] + q[3] * e[3] + q[4] * e[4]
                  + q[5] * e[5]) % Modulus))
<1> DEFINE S == s[0] * e[0] + s[1] * e[1] + s[2] * e[2] + s[3] * e[3] + s[4] * e[4] + s[5] * e[5]
           P == p[0] * e[0] + p[1] * e[1] + p[2] * e[2] + p[3] * e[3] + p[4] * e[4] + p[5] * e[5]
           Q == q[0] * e[0] + q[1] * e[1] + q[2] * e[2] + q[3] * e[3] + q[4] * e[4] + q[5] * e[5]
<1>1. /\ S \in Int /\ P \in Int /\ Q \in Int
  <2>1. \A k \in 0 .. 5 : s[k] * e[k] \in Int /\ p[k] * e[k] \in Int /\ q[k] * e[k] \in Int
    OBVIOUS
  <2> QED
    BY <2>1
<1>2. Same(S, Add(P, Q))
  <2>1. \A k \in 0 .. 5 : Same(Mul(s[k], e[k]), Mul(Add(p[k], q[k]), e[k]))
    <3> TAKE k \in 0 .. 5
    <3>1. s[k] \in Int /\ p[k] \in Int /\ q[k] \in Int /\ e[k] \in Int
      OBVIOUS
    <3>2. Same(s[k], Add(p[k], q[k])) /\ Same(e[k], e[k])
      BY <3>1, SameRules
    <3> QED
      BY <3>2, SameRules
  <2> DEFINE L(k) == Mul(s[k], e[k])
             R(k) == Mul(Add(p[k], q[k]), e[k])
  <2>2. \A k \in 0 .. 5 : Same(L(k), R(k))
    BY <2>1
  <2>3. S = Add(Add(Add(Add(Add(L(0), L(1)), L(2)), L(3)), L(4)), L(5))
    BY DEF Add, Mul
  <2>4. Add(P, Q) = Add(Add(Add(Add(Add(R(0), R(1)), R(2)), R(3)), R(4)), R(5))
    <3>1. \A a, b, t \in Int : (a + b) * t = a * t + b * t /\ a * t \in Int /\ b * t \in Int
      OBVIOUS
    <3>2. \A k \in 0 .. 5 : /\ R(k) = p[k] * e[k] + q[k] * e[k]
                            /\ p[k] * e[k] \in Int /\ q[k] * e[k] \in Int
      <4> TAKE k \in 0 .. 5
      <4>1. p[k] \in Int /\ q[k] \in Int /\ e[k] \in Int
        OBVIOUS
      <4>2. R(k) = (p[k] + q[k]) * e[k]
        BY DEF Add, Mul
      <4> QED
        BY <3>1, <4>1, <4>2, Zenon
    <3> HIDE DEF R
    <3> QED
      BY <3>2 DEF Add
  <2> HIDE DEF L, R, S, P, Q
  <2>5. Same(Add(Add(Add(Add(Add(L(0), L(1)), L(2)), L(3)), L(4)), L(5)),
             Add(Add(Add(Add(Add(R(0), R(1)), R(2)), R(3)), R(4)), R(5)))
    <3>1. /\ Same(L(0), R(0)) /\ Same(L(1), R(1)) /\ Same(L(2), R(2)) /\ Same(L(3), R(3))
          /\ Same(L(4), R(4)) /\ Same(L(5), R(5))
      BY <2>2
    <3> QED
      BY <3>1, SameRules
  <2> QED
    BY <2>3, <2>4, <2>5
<1> HIDE DEF S, P, Q
<1>3. \A r \in Int : Same(r % Modulus, r)
  BY PrimeFacts, ModFacts, TwoModuli DEF Same
<1>4. Same(S % Modulus, S) /\ Same(P % Modulus, P) /\ Same(Q % Modulus, Q)
  BY <1>1, <1>3
<1>5. Same((P % Modulus) ++ (Q % Modulus), Add(P, Q))
  BY <1>4, SameRules
<1>6. Same(S % Modulus, (P % Modulus) ++ (Q % Modulus))
  BY <1>2, <1>4, <1>5, SameRules
<1> QED
  BY <1>6 DEF S, P, Q

\* The entries of a product are integers, and a product of a sum as above.
LEMMA RowColumnInt ==
  ASSUME NEW m, NEW n, \A r : At(m, r) \in Int /\ At(n, r) \in Int
  PROVE  \A i, j : RowColumn(m, n, i, j) \in Int
<1> SUFFICES ASSUME NEW i, NEW j PROVE RowColumn(m, n, i, j) \in Int
  OBVIOUS
<1>1. \A k : At(m, <<i, k>>) * At(n, <<k, j>>) \in Int
  OBVIOUS
<1> DEFINE T(k) == At(m, <<i, k>>) * At(n, <<k, j>>)
           S == T(0) + T(1) + T(2) + T(3) + T(4) + T(5)
<1>2. \A k : T(k) \in Int
  BY <1>1
<1>3. RowColumn(m, n, i, j) = S % Modulus
  BY DEF RowColumn
<1> HIDE DEF T
<1>4. S \in Int
  BY <1>2
<1> HIDE DEF S
<1> QED
  BY <1>3, <1>4, PrimeFacts

\* Two matrices of one shape, added.
LEMMA PlusShape ==
  ASSUME NEW m, NEW n, DOMAIN m = DOMAIN n
  PROVE  /\ DOMAIN Plus(m, n) = DOMAIN m
         /\ \A r \in DOMAIN m : Plus(m, n)[r] = m[r] ++ n[r]
<1>1. DOMAIN m \cup DOMAIN n = DOMAIN m
  OBVIOUS
<1> QED
  BY <1>1, PlusFacts DEF At

\* A product with a sum of two matrices of one shape.
LEMMA RowColumnSum ==
  ASSUME NEW p, NEW q, NEW e, DOMAIN q = DOMAIN p, \A r : At(e, r) \in Int,
         \A r \in DOMAIN p : p[r] \in Int /\ q[r] \in Int
  PROVE  \A i, j : Same(RowColumn(Plus(p, q), e, i, j),
                        RowColumn(p, e, i, j) ++ RowColumn(q, e, i, j))
<1> SUFFICES ASSUME NEW i, NEW j
             PROVE  Same(RowColumn(Plus(p, q), e, i, j),
                         RowColumn(p, e, i, j) ++ RowColumn(q, e, i, j))
  OBVIOUS
<1> DEFINE a == [k \in 0 .. 5 |-> At(p, <<i, k>>)]
           b == [k \in 0 .. 5 |-> At(q, <<i, k>>)]
           s == [k \in 0 .. 5 |-> At(Plus(p, q), <<i, k>>)]
           f == [k \in 0 .. 5 |-> At(e, <<k, j>>)]
           SixOf(g, h) == (g[0] * h[0] + g[1] * h[1] + g[2] * h[2] + g[3] * h[3] + g[4] * h[4]
                           + g[5] * h[5]) % Modulus
<1>1. \A r : /\ At(p, r) \in Int /\ At(q, r) \in Int
             /\ At(Plus(p, q), r) = At(p, r) ++ At(q, r)
  <2>1. \A r : At(p, r) \in Int /\ At(q, r) \in Int
    BY DEF At
  <2> QED
    BY <2>1, PlusFacts
<1>2. /\ a \in [0 .. 5 -> Int] /\ b \in [0 .. 5 -> Int] /\ f \in [0 .. 5 -> Int]
      /\ s \in [0 .. 5 -> Int] /\ \A k \in 0 .. 5 : s[k] = a[k] ++ b[k]
  <2>1. \A x, y \in Int : x ++ y \in Int
    BY ResidueFacts
  <2> QED
    BY <1>1, <2>1
<1>3. Same(SixOf(s, f), SixOf(a, f) ++ SixOf(b, f))
  <2> HIDE DEF a, b, s, f
  <2> QED
    BY <1>2, SixSum
<1>4. /\ SixOf(s, f) = RowColumn(Plus(p, q), e, i, j) /\ SixOf(a, f) = RowColumn(p, e, i, j)
      /\ SixOf(b, f) = RowColumn(q, e, i, j)
  BY DEF RowColumn
<1> HIDE DEF SixOf, a, b, s, f
<1> QED
  BY <1>3, <1>4

\* The change of a product of three matrices, as the code writes it.
LEMMA TripleMoves ==
  ASSUME NEW a, NEW a2, NEW da, NEW b, NEW b2, NEW db, NEW e, NEW e2, NEW de,
         Moves(a, a2, da), Moves(b, b2, db), Moves(e, e2, de)
  PROVE  Moves(Times(Times(a, b), e), Times(Times(a2, b2), e2),
               Plus(Plus(Times(Times(da, b), e), Times(Times(a, db), e)),
                    Times(Times(a, b), de)))
<1> DEFINE p == Times(da, b)
           q == Times(a, db)
           t == Times(a, b)
           s == Plus(p, q)
           u == Times(t, de)
           D == Places(t, e)
<1>1. Moves(t, Times(a2, b2), s)
  BY TimesMoves
<1>2. /\ DOMAIN t \subseteq Nat \X Nat /\ DOMAIN p = DOMAIN t /\ DOMAIN q = DOMAIN t
      /\ \A r \in DOMAIN t : p[r] \in Int /\ q[r] \in Int /\ s[r] \in Int
      /\ DOMAIN s = DOMAIN t /\ DOMAIN e = DOMAIN de
  <2>1. /\ DOMAIN da = DOMAIN a /\ DOMAIN db = DOMAIN b /\ DOMAIN s = DOMAIN t
        /\ DOMAIN t \subseteq Nat \X Nat /\ DOMAIN de = DOMAIN e
        /\ \A r \in DOMAIN t : s[r] \in Int
    BY <1>1 DEF Moves, Tangent
  <2>2. Places(da, b) = Places(a, b) /\ Places(a, db) = Places(a, b)
    BY <2>1 DEF Places
  <2>3. /\ DOMAIN p = DOMAIN t /\ DOMAIN q = DOMAIN t
        /\ \A r \in DOMAIN t : /\ p[r] = RowColumn(da, b, r[1], r[2])
                               /\ q[r] = RowColumn(a, db, r[1], r[2])
    BY <2>2, TimesFacts
  <2>4. \A i, j : RowColumn(da, b, i, j) \in Int /\ RowColumn(a, db, i, j) \in Int
    BY RowColumnInt, MovesAt
  <2> QED
    BY <2>1, <2>3, <2>4
<1> HIDE DEF p, q, s, t
<1>3. Moves(Times(t, e), Times(Times(a2, b2), e2), Plus(Times(s, e), u))
  BY <1>1, TimesMoves
<1>4. /\ DOMAIN Times(t, e) = D /\ DOMAIN Times(s, e) = D /\ DOMAIN Times(p, e) = D
      /\ DOMAIN Times(q, e) = D /\ DOMAIN u = D
      /\ \A r \in D : /\ Times(s, e)[r] = RowColumn(s, e, r[1], r[2])
                      /\ Times(p, e)[r] = RowColumn(p, e, r[1], r[2])
                      /\ Times(q, e)[r] = RowColumn(q, e, r[1], r[2])
                      /\ u[r] = RowColumn(t, de, r[1], r[2])
  <2>1. \A m, n : /\ DOMAIN Times(m, n) = Places(m, n)
                  /\ \A r \in Places(m, n) : Times(m, n)[r] = RowColumn(m, n, r[1], r[2])
    BY TimesFacts
  <2>2. Places(s, e) = D /\ Places(p, e) = D /\ Places(q, e) = D /\ Places(t, de) = D
    BY <1>2 DEF Places
  <2> QED
    BY <2>1, <2>2, Zenon
<1>5. \A r \in D : Same(Times(s, e)[r], Times(p, e)[r] ++ Times(q, e)[r])
  BY <1>2, <1>4, RowColumnSum, s = Plus(p, q), MovesAt DEF s
<1> DEFINE f == Times(s, e)
           g == Times(p, e)
           h == Times(q, e)
<1>6. \A r \in D : u[r] \in Int
  <2>1. \A r : At(t, r) \in Int /\ At(de, r) \in Int
    BY <1>1, MovesAt
  <2> QED
    BY <2>1, <1>4, RowColumnInt
<1>7. /\ DOMAIN f = D /\ DOMAIN g = D /\ DOMAIN h = D
      /\ \A r \in D : Same(f[r], g[r] ++ h[r])
  BY <1>4, <1>5
<1> HIDE DEF f, g, h, u, D
<1>8. /\ DOMAIN Plus(f, u) = D /\ DOMAIN Plus(Plus(g, h), u) = D
      /\ \A r \in D : /\ Plus(f, u)[r] = f[r] ++ u[r]
                      /\ Plus(Plus(g, h), u)[r] = (g[r] ++ h[r]) ++ u[r]
  BY <1>4, <1>7, PlusShape
<1>9. \A r \in D : Same(Plus(f, u)[r], Plus(Plus(g, h), u)[r])
  <2> TAKE r \in D
  <2>1. Same(f[r], g[r] ++ h[r]) /\ Same(u[r], u[r])
    BY <1>6, <1>7, SameRules
  <2>2. /\ Same(f[r] ++ u[r], Add(g[r] ++ h[r], u[r]))
        /\ Same((g[r] ++ h[r]) ++ u[r], Add(g[r] ++ h[r], u[r]))
    BY <2>1, SameRules
  <2> QED
    BY <2>2, <1>8, SameRules
<1>10. Moves(Times(t, e), Times(Times(a2, b2), e2), Plus(Plus(g, h), u))
  BY <1>3, <1>4, <1>8, <1>9, MovesSame DEF f
<1> QED
  BY <1>10 DEF g, h, u, t, p, q

\* A rotation by a rational angle.
LEMMA RotationMoves ==
  ASSUME NEW u, NEW u2, NEW x, Tangent(u, u2, x), (1 ++ (u ** u)) % Prime # 0,
         NEW i \in 0 .. 2, NEW j \in 0 .. 2, i + j <= 3
  PROVE  \E dm : Moves(Rotation(u, i, j), Rotation(u2, i, j), dm)
<1> DEFINE r(v) == 1 ++ (v ** v)
           R(v) == Reciprocal(r(v))
           cosine(v) == (1 -- (v ** v)) ** R(v)
           sine(v) == (2 ** v) ** R(v)
           other == 3 - (i + j)
           du == (x ** u) ++ (u ** x)
           dR == 0 -- ((R(u) ** R(u)) ** (0 ++ du))
           y == ((0 -- du) ** R(u)) ++ ((1 -- (u ** u)) ** dR)
           z == (((0 ** u) ++ (2 ** x)) ** R(u)) ++ ((2 ** u) ** dR)
<1>1. Tangent(R(u), R(u2), dR)
  <2>1. Tangent(r(u), r(u2), 0 ++ du)
    BY TangentRules, 1 \in Int
  <2>2. r(u) % Prime # 0
    OBVIOUS
  <2> HIDE DEF r, du
  <2> QED
    BY <2>1, <2>2, ReciprocalTangent
<1> HIDE DEF R, dR
<1>2. Tangent(cosine(u), cosine(u2), y)
  BY <1>1, TangentRules, 1 \in Int
<1>3. Tangent(sine(u), sine(u2), z)
  BY <1>1, TangentRules, 2 \in Int
<1>4. Tangent(0 -- sine(u), 0 -- sine(u2), 0 -- z) /\ Tangent(1, 1, 0)
  BY <1>3, TangentRules, 0 \in Int, 1 \in Int
<1>5. \A v : Rotation(v, i, j)
               = Single(i, i, cosine(v)) \uplus Single(i, j, 0 -- sine(v)) \uplus
                 Single(j, i, sine(v)) \uplus Single(j, j, cosine(v)) \uplus Single(other, other, 1)
  BY DEF Rotation, //, R
<1>6. i \in Nat /\ j \in Nat /\ other \in Nat
  OBVIOUS
<1> HIDE DEF cosine, sine, other, y, z
<1>7. /\ Moves(Single(i, i, cosine(u)), Single(i, i, cosine(u2)), Single(i, i, y))
      /\ Moves(Single(i, j, 0 -- sine(u)), Single(i, j, 0 -- sine(u2)), Single(i, j, 0 -- z))
      /\ Moves(Single(j, i, sine(u)), Single(j, i, sine(u2)), Single(j, i, z))
      /\ Moves(Single(j, j, cosine(u)), Single(j, j, cosine(u2)), Single(j, j, y))
      /\ Moves(Single(other, other, 1), Single(other, other, 1), Single(other, other, 0))
  BY <1>2, <1>3, <1>4, <1>6, SingleMoves
<1>8. Moves(Rotation(u, i, j), Rotation(u2, i, j),
            Single(i, i, y) \uplus Single(i, j, 0 -- z) \uplus Single(j, i, z) \uplus
            Single(j, j, y) \uplus Single(other, other, 0))
  BY <1>5, <1>7, JoinMoves
<1> QED
  BY <1>8

\* The basis, and its derivative by a difference quotient.
LEMMA BasisMoves ==
  ASSUME NEW c, NEW c2, NEW d, Near(c, c2, d), Regular(c), "tilt" \in DOMAIN c,
         c2.tilt = c.tilt + (Prime * d.tilt)
  PROVE  Moves(Basis(c), Basis(c2), DBasis(c, d))
<1>1. Tangent(c.tilt, c2.tilt, d.tilt) /\ (1 ++ (c.tilt ** c.tilt)) % Prime # 0
  BY DEF Near, CardNames, MaterialParameters, Regular
<1>2. PICK x : Moves(Rotation(c.tilt, 0, 1), Rotation(c2.tilt, 0, 1), x)
  BY <1>1, RotationMoves
<1>3. PICK y : Moves(Rotation(c.tilt, 1, 2), Rotation(c2.tilt, 1, 2), y)
  BY <1>1, RotationMoves
<1>4. \E dm : Moves(Basis(c), Basis(c2), dm)
  BY <1>2, <1>3, TimesMoves DEF Basis
<1>5. Moves(Basis(c), Basis(c2), ByStep(Basis(c), Basis(c2)))
  BY <1>4, StepMoves
<1> DEFINE At0 == [p \in DOMAIN c |-> c[p] + (0 * d[p])]
           At1 == [p \in DOMAIN c |-> c[p] + (Prime * d[p])]
<1>6. DBasis(c, d) = ByStep(Basis(At0), Basis(At1))
  <2>1. 0 \in {0, Prime} /\ Prime \in {0, Prime}
    OBVIOUS
  <2> QED
    BY <2>1 DEF DBasis, Quotient, BySteps
<1>7. At0.tilt = c.tilt /\ At1.tilt = c2.tilt
  <2>1. c.tilt \in Int /\ d.tilt \in Int
    BY <1>1 DEF Tangent
  <2> QED
    BY <2>1
<1> HIDE DEF At0, At1
<1>8. Basis(At0) = Basis(c) /\ Basis(At1) = Basis(c2)
  BY <1>7 DEF Basis
<1> QED
  BY <1>5, <1>6, <1>8

\* The transformation of stresses with a basis.
LEMMA TransformationMoves ==
  ASSUME NEW T, NEW T2, NEW dT, Moves(T, T2, dT)
  PROVE  Moves(StressTransformation(T), StressTransformation(T2), DStressTransformation(T, dT))
<1> DEFINE D == (0 .. 5) \X (0 .. 5)
           to(p) == Ids[p[1] + 1]
           from(p) == Ids[p[2] + 1]
           direct(m, p) == At(m, <<from(p)[1], to(p)[1]>>) ** At(m, <<from(p)[2], to(p)[2]>>)
           crossed(m, p) == At(m, <<from(p)[1], to(p)[2]>>) ** At(m, <<from(p)[2], to(p)[1]>>)
           DTerm(p, a, b) == (At(dT, <<from(p)[1], a>>) ** At(T, <<from(p)[2], b>>)) ++
                             (At(T, <<from(p)[1], a>>) ** At(dT, <<from(p)[2], b>>))
           V(m, p) == IF p[2] < 3 THEN direct(m, p) ELSE direct(m, p) ++ crossed(m, p)
           W(p) == IF p[2] < 3 THEN DTerm(p, to(p)[1], to(p)[2])
                   ELSE DTerm(p, to(p)[1], to(p)[2]) ++ DTerm(p, to(p)[2], to(p)[1])
<1>1. /\ StressTransformation(T) = [p \in D |-> V(T, p)]
      /\ StressTransformation(T2) = [p \in D |-> V(T2, p)]
      /\ DStressTransformation(T, dT) = [p \in D |-> W(p)]
  BY DEF StressTransformation, DStressTransformation
<1>2. ASSUME NEW p \in D PROVE Tangent(V(T, p), V(T2, p), W(p))
  <2> HIDE DEF from, to
  <2>1. /\ Tangent(direct(T, p), direct(T2, p), DTerm(p, to(p)[1], to(p)[2]))
        /\ Tangent(crossed(T, p), crossed(T2, p), DTerm(p, to(p)[2], to(p)[1]))
    BY MovesAt, TangentRules
  <2> HIDE DEF direct, crossed, DTerm
  <2> QED
    BY <2>1, TangentRules
<1>3. D \subseteq Nat \X Nat
  OBVIOUS
<1> HIDE DEF V, W, D
<1> QED
  BY <1>1, <1>2, <1>3 DEF Moves

\* The matrices of an oriented solid.
LEMMA OrientedMoves ==
  ASSUME NEW c, NEW c2, NEW d, Near(c, c2, d), Regular(c), "tilt" \in DOMAIN c,
         c2.tilt = c.tilt + (Prime * d.tilt)
  PROVE  /\ Moves(OrientedStiffness(c), OrientedStiffness(c2), DOrientedStiffness(c, d))
         /\ Moves(OrientedExpansion(c), OrientedExpansion(c2), DOrientedExpansion(c, d))
         /\ Moves(OrientedConductance(c), OrientedConductance(c2), DOrientedConductance(c, d))
<1>1. Moves(Basis(c), Basis(c2), DBasis(c, d))
  BY BasisMoves
<1>2. Moves(Transpose(Basis(c)), Transpose(Basis(c2)), Transpose(DBasis(c, d)))
  BY <1>1, TransposeMoves
<1>3. Moves(Tinv(c), Tinv(c2), DTinv(c, d))
  BY <1>2, TransformationMoves DEF Tinv, DTinv
<1>4. Moves(Transpose(Tinv(c)), Transpose(Tinv(c2)), Transpose(DTinv(c, d)))
  BY <1>3, TransposeMoves
<1>5. Moves(OrthotropicStiffness3D(c), OrthotropicStiffness3D(c2), DOrthotropicStiffness3D(c, d))
  BY Orthotropic3DMoves
<1>6. Moves(ThermalExpansionMatrix(3, c), ThermalExpansionMatrix(3, c2),
            DThermalExpansionMatrix(3, c, d))
  BY PlainMoves
<1>7. Moves(AxisConductance(c.k), AxisConductance(c2.k), AxisConductance(d.k))
  <2> DEFINE D == {<<i, i>> : i \in 0 .. 2}
  <2>1. D \subseteq Nat \X Nat /\ \A p \in D : p[1] + 1 \in Int
    OBVIOUS
  <2>2. Tangent(c.k, c2.k, d.k)
    BY IsotropicNear
  <2>3. ASSUME NEW n \in Int PROVE Tangent(n ** c.k, n ** c2.k, n ** d.k)
    <3>1. Tangent(n ** c.k, n ** c2.k, (0 ** c.k) ++ (n ** d.k))
      BY <2>2, TangentRules
    <3>2. c.k \in Int /\ d.k \in Int
      BY <2>2 DEF Tangent
    <3>3. /\ Same((0 ** c.k) ++ (n ** d.k), Add(Mul(0, c.k), Mul(n, d.k)))
          /\ Same(n ** d.k, Mul(n, d.k))
      BY <3>2, SameRules, 0 \in Int
    <3>4. Add(Mul(0, c.k), Mul(n, d.k)) = Mul(n, d.k)
      <4> DEFINE x == c.k
                 y == n * d.k
      <4>1. x \in Int /\ y \in Int
        BY <3>2
      <4>2. Add(Mul(0, c.k), Mul(n, d.k)) = 0 * x + y /\ Mul(n, d.k) = y
        BY DEF Add, Mul
      <4> HIDE DEF x, y
      <4> QED
        BY <4>1, <4>2
    <3> QED
      BY <3>1, <3>3, <3>4, SameRules, TangentOf
  <2>4. \A k : AxisConductance(k) = [p \in D |-> (p[1] + 1) ** k]
    BY DEF AxisConductance
  <2> HIDE DEF D
  <2> QED
    BY <2>1, <2>3, <2>4 DEF Moves
<1>8. Moves(OrientedStiffness(c), OrientedStiffness(c2), DOrientedStiffness(c, d))
  BY <1>3, <1>4, <1>5, TripleMoves DEF OrientedStiffness, DOrientedStiffness, Oriented
<1>9. Moves(OrientedExpansion(c), OrientedExpansion(c2), DOrientedExpansion(c, d))
  BY <1>3, <1>5, <1>6, TripleMoves DEF OrientedExpansion, DOrientedExpansion
<1>10. Moves(OrientedConductance(c), OrientedConductance(c2), DOrientedConductance(c, d))
  BY <1>1, <1>2, <1>7, TripleMoves DEF OrientedConductance, DOrientedConductance
<1> QED
  BY <1>8, <1>9, <1>10
-----------------------------------------------------------------------------
(* The formulas of the beam section.                                         *)

\* The numbers of the formulas.
LEMMA SectionNumbers ==
  /\ Twelfth \in Int /\ Reciprocal(3) \in Int /\ Reciprocal(4) \in Int /\ Roundness \in Int
  /\ Tiny \in Int /\ Same(Reciprocal(4), Mul(3, Twelfth))
<1>1. Reciprocal(3) \in Int /\ Reciprocal(4) \in Int
  BY SmallInverses, InversesFacts
<1> QED
  BY <1>1, TwelfthFacts, HundredFacts, Zenon

\* The polar inertia.
LEMMA PolarTangent ==
  ASSUME NEW hy, NEW hy2, NEW dhy, NEW hz, NEW hz2, NEW dhz, NEW oy, NEW oy2, NEW doy, NEW oz,
         NEW oz2, NEW doz, Tangent(hy, hy2, dhy), Tangent(hz, hz2, dhz), Tangent(oy, oy2,
         doy), Tangent(oz, oz2, doz)
  PROVE  Tangent((hy ** hz) ** ((((hy ** hy) ++ (hz ** hz)) ** Twelfth) ++ ((oy ** oy) ++ (oz
                 ** oz))), (hy2 ** hz2) ** ((((hy2 ** hy2) ++ (hz2 ** hz2)) ** Twelfth) ++
                 ((oy2 ** oy2) ++ (oz2 ** oz2))), (((dhy ** hz) ++ (hy ** dhz)) ** ((((hy **
                 hy) ++ (hz ** hz)) ** Twelfth) ++ ((oy ** oy) ++ (oz ** oz)))) ++ (((2 ** hy)
                 ** hz) ** ((((hy ** dhy) ++ (hz ** dhz)) ** Twelfth) ++ ((oy ** doy) ++ (oz
                 ** doz)))))
<1>1. /\ hy \in Int /\ hz \in Int /\ oy \in Int /\ oz \in Int /\ dhy \in Int /\ dhz \in Int
      /\ doy \in Int /\ doz \in Int
  BY DEF Tangent
<1>2. /\ Twelfth \in Int
  BY SectionNumbers
<1>3. Tangent((hy ** hz) ** ((((hy ** hy) ++ (hz ** hz)) ** Twelfth) ++ ((oy ** oy) ++ (oz **
        oz))), (hy2 ** hz2) ** ((((hy2 ** hy2) ++ (hz2 ** hz2)) ** Twelfth) ++ ((oy2 ** oy2) ++
        (oz2 ** oz2))), (((dhy ** hz) ++ (hy ** dhz)) ** ((((hy ** hy) ++ (hz ** hz)) **
        Twelfth) ++ ((oy ** oy) ++ (oz ** oz)))) ++ ((hy ** hz) ** ((((((dhy ** hy) ++ (hy **
        dhy)) ++ ((dhz ** hz) ++ (hz ** dhz))) ** Twelfth) ++ (((hy ** hy) ++ (hz ** hz)) ** 0))
        ++ (((doy ** oy) ++ (oy ** doy)) ++ ((doz ** oz) ++ (oz ** doz))))))
  BY <1>2, TangentRules, 0 \in Int, 1 \in Int, 2 \in Int, 3 \in Int, 4 \in Int
<1>4. Same((((dhy ** hz) ++ (hy ** dhz)) ** ((((hy ** hy) ++ (hz ** hz)) ** Twelfth) ++ ((oy **
        oy) ++ (oz ** oz)))) ++ ((hy ** hz) ** ((((((dhy ** hy) ++ (hy ** dhy)) ++ ((dhz ** hz)
        ++ (hz ** dhz))) ** Twelfth) ++ (((hy ** hy) ++ (hz ** hz)) ** 0)) ++ (((doy ** oy) ++
        (oy ** doy)) ++ ((doz ** oz) ++ (oz ** doz))))), Add(Mul(Add(Mul(dhy, hz), Mul(hy,
        dhz)), Add(Mul(Add(Mul(hy, hy), Mul(hz, hz)), Twelfth), Add(Mul(oy, oy), Mul(oz, oz)))),
        Mul(Mul(hy, hz), Add(Add(Mul(Add(Add(Mul(dhy, hy), Mul(hy, dhy)), Add(Mul(dhz, hz),
        Mul(hz, dhz))), Twelfth), Mul(Add(Mul(hy, hy), Mul(hz, hz)), 0)), Add(Add(Mul(doy, oy),
        Mul(oy, doy)), Add(Mul(doz, oz), Mul(oz, doz)))))))
  BY <1>1, <1>2, SameRules, 0 \in Int, 1 \in Int, 2 \in Int, 3 \in Int, 4 \in Int, SMTT(90)
<1>5. Same((((dhy ** hz) ++ (hy ** dhz)) ** ((((hy ** hy) ++ (hz ** hz)) ** Twelfth) ++ ((oy **
        oy) ++ (oz ** oz)))) ++ (((2 ** hy) ** hz) ** ((((hy ** dhy) ++ (hz ** dhz)) ** Twelfth)
        ++ ((oy ** doy) ++ (oz ** doz)))), Add(Mul(Add(Mul(dhy, hz), Mul(hy, dhz)),
        Add(Mul(Add(Mul(hy, hy), Mul(hz, hz)), Twelfth), Add(Mul(oy, oy), Mul(oz, oz)))),
        Mul(Mul(Mul(2, hy), hz), Add(Mul(Add(Mul(hy, dhy), Mul(hz, dhz)), Twelfth), Add(Mul(oy,
        doy), Mul(oz, doz))))))
  BY <1>1, <1>2, SameRules, 0 \in Int, 1 \in Int, 2 \in Int, 3 \in Int, 4 \in Int
<1>6. Add(Mul(Add(Mul(dhy, hz), Mul(hy, dhz)), Add(Mul(Add(Mul(hy, hy), Mul(hz, hz)), Twelfth),
        Add(Mul(oy, oy), Mul(oz, oz)))), Mul(Mul(hy, hz), Add(Add(Mul(Add(Add(Mul(dhy, hy),
        Mul(hy, dhy)), Add(Mul(dhz, hz), Mul(hz, dhz))), Twelfth), Mul(Add(Mul(hy, hy), Mul(hz,
        hz)), 0)), Add(Add(Mul(doy, oy), Mul(oy, doy)), Add(Mul(doz, oz), Mul(oz, doz)))))) =
        Add(Mul(Add(Mul(dhy, hz), Mul(hy, dhz)), Add(Mul(Add(Mul(hy, hy), Mul(hz, hz)),
        Twelfth), Add(Mul(oy, oy), Mul(oz, oz)))), Mul(Mul(Mul(2, hy), hz), Add(Mul(Add(Mul(hy,
        dhy), Mul(hz, dhz)), Twelfth), Add(Mul(oy, doy), Mul(oz, doz)))))
  BY <1>1, <1>2 DEF Add, Sub, Mul
<1>7. Same((((dhy ** hz) ++ (hy ** dhz)) ** ((((hy ** hy) ++ (hz ** hz)) ** Twelfth) ++ ((oy **
        oy) ++ (oz ** oz)))) ++ ((hy ** hz) ** ((((((dhy ** hy) ++ (hy ** dhy)) ++ ((dhz ** hz)
        ++ (hz ** dhz))) ** Twelfth) ++ (((hy ** hy) ++ (hz ** hz)) ** 0)) ++ (((doy ** oy) ++
        (oy ** doy)) ++ ((doz ** oz) ++ (oz ** doz))))), (((dhy ** hz) ++ (hy ** dhz)) ** ((((hy
        ** hy) ++ (hz ** hz)) ** Twelfth) ++ ((oy ** oy) ++ (oz ** oz)))) ++ (((2 ** hy) ** hz)
        ** ((((hy ** dhy) ++ (hz ** dhz)) ** Twelfth) ++ ((oy ** doy) ++ (oz ** doz)))))
  BY <1>4, <1>5, <1>6, SameRules
<1> QED
  BY <1>3, <1>7, TangentOf

\* The first moments of the area.
LEMMA MomentTangent ==
  ASSUME NEW hy, NEW hy2, NEW dhy, NEW hz, NEW hz2, NEW dhz, NEW oz, NEW oz2, NEW doz,
         Tangent(hy, hy2, dhy), Tangent(hz, hz2, dhz), Tangent(oz, oz2, doz)
  PROVE  Tangent((hy ** hz) ** oz, (hy2 ** hz2) ** oz2, (((dhy ** hz) ** oz) ++ ((hy ** dhz)
                 ** oz)) ++ ((hy ** hz) ** doz))
<1>1. /\ hy \in Int /\ hz \in Int /\ oz \in Int /\ dhy \in Int /\ dhz \in Int /\ doz \in Int
  BY DEF Tangent
<1>3. Tangent((hy ** hz) ** oz, (hy2 ** hz2) ** oz2, (((dhy ** hz) ++ (hy ** dhz)) ** oz) ++
        ((hy ** hz) ** doz))
  BY TangentRules, 0 \in Int, 1 \in Int, 2 \in Int, 3 \in Int, 4 \in Int
<1>4. Same((((dhy ** hz) ++ (hy ** dhz)) ** oz) ++ ((hy ** hz) ** doz), Add(Mul(Add(Mul(dhy,
        hz), Mul(hy, dhz)), oz), Mul(Mul(hy, hz), doz)))
  BY <1>1, SameRules, 0 \in Int, 1 \in Int, 2 \in Int, 3 \in Int, 4 \in Int
<1>5. Same((((dhy ** hz) ** oz) ++ ((hy ** dhz) ** oz)) ++ ((hy ** hz) ** doz),
        Add(Add(Mul(Mul(dhy, hz), oz), Mul(Mul(hy, dhz), oz)), Mul(Mul(hy, hz), doz)))
  BY <1>1, SameRules, 0 \in Int, 1 \in Int, 2 \in Int, 3 \in Int, 4 \in Int
<1>6. Add(Mul(Add(Mul(dhy, hz), Mul(hy, dhz)), oz), Mul(Mul(hy, hz), doz)) =
        Add(Add(Mul(Mul(dhy, hz), oz), Mul(Mul(hy, dhz), oz)), Mul(Mul(hy, hz), doz))
  BY <1>1 DEF Add, Sub, Mul
<1>7. Same((((dhy ** hz) ++ (hy ** dhz)) ** oz) ++ ((hy ** hz) ** doz), (((dhy ** hz) ** oz) ++
        ((hy ** dhz) ** oz)) ++ ((hy ** hz) ** doz))
  BY <1>4, <1>5, <1>6, SameRules
<1> QED
  BY <1>3, <1>7, TangentOf

\* The product of inertia.
LEMMA CrossTangent ==
  ASSUME NEW hy, NEW hy2, NEW dhy, NEW hz, NEW hz2, NEW dhz, NEW oy, NEW oy2, NEW doy, NEW oz,
         NEW oz2, NEW doz, Tangent(hy, hy2, dhy), Tangent(hz, hz2, dhz), Tangent(oy, oy2,
         doy), Tangent(oz, oz2, doz)
  PROVE  Tangent(((hy ** hz) ** oy) ** oz, ((hy2 ** hz2) ** oy2) ** oz2, (((((dhy ** hz) ++
                 (hy ** dhz)) ** oy) ** oz) ++ (((hy ** hz) ** doy) ** oz)) ++ (((hy ** hz) **
                 oy) ** doz))
<1>1. /\ hy \in Int /\ hz \in Int /\ oy \in Int /\ oz \in Int /\ dhy \in Int /\ dhz \in Int
      /\ doy \in Int /\ doz \in Int
  BY DEF Tangent
<1>3. Tangent(((hy ** hz) ** oy) ** oz, ((hy2 ** hz2) ** oy2) ** oz2, (((((dhy ** hz) ++ (hy **
        dhz)) ** oy) ++ ((hy ** hz) ** doy)) ** oz) ++ (((hy ** hz) ** oy) ** doz))
  BY TangentRules, 0 \in Int, 1 \in Int, 2 \in Int, 3 \in Int, 4 \in Int
<1>4. Same((((((dhy ** hz) ++ (hy ** dhz)) ** oy) ++ ((hy ** hz) ** doy)) ** oz) ++ (((hy ** hz)
        ** oy) ** doz), Add(Mul(Add(Mul(Add(Mul(dhy, hz), Mul(hy, dhz)), oy), Mul(Mul(hy, hz),
        doy)), oz), Mul(Mul(Mul(hy, hz), oy), doz)))
  BY <1>1, SameRules, 0 \in Int, 1 \in Int, 2 \in Int, 3 \in Int, 4 \in Int
<1>5. Same((((((dhy ** hz) ++ (hy ** dhz)) ** oy) ** oz) ++ (((hy ** hz) ** doy) ** oz)) ++
        (((hy ** hz) ** oy) ** doz), Add(Add(Mul(Mul(Add(Mul(dhy, hz), Mul(hy, dhz)), oy), oz),
        Mul(Mul(Mul(hy, hz), doy), oz)), Mul(Mul(Mul(hy, hz), oy), doz)))
  BY <1>1, SameRules, 0 \in Int, 1 \in Int, 2 \in Int, 3 \in Int, 4 \in Int
<1>6. Add(Mul(Add(Mul(Add(Mul(dhy, hz), Mul(hy, dhz)), oy), Mul(Mul(hy, hz), doy)), oz),
        Mul(Mul(Mul(hy, hz), oy), doz)) = Add(Add(Mul(Mul(Add(Mul(dhy, hz), Mul(hy, dhz)), oy),
        oz), Mul(Mul(Mul(hy, hz), doy), oz)), Mul(Mul(Mul(hy, hz), oy), doz))
  BY <1>1 DEF Add, Sub, Mul
<1>7. Same((((((dhy ** hz) ++ (hy ** dhz)) ** oy) ++ ((hy ** hz) ** doy)) ** oz) ++ (((hy ** hz)
        ** oy) ** doz), (((((dhy ** hz) ++ (hy ** dhz)) ** oy) ** oz) ++ (((hy ** hz) ** doy) **
        oz)) ++ (((hy ** hz) ** oy) ** doz))
  BY <1>4, <1>5, <1>6, SameRules
<1> QED
  BY <1>3, <1>7, TangentOf

\* The second moment of the area about one axis, and about the other.
LEMMA SecondTangent ==
  ASSUME NEW a, NEW a2, NEW da, NEW b, NEW b2, NEW db, NEW o, NEW o2, NEW do, Tangent(a, a2,
         da), Tangent(b, b2, db), Tangent(o, o2, do)
  PROVE  Tangent(((b ** ((a ** a) ** a)) ** Twelfth) ++ ((a ** b) ** (o ** o)), ((b2 ** ((a2
                 ** a2) ** a2)) ** Twelfth) ++ ((a2 ** b2) ** (o2 ** o2)), ((((db ** ((a ** a)
                 ** a)) ** Twelfth) ++ (((b ** (a ** a)) ** da) ** Reciprocal(4))) ++ (((da **
                 b) ++ (a ** db)) ** (o ** o))) ++ ((((2 ** a) ** b) ** o) ** do))
<1>1. /\ a \in Int /\ b \in Int /\ o \in Int /\ da \in Int /\ db \in Int /\ do \in Int
  BY DEF Tangent
<1>2. /\ Twelfth \in Int /\ Reciprocal(4) \in Int
      /\ Same(Reciprocal(4), Mul(3, Twelfth))
  BY SectionNumbers
<1>3. Tangent(((b ** ((a ** a) ** a)) ** Twelfth) ++ ((a ** b) ** (o ** o)), ((b2 ** ((a2 ** a2)
        ** a2)) ** Twelfth) ++ ((a2 ** b2) ** (o2 ** o2)), ((((db ** ((a ** a) ** a)) ++ (b **
        ((((da ** a) ++ (a ** da)) ** a) ++ ((a ** a) ** da)))) ** Twelfth) ++ ((b ** ((a ** a)
        ** a)) ** 0)) ++ ((((da ** b) ++ (a ** db)) ** (o ** o)) ++ ((a ** b) ** ((do ** o) ++
        (o ** do)))))
  BY <1>2, TangentRules, 0 \in Int, 1 \in Int, 2 \in Int, 3 \in Int, 4 \in Int
<1>4. Same(((((db ** ((a ** a) ** a)) ++ (b ** ((((da ** a) ++ (a ** da)) ** a) ++ ((a ** a) **
        da)))) ** Twelfth) ++ ((b ** ((a ** a) ** a)) ** 0)) ++ ((((da ** b) ++ (a ** db)) ** (o
        ** o)) ++ ((a ** b) ** ((do ** o) ++ (o ** do)))), Add(Add(Mul(Add(Mul(db, Mul(Mul(a,
        a), a)), Mul(b, Add(Mul(Add(Mul(da, a), Mul(a, da)), a), Mul(Mul(a, a), da)))),
        Twelfth), Mul(Mul(b, Mul(Mul(a, a), a)), 0)), Add(Mul(Add(Mul(da, b), Mul(a, db)),
        Mul(o, o)), Mul(Mul(a, b), Add(Mul(do, o), Mul(o, do))))))
  BY <1>1, <1>2, SameRules, 0 \in Int, 1 \in Int, 2 \in Int, 3 \in Int, 4 \in Int
<1>5. Same(((((db ** ((a ** a) ** a)) ** Twelfth) ++ (((b ** (a ** a)) ** da) ** Reciprocal(4)))
        ++ (((da ** b) ++ (a ** db)) ** (o ** o))) ++ ((((2 ** a) ** b) ** o) ** do),
        Add(Add(Add(Mul(Mul(db, Mul(Mul(a, a), a)), Twelfth), Mul(Mul(Mul(b, Mul(a, a)), da),
        Mul(3, Twelfth))), Mul(Add(Mul(da, b), Mul(a, db)), Mul(o, o))), Mul(Mul(Mul(Mul(2, a),
        b), o), do)))
  BY <1>1, <1>2, SameRules, 0 \in Int, 1 \in Int, 2 \in Int, 3 \in Int, 4 \in Int
<1>6. Add(Add(Mul(Add(Mul(db, Mul(Mul(a, a), a)), Mul(b, Add(Mul(Add(Mul(da, a), Mul(a, da)),
        a), Mul(Mul(a, a), da)))), Twelfth), Mul(Mul(b, Mul(Mul(a, a), a)), 0)),
        Add(Mul(Add(Mul(da, b), Mul(a, db)), Mul(o, o)), Mul(Mul(a, b), Add(Mul(do, o), Mul(o,
        do))))) = Add(Add(Add(Mul(Mul(db, Mul(Mul(a, a), a)), Twelfth), Mul(Mul(Mul(b, Mul(a,
        a)), da), Mul(3, Twelfth))), Mul(Add(Mul(da, b), Mul(a, db)), Mul(o, o))),
        Mul(Mul(Mul(Mul(2, a), b), o), do))
  BY <1>1, <1>2 DEF Add, Sub, Mul
<1>7. Same(((((db ** ((a ** a) ** a)) ++ (b ** ((((da ** a) ++ (a ** da)) ** a) ++ ((a ** a) **
        da)))) ** Twelfth) ++ ((b ** ((a ** a) ** a)) ** 0)) ++ ((((da ** b) ++ (a ** db)) ** (o
        ** o)) ++ ((a ** b) ** ((do ** o) ++ (o ** do)))), ((((db ** ((a ** a) ** a)) **
        Twelfth) ++ (((b ** (a ** a)) ** da) ** Reciprocal(4))) ++ (((da ** b) ++ (a ** db)) **
        (o ** o))) ++ ((((2 ** a) ** b) ** o) ** do))
  BY <1>4, <1>5, <1>6, SameRules
<1> QED
  BY <1>3, <1>7, TangentOf

\* The second moment about the other axis.
LEMMA OtherSecondTangent ==
  ASSUME NEW a, NEW a2, NEW da, NEW b, NEW b2, NEW db, NEW o, NEW o2, NEW do, Tangent(a, a2,
         da), Tangent(b, b2, db), Tangent(o, o2, do)
  PROVE  Tangent(((b ** ((a ** a) ** a)) ** Twelfth) ++ ((b ** a) ** (o ** o)), ((b2 ** ((a2
                 ** a2) ** a2)) ** Twelfth) ++ ((b2 ** a2) ** (o2 ** o2)), ((((db ** ((a ** a)
                 ** a)) ** Twelfth) ++ (((b ** (a ** a)) ** da) ** Reciprocal(4))) ++ (((db **
                 a) ++ (b ** da)) ** (o ** o))) ++ ((((2 ** a) ** b) ** o) ** do))
<1>1. /\ a \in Int /\ b \in Int /\ o \in Int /\ da \in Int /\ db \in Int /\ do \in Int
  BY DEF Tangent
<1>2. /\ Twelfth \in Int /\ Reciprocal(4) \in Int
      /\ Same(Reciprocal(4), Mul(3, Twelfth))
  BY SectionNumbers
<1>3. Tangent(((b ** ((a ** a) ** a)) ** Twelfth) ++ ((b ** a) ** (o ** o)), ((b2 ** ((a2 ** a2)
        ** a2)) ** Twelfth) ++ ((b2 ** a2) ** (o2 ** o2)), ((((db ** ((a ** a) ** a)) ++ (b **
        ((((da ** a) ++ (a ** da)) ** a) ++ ((a ** a) ** da)))) ** Twelfth) ++ ((b ** ((a ** a)
        ** a)) ** 0)) ++ ((((db ** a) ++ (b ** da)) ** (o ** o)) ++ ((b ** a) ** ((do ** o) ++
        (o ** do)))))
  BY <1>2, TangentRules, 0 \in Int, 1 \in Int, 2 \in Int, 3 \in Int, 4 \in Int
<1>4. Same(((((db ** ((a ** a) ** a)) ++ (b ** ((((da ** a) ++ (a ** da)) ** a) ++ ((a ** a) **
        da)))) ** Twelfth) ++ ((b ** ((a ** a) ** a)) ** 0)) ++ ((((db ** a) ++ (b ** da)) ** (o
        ** o)) ++ ((b ** a) ** ((do ** o) ++ (o ** do)))), Add(Add(Mul(Add(Mul(db, Mul(Mul(a,
        a), a)), Mul(b, Add(Mul(Add(Mul(da, a), Mul(a, da)), a), Mul(Mul(a, a), da)))),
        Twelfth), Mul(Mul(b, Mul(Mul(a, a), a)), 0)), Add(Mul(Add(Mul(db, a), Mul(b, da)),
        Mul(o, o)), Mul(Mul(b, a), Add(Mul(do, o), Mul(o, do))))))
  BY <1>1, <1>2, SameRules, 0 \in Int, 1 \in Int, 2 \in Int, 3 \in Int, 4 \in Int
<1>5. Same(((((db ** ((a ** a) ** a)) ** Twelfth) ++ (((b ** (a ** a)) ** da) ** Reciprocal(4)))
        ++ (((db ** a) ++ (b ** da)) ** (o ** o))) ++ ((((2 ** a) ** b) ** o) ** do),
        Add(Add(Add(Mul(Mul(db, Mul(Mul(a, a), a)), Twelfth), Mul(Mul(Mul(b, Mul(a, a)), da),
        Mul(3, Twelfth))), Mul(Add(Mul(db, a), Mul(b, da)), Mul(o, o))), Mul(Mul(Mul(Mul(2, a),
        b), o), do)))
  BY <1>1, <1>2, SameRules, 0 \in Int, 1 \in Int, 2 \in Int, 3 \in Int, 4 \in Int
<1>6. Add(Add(Mul(Add(Mul(db, Mul(Mul(a, a), a)), Mul(b, Add(Mul(Add(Mul(da, a), Mul(a, da)),
        a), Mul(Mul(a, a), da)))), Twelfth), Mul(Mul(b, Mul(Mul(a, a), a)), 0)),
        Add(Mul(Add(Mul(db, a), Mul(b, da)), Mul(o, o)), Mul(Mul(b, a), Add(Mul(do, o), Mul(o,
        do))))) = Add(Add(Add(Mul(Mul(db, Mul(Mul(a, a), a)), Twelfth), Mul(Mul(Mul(b, Mul(a,
        a)), da), Mul(3, Twelfth))), Mul(Add(Mul(db, a), Mul(b, da)), Mul(o, o))),
        Mul(Mul(Mul(Mul(2, a), b), o), do))
  BY <1>1, <1>2 DEF Add, Sub, Mul
<1>7. Same(((((db ** ((a ** a) ** a)) ++ (b ** ((((da ** a) ++ (a ** da)) ** a) ++ ((a ** a) **
        da)))) ** Twelfth) ++ ((b ** ((a ** a) ** a)) ** 0)) ++ ((((db ** a) ++ (b ** da)) ** (o
        ** o)) ++ ((b ** a) ** ((do ** o) ++ (o ** do)))), ((((db ** ((a ** a) ** a)) **
        Twelfth) ++ (((b ** (a ** a)) ** da) ** Reciprocal(4))) ++ (((db ** a) ++ (b ** da)) **
        (o ** o))) ++ ((((2 ** a) ** b) ** o) ** do))
  BY <1>4, <1>5, <1>6, SameRules
<1> QED
  BY <1>3, <1>7, TangentOf

\* The second moment of a plate.
LEMMA PlateSecondTangent ==
  ASSUME NEW h, NEW h2, NEW dh, NEW o, NEW o2, NEW do, Tangent(h, h2, dh), Tangent(o, o2, do)
  PROVE  Tangent((((h ** h) ** h) ** Twelfth) ++ (h ** (o ** o)), (((h2 ** h2) ** h2) **
                 Twelfth) ++ (h2 ** (o2 ** o2)), ((((h ** h) ** dh) ** Reciprocal(4)) ++ (dh
                 ** (o ** o))) ++ (((2 ** h) ** o) ** do))
<1>1. /\ h \in Int /\ o \in Int /\ dh \in Int /\ do \in Int
  BY DEF Tangent
<1>2. /\ Twelfth \in Int /\ Reciprocal(4) \in Int
      /\ Same(Reciprocal(4), Mul(3, Twelfth))
  BY SectionNumbers
<1>3. Tangent((((h ** h) ** h) ** Twelfth) ++ (h ** (o ** o)), (((h2 ** h2) ** h2) ** Twelfth)
        ++ (h2 ** (o2 ** o2)), ((((((dh ** h) ++ (h ** dh)) ** h) ++ ((h ** h) ** dh)) **
        Twelfth) ++ (((h ** h) ** h) ** 0)) ++ ((dh ** (o ** o)) ++ (h ** ((do ** o) ++ (o **
        do)))))
  BY <1>2, TangentRules, 0 \in Int, 1 \in Int, 2 \in Int, 3 \in Int, 4 \in Int
<1>4. Same(((((((dh ** h) ++ (h ** dh)) ** h) ++ ((h ** h) ** dh)) ** Twelfth) ++ (((h ** h) **
        h) ** 0)) ++ ((dh ** (o ** o)) ++ (h ** ((do ** o) ++ (o ** do)))),
        Add(Add(Mul(Add(Mul(Add(Mul(dh, h), Mul(h, dh)), h), Mul(Mul(h, h), dh)), Twelfth),
        Mul(Mul(Mul(h, h), h), 0)), Add(Mul(dh, Mul(o, o)), Mul(h, Add(Mul(do, o), Mul(o,
        do))))))
  BY <1>1, <1>2, SameRules, 0 \in Int, 1 \in Int, 2 \in Int, 3 \in Int, 4 \in Int
<1>5. Same(((((h ** h) ** dh) ** Reciprocal(4)) ++ (dh ** (o ** o))) ++ (((2 ** h) ** o) ** do),
        Add(Add(Mul(Mul(Mul(h, h), dh), Mul(3, Twelfth)), Mul(dh, Mul(o, o))), Mul(Mul(Mul(2,
        h), o), do)))
  BY <1>1, <1>2, SameRules, 0 \in Int, 1 \in Int, 2 \in Int, 3 \in Int, 4 \in Int
<1>6. Add(Add(Mul(Add(Mul(Add(Mul(dh, h), Mul(h, dh)), h), Mul(Mul(h, h), dh)), Twelfth),
        Mul(Mul(Mul(h, h), h), 0)), Add(Mul(dh, Mul(o, o)), Mul(h, Add(Mul(do, o), Mul(o,
        do))))) = Add(Add(Mul(Mul(Mul(h, h), dh), Mul(3, Twelfth)), Mul(dh, Mul(o, o))),
        Mul(Mul(Mul(2, h), o), do))
  BY <1>1, <1>2 DEF Add, Sub, Mul
<1>7. Same(((((((dh ** h) ++ (h ** dh)) ** h) ++ ((h ** h) ** dh)) ** Twelfth) ++ (((h ** h) **
        h) ** 0)) ++ ((dh ** (o ** o)) ++ (h ** ((do ** o) ++ (o ** do)))), ((((h ** h) ** dh)
        ** Reciprocal(4)) ++ (dh ** (o ** o))) ++ (((2 ** h) ** o) ** do))
  BY <1>4, <1>5, <1>6, SameRules
<1> QED
  BY <1>3, <1>7, TangentOf

\* The inverses of powers.
LEMMA PowerInverses ==
  ASSUME NEW a \in Int, a % Prime # 0
  PROVE  LET u == Reciprocal(a)
             f == Mul(Mul(u, u), Mul(u, u))
         IN /\ u \in Int /\ Same(Reciprocal(Square(a)), Mul(u, u))
            /\ Same(Reciprocal(Fourth(a)), f) /\ Same(Reciprocal(a ** Fourth(a)), Mul(u, f))
<1> DEFINE u == Reciprocal(a)
           f == Mul(Mul(u, u), Mul(u, u))
           g == Mul(Mul(a, a), Mul(a, a))
<1>1. Inverses(a, u) /\ u \in Int
  BY ReciprocalSame, InversesFacts
<1>2. Same(Square(a), Mul(a, a)) /\ Same(Fourth(a), g) /\ Same(a ** Fourth(a), Mul(a, g))
  BY SameRules DEF Square, Fourth
<1> HIDE DEF u
<1>3. Inverses(Mul(a, a), Mul(u, u))
  BY <1>1, InversesTimes
<1>4. Inverses(g, f)
  BY <1>3, InversesTimes
<1>5. Inverses(Mul(a, g), Mul(u, f))
  BY <1>1, <1>4, InversesTimes
<1> QED
  BY <1>1, <1>2, <1>3, <1>4, <1>5, ReciprocalSame DEF u

\* The factor of the torsional constant, and its derivative.
TorsionInner(a, b) == 1 -- (Fourth(b // a) ** Twelfth)
DTorsionInner(a, b, da, db) ==
  (((4 ** Fourth(b) ** da) // (a ** Fourth(a))) ** Twelfth)
    -- (((4 ** Cube(b) ** db) // Fourth(a)) ** Twelfth)
DTorsionFactor(a, b, da, db) ==
  ((((Roundness ** b ** da) // Square(a)) ** TorsionInner(a, b))
     -- (Roundness ** (db // a) ** TorsionInner(a, b)))
    -- (Roundness ** (b // a) ** DTorsionInner(a, b, da, db))

\* The ratio of the sides to the fourth power.
LEMMA TorsionInnerTangent ==
  ASSUME NEW a, NEW a2, NEW da, NEW b, NEW b2, NEW db, Tangent(a, a2, da), Tangent(b, b2, db),
         a % Prime # 0
  PROVE  Tangent(TorsionInner(a, b), TorsionInner(a2, b2), DTorsionInner(a, b, da, db))
<1> DEFINE u == Reciprocal(a)
           u2 == Reciprocal(a2)
           w2 == Reciprocal(Square(a))
           w4 == Reciprocal(Fourth(a))
           w5 == Reciprocal(a ** Fourth(a))
           du == 0 -- ((u ** u) ** da)
<1>1. a \in Int /\ da \in Int /\ b \in Int /\ db \in Int
  BY DEF Tangent
<1>2. /\ u \in Int /\ Same(w2, Mul(u, u)) /\ Same(w4, Mul(Mul(u, u), Mul(u, u)))
      /\ Same(w5, Mul(u, Mul(Mul(u, u), Mul(u, u))))
  BY <1>1, PowerInverses
<1>3. Tangent(u, u2, du)
  BY ReciprocalTangent
<1>4. Twelfth \in Int
  BY SectionNumbers
<1>6. TorsionInner(a, b) = 1 -- ((((b ** u) ** (b ** u)) ** ((b ** u) ** (b ** u))) ** Twelfth)
  BY DEF TorsionInner, Fourth, Square, Cube, //, u
<1>7. TorsionInner(a2, b2) = 1 -- ((((b2 ** u2) ** (b2 ** u2)) ** ((b2 ** u2) ** (b2 ** u2))) ** Twelfth)
  BY DEF TorsionInner, Fourth, Square, Cube, //, u2
<1>8. DTorsionInner(a, b, da, db) = ((((4 ** ((b ** b) ** (b ** b))) ** da) ** w5) ** Twelfth)
        -- ((((4 ** ((b ** b) ** b)) ** db) ** w4) ** Twelfth)
  BY DEF DTorsionInner, Fourth, Square, Cube, //, u, w2, w4, w5
<1> HIDE DEF u, u2, w2, w4, w5
<1>9. Same(du, Sub(0, Mul(Mul(u, u), da)))
  BY <1>1, <1>2, SameRules, 0 \in Int
<1> HIDE DEF du
<1>10. Tangent(1 -- ((((b ** u) ** (b ** u)) ** ((b ** u) ** (b ** u))) ** Twelfth), 1 -- ((((b2
        ** u2) ** (b2 ** u2)) ** ((b2 ** u2) ** (b2 ** u2))) ** Twelfth), 0 -- ((((((((db ** u)
        ++ (b ** du)) ** (b ** u)) ++ ((b ** u) ** ((db ** u) ++ (b ** du)))) ** ((b ** u) ** (b
        ** u))) ++ (((b ** u) ** (b ** u)) ** ((((db ** u) ++ (b ** du)) ** (b ** u)) ++ ((b **
        u) ** ((db ** u) ++ (b ** du)))))) ** Twelfth) ++ ((((b ** u) ** (b ** u)) ** ((b ** u)
        ** (b ** u))) ** 0)))
  BY <1>3, <1>4, TangentRules, 0 \in Int, 1 \in Int, 2 \in Int, 3 \in Int, 4 \in Int
<1>11. Same(0 -- ((((((((db ** u) ++ (b ** du)) ** (b ** u)) ++ ((b ** u) ** ((db ** u) ++ (b **
        du)))) ** ((b ** u) ** (b ** u))) ++ (((b ** u) ** (b ** u)) ** ((((db ** u) ++ (b **
        du)) ** (b ** u)) ++ ((b ** u) ** ((db ** u) ++ (b ** du)))))) ** Twelfth) ++ ((((b **
        u) ** (b ** u)) ** ((b ** u) ** (b ** u))) ** 0)), Sub(0,
        Add(Mul(Add(Mul(Add(Mul(Add(Mul(db, u), Mul(b, Sub(0, Mul(Mul(u, u), da)))), Mul(b, u)),
        Mul(Mul(b, u), Add(Mul(db, u), Mul(b, Sub(0, Mul(Mul(u, u), da)))))), Mul(Mul(b, u),
        Mul(b, u))), Mul(Mul(Mul(b, u), Mul(b, u)), Add(Mul(Add(Mul(db, u), Mul(b, Sub(0,
        Mul(Mul(u, u), da)))), Mul(b, u)), Mul(Mul(b, u), Add(Mul(db, u), Mul(b, Sub(0,
        Mul(Mul(u, u), da)))))))), Twelfth), Mul(Mul(Mul(Mul(b, u), Mul(b, u)), Mul(Mul(b, u),
        Mul(b, u))), 0))))
  BY <1>1, <1>2, <1>4, <1>9, SameRules, 0 \in Int, 1 \in Int, 2 \in Int, 3 \in Int, 4 \in Int
<1>12. Same(((((4 ** ((b ** b) ** (b ** b))) ** da) ** w5) ** Twelfth) -- ((((4 ** ((b ** b) **
        b)) ** db) ** w4) ** Twelfth), Sub(Mul(Mul(Mul(Mul(4, Mul(Mul(b, b), Mul(b, b))), da),
        Mul(u, Mul(Mul(u, u), Mul(u, u)))), Twelfth), Mul(Mul(Mul(Mul(4, Mul(Mul(b, b), b)),
        db), Mul(Mul(u, u), Mul(u, u))), Twelfth)))
  BY <1>1, <1>2, <1>4, <1>9, SameRules, 0 \in Int, 1 \in Int, 2 \in Int, 3 \in Int, 4 \in Int
<1>13. Sub(0, Add(Mul(Add(Mul(Add(Mul(Add(Mul(db, u), Mul(b, Sub(0, Mul(Mul(u, u), da)))),
        Mul(b, u)), Mul(Mul(b, u), Add(Mul(db, u), Mul(b, Sub(0, Mul(Mul(u, u), da)))))),
        Mul(Mul(b, u), Mul(b, u))), Mul(Mul(Mul(b, u), Mul(b, u)), Add(Mul(Add(Mul(db, u),
        Mul(b, Sub(0, Mul(Mul(u, u), da)))), Mul(b, u)), Mul(Mul(b, u), Add(Mul(db, u), Mul(b,
        Sub(0, Mul(Mul(u, u), da)))))))), Twelfth), Mul(Mul(Mul(Mul(b, u), Mul(b, u)),
        Mul(Mul(b, u), Mul(b, u))), 0))) = Sub(Mul(Mul(Mul(Mul(4, Mul(Mul(b, b), Mul(b, b))),
        da), Mul(u, Mul(Mul(u, u), Mul(u, u)))), Twelfth), Mul(Mul(Mul(Mul(4, Mul(Mul(b, b),
        b)), db), Mul(Mul(u, u), Mul(u, u))), Twelfth))
  BY <1>1, <1>2, <1>4 DEF Add, Sub, Mul
<1>14. Same(0 -- ((((((((db ** u) ++ (b ** du)) ** (b ** u)) ++ ((b ** u) ** ((db ** u) ++ (b **
        du)))) ** ((b ** u) ** (b ** u))) ++ (((b ** u) ** (b ** u)) ** ((((db ** u) ++ (b **
        du)) ** (b ** u)) ++ ((b ** u) ** ((db ** u) ++ (b ** du)))))) ** Twelfth) ++ ((((b **
        u) ** (b ** u)) ** ((b ** u) ** (b ** u))) ** 0)), ((((4 ** ((b ** b) ** (b ** b))) **
        da) ** w5) ** Twelfth) -- ((((4 ** ((b ** b) ** b)) ** db) ** w4) ** Twelfth))
  BY <1>11, <1>12, <1>13, SameRules
<1> QED
  BY <1>6, <1>7, <1>8, <1>10, <1>14, TangentOf

\* The factor of the torsional constant.
LEMMA TorsionFactorTangent ==
  ASSUME NEW a, NEW a2, NEW da, NEW b, NEW b2, NEW db, Tangent(a, a2, da), Tangent(b, b2, db),
         a % Prime # 0
  PROVE  Tangent(TorsionFactor(a, b), TorsionFactor(a2, b2), DTorsionFactor(a, b, da, db))
<1> DEFINE u == Reciprocal(a)
           u2 == Reciprocal(a2)
           w2 == Reciprocal(Square(a))
           w4 == Reciprocal(Fourth(a))
           w5 == Reciprocal(a ** Fourth(a))
           du == 0 -- ((u ** u) ** da)
           inner == TorsionInner(a, b)
           inner2 == TorsionInner(a2, b2)
           dinner == DTorsionInner(a, b, da, db)
<1>1. a \in Int /\ da \in Int /\ b \in Int /\ db \in Int
  BY DEF Tangent
<1>2. /\ u \in Int /\ Same(w2, Mul(u, u)) /\ Same(w4, Mul(Mul(u, u), Mul(u, u)))
      /\ Same(w5, Mul(u, Mul(Mul(u, u), Mul(u, u))))
  BY <1>1, PowerInverses
<1>3. Tangent(u, u2, du)
  BY ReciprocalTangent
<1>4. Roundness \in Int /\ Reciprocal(3) \in Int
  BY SectionNumbers
<1>5. Tangent(inner, inner2, dinner) /\ inner \in Int /\ dinner \in Int
  BY TorsionInnerTangent DEF Tangent
<1>6. TorsionFactor(a, b) = Reciprocal(3) -- ((Roundness ** (b ** u)) ** inner)
  BY DEF TorsionFactor, TorsionInner, //, u, inner
<1>7. TorsionFactor(a2, b2) = Reciprocal(3) -- ((Roundness ** (b2 ** u2)) ** inner2)
  BY DEF TorsionFactor, TorsionInner, //, u2, inner2
<1>8. DTorsionFactor(a, b, da, db) = (((((Roundness ** b) ** da) ** w2) ** inner) -- ((Roundness
        ** (db ** u)) ** inner)) -- ((Roundness ** (b ** u)) ** dinner)
  BY DEF DTorsionFactor, //, u, w2, w4, w5, inner, dinner
<1> HIDE DEF u, u2, w2, w4, w5, inner, inner2, dinner
<1>9. Same(du, Sub(0, Mul(Mul(u, u), da)))
  BY <1>1, <1>2, SameRules, 0 \in Int
<1> HIDE DEF du
<1>10. Tangent(Reciprocal(3) -- ((Roundness ** (b ** u)) ** inner), Reciprocal(3) -- ((Roundness
        ** (b2 ** u2)) ** inner2), 0 -- ((((0 ** (b ** u)) ++ (Roundness ** ((db ** u) ++ (b **
        du)))) ** inner) ++ ((Roundness ** (b ** u)) ** dinner)))
  BY <1>3, <1>4, <1>5, TangentRules, 0 \in Int, 1 \in Int, 2 \in Int, 3 \in Int, 4 \in Int
<1>11. Same(0 -- ((((0 ** (b ** u)) ++ (Roundness ** ((db ** u) ++ (b ** du)))) ** inner) ++
        ((Roundness ** (b ** u)) ** dinner)), Sub(0, Add(Mul(Add(Mul(0, Mul(b, u)),
        Mul(Roundness, Add(Mul(db, u), Mul(b, Sub(0, Mul(Mul(u, u), da)))))), inner),
        Mul(Mul(Roundness, Mul(b, u)), dinner))))
  BY <1>1, <1>2, <1>4, <1>5, <1>9, SameRules, 0 \in Int, 1 \in Int, 2 \in Int, 3 \in Int, 4 \in Int
<1>12. Same((((((Roundness ** b) ** da) ** w2) ** inner) -- ((Roundness ** (db ** u)) ** inner))
        -- ((Roundness ** (b ** u)) ** dinner), Sub(Sub(Mul(Mul(Mul(Mul(Roundness, b), da),
        Mul(u, u)), inner), Mul(Mul(Roundness, Mul(db, u)), inner)), Mul(Mul(Roundness, Mul(b,
        u)), dinner)))
  BY <1>1, <1>2, <1>4, <1>5, <1>9, SameRules, 0 \in Int, 1 \in Int, 2 \in Int, 3 \in Int, 4 \in Int
<1>13. Sub(0, Add(Mul(Add(Mul(0, Mul(b, u)), Mul(Roundness, Add(Mul(db, u), Mul(b, Sub(0,
        Mul(Mul(u, u), da)))))), inner), Mul(Mul(Roundness, Mul(b, u)), dinner))) =
        Sub(Sub(Mul(Mul(Mul(Mul(Roundness, b), da), Mul(u, u)), inner), Mul(Mul(Roundness,
        Mul(db, u)), inner)), Mul(Mul(Roundness, Mul(b, u)), dinner))
  BY <1>1, <1>2, <1>4, <1>5 DEF Add, Sub, Mul
<1>14. Same(0 -- ((((0 ** (b ** u)) ++ (Roundness ** ((db ** u) ++ (b ** du)))) ** inner) ++
        ((Roundness ** (b ** u)) ** dinner)), (((((Roundness ** b) ** da) ** w2) ** inner) --
        ((Roundness ** (db ** u)) ** inner)) -- ((Roundness ** (b ** u)) ** dinner))
  BY <1>11, <1>12, <1>13, SameRules
<1> QED
  BY <1>6, <1>7, <1>8, <1>10, <1>14, TangentOf

\* The torsional constant, with its factor f.
LEMMA TorsionTangent ==
  ASSUME NEW a, NEW a2, NEW da, NEW b, NEW b2, NEW db, NEW f, NEW f2, NEW df, Tangent(a, a2,
         da), Tangent(b, b2, db), Tangent(f, f2, df)
  PROVE  Tangent((a ** ((b ** b) ** b)) ** f, (a2 ** ((b2 ** b2) ** b2)) ** f2, (((da ** ((b
                 ** b) ** b)) ** f) ++ ((((3 ** a) ** (b ** b)) ** db) ** f)) ++ ((a ** ((b **
                 b) ** b)) ** df))
<1>1. /\ a \in Int /\ b \in Int /\ f \in Int /\ da \in Int /\ db \in Int /\ df \in Int
  BY DEF Tangent
<1>3. Tangent((a ** ((b ** b) ** b)) ** f, (a2 ** ((b2 ** b2) ** b2)) ** f2, (((da ** ((b ** b)
        ** b)) ++ (a ** ((((db ** b) ++ (b ** db)) ** b) ++ ((b ** b) ** db)))) ** f) ++ ((a **
        ((b ** b) ** b)) ** df))
  BY TangentRules, 0 \in Int, 1 \in Int, 2 \in Int, 3 \in Int, 4 \in Int
<1>4. Same((((da ** ((b ** b) ** b)) ++ (a ** ((((db ** b) ++ (b ** db)) ** b) ++ ((b ** b) **
        db)))) ** f) ++ ((a ** ((b ** b) ** b)) ** df), Add(Mul(Add(Mul(da, Mul(Mul(b, b), b)),
        Mul(a, Add(Mul(Add(Mul(db, b), Mul(b, db)), b), Mul(Mul(b, b), db)))), f), Mul(Mul(a,
        Mul(Mul(b, b), b)), df)))
  BY <1>1, SameRules, 0 \in Int, 1 \in Int, 2 \in Int, 3 \in Int, 4 \in Int
<1>5. Same((((da ** ((b ** b) ** b)) ** f) ++ ((((3 ** a) ** (b ** b)) ** db) ** f)) ++ ((a **
        ((b ** b) ** b)) ** df), Add(Add(Mul(Mul(da, Mul(Mul(b, b), b)), f), Mul(Mul(Mul(Mul(3,
        a), Mul(b, b)), db), f)), Mul(Mul(a, Mul(Mul(b, b), b)), df)))
  BY <1>1, SameRules, 0 \in Int, 1 \in Int, 2 \in Int, 3 \in Int, 4 \in Int
<1>6. Add(Mul(Add(Mul(da, Mul(Mul(b, b), b)), Mul(a, Add(Mul(Add(Mul(db, b), Mul(b, db)), b),
        Mul(Mul(b, b), db)))), f), Mul(Mul(a, Mul(Mul(b, b), b)), df)) = Add(Add(Mul(Mul(da,
        Mul(Mul(b, b), b)), f), Mul(Mul(Mul(Mul(3, a), Mul(b, b)), db), f)), Mul(Mul(a,
        Mul(Mul(b, b), b)), df))
  BY <1>1 DEF Add, Sub, Mul
<1>7. Same((((da ** ((b ** b) ** b)) ++ (a ** ((((db ** b) ++ (b ** db)) ** b) ++ ((b ** b) **
        db)))) ** f) ++ ((a ** ((b ** b) ** b)) ** df), (((da ** ((b ** b) ** b)) ** f) ++ ((((3
        ** a) ** (b ** b)) ** db) ** f)) ++ ((a ** ((b ** b) ** b)) ** df))
  BY <1>4, <1>5, <1>6, SameRules
<1> QED
  BY <1>3, <1>7, TangentOf

\* The torsional constant.
LEMMA TorsionalTangent ==
  ASSUME NEW a, NEW a2, NEW da, NEW b, NEW b2, NEW db, Tangent(a, a2, da), Tangent(b, b2, db),
         a % Prime # 0
  PROVE  Tangent(a ** Cube(b) ** TorsionFactor(a, b), a2 ** Cube(b2) ** TorsionFactor(a2, b2),
                 (da ** Cube(b) ** TorsionFactor(a, b)) ++
                 (3 ** a ** Square(b) ** db ** TorsionFactor(a, b)) ++
                 (a ** Cube(b) ** DTorsionFactor(a, b, da, db)))
<1>1. Tangent(TorsionFactor(a, b), TorsionFactor(a2, b2), DTorsionFactor(a, b, da, db))
  BY TorsionFactorTangent
<1> QED
  BY <1>1, TorsionTangent DEF Cube, Square
-----------------------------------------------------------------------------
(* The matrices of the beam section.                                         *)

\* The parameters of the sections.
LEMMA SectionNear ==
  ASSUME NEW c, NEW c2, NEW d, Near(c, c2, d)
  PROVE  /\ Tangent(c.hy, c2.hy, d.hy) /\ Tangent(c.hz, c2.hz, d.hz)
         /\ Tangent(c.offy, c2.offy, d.offy) /\ Tangent(c.offz, c2.offz, d.offz)
         /\ Tangent(c.h, c2.h, d.h) /\ Tangent(c.off, c2.off, d.off)
BY DEF Near, CardNames, SectionParameters

\* The numbers of a beam section.
LEMMA BeamTangents ==
  ASSUME NEW c, NEW c2, NEW d, Near(c, c2, d), Regular(c)
  PROVE  /\ Tangent(Area(c), Area(c2), DArea(c, d))
         /\ Tangent(TorsionalConstant(c), TorsionalConstant(c2), DTorsionalConstant(c, d))
         /\ Tangent(PolarInertia(c), PolarInertia(c2), DPolarInertia(c, d))
         /\ Tangent(AreaYMoment(c), AreaYMoment(c2), DAreaYMoment(c, d))
         /\ Tangent(AreaZMoment(c), AreaZMoment(c2), DAreaZMoment(c, d))
<1>1. Tangent(Area(c), Area(c2), DArea(c, d))
  BY SectionNear, TangentRules DEF Area, DArea
<1>2. Tangent(TorsionalConstant(c), TorsionalConstant(c2), DTorsionalConstant(c, d))
  <2>1. Tangent(c.hy, c2.hy, d.hy) /\ Tangent(c.hz, c2.hz, d.hz)
    BY SectionNear
  <2>2. c.hy % Prime # 0 /\ c.hz % Prime # 0
    BY DEF Regular
  <2>3. c2.hy % Prime = c.hy % Prime /\ c2.hz % Prime = c.hz % Prime
    BY <2>1, TangentOf, PrimeFacts, ModFacts DEF Same
  <2>4. Longer(c2) = Longer(c) /\ Shorter(c2) = Shorter(c)
    BY <2>3 DEF Longer, Shorter, LongY
  <2> DEFINE l == Longer(c)
             s == Shorter(c)
  <2>5. Tangent(c[l], c2[l], d[l]) /\ Tangent(c[s], c2[s], d[s]) /\ c[l] % Prime # 0
    BY <2>1, <2>2 DEF Longer, Shorter
  <2> HIDE DEF l, s
  <2>6. DTorsionalConstant(c, d)
          = (d[l] ** Cube(c[s]) ** TorsionFactor(c[l], c[s])) ++
            (3 ** c[l] ** Square(c[s]) ** d[s] ** TorsionFactor(c[l], c[s])) ++
            (c[l] ** Cube(c[s]) ** DTorsionFactor(c[l], c[s], d[l], d[s]))
    BY DEF DTorsionalConstant, DTorsionFactor, TorsionInner, DTorsionInner, l, s
  <2>7. /\ TorsionalConstant(c) = c[l] ** Cube(c[s]) ** TorsionFactor(c[l], c[s])
        /\ TorsionalConstant(c2) = c2[l] ** Cube(c2[s]) ** TorsionFactor(c2[l], c2[s])
    BY <2>4 DEF TorsionalConstant, l, s
  <2> QED
    BY <2>5, <2>6, <2>7, TorsionalTangent
<1>3. Tangent(PolarInertia(c), PolarInertia(c2), DPolarInertia(c, d))
  BY SectionNear, PolarTangent DEF PolarInertia, DPolarInertia, DArea, Square
<1>4. Tangent(AreaYMoment(c), AreaYMoment(c2), DAreaYMoment(c, d))
  BY SectionNear, MomentTangent DEF AreaYMoment, DAreaYMoment
<1>5. Tangent(AreaZMoment(c), AreaZMoment(c2), DAreaZMoment(c, d))
  BY SectionNear, MomentTangent DEF AreaZMoment, DAreaZMoment
<1> QED
  BY <1>1, <1>2, <1>3, <1>4, <1>5

\* AreaInertiaMatrix.
LEMMA AreaInertiaMoves ==
  ASSUME NEW c, NEW c2, NEW d, Near(c, c2, d)
  PROVE  Moves(AreaInertiaMatrix(c), AreaInertiaMatrix(c2), DAreaInertiaMatrix(c, d))
<1> DEFINE cross(e) == e.hy ** e.hz ** e.offy ** e.offz
           dcross == (DArea(c, d) ** c.offy ** c.offz) ++ (Area(c) ** d.offy ** c.offz) ++
                     (Area(c) ** c.offy ** d.offz)
           one(e) == (e.hz ** Cube(e.hy) ** Twelfth) ++ (e.hy ** e.hz ** Square(e.offy))
           two(e) == (e.hy ** Cube(e.hz) ** Twelfth) ++ (e.hy ** e.hz ** Square(e.offz))
           Second(a, b, da, db, o, do) ==
             (db ** Cube(a) ** Twelfth) ++ ((b ** Square(a) ** da) // 4) ++
             (DArea(c, d) ** Square(o)) ++ (2 ** a ** b ** o ** do)
           done == Second(c.hy, c.hz, d.hy, d.hz, c.offy, d.offy)
           dtwo == Second(c.hz, c.hy, d.hz, d.hy, c.offz, d.offz)
<1>1. Tangent(cross(c), cross(c2), dcross)
  BY SectionNear, CrossTangent DEF DArea, Area
<1>2. Tangent(one(c), one(c2), done)
  BY SectionNear, SecondTangent DEF DArea, Cube, Square, //
<1>3. Tangent(two(c), two(c2), dtwo)
  BY SectionNear, OtherSecondTangent DEF DArea, Cube, Square, //
<1>4. \A e : AreaInertiaMatrix(e) = Single(0, 0, one(e)) \uplus Single(0, 1, cross(e)) \uplus
                                    Single(1, 0, cross(e)) \uplus Single(1, 1, two(e))
  BY DEF AreaInertiaMatrix
<1>5. DAreaInertiaMatrix(c, d) = Single(0, 0, done) \uplus Single(0, 1, dcross) \uplus
                                 Single(1, 0, dcross) \uplus Single(1, 1, dtwo)
  BY DEF DAreaInertiaMatrix
<1> HIDE DEF cross, dcross, one, two, done, dtwo
<1>6. /\ Moves(Single(0, 0, one(c)), Single(0, 0, one(c2)), Single(0, 0, done))
      /\ Moves(Single(0, 1, cross(c)), Single(0, 1, cross(c2)), Single(0, 1, dcross))
      /\ Moves(Single(1, 0, cross(c)), Single(1, 0, cross(c2)), Single(1, 0, dcross))
      /\ Moves(Single(1, 1, two(c)), Single(1, 1, two(c2)), Single(1, 1, dtwo))
  BY <1>1, <1>2, <1>3, SingleMoves
<1> QED
  BY <1>4, <1>5, <1>6, JoinMoves

\* The stiffness of a beam against stretching and twisting.
LEMMA ExtensionStiffness1DMoves ==
  ASSUME NEW c, NEW c2, NEW d, Near(c, c2, d), Regular(c)
  PROVE  Moves(ExtensionStiffness1D(c), ExtensionStiffness1D(c2), DExtensionStiffness1D(c, d))
<1> DEFINE m == StiffnessMatrix1D(c)
           m2 == StiffnessMatrix1D(c2)
           dm == DStiffnessMatrix1D(c, d)
           A == Area(c)
           A2 == Area(c2)
           dA == DArea(c, d)
           J == TorsionalConstant(c)
           J2 == TorsionalConstant(c2)
           dJ == DTorsionalConstant(c, d)
           D == {<<0, 0>>, <<1, 1>>}
           Ext(n, a, j) == [n EXCEPT ![<<0, 0>>] = @ ** a, ![<<1, 1>>] = @ ** j]
<1>1. Moves(m, m2, dm) /\ Tangent(A, A2, dA) /\ Tangent(J, J2, dJ)
  BY Stiffness1DMoves, BeamTangents
<1>2. DOMAIN m = D
  <2>1. DOMAIN m = DOMAIN Single(0, 0, c.E) \cup DOMAIN Single(1, 1, ShearModulus(c))
    BY ShapeDomains DEF StiffnessMatrix1D
  <2> QED
    BY <2>1 DEF Single
<1>3. /\ ExtensionStiffness1D(c) = Ext(m, A, J) /\ ExtensionStiffness1D(c2) = Ext(m2, A2, J2)
      /\ DExtensionStiffness1D(c, d) = Plus(Ext(m, dA, dJ), Ext(dm, A, J))
  BY DEF ExtensionStiffness1D, DExtensionStiffness1D
<1>4. m2 = [p \in D |-> m2[p]] /\ dm = [p \in D |-> dm[p]] /\ m = [p \in D |-> m[p]]
  <2>1. \A n \in {m, m2} : n = [p \in DOMAIN n |-> n[p]]
    BY ComputedFacts DEF StiffnessMatrix1D, \uplus
  <2>2. dm = [p \in DOMAIN dm |-> dm[p]]
    BY ComputedFacts DEF DStiffnessMatrix1D, Plus
  <2> QED
    BY <1>1, <1>2, <2>1, <2>2 DEF Moves
<1> HIDE DEF m, m2, dm, A, A2, dA, J, J2, dJ
<1> DEFINE x == Ext(m, dA, dJ)
           y == Ext(dm, A, J)
<1>5. /\ DOMAIN x = D /\ DOMAIN y = D /\ DOMAIN Ext(m, A, J) = D /\ DOMAIN Ext(m2, A2, J2) = D
      /\ x[<<0, 0>>] = m[<<0, 0>>] ** dA /\ x[<<1, 1>>] = m[<<1, 1>>] ** dJ
      /\ y[<<0, 0>>] = dm[<<0, 0>>] ** A /\ y[<<1, 1>>] = dm[<<1, 1>>] ** J
      /\ Ext(m, A, J)[<<0, 0>>] = m[<<0, 0>>] ** A /\ Ext(m, A, J)[<<1, 1>>] = m[<<1, 1>>] ** J
      /\ Ext(m2, A2, J2)[<<0, 0>>] = m2[<<0, 0>>] ** A2
      /\ Ext(m2, A2, J2)[<<1, 1>>] = m2[<<1, 1>>] ** J2
  BY <1>4
<1> HIDE DEF x, y
<1>6. /\ DOMAIN Plus(x, y) = D
      /\ Plus(x, y)[<<0, 0>>] = (m[<<0, 0>>] ** dA) ++ (dm[<<0, 0>>] ** A)
      /\ Plus(x, y)[<<1, 1>>] = (m[<<1, 1>>] ** dJ) ++ (dm[<<1, 1>>] ** J)
  <2>1. DOMAIN Plus(x, y) = D /\ \A p \in D : Plus(x, y)[p] = x[p] ++ y[p]
    BY <1>5, PlusShape
  <2> QED
    BY <1>5, <2>1
<1>7. \A p \in D : Tangent(m[p], m2[p], dm[p])
  BY <1>1, <1>2 DEF Moves
<1>8. /\ Tangent(m[<<0, 0>>] ** A, m2[<<0, 0>>] ** A2, (m[<<0, 0>>] ** dA) ++ (dm[<<0, 0>>] ** A))
      /\ Tangent(m[<<1, 1>>] ** J, m2[<<1, 1>>] ** J2, (m[<<1, 1>>] ** dJ) ++ (dm[<<1, 1>>] ** J))
  BY <1>1, <1>7, ProductTangent
<1>9. D \subseteq Nat \X Nat
  OBVIOUS
<1>10. Moves(Ext(m, A, J), Ext(m2, A2, J2), Plus(x, y))
  <2> DEFINE e == Ext(m, A, J)
             f == Ext(m2, A2, J2)
  <2>1. DOMAIN e = D /\ DOMAIN f = D
    BY <1>5
  <2>2. \A p \in D : Tangent(e[p], f[p], Plus(x, y)[p])
    BY <1>5, <1>6, <1>8
  <2> HIDE DEF e, f, D
  <2>3. Moves(e, f, Plus(x, y))
    BY <1>6, <1>9, <2>1, <2>2 DEF Moves
  <2> QED
    BY <2>3 DEF e, f
<1> QED
  BY <1>3, <1>10 DEF x, y

\* The entries of a product are integers.
LEMMA TimesInt ==
  ASSUME NEW m, NEW n, \A p : At(m, p) \in Int /\ At(n, p) \in Int
  PROVE  \A p : At(Times(m, n), p) \in Int
<1>1. \A p \in Places(m, n) : Times(m, n)[p] \in Int
  <2>1. \A i, j : RowColumn(m, n, i, j) \in Int
    BY RowColumnInt
  <2>2. \A p \in Places(m, n) : Times(m, n)[p] = RowColumn(m, n, p[1], p[2])
    BY TimesFacts
  <2> QED
    BY <2>1, <2>2
<1>2. DOMAIN Times(m, n) = Places(m, n)
  BY TimesFacts
<1> QED
  BY <1>1, <1>2 DEF At

\* A sum in the other order, and a matrix scaled by a constant.
LEMMA PlusCommutes ==
  ASSUME NEW m, NEW n, \A p : At(m, p) \in Int /\ At(n, p) \in Int
  PROVE  Plus(m, n) = Plus(n, m)
<1> DEFINE D == DOMAIN m \cup DOMAIN n
<1>1. Plus(m, n) = [p \in D |-> At(m, p) ++ At(n, p)]
  BY ComputedFacts DEF Plus
<1>2. Plus(n, m) = [p \in DOMAIN n \cup DOMAIN m |-> At(n, p) ++ At(m, p)]
  BY ComputedFacts DEF Plus
<1>3. DOMAIN n \cup DOMAIN m = D
  OBVIOUS
<1>4. \A p \in D : At(m, p) ++ At(n, p) = At(n, p) ++ At(m, p)
  BY Commutes
<1> HIDE DEF D
<1> QED
  BY <1>1, <1>2, <1>3, <1>4

\* A constant times a matrix.
LEMMA ConstantScaleMoves ==
  ASSUME NEW k \in Int, NEW m, NEW m2, NEW dm, Moves(m, m2, dm)
  PROVE  Moves(Scale(k, m), Scale(k, m2), Scale(k, dm))
<1>1. ASSUME NEW p \in DOMAIN m PROVE Tangent(k ** m[p], k ** m2[p], k ** dm[p])
  <2> DEFINE a == m[p]
             b == m2[p]
             x == dm[p]
  <2>1. Tangent(a, b, x)
    BY DEF Moves
  <2> HIDE DEF a, b, x
  <2>2. Tangent(k ** a, k ** b, (0 ** a) ++ (k ** x)) /\ a \in Int /\ x \in Int
    BY <2>1, TangentRules DEF Tangent
  <2>3. /\ Same((0 ** a) ++ (k ** x), Add(Mul(0, a), Mul(k, x)))
        /\ Same(k ** x, Mul(k, x))
    BY <2>2, SameRules, 0 \in Int
  <2>4. Add(Mul(0, a), Mul(k, x)) = Mul(k, x)
    BY <2>2 DEF Add, Mul
  <2>5. Tangent(k ** a, k ** b, k ** x)
    BY <2>2, <2>3, <2>4, SameRules, TangentOf
  <2> QED
    BY <2>5 DEF a, b, x
<1>2. /\ DOMAIN Scale(k, m) = DOMAIN m /\ DOMAIN Scale(k, m2) = DOMAIN m2
      /\ DOMAIN Scale(k, dm) = DOMAIN dm
      /\ \A p \in DOMAIN m : Scale(k, m)[p] = k ** m[p]
      /\ \A p \in DOMAIN m2 : Scale(k, m2)[p] = k ** m2[p]
      /\ \A p \in DOMAIN dm : Scale(k, dm)[p] = k ** dm[p]
  BY ScaleFacts
<1> QED
  BY <1>1, <1>2 DEF Moves

\* The bending of a beam, alone and with the stretching, and its shear.
LEMMA BeamStiffnessMoves ==
  ASSUME NEW c, NEW c2, NEW d, Near(c, c2, d), Regular(c)
  PROVE  /\ Moves(ExtensionBending1D(c), ExtensionBending1D(c2), DExtensionBending1D(c, d))
         /\ Moves(Bending1D(c), Bending1D(c2), DBending1D(c, d))
         /\ Moves(TransverseStiffness1D(c), TransverseStiffness1D(c2),
                  DTransverseStiffness1D(c, d))
<1> DEFINE at == <<0, 0>>
           E == StiffnessMatrix1D(c)[at]
           E2 == StiffnessMatrix1D(c2)[at]
           dE == DStiffnessMatrix1D(c, d)[at]
<1>1. Tangent(E, E2, dE)
  <2>1. at \in DOMAIN StiffnessMatrix1D(c)
    <3>1. DOMAIN StiffnessMatrix1D(c)
            = DOMAIN Single(0, 0, c.E) \cup DOMAIN Single(1, 1, ShearModulus(c))
      BY ShapeDomains DEF StiffnessMatrix1D
    <3> QED
      BY <3>1 DEF Single
  <2> QED
    BY <2>1, Stiffness1DMoves DEF Moves
<1>2. Moves(ExtensionBending1D(c), ExtensionBending1D(c2), DExtensionBending1D(c, d))
  <2> DEFINE Ay == AreaYMoment(c)
             Az == AreaZMoment(c)
             dAy == DAreaYMoment(c, d)
             dAz == DAreaZMoment(c, d)
             x == (E ** dAz) ++ (dE ** Az)
             y == (E ** dAy) ++ (dE ** Ay)
  <2>1. /\ Tangent(E ** Az, E2 ** AreaZMoment(c2), x) /\ Tangent(E ** Ay, E2 ** AreaYMoment(c2), y)
    BY <1>1, BeamTangents, ProductTangent
  <2>2. /\ ExtensionBending1D(c) = Single(0, 0, E ** Az) \uplus Single(0, 1, E ** Ay)
        /\ ExtensionBending1D(c2)
             = Single(0, 0, E2 ** AreaZMoment(c2)) \uplus Single(0, 1, E2 ** AreaYMoment(c2))
    BY DEF ExtensionBending1D, Coupling
  <2>3. DExtensionBending1D(c, d) = Single(0, 0, x) \uplus Single(0, 1, y)
    <3> DEFINE m == Single(0, 0, E ** dAz)
               n == Single(0, 1, E ** dAy)
               r == Single(0, 0, dE ** Az)
               t == Single(0, 1, dE ** Ay)
    <3>1. DExtensionBending1D(c, d) = Plus(m \uplus n, r \uplus t)
      BY DEF DExtensionBending1D, Coupling
    <3>2. DOMAIN m = DOMAIN r /\ DOMAIN n = DOMAIN t
      BY DEF Single
    <3>3. Plus(m, r) = Single(0, 0, x) /\ Plus(n, t) = Single(0, 1, y)
      BY ShapePlus
    <3> HIDE DEF m, n, r, t
    <3> QED
      BY <3>1, <3>2, <3>3, ShapePlus
  <2> HIDE DEF E, E2, dE, Ay, Az, x, y
  <2> QED
    BY <2>1, <2>2, <2>3, SingleMoves, JoinMoves
<1>3. Moves(Bending1D(c), Bending1D(c2), DBending1D(c, d))
  BY <1>1, AreaInertiaMoves, ScaleMoves DEF Bending1D, DBending1D
<1>4. Moves(TransverseStiffness1D(c), TransverseStiffness1D(c2), DTransverseStiffness1D(c, d))
  BY BeamTangents, TransverseMoves, ScaleMoves DEF TransverseStiffness1D, DTransverseStiffness1D
<1> QED
  BY <1>2, <1>3, <1>4

\* The thermal expansion, the capacitance and the conductance of a beam.
LEMMA BeamThermalMoves ==
  ASSUME NEW c, NEW c2, NEW d, Near(c, c2, d), Regular(c)
  PROVE  /\ Moves(ThermalExpansionA1D(c), ThermalExpansionA1D(c2), DThermalExpansionA1D(c, d))
         /\ Moves(ThermalExpansionB1D(c), ThermalExpansionB1D(c2), DThermalExpansionB1D(c, d))
         /\ \A m, m2, dm : Moves(m, m2, dm) =>
              Moves(Thermal1D(m, c), Thermal1D(m2, c2), DThermal1D(m, dm, c, d))
<1>1. Moves(Expansion1D(c), Expansion1D(c2), DExpansion1D(c, d))
  <2> DEFINE S == StiffnessMatrix1D(c)
             T == ThermalExpansionMatrix(1, c)
             dS == DStiffnessMatrix1D(c, d)
             dT == DThermalExpansionMatrix(1, c, d)
  <2>1. /\ Moves(S, StiffnessMatrix1D(c2), dS) /\ Moves(T, ThermalExpansionMatrix(1, c2), dT)
    BY Stiffness1DMoves, PlainMoves
  <2>2. Moves(Expansion1D(c), Expansion1D(c2), Plus(Times(dS, T), Times(S, dT)))
    BY <2>1, TimesMoves DEF Expansion1D
  <2>3. \A p : At(Times(dS, T), p) \in Int /\ At(Times(S, dT), p) \in Int
    BY <2>1, MovesAt, TimesInt
  <2>4. DExpansion1D(c, d) = Plus(Times(S, dT), Times(dS, T))
    BY DEF DExpansion1D
  <2> QED
    BY <2>2, <2>3, <2>4, PlusCommutes
<1>2. Moves(ThermalExpansionA1D(c), ThermalExpansionA1D(c2), DThermalExpansionA1D(c, d))
  BY <1>1, BeamTangents, ScaleMoves DEF ThermalExpansionA1D, DThermalExpansionA1D
<1>3. Moves(ThermalExpansionB1D(c), ThermalExpansionB1D(c2), DThermalExpansionB1D(c, d))
  <2> DEFINE e == At(Expansion1D(c), <<0, 0>>)
             e2 == At(Expansion1D(c2), <<0, 0>>)
             de == At(DExpansion1D(c, d), <<0, 0>>)
             Ay == AreaYMoment(c)
             Az == AreaZMoment(c)
             dAy == DAreaYMoment(c, d)
             dAz == DAreaZMoment(c, d)
             x == (dAz ** e) ++ (Az ** de)
             y == (dAy ** e) ++ (Ay ** de)
  <2>1. Tangent(e, e2, de)
    BY <1>1, MovesAt
  <2> HIDE DEF e, e2, de
  <2>2. Tangent(Az ** e, AreaZMoment(c2) ** e2, x) /\ Tangent(Ay ** e, AreaYMoment(c2) ** e2, y)
    BY <2>1, BeamTangents, TangentRules
  <2>3. /\ ThermalExpansionB1D(c) = Single(0, 0, Az ** e) \uplus Single(1, 0, Ay ** e)
        /\ ThermalExpansionB1D(c2)
             = Single(0, 0, AreaZMoment(c2) ** e2) \uplus Single(1, 0, AreaYMoment(c2) ** e2)
    BY DEF ThermalExpansionB1D, Moments, e, e2
  <2>4. DThermalExpansionB1D(c, d) = Single(0, 0, x) \uplus Single(1, 0, y)
    <3> DEFINE m == Single(0, 0, dAz ** e)
               n == Single(1, 0, dAy ** e)
               r == Single(0, 0, Az ** de)
               t == Single(1, 0, Ay ** de)
    <3>1. DThermalExpansionB1D(c, d) = Plus(m \uplus n, r \uplus t)
      BY DEF DThermalExpansionB1D, Moments, e, de
    <3>2. DOMAIN m = DOMAIN r /\ DOMAIN n = DOMAIN t
      BY DEF Single
    <3>3. Plus(m, r) = Single(0, 0, x) /\ Plus(n, t) = Single(1, 0, y)
      BY ShapePlus
    <3> HIDE DEF m, n, r, t
    <3> QED
      BY <3>1, <3>2, <3>3, ShapePlus
  <2> HIDE DEF Ay, Az, x, y
  <2> QED
    BY <2>2, <2>3, <2>4, SingleMoves, JoinMoves
<1>4. ASSUME NEW m, NEW m2, NEW dm, Moves(m, m2, dm)
      PROVE  Moves(Thermal1D(m, c), Thermal1D(m2, c2), DThermal1D(m, dm, c, d))
  BY <1>4, BeamTangents, ScaleMoves DEF Thermal1D, DThermal1D
<1> QED
  BY <1>2, <1>3, <1>4
-----------------------------------------------------------------------------
(* The inertia of a beam, and the matrices of the plate section.             *)

\* The mass matrix of a beam per density.
LEMMA BeamInertiaMoves ==
  ASSUME NEW c, NEW c2, NEW d, Near(c, c2, d), Regular(c)
  PROVE  Moves(BeamInertia(Area(c), PolarInertia(c), AreaYMoment(c), AreaZMoment(c),
                           AreaInertiaMatrix(c)),
               BeamInertia(Area(c2), PolarInertia(c2), AreaYMoment(c2), AreaZMoment(c2),
                           AreaInertiaMatrix(c2)),
               BeamInertia(DArea(c, d), DPolarInertia(c, d), DAreaYMoment(c, d),
                           DAreaZMoment(c, d), DAreaInertiaMatrix(c, d)))
<1> DEFINE A == Area(c)
           A2 == Area(c2)
           dA == DArea(c, d)
           P == PolarInertia(c)
           P2 == PolarInertia(c2)
           dP == DPolarInertia(c, d)
           Y == AreaYMoment(c)
           Y2 == AreaYMoment(c2)
           dY == DAreaYMoment(c, d)
           Z == AreaZMoment(c)
           Z2 == AreaZMoment(c2)
           dZ == DAreaZMoment(c, d)
           I == AreaInertiaMatrix(c)
           I2 == AreaInertiaMatrix(c2)
           dI == DAreaInertiaMatrix(c, d)
<1>1. /\ Tangent(A, A2, dA) /\ Tangent(P, P2, dP) /\ Tangent(Y, Y2, dY) /\ Tangent(Z, Z2, dZ)
      /\ Moves(I, I2, dI)
  BY BeamTangents, AreaInertiaMoves
<1> HIDE DEF A, A2, dA, P, P2, dP, Y, Y2, dY, Z, Z2, dZ, I, I2, dI
<1>2. Tangent(0 -- Z, 0 -- Z2, 0 -- dZ)
  BY <1>1, TangentRules, 0 \in Int
<1>3. Moves(Shifted(Scale(Tiny, I), 4), Shifted(Scale(Tiny, I2), 4), Shifted(Scale(Tiny, dI), 4))
  BY <1>1, SectionNumbers, ConstantScaleMoves, ShiftedMoves, 4 \in Nat
<1>4. /\ Moves(Diagonal(3, A), Diagonal(3, A2), Diagonal(3, dA))
      /\ Moves(Single(3, 3, P), Single(3, 3, P2), Single(3, 3, dP))
      /\ Moves(Single(0, 4, Y), Single(0, 4, Y2), Single(0, 4, dY))
      /\ Moves(Single(4, 0, Y), Single(4, 0, Y2), Single(4, 0, dY))
      /\ Moves(Single(0, 5, 0 -- Z), Single(0, 5, 0 -- Z2), Single(0, 5, 0 -- dZ))
      /\ Moves(Single(5, 0, 0 -- Z), Single(5, 0, 0 -- Z2), Single(5, 0, 0 -- dZ))
  BY <1>1, <1>2, SingleMoves, DiagonalMoves
<1>5. Moves(BeamInertia(A, P, Y, Z, I), BeamInertia(A2, P2, Y2, Z2, I2),
            BeamInertia(dA, dP, dY, dZ, dI))
  BY <1>3, <1>4, JoinMoves DEF BeamInertia
<1> QED
  BY <1>5 DEF A, A2, dA, P, P2, dP, Y, Y2, dY, Z, Z2, dZ, I, I2, dI

\* The mass matrix of a beam, in the directions the code differentiates it in:
\* where the entry dm(5,0) that it never assigns is zero.
LEMMA Inertia1DMoves ==
  ASSUME NEW c, NEW c2, NEW d, Near(c, c2, d), Regular(c),
         d.rho = 0, d.hy = 0, d.hz = 0, d.offy = 0
  PROVE  Moves(Inertia1D(c), Inertia1D(c2), DInertia1D(c, d))
<1> DEFINE B == BeamInertia(Area(c), PolarInertia(c), AreaYMoment(c), AreaZMoment(c),
                            AreaInertiaMatrix(c))
           B2 == BeamInertia(Area(c2), PolarInertia(c2), AreaYMoment(c2), AreaZMoment(c2),
                             AreaInertiaMatrix(c2))
           dB == BeamInertia(DArea(c, d), DPolarInertia(c, d), DAreaYMoment(c, d),
                             DAreaZMoment(c, d), DAreaInertiaMatrix(c, d))
           moved == 0 -- DAreaZMoment(c, d)
           at == <<5, 0>>
<1>1. Moves(B, B2, dB)
  BY BeamInertiaMoves
<1>2. Moves(Inertia1D(c), Inertia1D(c2), Plus(Scale(0, B), Scale(c.rho, dB)))
  <2>1. Tangent(c.rho, c2.rho, 0)
    BY IsotropicNear
  <2> HIDE DEF B, B2, dB
  <2>2. Moves(Scale(c.rho, B), Scale(c2.rho, B2), Plus(Scale(0, B), Scale(c.rho, dB)))
    BY <1>1, <2>1, ScaleMoves
  <2> QED
    BY <2>2 DEF Inertia1D, B, B2
<1>3. DInertia1D(c, d) = Plus(Scale(0, [B EXCEPT ![at] = moved]),
                              Scale(c.rho, [dB EXCEPT ![at] = 0]))
  BY DEF DInertia1D
<1>4. moved = 0 /\ DAreaZMoment(c, d) = 0
  <2>1. c.hy \in Int /\ c.hz \in Int /\ c.offy \in Int
    BY SectionNear DEF Tangent
  <2>2. \A a \in Int : a ** 0 = 0 /\ 0 ** a = 0
    BY ZeroFacts
  <2>3. 0 ** c.hz = 0 /\ 0 ** c.offy = 0 /\ c.hy ** 0 = 0
    BY <2>1, <2>2
  <2>4. (c.hy ** c.hz) ** 0 = 0
    BY <2>1, <2>2, ResidueFacts
  <2> QED
    BY <2>3, <2>4, ZeroFacts DEF DAreaZMoment
<1> DEFINE Bx == [B EXCEPT ![at] = moved]
           dBx == [dB EXCEPT ![at] = 0]
<1>5. dB[at] = 0 -- DAreaZMoment(c, d) /\ at \in DOMAIN dB
  <2> DEFINE dI == DAreaInertiaMatrix(c, d)
  <2>1. DOMAIN dI \subseteq Nat \X Nat
    BY AreaInertiaMoves DEF Moves
  <2>2. DOMAIN Scale(Tiny, dI) = DOMAIN dI
    BY ScaleFacts
  <2> DEFINE S == Shifted(Scale(Tiny, dI), 4)
  <2>3. at \notin DOMAIN S
    BY <2>1, <2>2 DEF Shifted
  <2>4. \A a, b : a \uplus b = [p \in DOMAIN a \cup DOMAIN b |->
                                   IF p \in DOMAIN a THEN a[p] ELSE b[p]]
    BY ComputedFacts DEF \uplus
  <2> DEFINE D1 == Diagonal(3, DArea(c, d))
             D2 == Single(3, 3, DPolarInertia(c, d))
             D3 == Single(0, 4, DAreaYMoment(c, d))
             D4 == Single(4, 0, DAreaYMoment(c, d))
             D5 == Single(0, 5, 0 -- DAreaZMoment(c, d))
             D6 == Single(5, 0, 0 -- DAreaZMoment(c, d))
  <2>5. dB = D1 \uplus D2 \uplus D3 \uplus D4 \uplus D5 \uplus D6 \uplus S
    BY DEF BeamInertia
  <2>6. /\ at \notin DOMAIN D1 /\ at \notin DOMAIN D2 /\ at \notin DOMAIN D3
        /\ at \notin DOMAIN D4 /\ at \notin DOMAIN D5 /\ at \in DOMAIN D6
        /\ D6[at] = 0 -- DAreaZMoment(c, d)
    BY DEF Diagonal, Single
  <2> HIDE DEF D1, D2, D3, D4, D5, D6, S, dB, at
  <2>7. /\ at \notin DOMAIN (D1 \uplus D2)
    BY <2>4, <2>6
  <2>8. /\ at \notin DOMAIN (D1 \uplus D2 \uplus D3)
    BY <2>4, <2>6, <2>7
  <2>9. /\ at \notin DOMAIN (D1 \uplus D2 \uplus D3 \uplus D4)
    BY <2>4, <2>6, <2>8
  <2>10. /\ at \notin DOMAIN (D1 \uplus D2 \uplus D3 \uplus D4 \uplus D5)
    BY <2>4, <2>6, <2>9
  <2>11. /\ at \in DOMAIN (D1 \uplus D2 \uplus D3 \uplus D4 \uplus D5 \uplus D6)
         /\ (D1 \uplus D2 \uplus D3 \uplus D4 \uplus D5 \uplus D6)[at] = D6[at]
    BY <2>4, <2>6, <2>10
  <2> QED
    BY <2>4, <2>5, <2>6, <2>11
<1> HIDE DEF B, B2, dB, moved, at
<1>6. dBx = dB
  <2>1. dB = [p \in DOMAIN dB |-> dB[p]]
    BY ComputedFacts DEF dB, BeamInertia, \uplus
  <2> QED
    BY <1>4, <1>5, <2>1 DEF moved
<1>7. Scale(0, Bx) = Scale(0, B)
  <2>1. DOMAIN Bx = DOMAIN B /\ \A p \in DOMAIN B : Bx[p] \in {B[p], moved}
    <3>1. B = [p \in DOMAIN B |-> B[p]]
      BY ComputedFacts DEF B, BeamInertia, \uplus
    <3> QED
      BY <3>1
  <2>2. \A p \in DOMAIN B : B[p] \in Int
    BY <1>1 DEF Moves, Tangent
  <2>3. \A p \in DOMAIN B : 0 ** Bx[p] = 0 ** B[p]
    <3>1. \A a \in Int : 0 ** a = 0
      BY ZeroFacts
    <3> QED
      BY <1>4, <2>1, <2>2, <3>1
  <2> HIDE DEF Bx
  <2> QED
    BY <2>1, <2>3, ComputedFacts DEF Scale
<1> QED
  BY <1>2, <1>3, <1>6, <1>7

\* What changes by nothing: sums, differences and products of what does.
LEMMA StillRules ==
  /\ \A a, b, e, f : Tangent(a, b, 0) /\ Tangent(e, f, 0) =>
       Tangent(a ++ e, b ++ f, 0) /\ Tangent(a -- e, b -- f, 0) /\ Tangent(a ** e, b ** f, 0)
  /\ \A k \in Int : Tangent(k, k, 0)
<1>1. ASSUME NEW a, NEW b, NEW e, NEW f, Tangent(a, b, 0), Tangent(e, f, 0)
      PROVE  Tangent(a ++ e, b ++ f, 0) /\ Tangent(a -- e, b -- f, 0) /\ Tangent(a ** e, b ** f, 0)
  <2>1. /\ Tangent(a ++ e, b ++ f, 0 ++ 0) /\ Tangent(a -- e, b -- f, 0 -- 0)
        /\ Tangent(a ** e, b ** f, (0 ** e) ++ (a ** 0))
    BY <1>1, TangentRules
  <2>2. a \in Int /\ e \in Int
    BY <1>1 DEF Tangent
  <2>3. 0 ++ 0 = 0 /\ 0 -- 0 = 0 /\ 0 ** e = 0 /\ a ** 0 = 0
    BY <2>2, ZeroFacts
  <2> QED
    BY <2>1, <2>3
<1> QED
  BY <1>1, ConstantTangent

\* The stiffness of a plate.
LEMMA PlateStiffnessMoves ==
  ASSUME NEW c, NEW c2, NEW d, Near(c, c2, d), Regular(c)
  PROVE  /\ Moves(ExtensionStiffness2D(c), ExtensionStiffness2D(c2), DExtensionStiffness2D(c, d))
         /\ Moves(ExtensionBending2D(c), ExtensionBending2D(c2), DExtensionBending2D(c, d))
         /\ Moves(Bending2D(c), Bending2D(c2), DBending2D(c, d))
         /\ Moves(TransverseStiffness2D(c), TransverseStiffness2D(c2),
                  DTransverseStiffness2D(c, d))
<1>1. /\ Tangent(c.h, c2.h, d.h) /\ Tangent(c.off, c2.off, d.off)
      /\ Tangent(c.h ** c.off, c2.h ** c2.off, (d.h ** c.off) ++ (c.h ** d.off))
  BY SectionNear, TangentRules
<1>2. Tangent(SecondMoment(c), SecondMoment(c2),
              ((Square(c.h) ** d.h) // 4) ++ (d.h ** Square(c.off)) ++ (2 ** c.h ** c.off ** d.off))
  BY <1>1, PlateSecondTangent DEF SecondMoment, Square, Cube, //
<1>3. Moves(StiffnessMatrix2D(c), StiffnessMatrix2D(c2), DStiffnessMatrix2D(c, d))
  BY Stiffness2DMoves
<1>4. Moves(ExtensionStiffness2D(c), ExtensionStiffness2D(c2), DExtensionStiffness2D(c, d))
  BY <1>1, <1>3, ScaleMoves DEF ExtensionStiffness2D, DExtensionStiffness2D
<1>5. Moves(ExtensionBending2D(c), ExtensionBending2D(c2), DExtensionBending2D(c, d))
  BY <1>1, <1>3, ScaleMoves DEF ExtensionBending2D, DExtensionBending2D
<1>6. Moves(Bending2D(c), Bending2D(c2), DBending2D(c, d))
  BY <1>2, <1>3, ScaleMoves DEF Bending2D, DBending2D
<1>7. Moves(TransverseStiffness2D(c), TransverseStiffness2D(c2), DTransverseStiffness2D(c, d))
  BY <1>1, TransverseMoves, ScaleMoves DEF TransverseStiffness2D, DTransverseStiffness2D
<1> QED
  BY <1>4, <1>5, <1>6, <1>7

\* The thermal expansion, the capacitance and the conductance of a plate.
LEMMA PlateThermalMoves ==
  ASSUME NEW c, NEW c2, NEW d, Near(c, c2, d), Regular(c)
  PROVE  /\ Moves(ThermalExpansionA2D(c), ThermalExpansionA2D(c2), DThermalExpansionA2D(c, d))
         /\ Moves(ThermalExpansionB2D(c), ThermalExpansionB2D(c2), DThermalExpansionB2D(c, d))
         /\ \A m, m2, dm : Moves(m, m2, dm) =>
              Moves(Thermal2D(m, c), Thermal2D(m2, c2), DThermal2D(m, dm, c, d))
<1>1. /\ Tangent(c.h, c2.h, d.h)
      /\ Tangent(c.h ** c.off, c2.h ** c2.off, (d.h ** c.off) ++ (c.h ** d.off))
  BY SectionNear, TangentRules
<1>2. Moves(Expansion2D(c), Expansion2D(c2), DExpansion2D(c, d))
  <2> DEFINE S == StiffnessMatrix2D(c)
             T == ThermalExpansionMatrix(2, c)
             dS == DStiffnessMatrix2D(c, d)
             dT == DThermalExpansionMatrix(2, c, d)
  <2>1. /\ Moves(S, StiffnessMatrix2D(c2), dS) /\ Moves(T, ThermalExpansionMatrix(2, c2), dT)
    BY Stiffness2DMoves, PlainMoves
  <2>2. Moves(Expansion2D(c), Expansion2D(c2), Plus(Times(dS, T), Times(S, dT)))
    BY <2>1, TimesMoves DEF Expansion2D
  <2>3. \A p : At(Times(dS, T), p) \in Int /\ At(Times(S, dT), p) \in Int
    BY <2>1, MovesAt, TimesInt
  <2>4. DExpansion2D(c, d) = Plus(Times(S, dT), Times(dS, T))
    BY DEF DExpansion2D
  <2> QED
    BY <2>2, <2>3, <2>4, PlusCommutes
<1>3. Moves(ThermalExpansionA2D(c), ThermalExpansionA2D(c2), DThermalExpansionA2D(c, d))
  BY <1>1, <1>2, ScaleMoves DEF ThermalExpansionA2D, DThermalExpansionA2D
<1>4. Moves(ThermalExpansionB2D(c), ThermalExpansionB2D(c2), DThermalExpansionB2D(c, d))
  BY <1>1, <1>2, ScaleMoves DEF ThermalExpansionB2D, DThermalExpansionB2D
<1>5. ASSUME NEW m, NEW m2, NEW dm, Moves(m, m2, dm)
      PROVE  Moves(Thermal2D(m, c), Thermal2D(m2, c2), DThermal2D(m, dm, c, d))
  BY <1>5, <1>1, ScaleMoves DEF Thermal2D, DThermal2D
<1> QED
  BY <1>3, <1>4, <1>5

\* The mass matrix of a plate, in the directions the code differentiates it in:
\* all but those of the density, the thickness and the offset.
LEMMA Inertia2DMoves ==
  ASSUME NEW c, NEW c2, NEW d, Near(c, c2, d), Regular(c), d.rho = 0, d.h = 0, d.off = 0
  PROVE  Moves(Inertia2D(c), Inertia2D(c2), DInertia2D(c, d))
<1> DEFINE side(e) == e.rho ** (e.off ** e.h)
           other(e) == e.rho ** (0 -- (e.off ** e.h))
           rotary(e) == e.rho ** SecondMoment(e)
           drilling(e) == e.rho ** (Cube(e.h) ** Twelfth ** Tiny)
<1>1. Tangent(c.rho, c2.rho, 0) /\ Tangent(c.h, c2.h, 0) /\ Tangent(c.off, c2.off, 0)
  BY IsotropicNear, SectionNear
<1>2. /\ Tangent(Twelfth, Twelfth, 0) /\ Tangent(Tiny, Tiny, 0) /\ Reciprocal(4) \in Int
      /\ Tangent(0, 0, 0)
  BY SectionNumbers, StillRules, 0 \in Int
<1>3. /\ Tangent(c.rho ** c.h, c2.rho ** c2.h, 0) /\ Tangent(side(c), side(c2), 0)
      /\ Tangent(other(c), other(c2), 0)
  BY <1>1, <1>2, StillRules
<1>4. Tangent(rotary(c), rotary(c2), 0) /\ Tangent(drilling(c), drilling(c2), 0)
  BY <1>1, <1>2, StillRules DEF SecondMoment, Cube, Square
<1>5. \A e : Inertia2D(e)
               = Diagonal(3, e.rho ** e.h) \uplus Single(0, 4, side(e)) \uplus
                 Single(4, 0, side(e)) \uplus Single(1, 3, other(e)) \uplus
                 Single(3, 1, other(e)) \uplus Single(3, 3, rotary(e)) \uplus
                 Single(4, 4, rotary(e)) \uplus Single(5, 5, drilling(e))
  <2> TAKE e
  <2>1. \A s : /\ \A i, j, v : Scale(s, Single(i, j, v)) = Single(i, j, s ** v)
               /\ \A n, v : Scale(s, Diagonal(n, v)) = Diagonal(n, s ** v)
               /\ \A m, n : Scale(s, m \uplus n) = Scale(s, m) \uplus Scale(s, n)
    BY ShapeScale
  <2> QED
    BY <2>1 DEF Inertia2D
<1>6. DInertia2D(c, d)
        = Diagonal(3, 0) \uplus Single(0, 4, 0) \uplus Single(4, 0, 0) \uplus Single(1, 3, 0) \uplus
          Single(3, 1, 0) \uplus Single(3, 3, 0) \uplus Single(4, 4, 0) \uplus Single(5, 5, 0)
  <2>1. c.rho \in Int /\ c.h \in Int /\ c.off \in Int /\ Twelfth \in Int /\ Tiny \in Int
    BY <1>1, <1>2 DEF Tangent
  <2>2. \A a \in Int : a ** 0 = 0 /\ 0 ** a = 0
    BY ZeroFacts
  <2>3. /\ (0 ** c.h) ++ (c.rho ** 0) = 0 /\ (0 ** c.h) ++ (c.off ** 0) = 0 /\ 0 -- 0 = 0
    BY <2>1, <2>2, ZeroFacts
  <2>4. 0 ** Cube(c.h) ** Twelfth = 0
    <3>1. Cube(c.h) \in Int
      BY <2>1, ResidueFacts DEF Cube
    <3> QED
      BY <2>1, <2>2, <3>1
  <2>5. (c.rho ** Square(c.h) ** 0) // 4 = 0
    <3>1. c.rho ** Square(c.h) \in Int
      BY <2>1, ResidueFacts DEF Square
    <3>2. c.rho ** Square(c.h) ** 0 = 0 /\ 0 ** Reciprocal(4) = 0
      BY <1>2, <2>2, <3>1
    <3> QED
      BY <3>2 DEF //
  <2>6. /\ (0 ** Cube(c.h) ** Twelfth) ++ ((c.rho ** Square(c.h) ** 0) // 4) = 0 /\ 0 ** Tiny = 0
    BY <2>1, <2>2, <2>4, <2>5, ZeroFacts
  <2> QED
    BY <2>3, <2>6 DEF DInertia2D
<1> HIDE DEF side, other, rotary, drilling
<1>7. Moves(Diagonal(3, c.rho ** c.h), Diagonal(3, c2.rho ** c2.h), Diagonal(3, 0))
  BY <1>3, DiagonalMoves
<1>8. ASSUME NEW i \in Nat, NEW j \in Nat
      PROVE  /\ Moves(Single(i, j, side(c)), Single(i, j, side(c2)), Single(i, j, 0))
             /\ Moves(Single(i, j, other(c)), Single(i, j, other(c2)), Single(i, j, 0))
             /\ Moves(Single(i, j, rotary(c)), Single(i, j, rotary(c2)), Single(i, j, 0))
             /\ Moves(Single(i, j, drilling(c)), Single(i, j, drilling(c2)), Single(i, j, 0))
  BY <1>3, <1>4, SingleMoves
<1> QED
  BY <1>5, <1>6, <1>7, <1>8, JoinMoves
-----------------------------------------------------------------------------
(* Sums over finite sets.                                                    *)

\* A set that holds a subset of S whenever it holds all smaller ones holds all.
LEMMA SubsetInduction ==
  ASSUME NEW S, IsFiniteSet(S), NEW C,
         \A T \in SUBSET S : (\A Q \in SUBSET T : Q # T => Q \in C) => T \in C
  PROVE  \A T \in SUBSET S : T \in C
<1> DEFINE Bad == {T \in SUBSET S : T \notin C}
<1>1. SUFFICES Bad = {}
  OBVIOUS
<1>2. SUFFICES ASSUME Bad # {} PROVE FALSE
  OBVIOUS
<1>3. Bad \subseteq FiniteSubsetsOf(S)
  BY FS_FiniteSubsetsOfFinite
<1> HIDE DEF Bad
<1>4. PICK T \in Bad : \A Q \in Bad : ~ (<<Q, T>> \in StrictSubsetOrdering(S))
  BY <1>2, <1>3, FS_StrictSubsetOrderingWellFounded, WFMin
<1>5. \A Q \in SUBSET T : Q # T => Q \in C
  <2>1. TAKE Q \in SUBSET T
  <2>2. HAVE Q # T
  <2>3. <<Q, T>> \in StrictSubsetOrdering(S)
    BY <2>2 DEF StrictSubsetOrdering, Bad
  <2> QED
    BY <1>4, <2>3 DEF Bad
<1> QED
  BY <1>5 DEF Bad

\* A set that holds the empty set, and with a subset of S every one that has one
\* element more, holds S.
LEMMA SetInduction ==
  ASSUME NEW S, IsFiniteSet(S), NEW C, {} \in C,
         \A T \in SUBSET S : \A i \in S \ T : T \in C => T \cup {i} \in C
  PROVE  S \in C
<1>1. ASSUME NEW T \in SUBSET S, \A Q \in SUBSET T : Q # T => Q \in C
      PROVE  T \in C
  <2>1. CASE T = {}
    BY <2>1
  <2>2. CASE T # {}
    <3>1. PICK i \in T : TRUE
      BY <2>2
    <3>2. /\ T \ {i} \in SUBSET T /\ T \ {i} # T
          /\ T \ {i} \in SUBSET S /\ i \in S \ (T \ {i})
          /\ (T \ {i}) \cup {i} = T
      BY <3>1
    <3> QED
      BY <1>1, <3>2
  <2> QED
    BY <2>1, <2>2
<1> QED
  BY <1>1, SubsetInduction

\* h gives the sum of g over every subset of S.
Additive(h, g, S) ==
  /\ h \in [SUBSET S -> Int]
  /\ h[{}] = 0
  /\ \A T \in SUBSET S : \A i \in S \ T : h[T \cup {i}] = g[i] + h[T]

\* Every function to the integers has its sums.
LEMMA AdditiveExists ==
  ASSUME NEW S, IsFiniteSet(S), NEW g, \A i \in S : g[i] \in Int
  PROVE  \E h : Additive(h, g, S)
<1> DEFINE C == {T \in SUBSET S : \E h : Additive(h, g, T)}
<1>1. {} \in C
  <2> DEFINE h == [T \in {{}} |-> 0]
  <2>1. Additive(h, g, {})
    BY DEF Additive
  <2> QED
    BY <2>1
<1>2. ASSUME NEW T \in SUBSET S, NEW i \in S \ T, T \in C
      PROVE  T \cup {i} \in C
  <2>1. PICK h : Additive(h, g, T)
    BY <1>2
  <2> DEFINE R == T \cup {i}
             n == [Q \in SUBSET R |-> IF i \in Q THEN g[i] + h[Q \ {i}] ELSE h[Q]]
  <2>2. ASSUME NEW Q \in SUBSET R
        PROVE  /\ i \notin Q => Q \in SUBSET T
               /\ Q \ {i} \in SUBSET T
    OBVIOUS
  <2>3. n \in [SUBSET R -> Int]
    BY <2>1, <2>2 DEF Additive
  <2>4. n[{}] = 0
    BY <2>1 DEF Additive
  <2>5. ASSUME NEW Q \in SUBSET R, NEW j \in R \ Q
        PROVE  n[Q \cup {j}] = g[j] + n[Q]
    <3>1. CASE j = i
      <4>1. i \notin Q /\ (Q \cup {j}) \ {i} = Q /\ Q \in SUBSET T /\ i \in Q \cup {j}
        BY <3>1, <2>2, <2>5
      <4> QED
        BY <4>1, <3>1
    <3>2. CASE j # i /\ i \in Q
      <4>1. /\ (Q \cup {j}) \ {i} = (Q \ {i}) \cup {j} /\ i \in Q \cup {j}
            /\ Q \ {i} \in SUBSET T /\ j \in T \ (Q \ {i}) /\ Q \cup {j} \in SUBSET R
        BY <3>2, <2>2, <2>5
      <4>2. h[(Q \ {i}) \cup {j}] = g[j] + h[Q \ {i}]
        BY <4>1, <2>1 DEF Additive
      <4>3. g[i] \in Int /\ g[j] \in Int /\ h[Q \ {i}] \in Int
        BY <4>1, <2>1 DEF Additive
      <4>4. n[Q \cup {j}] = g[i] + (g[j] + h[Q \ {i}]) /\ n[Q] = g[i] + h[Q \ {i}]
        BY <4>1, <4>2, <3>2
      <4> HIDE DEF n
      <4> QED
        BY <4>3, <4>4
    <3>3. CASE j # i /\ i \notin Q
      <4>1. /\ i \notin Q \cup {j} /\ Q \in SUBSET T /\ j \in T \ Q
            /\ Q \cup {j} \in SUBSET R
        BY <3>3, <2>2, <2>5
      <4>2. h[Q \cup {j}] = g[j] + h[Q]
        BY <4>1, <2>1 DEF Additive
      <4> QED
        BY <4>1, <4>2, <3>3
    <3> QED
      BY <3>1, <3>2, <3>3
  <2>6. Additive(n, g, R)
    <3> HIDE DEF n, R
    <3> QED
      BY <2>3, <2>4, <2>5 DEF Additive
  <2> QED
    BY <2>6
<1>3. S \in C
  <2> HIDE DEF C
  <2> QED
    BY <1>1, <1>2, SetInduction
<1> QED
  BY <1>3

\* The sum of a set is the value of its additive function: the fold finds it,
\* whatever order it takes the elements in.
LEMMA SumIsAdditive ==
  ASSUME NEW S, IsFiniteSet(S), NEW g, \A i \in S : g[i] \in Int,
         NEW h, Additive(h, g, S)
  PROVE  SumFunctionOnSet(g, S) = h[S]
<1> DEFINE Some(T) == CHOOSE i \in T : TRUE
           Unfolded(z) == [T \in SUBSET S |->
                             IF T = {} THEN 0 ELSE g[Some(T)] + z[T \ {Some(T)}]]
           iter == CHOOSE z : z = Unfolded(z)
<1>1. SumFunctionOnSet(g, S) = iter[S]
  BY DEF SumFunctionOnSet, FoldFunctionOnSet, MapThenFoldSet
<1>2. \A T \in SUBSET S : T # {} =>
         /\ Some(T) \in T /\ Some(T) \in S /\ g[Some(T)] \in Int
         /\ T \ {Some(T)} \in SUBSET T /\ T \ {Some(T)} # T
         /\ T \ {Some(T)} \in SUBSET S
         /\ h[T] = g[Some(T)] + h[T \ {Some(T)}]
  <2> SUFFICES ASSUME NEW T \in SUBSET S, T # {}
               PROVE  /\ Some(T) \in T /\ Some(T) \in S /\ g[Some(T)] \in Int
                      /\ T \ {Some(T)} \in SUBSET T /\ T \ {Some(T)} # T
                      /\ T \ {Some(T)} \in SUBSET S
                      /\ h[T] = g[Some(T)] + h[T \ {Some(T)}]
    OBVIOUS
  <2>1. Some(T) \in T
    OBVIOUS
  <2> HIDE DEF Some
  <2>2. (T \ {Some(T)}) \cup {Some(T)} = T
    BY <2>1
  <2> QED
    BY <2>1, <2>2 DEF Additive
<1> HIDE DEF Some
<1>3. h = Unfolded(h)
  <2>1. ASSUME NEW T \in SUBSET S PROVE h[T] = Unfolded(h)[T]
    BY <1>2 DEF Additive
  <2>2. h \in [SUBSET S -> Int]
    BY DEF Additive
  <2> QED
    BY <2>1, <2>2
<1> HIDE DEF Unfolded
<1>4. iter = Unfolded(iter)
  BY <1>3
<1> HIDE DEF iter
<1>5. \A T \in SUBSET S : T \in {Q \in SUBSET S : iter[Q] = h[Q]}
  <2> DEFINE C == {Q \in SUBSET S : iter[Q] = h[Q]}
  <2>1. ASSUME NEW T \in SUBSET S, \A Q \in SUBSET T : Q # T => Q \in C
        PROVE  T \in C
    <3>1. iter[T] = IF T = {} THEN 0 ELSE g[Some(T)] + iter[T \ {Some(T)}]
      BY <1>4 DEF Unfolded
    <3>2. CASE T = {}
      BY <3>1, <3>2 DEF Additive
    <3>3. CASE T # {}
      <4>1. iter[T \ {Some(T)}] = h[T \ {Some(T)}]
        BY <1>2, <2>1, <3>3
      <4> QED
        BY <3>1, <3>3, <4>1, <1>2
    <3> QED
      BY <3>2, <3>3
  <2> HIDE DEF C
  <2>2. \A T \in SUBSET S : T \in C
    BY <2>1, SubsetInduction
  <2> QED
    BY <2>2 DEF C
<1> QED
  BY <1>1, <1>5

\* Facts about a sum that its additive function gives.
LEMMA SumFacts ==
  ASSUME NEW g
  PROVE  /\ SumFunctionOnSet(g, {}) = 0
         /\ \A S : IsFiniteSet(S) /\ (\A i \in S : g[i] \in Int) => SumFunctionOnSet(g, S) \in Int
<1>1. SumFunctionOnSet(g, {}) = 0
  <2>1. IsFiniteSet({}) /\ \A i \in {} : g[i] \in Int
    BY FS_EmptySet
  <2>2. PICK h : Additive(h, g, {})
    BY <2>1, AdditiveExists
  <2> QED
    BY <2>1, <2>2, SumIsAdditive DEF Additive
<1>2. ASSUME NEW S, IsFiniteSet(S), \A i \in S : g[i] \in Int
      PROVE  SumFunctionOnSet(g, S) \in Int
  <2>1. PICK h : Additive(h, g, S)
    BY <1>2, AdditiveExists
  <2>2. SumFunctionOnSet(g, S) = h[S]
    BY <1>2, <2>1, SumIsAdditive
  <2>3. h \in [SUBSET S -> Int] /\ S \in SUBSET S
    BY <2>1 DEF Additive
  <2>4. h[S] \in Int
    BY <2>3
  <2> QED
    BY <2>2, <2>4
<1> QED
  BY <1>1, <1>2

\* A set with one element more.
LEMMA SumAdd ==
  ASSUME NEW g, NEW S, IsFiniteSet(S), NEW i, i \notin S,
         \A j \in S \cup {i} : g[j] \in Int
  PROVE  SumFunctionOnSet(g, S \cup {i}) = g[i] + SumFunctionOnSet(g, S)
<1> DEFINE R == S \cup {i}
<1>1. IsFiniteSet(R)
  BY FS_AddElement
<1>2. PICK h : Additive(h, g, R)
  BY <1>1, AdditiveExists
<1>3. SumFunctionOnSet(g, R) = h[R]
  BY <1>1, <1>2, SumIsAdditive
<1> DEFINE n == [T \in SUBSET S |-> h[T]]
<1>4. Additive(n, g, S)
  <2>1. n \in [SUBSET S -> Int] /\ n[{}] = 0
    BY <1>2 DEF Additive
  <2>2. ASSUME NEW T \in SUBSET S, NEW j \in S \ T
        PROVE  n[T \cup {j}] = g[j] + n[T]
    <3>1. T \in SUBSET R /\ j \in R \ T /\ T \cup {j} \in SUBSET S
      OBVIOUS
    <3> QED
      BY <3>1, <1>2 DEF Additive
  <2> QED
    BY <2>1, <2>2 DEF Additive
<1>5. SumFunctionOnSet(g, S) = n[S]
  BY <1>4, SumIsAdditive
<1>6. h[S \cup {i}] = g[i] + h[S]
  BY <1>2 DEF Additive
<1> QED
  BY <1>3, <1>5, <1>6

\* The change of a sum, from the changes of its terms.
LEMMA SumTangent ==
  ASSUME NEW S, IsFiniteSet(S), NEW f, NEW g, NEW x,
         \A i \in S : Tangent(f[i], g[i], x[i])
  PROVE  Tangent(SumFunctionOnSet(f, S), SumFunctionOnSet(g, S), SumFunctionOnSet(x, S))
<1> DEFINE SumChanges(T) == Tangent(SumFunctionOnSet(f, T), SumFunctionOnSet(g, T),
                                 SumFunctionOnSet(x, T))
           C == {T \in SUBSET S : SumChanges(T)}
<1>1. \A i \in S : f[i] \in Int /\ g[i] \in Int /\ x[i] \in Int
  BY DEF Tangent
<1>2. {} \in C
  <2>1. Tangent(0, 0, 0)
    BY ConstantTangent, 0 \in Int
  <2>2. /\ SumFunctionOnSet(f, {}) = 0 /\ SumFunctionOnSet(g, {}) = 0
        /\ SumFunctionOnSet(x, {}) = 0
    BY SumFacts
  <2> QED
    BY <2>1, <2>2
<1>3. ASSUME NEW T \in SUBSET S, NEW i \in S \ T, T \in C
      PROVE  T \cup {i} \in C
  <2>1. IsFiniteSet(T) /\ i \notin T /\ T \cup {i} \in SUBSET S
    BY FS_Subset
  <2>2. /\ SumFunctionOnSet(f, T \cup {i}) = Add(f[i], SumFunctionOnSet(f, T))
        /\ SumFunctionOnSet(g, T \cup {i}) = Add(g[i], SumFunctionOnSet(g, T))
        /\ SumFunctionOnSet(x, T \cup {i}) = Add(x[i], SumFunctionOnSet(x, T))
    <3>1. \A j \in T \cup {i} : f[j] \in Int /\ g[j] \in Int /\ x[j] \in Int
      BY <1>1
    <3> QED
      BY <2>1, <3>1, SumAdd DEF Add
  <2>3. Tangent(f[i], g[i], x[i]) /\ SumChanges(T)
    BY <1>3
  <2> HIDE DEF SumChanges
  <2>4. SumChanges(T \cup {i})
    BY <2>2, <2>3, PlainRules DEF SumChanges
  <2> QED
    BY <2>1, <2>4
<1>4. S \in C
  <2> HIDE DEF C
  <2> QED
    BY <1>2, <1>3, SetInduction
<1> QED
  BY <1>4

-----------------------------------------------------------------------------
(* The laminate.                                                             *)

\* The parameters of the layers' thicknesses, and how they change by a step.
LayerNames == {LayerThickness[i] : i \in 1 .. NLayers}
LayersNear(c, c2, d) == \A n \in LayerNames : Tangent(c[n], c2[n], d[n])

\* There are one, two or three layers.
LEMMA LayersFacts ==
  /\ NLayers \in 1 .. 3 /\ Base \in Int /\ IsFiniteSet(Layers)
  /\ 0 \in Layers /\ \A n \in Layers : LayerThickness[n + 1] \in LayerNames
<1>1. NLayers \in 1 .. 3 /\ Base \in Int
  BY LayersAssumption
<1>2. IsFiniteSet(0 .. (NLayers - 1))
  BY <1>1, FS_Interval
<1>3. ASSUME NEW n \in Layers PROVE LayerThickness[n + 1] \in LayerNames
  <2>1. n + 1 \in 1 .. NLayers
    BY <1>1 DEF Layers
  <2> QED
    BY <2>1 DEF LayerNames
<1> QED
  BY <1>1, <1>2, <1>3 DEF Layers

\* The thickness of the layers below one, and the offset of a layer.
LEMMA OffsetTangent ==
  ASSUME NEW c, NEW c2, NEW d, LayersNear(c, c2, d),
         NEW n \in Layers
  PROVE  /\ Tangent(Thickness(c, n), Thickness(c2, n), Thickness(d, n))
         /\ Tangent(LayerOffset(c, n), LayerOffset(c2, n), LayerOffset(d, n))
<1>1. \A i \in Layers : Tangent(Thickness(c, i), Thickness(c2, i), Thickness(d, i))
  BY LayersFacts DEF Thickness, LayersNear
<1>2. ASSUME NEW m \in 0 .. NLayers
      PROVE  Tangent(ThicknessBelow(c, m), ThicknessBelow(c2, m), ThicknessBelow(d, m))
  <2> DEFINE S == 0 .. (m - 1)
             t == [i \in Layers |-> Thickness(c, i)]
             t2 == [i \in Layers |-> Thickness(c2, i)]
             dt == [i \in Layers |-> Thickness(d, i)]
  <2>1. IsFiniteSet(S) /\ S \subseteq Layers
    <3>1. NLayers \in 1 .. 3
      BY LayersFacts
    <3>2. m - 1 \in Int /\ 0 \in Int
      BY <3>1
    <3>3. IsFiniteSet(S)
      BY <3>2, FS_Interval
    <3>4. S \subseteq Layers
      BY <3>1 DEF Layers
    <3> QED
      BY <3>3, <3>4
  <2>2. \A i \in S : Tangent(t[i], t2[i], dt[i])
    BY <1>1, <2>1
  <2> HIDE DEF S, t, t2, dt
  <2>3. Tangent(SumFunctionOnSet(t, S), SumFunctionOnSet(t2, S), SumFunctionOnSet(dt, S))
    BY <2>1, <2>2, SumTangent
  <2> QED
    BY <2>3 DEF ThicknessBelow, S, t, t2, dt
<1> DEFINE half == Reciprocal(2)
           side == 1 ++ Base
           b(e) == ThicknessBelow(e, n)
           all(e) == ThicknessBelow(e, NLayers)
           t(e) == Thickness(e, n)
<1>3. half \in Int /\ side \in Int
  BY SmallInverses, InversesFacts, LayersFacts, ResidueFacts, 1 \in Int, 2 \in 2 .. 5
<1>4. /\ Tangent(b(c), b(c2), b(d)) /\ Tangent(all(c), all(c2), all(d))
      /\ Tangent(t(c), t(c2), t(d))
  BY <1>1, <1>2, LayersFacts DEF Layers
<1>5. \A e : LayerOffset(e, n) = (b(e) ++ (t(e) ** half)) -- ((side ** all(e)) ** half)
  BY DEF LayerOffset, //
<1> HIDE DEF half, side, b, all, t
<1>6. /\ Tangent(t(c) ** half, t(c2) ** half, t(d) ** half)
      /\ Tangent(side ** all(c), side ** all(c2), side ** all(d))
      /\ \A a, a2, x : Tangent(a, a2, x) => Tangent(a ** half, a2 ** half, x ** half)
  <2>1. ASSUME NEW k \in Int, NEW a, NEW a2, NEW x, Tangent(a, a2, x)
        PROVE  Tangent(a ** k, a2 ** k, x ** k) /\ Tangent(k ** a, k ** a2, k ** x)
    <3>1. Tangent(k, k, 0)
      BY ConstantTangent
    <3>2. /\ Tangent(a ** k, a2 ** k, (x ** k) ++ (a ** 0))
          /\ Tangent(k ** a, k ** a2, (0 ** a) ++ (k ** x))
      BY <3>1, <2>1, TangentRules
    <3>3. a \in Int /\ x \in Int
      BY <2>1 DEF Tangent
    <3>4. /\ Same((x ** k) ++ (a ** 0), x ** k) /\ Same((0 ** a) ++ (k ** x), k ** x)
      <4> DEFINE u == x ** k
                 v == k ** x
      <4>1. u \in Int /\ v \in Int /\ a ** 0 = 0 /\ 0 ** a = 0
        BY <3>3, ZeroFacts, ResidueFacts
      <4> HIDE DEF u, v
      <4>2. Same(u ++ 0, Add(u, 0)) /\ Same(0 ++ v, Add(0, v))
        BY <4>1, SameRules, 0 \in Int
      <4>3. Add(u, 0) = u /\ Add(0, v) = v
        BY <4>1 DEF Add
      <4> QED
        BY <4>1, <4>2, <4>3 DEF u, v
    <3> QED
      BY <3>2, <3>4, TangentOf
  <2> QED
    BY <1>3, <1>4, <2>1
<1>7. Tangent((b(c) ++ (t(c) ** half)) -- ((side ** all(c)) ** half),
              (b(c2) ++ (t(c2) ** half)) -- ((side ** all(c2)) ** half),
              (b(d) ++ (t(d) ** half)) -- ((side ** all(d)) ** half))
  BY <1>4, <1>6, TangentRules
<1> QED
  BY <1>4, <1>5, <1>7 DEF t

\* The card of a layer.
LEMMA LayerNear ==
  ASSUME NEW c, NEW c2, NEW d, Near(c, c2, d), Regular(c),
         c = [p \in DOMAIN c |-> c[p]], c2 = [p \in DOMAIN c |-> c2[p]],
         d = [p \in DOMAIN c |-> d[p]], CardNames \subseteq DOMAIN c,
         LayersNear(c, c2, d),
         NEW n \in Layers
  PROVE  Near(Layer(c, n), Layer(c2, n), Layer(d, n)) /\ Regular(Layer(c, n))
<1>1. /\ Tangent(Thickness(c, n), Thickness(c2, n), Thickness(d, n))
      /\ Tangent(LayerOffset(c, n), LayerOffset(c2, n), LayerOffset(d, n))
  BY OffsetTangent
<1>2. ASSUME NEW e, e = [p \in DOMAIN c |-> e[p]]
      PROVE  \A p \in CardNames :
               Layer(e, n)[p] = IF p = "h" THEN Thickness(e, n)
                                ELSE IF p = "off" THEN LayerOffset(e, n) ELSE e[p]
  <2> DEFINE t == Thickness(e, n)
             o == LayerOffset(e, n)
  <2>1. Layer(e, n) = [e EXCEPT !.h = t, !.off = o]
    BY DEF Layer
  <2> HIDE DEF t, o
  <2>2. DOMAIN e = DOMAIN c
    BY <1>2
  <2> QED
    BY <2>1, <2>2 DEF t, o
<1>3. Near(Layer(c, n), Layer(c2, n), Layer(d, n))
  BY <1>1, <1>2 DEF Near
<1>4. \A p \in CardNames \ {"h", "off"} : Layer(c, n)[p] = c[p]
  BY <1>2
<1> DEFINE l == Layer(c, n)
<1>5. /\ l.nu = c.nu /\ l.E11 = c.E11 /\ l.E22 = c.E22 /\ l.E33 = c.E33 /\ l.nu12 = c.nu12
      /\ l.nu13 = c.nu13 /\ l.nu23 = c.nu23 /\ l.tilt = c.tilt /\ l.hy = c.hy /\ l.hz = c.hz
  <2> HIDE DEF l
  <2> QED
    BY <1>4 DEF l, CardNames, MaterialParameters, SectionParameters
<1> HIDE DEF l
<1>6. Regular(l)
  BY <1>5 DEF Regular, Compressibility, OrthotropicDet, Nu21, Nu31, Nu32
<1> QED
  BY <1>3, <1>6 DEF l

\* The sum of the layers' matrices, of one shape.
LEMMA LayersMove ==
  ASSUME NEW D, NEW part, NEW part2, NEW dpart,
         \A n \in Layers : Moves(part[n], part2[n], dpart[n]) /\ DOMAIN part[n] = D
  PROVE  Moves(SumOfLayers(part), SumOfLayers(part2), SumOfLayers(dpart))
<1>1. /\ DOMAIN part[0] = D /\ DOMAIN part2[0] = D /\ DOMAIN dpart[0] = D
      /\ D \subseteq Nat \X Nat
  BY LayersFacts DEF Moves
<1>2. ASSUME NEW p \in D
      PROVE  Tangent(SumOfLayers(part)[p], SumOfLayers(part2)[p], SumOfLayers(dpart)[p])
  <2> DEFINE s(q) == SumFunctionOnSet([n \in Layers |-> q[n][p]], Layers)
  <2>1. /\ SumOfLayers(part)[p] = s(part) % Modulus /\ SumOfLayers(part2)[p] = s(part2) % Modulus
        /\ SumOfLayers(dpart)[p] = s(dpart) % Modulus
    BY <1>1 DEF SumOfLayers
  <2>2. Tangent(s(part), s(part2), s(dpart))
    <3> DEFINE f == [n \in Layers |-> part[n][p]]
               g == [n \in Layers |-> part2[n][p]]
               x == [n \in Layers |-> dpart[n][p]]
    <3>1. \A n \in Layers : Tangent(f[n], g[n], x[n])
      BY DEF Moves
    <3> HIDE DEF f, g, x
    <3>2. Tangent(SumFunctionOnSet(f, Layers), SumFunctionOnSet(g, Layers),
                  SumFunctionOnSet(x, Layers))
      BY <3>1, SumTangent, LayersFacts
    <3> QED
      BY <3>2 DEF f, g, x
  <2> HIDE DEF s
  <2>3. \A r \in Int : r ++ 0 = r % Modulus
    BY DEF ++
  <2>4. Tangent(s(part) ++ 0, s(part2) ++ 0, s(dpart) ++ 0)
    BY <2>2, TangentRules, 0 \in Int
  <2>5. s(part) \in Int /\ s(part2) \in Int /\ s(dpart) \in Int
    BY <2>2 DEF Tangent
  <2> QED
    BY <2>1, <2>3, <2>4, <2>5
<1>3. /\ DOMAIN SumOfLayers(part) = D /\ DOMAIN SumOfLayers(part2) = D
      /\ DOMAIN SumOfLayers(dpart) = D
  BY <1>1 DEF SumOfLayers
<1> QED
  BY <1>1, <1>2, <1>3 DEF Moves

\* The stiffness of a laminate.
LEMMA LaminateMoves ==
  ASSUME NEW c, NEW c2, NEW d, Near(c, c2, d), Regular(c),
         c = [p \in DOMAIN c |-> c[p]], c2 = [p \in DOMAIN c |-> c2[p]],
         d = [p \in DOMAIN c |-> d[p]], CardNames \subseteq DOMAIN c,
         LayersNear(c, c2, d)
  PROVE  /\ Moves(LaminateA(c), LaminateA(c2), DLaminateA(c, d))
         /\ Moves(LaminateB(c), LaminateB(c2), DLaminateB(c, d))
         /\ Moves(LaminateD(c), LaminateD(c2), DLaminateD(c, d))
<1> DEFINE D == (0 .. 1) \X (0 .. 1) \cup {<<2, 2>>}
<1>1. \A e : /\ DOMAIN ExtensionStiffness2D(e) = D /\ DOMAIN ExtensionBending2D(e) = D
             /\ DOMAIN Bending2D(e) = D
  <2> TAKE e
  <2>1. DOMAIN StiffnessMatrix2D(e) = D
    BY ComputedFacts DEF StiffnessMatrix2D, \uplus, Block, Single
  <2> HIDE DEF D
  <2> QED
    BY <2>1, ScaleFacts DEF ExtensionStiffness2D, ExtensionBending2D, Bending2D
<1>2. \A n \in Layers : Near(Layer(c, n), Layer(c2, n), Layer(d, n)) /\ Regular(Layer(c, n))
  BY LayerNear
<1> HIDE DEF D
<1> DEFINE A(e) == [n \in Layers |-> ExtensionStiffness2D(Layer(e, n))]
           B(e) == [n \in Layers |-> ExtensionBending2D(Layer(e, n))]
           C(e) == [n \in Layers |-> Bending2D(Layer(e, n))]
           dA == [n \in Layers |-> DExtensionStiffness2D(Layer(c, n), Layer(d, n))]
           dB == [n \in Layers |-> DExtensionBending2D(Layer(c, n), Layer(d, n))]
           dC == [n \in Layers |-> DBending2D(Layer(c, n), Layer(d, n))]
<1>3. ASSUME NEW n \in Layers
      PROVE  /\ Moves(A(c)[n], A(c2)[n], dA[n]) /\ DOMAIN A(c)[n] = D
             /\ Moves(B(c)[n], B(c2)[n], dB[n]) /\ DOMAIN B(c)[n] = D
             /\ Moves(C(c)[n], C(c2)[n], dC[n]) /\ DOMAIN C(c)[n] = D
  <2> DEFINE l == Layer(c, n)
             l2 == Layer(c2, n)
             dl == Layer(d, n)
  <2>1. Near(l, l2, dl) /\ Regular(l)
    BY <1>2
  <2> HIDE DEF l, l2, dl
  <2>2. /\ Moves(ExtensionStiffness2D(l), ExtensionStiffness2D(l2), DExtensionStiffness2D(l, dl))
        /\ Moves(ExtensionBending2D(l), ExtensionBending2D(l2), DExtensionBending2D(l, dl))
        /\ Moves(Bending2D(l), Bending2D(l2), DBending2D(l, dl))
    BY <2>1, PlateStiffnessMoves
  <2> QED
    BY <1>1, <2>2 DEF l, l2, dl
<1> HIDE DEF A, B, C, dA, dB, dC
<1>4. /\ Moves(SumOfLayers(A(c)), SumOfLayers(A(c2)), SumOfLayers(dA))
      /\ Moves(SumOfLayers(B(c)), SumOfLayers(B(c2)), SumOfLayers(dB))
      /\ Moves(SumOfLayers(C(c)), SumOfLayers(C(c2)), SumOfLayers(dC))
  BY <1>3, LayersMove
<1> QED
  BY <1>4 DEF A, B, C, dA, dB, dC, LaminateA, LaminateB, LaminateD, DLaminateA, DLaminateB,
              DLaminateD
-----------------------------------------------------------------------------
(* The function objects of the cards.                                        *)

\* A card and what it becomes by a step in the direction d.
Stepped(c, d) == [p \in DOMAIN c |-> c[p] + (Prime * d[p])]

\* Every parameter changes by the step.
LEMMA SteppedNear ==
  ASSUME NEW N, NEW c \in [N -> Int], NEW d \in [N -> Int], CardNames \cup LayerNames \subseteq N
  PROVE  /\ Near(c, Stepped(c, d), d) /\ LayersNear(c, Stepped(c, d), d)
         /\ "tilt" \in DOMAIN c /\ Stepped(c, d).tilt = c.tilt + (Prime * d.tilt)
         /\ c = [p \in DOMAIN c |-> c[p]] /\ d = [p \in DOMAIN c |-> d[p]]
         /\ Stepped(c, d) = [p \in DOMAIN c |-> Stepped(c, d)[p]] /\ CardNames \subseteq DOMAIN c
<1>1. ASSUME NEW a \in Int, NEW x \in Int PROVE Tangent(a, a + (Prime * x), x)
  <2>1. a + (Prime * x) \in Int
    BY PrimeFacts
  <2> QED
    BY <2>1, PrimeFacts, EqualFacts DEF Tangent
<1>2. \A p \in N : Tangent(c[p], Stepped(c, d)[p], d[p])
  BY <1>1 DEF Stepped
<1>3. "tilt" \in N
  BY DEF CardNames, MaterialParameters
<1>4. Stepped(c, d).tilt = c.tilt + (Prime * d.tilt)
  BY <1>3 DEF Stepped
<1>5. /\ c = [p \in DOMAIN c |-> c[p]] /\ d = [p \in DOMAIN c |-> d[p]]
      /\ Stepped(c, d) = [p \in DOMAIN c |-> Stepped(c, d)[p]]
  BY DEF Stepped
<1> QED
  BY <1>2, <1>3, <1>4, <1>5 DEF Near, LayersNear

\* The directions in which the code does not differentiate the object o.
GapOf(o) ==
  {n \in {"rho", "hy", "hz", "offy"} : o = "beam inertia"} \cup
  {n \in {"rho", "h", "off"} : o = "plate inertia"} \cup
  {n \in {"kappa"} : o = "orthotropic shear"}

\* The objects of the materials.
LEMMA MaterialObjectMoves ==
  ASSUME NEW N, NEW c \in [N -> Int], NEW d \in [N -> Int], CardNames \cup LayerNames \subseteq N,
         Regular(c), NEW o \in MaterialObjects
  PROVE  Moves(CardValue(o, c), CardValue(o, Stepped(c, d)), CardDerivative(o, c, d))
<1> DEFINE c2 == Stepped(c, d)
<1>1. /\ Near(c, c2, d) /\ "tilt" \in DOMAIN c /\ c2.tilt = c.tilt + (Prime * d.tilt)
  BY SteppedNear
<1> SUFFICES Moves(CardValue(o, c), CardValue(o, c2), CardDerivative(o, c, d))
  OBVIOUS
<1> HIDE DEF c2
<1>2. CASE o = "stiffness 1d"
  BY <1>1, <1>2, Stiffness1DMoves DEF CardValue, CardDerivative
<1>3. CASE o = "transverse shear"
  BY <1>1, <1>3, TransverseMoves DEF CardValue, CardDerivative
<1>4. CASE o = "stiffness 2d"
  BY <1>1, <1>4, Stiffness2DMoves DEF CardValue, CardDerivative
<1>5. CASE o = "stiffness 3d"
  BY <1>1, <1>5, Stiffness3DMoves DEF CardValue, CardDerivative
<1>6. CASE o = "inertia 3d"
  BY <1>1, <1>6, PlainMoves DEF CardValue, CardDerivative
<1>7. CASE o = "expansion"
  BY <1>1, <1>7, PlainMoves, 3 \in Nat DEF CardValue, CardDerivative
<1>8. CASE o = "capacitance"
  BY <1>1, <1>8, PlainMoves DEF CardValue, CardDerivative
<1>9. CASE o = "conductance"
  BY <1>1, <1>9, PlainMoves, 3 \in Nat DEF CardValue, CardDerivative
<1>10. CASE o = "orthotropic 2d"
  BY <1>1, <1>10, Orthotropic2DMoves DEF CardValue, CardDerivative
<1>11. CASE o = "orthotropic 3d"
  BY <1>1, <1>11, Orthotropic3DMoves DEF CardValue, CardDerivative
<1>12. CASE o = "oriented stiffness"
  BY <1>1, <1>12, OrientedMoves DEF CardValue, CardDerivative
<1>13. CASE o = "oriented expansion"
  BY <1>1, <1>13, OrientedMoves DEF CardValue, CardDerivative
<1>14. CASE o = "oriented conductance"
  BY <1>1, <1>14, OrientedMoves DEF CardValue, CardDerivative
<1> QED
  BY <1>2, <1>3, <1>4, <1>5, <1>6, <1>7, <1>8, <1>9, <1>10, <1>11, <1>12, <1>13, <1>14
     DEF MaterialObjects

\* The objects of the beam section.
LEMMA BeamObjectMoves ==
  ASSUME NEW N, NEW c \in [N -> Int], NEW d \in [N -> Int], CardNames \cup LayerNames \subseteq N,
         Regular(c), NEW o \in BeamObjects
  PROVE  Moves(CardValue(o, c), CardValue(o, Stepped(c, d)), CardDerivative(o, c, d))
<1> DEFINE c2 == Stepped(c, d)
<1>1. Near(c, c2, d)
  BY SteppedNear
<1> SUFFICES Moves(CardValue(o, c), CardValue(o, c2), CardDerivative(o, c, d))
  OBVIOUS
<1> HIDE DEF c2
<1>2. CASE o = "beam A"
  BY <1>1, <1>2, ExtensionStiffness1DMoves DEF CardValue, CardDerivative
<1>3. CASE o = "beam B"
  BY <1>1, <1>3, BeamStiffnessMoves DEF CardValue, CardDerivative
<1>4. CASE o = "beam D"
  BY <1>1, <1>4, BeamStiffnessMoves DEF CardValue, CardDerivative
<1>5. CASE o = "beam shear"
  BY <1>1, <1>5, BeamStiffnessMoves DEF CardValue, CardDerivative
<1>6. CASE o = "beam thermal A"
  BY <1>1, <1>6, BeamThermalMoves DEF CardValue, CardDerivative
<1>7. CASE o = "beam thermal B"
  BY <1>1, <1>7, BeamThermalMoves DEF CardValue, CardDerivative
<1>8. /\ \A m, m2, dm : Moves(m, m2, dm) =>
           Moves(Thermal1D(m, c), Thermal1D(m2, c2), DThermal1D(m, dm, c, d))
      /\ Moves(ThermalCapacitanceMatrix(c), ThermalCapacitanceMatrix(c2),
               DThermalCapacitanceMatrix(c, d))
      /\ Moves(ThermalConductanceMatrix(1, c), ThermalConductanceMatrix(1, c2),
               DThermalConductanceMatrix(1, c, d))
  BY <1>1, BeamThermalMoves, PlainMoves, 1 \in Nat
<1>9. CASE o = "beam capacitance"
  BY <1>8, <1>9 DEF CardValue, CardDerivative
<1>10. CASE o = "beam conductance"
  BY <1>8, <1>10 DEF CardValue, CardDerivative
<1> QED
  BY <1>2, <1>3, <1>4, <1>5, <1>6, <1>7, <1>9, <1>10 DEF BeamObjects

\* The objects of the plate section and of the laminate.
LEMMA PlateObjectMoves ==
  ASSUME NEW N, NEW c \in [N -> Int], NEW d \in [N -> Int], CardNames \cup LayerNames \subseteq N,
         Regular(c), NEW o \in PlateObjects
  PROVE  Moves(CardValue(o, c), CardValue(o, Stepped(c, d)), CardDerivative(o, c, d))
<1> DEFINE c2 == Stepped(c, d)
<1>1. /\ Near(c, c2, d) /\ LayersNear(c, c2, d) /\ CardNames \subseteq DOMAIN c
      /\ c = [p \in DOMAIN c |-> c[p]] /\ c2 = [p \in DOMAIN c |-> c2[p]]
      /\ d = [p \in DOMAIN c |-> d[p]]
  BY SteppedNear
<1> SUFFICES Moves(CardValue(o, c), CardValue(o, c2), CardDerivative(o, c, d))
  OBVIOUS
<1> HIDE DEF c2
<1>2. CASE o = "plate A"
  BY <1>1, <1>2, PlateStiffnessMoves DEF CardValue, CardDerivative
<1>3. CASE o = "plate B"
  BY <1>1, <1>3, PlateStiffnessMoves DEF CardValue, CardDerivative
<1>4. CASE o = "plate D"
  BY <1>1, <1>4, PlateStiffnessMoves DEF CardValue, CardDerivative
<1>5. CASE o = "plate shear"
  BY <1>1, <1>5, PlateStiffnessMoves DEF CardValue, CardDerivative
<1>6. CASE o = "plate thermal A"
  BY <1>1, <1>6, PlateThermalMoves DEF CardValue, CardDerivative
<1>7. CASE o = "plate thermal B"
  BY <1>1, <1>7, PlateThermalMoves DEF CardValue, CardDerivative
<1>8. /\ \A m, m2, dm : Moves(m, m2, dm) =>
           Moves(Thermal2D(m, c), Thermal2D(m2, c2), DThermal2D(m, dm, c, d))
      /\ Moves(ThermalCapacitanceMatrix(c), ThermalCapacitanceMatrix(c2),
               DThermalCapacitanceMatrix(c, d))
      /\ Moves(ThermalConductanceMatrix(2, c), ThermalConductanceMatrix(2, c2),
               DThermalConductanceMatrix(2, c, d))
  BY <1>1, PlateThermalMoves, PlainMoves, 2 \in Nat
<1>9. CASE o = "plate capacitance"
  BY <1>8, <1>9 DEF CardValue, CardDerivative
<1>10. CASE o = "plate conductance"
  BY <1>8, <1>10 DEF CardValue, CardDerivative
<1>11. /\ Moves(LaminateA(c), LaminateA(c2), DLaminateA(c, d))
       /\ Moves(LaminateB(c), LaminateB(c2), DLaminateB(c, d))
       /\ Moves(LaminateD(c), LaminateD(c2), DLaminateD(c, d))
  BY <1>1, LaminateMoves
<1>12. CASE o = "laminate A"
  BY <1>11, <1>12 DEF CardValue, CardDerivative
<1>13. CASE o = "laminate B"
  BY <1>11, <1>13 DEF CardValue, CardDerivative
<1>14. CASE o = "laminate D"
  BY <1>11, <1>14 DEF CardValue, CardDerivative
<1> QED
  BY <1>2, <1>3, <1>4, <1>5, <1>6, <1>7, <1>9, <1>10, <1>12, <1>13, <1>14 DEF PlateObjects

\* The objects the code differentiates in some directions only, in the others.
LEMMA InertiaObjectMoves ==
  ASSUME NEW N, NEW c \in [N -> Int], NEW d \in [N -> Int], CardNames \cup LayerNames \subseteq N,
         Regular(c), NEW o \in InertiaObjects, \A n \in GapOf(o) : d[n] = 0
  PROVE  Moves(CardValue(o, c), CardValue(o, Stepped(c, d)), CardDerivative(o, c, d))
<1> DEFINE c2 == Stepped(c, d)
<1>1. Near(c, c2, d)
  BY SteppedNear
<1> SUFFICES Moves(CardValue(o, c), CardValue(o, c2), CardDerivative(o, c, d))
  OBVIOUS
<1> HIDE DEF c2
<1>2. CASE o = "beam inertia"
  <2>1. d.rho = 0 /\ d.hy = 0 /\ d.hz = 0 /\ d.offy = 0
    BY <1>2 DEF GapOf
  <2> QED
    BY <1>1, <1>2, <2>1, Inertia1DMoves DEF CardValue, CardDerivative
<1>3. CASE o = "plate inertia"
  <2>1. d.rho = 0 /\ d.h = 0 /\ d.off = 0
    BY <1>3 DEF GapOf
  <2> QED
    BY <1>1, <1>3, <2>1, Inertia2DMoves DEF CardValue, CardDerivative
<1>4. CASE o = "orthotropic shear"
  <2>1. d.kappa = 0
    BY <1>4 DEF GapOf
  <2> QED
    BY <1>1, <1>4, <2>1, TransverseMoves DEF CardValue, CardDerivative
<1> QED
  BY <1>2, <1>3, <1>4 DEF InertiaObjects

\* derivative() of every function object is the derivative of operator(),
\* for every card whose formulas divide by nothing that is zero.
THEOREM CardObjectsExact ==
  ASSUME NEW N, NEW c \in [N -> Int], NEW d \in [N -> Int], CardNames \cup LayerNames \subseteq N,
         Regular(c), NEW o \in CardObjects, \A n \in GapOf(o) : d[n] = 0
  PROVE  Agree(CardDerivative(o, c, d), Quotient(LAMBDA e : CardValue(o, e), c, d))
<1> DEFINE F(e) == CardValue(o, e)
           c2 == Stepped(c, d)
           q == Quotient(LAMBDA e : CardValue(o, e), c, d)
<1>1. Moves(F(c), F(c2), CardDerivative(o, c, d))
  BY MaterialObjectMoves, BeamObjectMoves, PlateObjectMoves, InertiaObjectMoves DEF CardObjects
<1>2. q = ByStep(F(c), F(c2))
  <2> DEFINE at(s) == [p \in DOMAIN c |-> c[p] + (s * d[p])]
  <2>1. at(0) = c /\ at(Prime) = c2
    BY DEF Stepped
  <2> HIDE DEF F
  <2>2. q = ByStep(F(at(0)), F(at(Prime)))
    BY DEF Quotient, BySteps, F
  <2> HIDE DEF at, c2
  <2> QED
    BY <2>1, <2>2
<1> HIDE DEF F, c2, q
<1>3. Agree(CardDerivative(o, c, d), ByStep(F(c), F(c2)))
  BY <1>1, StepMoves
<1> QED
  BY <1>2, <1>3 DEF q
-----------------------------------------------------------------------------
(* The invariant: a card's answer is its derivative at the current design.   *)

Names == AllParameters \cup AllUnknowns

\* The card parameters are those of one of the two designs, and the answer of a
\* card is derivative() at the design, in the direction of the parameter.
CardInv ==
  /\ design \in [Names -> Int]
  /\ \E c \in {Start, Other} : \A n \in AllParameters : design[n] = c[n]
  /\ answer.of[1] = "card" =>
       /\ answer.of[2] \in CardObjects
       /\ answer.m = CardDerivative(answer.of[2], design, Direction(answer.wrt))

\* The cards' parameters are among the parameters.
LEMMA NamesFacts == CardNames \cup LayerNames \subseteq AllParameters /\ AllParameters \subseteq Names
<1>1. CardNames \cup LayerNames \subseteq Parameters
  BY DEF CardNames, LayerNames, Parameters
<1> QED
  BY <1>1 DEF AllParameters, Names

\* A client that asks a card asks for one of its function objects.
LEMMA CardsAsked ==
  ASSUME NEW o \in Objects, o[1] = "card"
  PROVE  o[2] \in CardObjects /\ BySolution(o) = {}
<1>1. \A kinds, names, details : o \in Of(kinds, names, details) => o[1] \in kinds /\ o[2] \in names
  BY DEF Of
<1>2. \A kinds, names, details : "card" \notin kinds => o \notin Of(kinds, names, details)
  BY <1>1
<1>3. /\ "card" \notin {"heat"} /\ "card" \notin {"residual", "tangent", "thermal"}
      /\ "card" \notin {"residual", "thermal"} /\ "card" \notin {"coupling"}
      /\ "card" \notin {"stress", "heated stress"} /\ "card" \notin {"stress"}
      /\ "card" \notin {"functional"} /\ "card" \notin {"inertia"} /\ "card" \notin {"pressure"}
      /\ "card" \notin {"side pressure"} /\ "card" \notin {"piston", "piston tangent"}
      /\ "card" \notin {"flow"} /\ "card" \notin {"beam step"} /\ "card" \notin {"first step"}
  BY Zenon
<1>4. o \in Of({"card"}, CardObjects, {"all"})
  BY <1>2, <1>3, ZenonT(60) DEF Objects
<1>5. o[2] \in CardObjects
  BY <1>1, <1>4
<1>6. BySolution(o) = {}
  BY DEF BySolution
<1> QED
  BY <1>5, <1>6

\* Init establishes the invariant.
LEMMA CardInvInit == Init => CardInv
<1> SUFFICES ASSUME Init PROVE CardInv
  OBVIOUS
<1>1. design = Start /\ answer = NoAnswer
  BY DEF Init
<1>2. Start \in [Names -> Int]
  BY DesignAssumption DEF Names
<1>3. answer.of[1] # "card"
  BY <1>1 DEF NoAnswer
<1> QED
  BY <1>1, <1>2, <1>3 DEF CardInv

\* Every step keeps it.
LEMMA CardInvNext == CardInv /\ [Next]_vars => CardInv'
<1> SUFFICES ASSUME CardInv, [Next]_vars PROVE CardInv'
  OBVIOUS
<1>1. NoAnswer.of[1] # "card"
  BY DEF NoAnswer
<1>2. ASSUME UNCHANGED design, answer' = NoAnswer PROVE CardInv'
  BY <1>1, <1>2 DEF CardInv
<1>3. CASE UseAnswer
  BY <1>2, <1>3 DEF UseAnswer
<1>4. CASE InitSection
  BY <1>2, <1>4 DEF InitSection
<1>5. ASSUME NEW names, Change(names), AllParameters \subseteq names \/ AllParameters \cap names = {}
      PROVE  CardInv'
  <2>1. /\ answer' = NoAnswer
        /\ design' = [p \in Names |-> IF p \in names THEN Other[p] ELSE design[p]]
    BY <1>5 DEF Change, CardInv
  <2>2. Other \in [Names -> Int] /\ design \in [Names -> Int]
    BY DesignAssumption DEF CardInv, Names
  <2>3. design' \in [Names -> Int]
    BY <2>1, <2>2
  <2>4. \E c \in {Start, Other} : \A n \in AllParameters : design'[n] = c[n]
    BY <1>5, <2>1, NamesFacts DEF CardInv
  <2> QED
    BY <1>1, <2>1, <2>3, <2>4 DEF CardInv
<1>6. CASE SetDesign
  BY <1>5, <1>6 DEF SetDesign
<1>7. CASE SetSolution
  BY <1>5, <1>7, NamesAssumption DEF SetSolution
<1>8. ASSUME NEW o \in Objects, NEW f \in ByParameters(o), AskSensitivity(o, f)
      PROVE  CardInv'
  <2>1. /\ answer' = [of |-> o, wrt |-> f, m |-> Sensitivity(o, design, Direction(f))]
        /\ UNCHANGED design
    BY <1>8 DEF AskSensitivity
  <2>2. ASSUME o[1] = "card"
        PROVE  /\ o[2] \in CardObjects
               /\ Sensitivity(o, design, Direction(f)) = CardDerivative(o[2], design, Direction(f))
    BY <2>2, CardsAsked DEF Sensitivity
  <2>3. Direction(f)' = Direction(f)
    BY DEF Direction
  <2> QED
    BY <2>1, <2>2, <2>3 DEF CardInv
<1>9. ASSUME NEW o \in Objects, NEW u \in BySolution(o), AskJacobian(o, u)
      PROVE  CardInv'
  <2>1. answer'.of = o /\ UNCHANGED design
    BY <1>9 DEF AskJacobian
  <2>2. o[1] # "card"
    BY CardsAsked
  <2> QED
    BY <2>1, <2>2 DEF CardInv
<1>10. CASE UNCHANGED vars
  BY <1>10 DEF CardInv, vars
<1> QED
  BY <1>3, <1>4, <1>6, <1>7, <1>8, <1>9, <1>10 DEF Next

\* No parameter but the one itself changes in its direction.
LEMMA DirectionFacts ==
  ASSUME NEW f
  PROVE  Direction(f) \in [Names -> Int] /\ \A n \in Names : n # f => Direction(f)[n] = 0
BY DEF Direction, Names

\* A design that agrees with a regular one on the parameters is regular.
LEMMA RegularAgrees ==
  ASSUME NEW c, NEW e, \A n \in AllParameters : c[n] = e[n], Regular(e)
  PROVE  Regular(c)
<1>1. \A n \in CardNames : c[n] = e[n]
  BY NamesFacts
<1>2. /\ c.nu = e.nu /\ c.E11 = e.E11 /\ c.E22 = e.E22 /\ c.E33 = e.E33 /\ c.nu12 = e.nu12
      /\ c.nu13 = e.nu13 /\ c.nu23 = e.nu23 /\ c.tilt = e.tilt /\ c.hy = e.hy /\ c.hz = e.hz
  BY <1>1 DEF CardNames, MaterialParameters, SectionParameters
<1> QED
  BY <1>2 DEF Regular, Compressibility, OrthotropicDet, Nu21, Nu31, Nu32

\* The invariant gives the property: the directions in which an object is not
\* differentiated are among the known gaps.
LEMMA CardInvExact == CardInv => CardDerivativesExact
<1> SUFFICES ASSUME CardInv, answer.of[1] = "card", ~KnownGap
             PROVE  IsDerivativeOf(LAMBDA c : CardValue(answer.of[2], c))
  BY DEF CardDerivativesExact
<1> DEFINE o == answer.of[2]
           f == answer.wrt
           d == Direction(f)
<1>1. /\ design \in [Names -> Int] /\ d \in [Names -> Int] /\ o \in CardObjects
      /\ answer.m = CardDerivative(o, design, d)
  BY DirectionFacts DEF CardInv
<1>2. Regular(design)
  BY RegularAgrees, RegularAssumption DEF CardInv
<1>3. CardNames \cup LayerNames \subseteq Names
  BY NamesFacts
<1>4. \A n \in GapOf(o) : d[n] = 0
  <2>1. f \notin GapOf(o)
    <3>1. /\ o = "beam inertia" => f \notin BeamInertiaGap
          /\ o = "plate inertia" => f \notin PlateInertiaGap
          /\ o = "orthotropic shear" => f # "kappa"
      BY Zenon DEF KnownGap
    <3> QED
      BY <3>1, Zenon DEF GapOf, BeamInertiaGap, PlateInertiaGap
  <2>2. GapOf(o) \subseteq CardNames
    BY Zenon DEF GapOf, CardNames, MaterialParameters, SectionParameters
  <2> QED
    BY <1>3, <2>1, <2>2, DirectionFacts
<1>5. Agree(CardDerivative(o, design, d), Quotient(LAMBDA e : CardValue(o, e), design, d))
  <2> HIDE DEF o, d
  <2> QED
    BY <1>1, <1>2, <1>3, <1>4, CardObjectsExact
<1> QED
  BY <1>1, <1>5 DEF IsDerivativeOf

\* Whatever a client changes and asks, derivative() of a property card (of an
\* isotropic, orthotropic or oriented material, a beam or plate section or a
\* laminate) answers with the derivative of operator() at the current design.
THEOREM CardsAlwaysExact == Spec => []CardDerivativesExact
<1>1. Spec => []CardInv
  BY CardInvInit, CardInvNext, PTL DEF Spec
<1> QED
  BY <1>1, CardInvExact, PTL
=============================================================================
