------------------------- MODULE LevelSetElementsProofs -------------------------
(***************************************************************************)
(* Proofs about the elements the level set cuts.                           *)
(*                                                                         *)
(* First, LevelSetIntersection, for every convex quadrilateral, set of     *)
(* values, tolerance and number of cut positions on a side:                *)
(*   - the selection of a mode, by the signs around its reference side;    *)
(*   - the invariant Inv: what the object holds is one of the results of   *)
(*     init for the element it was given;                                  *)
(*   - the signs of the sub-elements, from the selection;                  *)
(*   - the sides they share, from the lists of their nodes;                *)
(*   - that they divide the element, from where the new nodes are.         *)
(*                                                                         *)
(* Then, FactoredElements, for every mesh, every set of factored elements  *)
(* on it, all element equations that can be solved and every field of      *)
(* remainders:                                                             *)
(*   - sums over finite sets, congruences, products of rows and vectors;   *)
(*   - Solve finds the only solution of nonsingular equations;             *)
(*   - condensing the void rows of an element, and recovering its copies;  *)
(*   - the sum over the elements, and the invariant FactoredInv.           *)
(***************************************************************************)
EXTENDS LevelSetIntersection, FactoredElements, TLAPS, FiniteSetTheorems, FunctionTheorems,
        SequenceTheorems
-----------------------------------------------------------------------------
(* Finite sets: least and greatest elements, and counting corners.         *)

\* A finite nonempty set of integers has a least element.
LEMMA LowestExists ==
  ASSUME NEW S, IsFiniteSet(S), S \subseteq Int, S # {}
  PROVE  Lowest(S) \in S /\ \A y \in S : Lowest(S) <= y
<1> DEFINE HasLeast(Z) == \E x \in Z : \A y \in Z : x <= y
           Bad == {Z \in SUBSET S : Z # {} /\ ~HasLeast(Z)}
<1>1. SUFFICES Bad = {}
  BY <1>1 DEF Lowest
<1>2. SUFFICES ASSUME Bad # {} PROVE FALSE
  OBVIOUS
<1>3. Bad \subseteq FiniteSubsetsOf(S)
  BY FS_FiniteSubsetsOfFinite
<1> HIDE DEF Bad
<1>4. PICK Z \in Bad : \A Y \in Bad : ~ (<<Y, Z>> \in StrictSubsetOrdering(S))
  BY <1>2, <1>3, FS_StrictSubsetOrderingWellFounded, WFMin
<1>5. Z \in SUBSET S /\ Z # {} /\ ~HasLeast(Z)
  BY <1>4 DEF Bad
<1>6. PICK x : x \in Z
  BY <1>5
<1>7. Z \ {x} # {}
  <2>1. SUFFICES ASSUME Z = {x} PROVE FALSE
    BY <1>6
  <2> QED BY <2>1, <1>5, <1>6
<1>8. <<Z \ {x}, Z>> \in StrictSubsetOrdering(S)
  BY <1>5, <1>6 DEF StrictSubsetOrdering
<1>9. Z \ {x} \notin Bad
  BY <1>4, <1>8
<1>10. PICK m \in Z \ {x} : \A y \in Z \ {x} : m <= y
  BY <1>5, <1>7, <1>9 DEF Bad
<1>11. x \in Int /\ m \in Int /\ \A y \in Z : y \in Int
  BY <1>5, <1>6, <1>10
<1>12. CASE x <= m
  <2>1. \A y \in Z : x <= y
    BY <1>10, <1>11, <1>12
  <2> QED BY <2>1, <1>5, <1>6
<1>13. CASE m <= x
  <2>1. \A y \in Z : m <= y
    BY <1>10, <1>11, <1>13
  <2> QED BY <2>1, <1>5, <1>10
<1> QED BY <1>11, <1>12, <1>13

\* And a greatest one: the opposite of the least of the opposites.
LEMMA HighestExists ==
  ASSUME NEW S, IsFiniteSet(S), S \subseteq Int, S # {}
  PROVE  Highest(S) \in S /\ \A y \in S : y <= Highest(S)
<1> DEFINE HasMost(Z) == \E x \in Z : \A y \in Z : y <= x
           Bad == {Z \in SUBSET S : Z # {} /\ ~HasMost(Z)}
<1>1. SUFFICES Bad = {}
  BY <1>1 DEF Highest
<1>2. SUFFICES ASSUME Bad # {} PROVE FALSE
  OBVIOUS
<1>3. Bad \subseteq FiniteSubsetsOf(S)
  BY FS_FiniteSubsetsOfFinite
<1> HIDE DEF Bad
<1>4. PICK Z \in Bad : \A Y \in Bad : ~ (<<Y, Z>> \in StrictSubsetOrdering(S))
  BY <1>2, <1>3, FS_StrictSubsetOrderingWellFounded, WFMin
<1>5. Z \in SUBSET S /\ Z # {} /\ ~HasMost(Z)
  BY <1>4 DEF Bad
<1>6. PICK x : x \in Z
  BY <1>5
<1>7. Z \ {x} # {}
  <2>1. SUFFICES ASSUME Z = {x} PROVE FALSE
    BY <1>6
  <2> QED BY <2>1, <1>5, <1>6
<1>8. <<Z \ {x}, Z>> \in StrictSubsetOrdering(S)
  BY <1>5, <1>6 DEF StrictSubsetOrdering
<1>9. Z \ {x} \notin Bad
  BY <1>4, <1>8
<1>10. PICK m \in Z \ {x} : \A y \in Z \ {x} : y <= m
  BY <1>5, <1>7, <1>9 DEF Bad
<1>11. x \in Int /\ m \in Int /\ \A y \in Z : y \in Int
  BY <1>5, <1>6, <1>10
<1>12. CASE m <= x
  <2>1. \A y \in Z : y <= x
    BY <1>10, <1>11, <1>12
  <2> QED BY <2>1, <1>5, <1>6
<1>13. CASE x <= m
  <2>1. \A y \in Z : y <= m
    BY <1>10, <1>11, <1>13
  <2> QED BY <2>1, <1>5, <1>10
<1> QED BY <1>11, <1>12, <1>13

Count(b) == IF b THEN 1 ELSE 0

\* One more candidate for membership.
LEMMA CountOne ==
  ASSUME NEW T, NEW x, NEW S, IsFiniteSet(T), x \notin T
  PROVE  LET U == T \cup (S \cap {x})
         IN  IsFiniteSet(U) /\ Cardinality(U) = Cardinality(T) + Count(x \in S)
<1>0. Cardinality(T) \in Nat
  BY FS_CardinalityType
<1>1. CASE x \in S
  <2>1. T \cup (S \cap {x}) = T \cup {x}
    BY <1>1
  <2> QED BY <2>1, <1>1, FS_AddElement DEF Count
<1>2. CASE x \notin S
  <2>1. T \cup (S \cap {x}) = T
    BY <1>2
  <2>2. Count(x \in S) = 0
    BY <1>2 DEF Count
  <2> HIDE DEF Count
  <2>3. Cardinality(T) = Cardinality(T) + Count(x \in S)
    BY <2>2, <1>0
  <2> QED BY <2>1, <2>3
<1> QED BY <1>1, <1>2

\* The number of corners in a set, corner by corner.
LEMMA CountCorners ==
  ASSUME NEW S \in SUBSET Corners
  PROVE  /\ IsFiniteSet(S)
         /\ Cardinality(S) = Count(0 \in S) + Count(1 \in S) + Count(2 \in S) + Count(3 \in S)
<1> DEFINE T == {} \cup (S \cap {0})
           U == T \cup (S \cap {1})
           V == U \cup (S \cap {2})
           W == V \cup (S \cap {3})
<1>1. IsFiniteSet(T) /\ Cardinality(T) = Cardinality({}) + Count(0 \in S)
  BY CountOne, FS_EmptySet
<1>2. 1 \notin T /\ 2 \notin U /\ 3 \notin V /\ W = S
  <2>1. 1 \notin T /\ 2 \notin U /\ 3 \notin V
    OBVIOUS
  <2>2. \A i \in S : i = 0 \/ i = 1 \/ i = 2 \/ i = 3
    BY DEF Corners
  <2>3. \A i \in S : i \in W
    BY <2>2
  <2>4. W \subseteq S
    OBVIOUS
  <2> QED BY <2>1, <2>3, <2>4
<1> HIDE DEF T, U, V, W
<1>3. IsFiniteSet(U) /\ Cardinality(U) = Cardinality(T) + Count(1 \in S)
  BY <1>1, <1>2, CountOne DEF U
<1>4. IsFiniteSet(V) /\ Cardinality(V) = Cardinality(U) + Count(2 \in S)
  BY <1>3, <1>2, CountOne DEF V
<1>5. IsFiniteSet(W) /\ Cardinality(W) = Cardinality(V) + Count(3 \in S)
  BY <1>4, <1>2, CountOne DEF W
<1>6. Cardinality(W) = Count(0 \in S) + Count(1 \in S) + Count(2 \in S) + Count(3 \in S)
  BY <1>1, <1>3, <1>4, <1>5, FS_EmptySet DEF Count
<1> QED BY <1>2, <1>5, <1>6

\* The first of a set of corners belongs to it.
LEMMA FirstOf ==
  ASSUME NEW S \in SUBSET Corners, S # {}
  PROVE  First(S) \in S /\ \A j \in S : First(S) <= j
<1>1. S \subseteq Int /\ IsFiniteSet(S)
  BY CountCorners DEF Corners
<1>2. First(S) = Lowest(S)
  BY DEF First, Lowest
<1> QED BY <1>1, <1>2, LowestExists
-----------------------------------------------------------------------------
(* Signs at the corners, and what they are in each mode.                  *)

\* Node values as init sees them.
PhiKnown == phi \in [Corners -> Values] /\ inner \in SUBSET Values

Above(i) == phi[i % 4] > Tol
Below(i) == phi[i % 4] < -Tol
Alike(i, j) == (Above(i) /\ Above(j)) \/ (Below(i) /\ Below(j))
Unlike(i, j) == (Above(i) /\ Below(j)) \/ (Below(i) /\ Above(j))

\* A corner is above the tolerance, below it or on the level set.
LEMMA OneSign ==
  ASSUME PhiKnown, NEW i \in Corners
  PROVE  /\ phi[i] \in Int
         /\ phi[i] > Tol \/ phi[i] < -Tol \/ OnLevelSet(phi[i])
         /\ ~(phi[i] > Tol /\ phi[i] < -Tol)
         /\ ~(phi[i] > Tol /\ OnLevelSet(phi[i]))
         /\ ~(phi[i] < -Tol /\ OnLevelSet(phi[i]))
<1>1. phi[i] \in Values
  BY DEF PhiKnown
<1>2. phi[i] \in Int /\ Tol \in Nat /\ Tol # 0 /\ phi[i] # Tol /\ phi[i] # -Tol
  BY <1>1, ValuesAssumption
<1> QED BY <1>2 DEF OnLevelSet

\* The number of cuts, corner by corner and side by side.
LEMMA CutsCount ==
  Cuts = (Count(NodeCut(0)) + Count(NodeCut(1)) + Count(NodeCut(2)) + Count(NodeCut(3)))
         + (Count(SideCut(0)) + Count(SideCut(1)) + Count(SideCut(2)) + Count(SideCut(3)))
<1>1. CutNodes \in SUBSET Corners /\ CutSides \in SUBSET Corners
  BY DEF CutNodes, CutSides
<1>2. \A i \in Corners : (i \in CutNodes <=> NodeCut(i)) /\ (i \in CutSides <=> SideCut(i))
  BY DEF CutNodes, CutSides
<1>3. 0 \in Corners /\ 1 \in Corners /\ 2 \in Corners /\ 3 \in Corners
  BY DEF Corners
<1>4. \A i \in Corners : /\ Count(i \in CutNodes) = Count(NodeCut(i))
                         /\ Count(i \in CutSides) = Count(SideCut(i))
  BY <1>2 DEF Count
<1>5. /\ Cardinality(CutNodes) = Count(0 \in CutNodes) + Count(1 \in CutNodes)
                                 + Count(2 \in CutNodes) + Count(3 \in CutNodes)
      /\ Cardinality(CutSides) = Count(0 \in CutSides) + Count(1 \in CutSides)
                                 + Count(2 \in CutSides) + Count(3 \in CutSides)
  BY <1>1, CountCorners
<1>6. /\ Cardinality(CutNodes) = Count(NodeCut(0)) + Count(NodeCut(1))
                                 + Count(NodeCut(2)) + Count(NodeCut(3))
      /\ Cardinality(CutSides) = Count(SideCut(0)) + Count(SideCut(1))
                                 + Count(SideCut(2)) + Count(SideCut(3))
  BY <1>3, <1>4, <1>5, Zenon
<1> QED BY <1>6 DEF Cuts

\* Facts about the four corners that every selection below rests on.
LEMMA CornerFacts ==
  ASSUME PhiKnown
  PROVE  /\ \A i \in Corners :
              /\ Above(i) \/ Below(i) \/ NodeCut(i)
              /\ ~(Above(i) /\ Below(i)) /\ ~(Above(i) /\ NodeCut(i)) /\ ~(Below(i) /\ NodeCut(i))
         /\ \A i \in Corners : SideCut(i) <=> Unlike(i, i + 1)
<1>1. \A i \in Corners : i % 4 = i /\ (i + 1) % 4 \in Corners /\ ((i + 1) % 4) % 4 = (i + 1) % 4
  BY DEF Corners
<1>2. \A i \in Corners : /\ Above(i) <=> phi[i] > Tol
                         /\ Below(i) <=> phi[i] < -Tol
                         /\ NodeCut(i) <=> OnLevelSet(phi[i])
  BY <1>1 DEF Above, Below, NodeCut
<1>3. \A i \in Corners : SideCut(i) <=> Unlike(i, i + 1)
  BY DEF SideCut, Unlike, Above, Below, OppositeSigns
<1> QED BY <1>2, <1>3, OneSign

\* The signs that lead to each mode, seen from its reference side or node r.
AdjacentSigns(r) == Unlike(r, r+1) /\ Unlike(r+1, r+2) /\ Alike(r+2, r+3) /\ Alike(r+3, r)
OppositeEdgeSigns(r) == Unlike(r, r+1) /\ Alike(r+1, r+2) /\ Unlike(r+2, r+3) /\ Alike(r+3, r)
NodeAndEdgeSigns(r, d) ==
    /\ d \in {1, 2} /\ NodeCut(r)
    /\ IF d = 1 THEN Unlike(r+1, r+2) /\ Alike(r+2, r+3) ELSE Alike(r+1, r+2) /\ Unlike(r+2, r+3)
OppositeNodeSigns(r) ==
    r \in {0, 1} /\ NodeCut(r) /\ NodeCut(r+2) /\ ~NodeCut(r+1) /\ ~NodeCut(r+3)
NodeAndTwoEdgeSigns(r) == NodeCut(r) /\ Unlike(r+1, r+2) /\ Unlike(r+2, r+3)
AlternatingSigns(r) ==
    r \in {0, 1} /\ Unlike(r, r+1) /\ Unlike(r+1, r+2) /\ Unlike(r+2, r+3) /\ Unlike(r+3, r)

\* Nothing changes when the corners are counted once around.
LEMMA Around ==
  ASSUME NEW i \in 0 .. 7
  PROVE  /\ NodeCut(i) <=> NodeCut(i % 4)
         /\ SideCut(i) <=> SideCut(i % 4)
         /\ Above(i) <=> Above(i % 4)
         /\ Below(i) <=> Below(i % 4)
<1>1. (i % 4) % 4 = i % 4 /\ ((i % 4) + 1) % 4 = (i + 1) % 4
  OBVIOUS
<1> QED BY <1>1 DEF NodeCut, SideCut, Above, Below

\* Each corner in Boolean terms: the form in which the selections are decided.
LEMMA Corner4 ==
  ASSUME PhiKnown, NEW r \in Corners
  PROVE  /\ \A k \in {0, 1, 2, 3} :
              /\ Above(r+k) \/ Below(r+k) \/ NodeCut(r+k)
              /\ ~(Above(r+k) /\ Below(r+k))
              /\ ~(Above(r+k) /\ NodeCut(r+k)) /\ ~(Below(r+k) /\ NodeCut(r+k))
         /\ SideCut(r) <=> Unlike(r, r+1)
         /\ SideCut(r+1) <=> Unlike(r+1, r+2)
         /\ SideCut(r+2) <=> Unlike(r+2, r+3)
         /\ SideCut(r+3) <=> Unlike(r+3, r)
         /\ Cuts =
              (Count(NodeCut(r)) + Count(NodeCut(r+1)) + Count(NodeCut(r+2)) + Count(NodeCut(r+3)))
                 + (Count(SideCut(r)) + Count(SideCut(r+1)) + Count(SideCut(r+2)) + Count(SideCut(r+3)))
<1>1. r = 0 \/ r = 1 \/ r = 2 \/ r = 3
  BY DEF Corners
<1>2. \A i \in 0 .. 7 : i % 4 \in Corners
  BY DEF Corners
<1>3. \A i \in 0 .. 7 : /\ Above(i) \/ Below(i) \/ NodeCut(i)
                        /\ ~(Above(i) /\ Below(i))
                        /\ ~(Above(i) /\ NodeCut(i)) /\ ~(Below(i) /\ NodeCut(i))
  BY <1>2, Around, CornerFacts, Zenon
<1>4. r + 0 \in 0 .. 7 /\ r + 1 \in 0 .. 7 /\ r + 2 \in 0 .. 7 /\ r + 3 \in 0 .. 7
  BY DEF Corners
<1>5. \A i \in 0 .. 6 : SideCut(i) <=> Unlike(i, i + 1)
  <2>1. SUFFICES ASSUME NEW i \in 0 .. 6 PROVE SideCut(i) <=> Unlike(i, i + 1)
    OBVIOUS
  <2>2. SideCut(i % 4) <=> Unlike(i % 4, (i % 4) + 1)
    BY <1>2, CornerFacts
  <2>3. ((i % 4) % 4 = i % 4) /\ ((i % 4) + 1) % 4 = (i + 1) % 4
    OBVIOUS
  <2> QED BY <2>2, <2>3 DEF SideCut, Unlike, Above, Below
<1>6. SideCut(r+3) <=> Unlike(r+3, r)
  <2>1. SideCut(r+3) <=> Unlike(r+3, (r+3)+1)
    BY <1>5 DEF Corners
  <2>2. ((r+3)+1) % 4 = r % 4
    BY DEF Corners
  <2> QED BY <2>1, <2>2 DEF Unlike, Above, Below
<1>7. (r+1)+1 = r+2 /\ (r+2)+1 = r+3 /\ r+0 = r
  BY DEF Corners
<1>8. Cuts = (Count(NodeCut(r)) + Count(NodeCut(r+1)) + Count(NodeCut(r+2)) + Count(NodeCut(r+3)))
           + (Count(SideCut(r)) + Count(SideCut(r+1)) + Count(SideCut(r+2)) + Count(SideCut(r+3)))
  <2>1. /\ NodeCut(4) <=> NodeCut(0)
        /\ NodeCut(5) <=> NodeCut(1)
        /\ NodeCut(6) <=> NodeCut(2)
        /\ SideCut(4) <=> SideCut(0)
        /\ SideCut(5) <=> SideCut(1)
        /\ SideCut(6) <=> SideCut(2)
    BY DEF NodeCut, SideCut
  <2>2. /\ Count(NodeCut(4)) = Count(NodeCut(0)) /\ Count(NodeCut(5)) = Count(NodeCut(1))
        /\ Count(NodeCut(6)) = Count(NodeCut(2)) /\ Count(SideCut(4)) = Count(SideCut(0))
        /\ Count(SideCut(5)) = Count(SideCut(1)) /\ Count(SideCut(6)) = Count(SideCut(2))
    BY <2>1 DEF Count
  <2>3. \A b : Count(b) \in Int
    BY DEF Count
  <2>4. CASE r = 0
    BY <2>3, <2>4, CutsCount
  <2>5. CASE r = 1
    BY <2>2, <2>3, <2>5, CutsCount
  <2>6. CASE r = 2
    BY <2>2, <2>3, <2>6, CutsCount
  <2>7. CASE r = 3
    BY <2>2, <2>3, <2>7, CutsCount
  <2> QED BY <1>1, <2>4, <2>5, <2>6, <2>7
<1>9. \A k \in {0, 1, 2, 3} :
              /\ Above(r+k) \/ Below(r+k) \/ NodeCut(r+k)
              /\ ~(Above(r+k) /\ Below(r+k))
              /\ ~(Above(r+k) /\ NodeCut(r+k)) /\ ~(Below(r+k) /\ NodeCut(r+k))
  BY <1>3, <1>4
<1>10. /\ SideCut(r) <=> Unlike(r, r+1)
       /\ SideCut(r+1) <=> Unlike(r+1, r+2)
       /\ SideCut(r+2) <=> Unlike(r+2, r+3)
  <2>1. r \in 0 .. 6 /\ r + 1 \in 0 .. 6 /\ r + 2 \in 0 .. 6
    BY DEF Corners
  <2> QED BY <1>5, <1>7, <2>1
<1> QED BY <1>6, <1>8, <1>9, <1>10

\* Two cuts on neighbouring sides.
LEMMA AdjacentSelected ==
  ASSUME PhiKnown, Cuts = 2, NEW r \in Adjacent
  PROVE  AdjacentSigns(r)
<1>1. r \in Corners /\ SideCut(r) /\ SideCut(r+1)
  BY DEF Adjacent
<1>2. ~NodeCut(r+3) /\ ~SideCut(r+2) /\ ~SideCut(r+3)
  BY <1>1, Corner4 DEF Count
<1>3. (Above(r+3) \/ Below(r+3)) /\ (Above(r) \/ Below(r)) /\ (Above(r+2) \/ Below(r+2))
  BY <1>1, <1>2, Corner4 DEF Unlike
<1> QED BY <1>1, <1>2, <1>3, Corner4 DEF AdjacentSigns, Unlike, Alike

\* Two cuts on sides that face each other.
LEMMA FacingSelected ==
  ASSUME PhiKnown, Cuts = 2, Adjacent = {}, NEW r \in Facing
  PROVE  OppositeEdgeSigns(r)
<1>1. r \in Corners /\ SideCut(r) /\ SideCut(r+2)
  BY DEF Facing
<1>2. ~SideCut(r+1) /\ ~SideCut(r+3)
  BY <1>1, Corner4 DEF Count
<1> QED BY <1>1, <1>2, Corner4 DEF OppositeEdgeSigns, Unlike, Alike

\* Two nodes on the level set that face each other; r is the first of them.
LEMMA FacingNodesSelected ==
  ASSUME PhiKnown, Cuts = 2, FacingNodes # {}
  PROVE  OppositeNodeSigns(First(FacingNodes))
<1> DEFINE r == First(FacingNodes)
<1>1. FacingNodes \in SUBSET Corners
  BY DEF FacingNodes
<1>2. r \in FacingNodes /\ \A j \in FacingNodes : r <= j
  BY <1>1, FirstOf
<1> HIDE DEF r
<1>3. r \in Corners /\ NodeCut(r) /\ NodeCut(r+2)
  BY <1>2 DEF FacingNodes
<1>4. ~NodeCut(r+1) /\ ~NodeCut(r+3)
  BY <1>3, Corner4 DEF Count
<1>5. r \in {0, 1}
  <2>1. CASE r = 2
    <3>1. NodeCut(0) /\ NodeCut(2)
      BY <1>3, <2>1 DEF NodeCut
    <3>2. 0 \in FacingNodes
      BY <3>1 DEF FacingNodes, Corners
    <3> QED BY <3>2, <1>2, <2>1
  <2>2. CASE r = 3
    <3>1. NodeCut(1) /\ NodeCut(3)
      BY <1>3, <2>2 DEF NodeCut
    <3>2. 1 \in FacingNodes
      BY <3>1 DEF FacingNodes, Corners
    <3> QED BY <3>2, <1>2, <2>2
  <2> QED BY <2>1, <2>2, <1>3 DEF Corners
<1> QED BY <1>3, <1>4, <1>5 DEF OppositeNodeSigns, r

\* A node on the level set, and a cut on the side d sides further.
LEMMA NodeAndSideSelected ==
  ASSUME PhiKnown, Cuts = 2, NEW d \in {1, 2}, NEW r \in NodeAndSide(d)
  PROVE  NodeAndEdgeSigns(r, d)
<1>1. r \in Corners /\ NodeCut(r) /\ SideCut(r + d)
  BY DEF NodeAndSide
<1>2. CASE d = 1
  <2>1. ~SideCut(r+2) /\ ~NodeCut(r+3)
    BY <1>1, <1>2, Corner4 DEF Count
  <2> QED BY <1>1, <1>2, <2>1, Corner4 DEF NodeAndEdgeSigns, Unlike, Alike
<1>3. CASE d = 2
  <2>1. ~SideCut(r+1) /\ ~NodeCut(r+1)
    BY <1>1, <1>3, Corner4 DEF Count
  <2> QED BY <1>1, <1>3, <2>1, Corner4 DEF NodeAndEdgeSigns, Unlike, Alike
<1> QED BY <1>2, <1>3

\* A node on the level set and cuts on both sides that face it.
LEMMA NodeAndSidesSelected ==
  ASSUME PhiKnown, NEW r \in NodeAndSides
  PROVE  NodeAndTwoEdgeSigns(r)
<1>1. r \in Corners /\ NodeCut(r) /\ SideCut(r+1) /\ SideCut(r+2)
  BY DEF NodeAndSides
<1> QED BY <1>1, Corner4 DEF NodeAndTwoEdgeSigns

\* Cuts on all four sides.
LEMMA AlternatingSelected ==
  ASSUME PhiKnown, CutSides = Corners, NEW r \in {0, 1}
  PROVE  AlternatingSigns(r)
<1>1. \A i \in Corners : SideCut(i)
  BY DEF CutSides
<1>2. SideCut(0) /\ SideCut(1) /\ SideCut(2) /\ SideCut(3) /\ SideCut(4)
  <2>1. SideCut(4) <=> SideCut(0)
    BY DEF SideCut
  <2> QED BY <1>1, <2>1 DEF Corners
<1>3. r \in Corners /\ SideCut(r) /\ SideCut(r+1) /\ SideCut(r+2) /\ SideCut(r+3)
  BY <1>2 DEF Corners
<1> QED BY <1>3, Corner4 DEF AlternatingSigns

Choice(m, r, d) == [mode |-> m, ref |-> r, diff |-> d]

\* The mode that is selected, with its reference and the signs around it.
SelectionAt(r) ==
    \/ Selected = Choice("ADJACENT_EDGES", r, 0) /\ AdjacentSigns(r)
    \/ Selected = Choice("OPPOSITE_EDGES", r, 0) /\ OppositeEdgeSigns(r)
    \/ Selected = Choice("OPPOSITE_NODES", r, 0) /\ OppositeNodeSigns(r)
    \/ Selected = Choice("NODE_AND_EDGE", r, 1) /\ NodeAndEdgeSigns(r, 1)
    \/ Selected = Choice("NODE_AND_EDGE", r, 2) /\ NodeAndEdgeSigns(r, 2)
    \/ Selected = Choice("NODE_AND_TWO_EDGES", r, 1) /\ NodeAndTwoEdgeSigns(r)
    \/ Selected = Choice("TWO_ADJACENT_EDGES", r, 0) /\ AlternatingSigns(r)

\* Two cuts are two sides, two nodes, or a node and a side, and then a single
\* one: no two of the searches for a mode succeed.
LEMMA OneKindOfCuts ==
  ASSUME PhiKnown, Cuts = 2
  PROVE  /\ Adjacent # {} \/ Facing # {} =>
              FacingNodes = {} /\ NodeAndSide(1) = {} /\ NodeAndSide(2) = {}
         /\ FacingNodes # {} => NodeAndSide(1) = {} /\ NodeAndSide(2) = {}
         /\ NodeAndSide(1) = {} \/ NodeAndSide(2) = {}
<1>1. ASSUME NEW r \in Corners, NEW i \in Corners
      PROVE  \E k \in {0, 1, 2, 3} : NodeCut(i) <=> NodeCut(r+k)
  <2>1. \E k \in {0, 1, 2, 3} : i % 4 = (r+k) % 4
    BY DEF Corners
  <2> QED BY <2>1 DEF NodeCut
<1>2. ASSUME NEW r \in Corners, NEW i \in 0 .. 6
      PROVE  \E k \in {0, 1, 2, 3} : SideCut(i) <=> SideCut(r+k)
  <2>1. \E k \in {0, 1, 2, 3} : i % 4 = (r+k) % 4 /\ (i+1) % 4 = ((r+k)+1) % 4
    BY DEF Corners
  <2> QED BY <2>1 DEF SideCut
<1>3. ASSUME NEW r \in Corners, SideCut(r), SideCut(r+1) \/ SideCut(r+2)
      PROVE  FacingNodes = {} /\ NodeAndSide(1) = {} /\ NodeAndSide(2) = {}
  <2>1. \A k \in {0, 1, 2, 3} : ~NodeCut(r+k)
    <3>1. r + 0 = r
      BY DEF Corners
    <3> QED BY <1>3, <3>1, Corner4 DEF Count
  <2>2. \A i \in Corners : ~NodeCut(i)
    BY <1>1, <2>1
  <2> QED BY <2>2 DEF FacingNodes, NodeAndSide
<1>4. ASSUME NEW r \in Corners, NodeCut(r), NodeCut(r+2)
      PROVE  NodeAndSide(1) = {} /\ NodeAndSide(2) = {}
  <2>1. \A k \in {0, 1, 2, 3} : ~SideCut(r+k)
    <3>1. r + 0 = r
      BY DEF Corners
    <3> QED BY <1>4, <3>1, Corner4 DEF Count
  <2>2. \A i \in 0 .. 6 : ~SideCut(i)
    BY <1>2, <2>1
  <2> QED BY <2>2 DEF NodeAndSide, Corners
<1>5. ASSUME NEW r \in NodeAndSide(1), NEW i \in NodeAndSide(2)
      PROVE  FALSE
  <2>1. /\ r \in Corners /\ NodeCut(r) /\ SideCut(r+1)
        /\ i \in Corners /\ NodeCut(i) /\ SideCut(i+2)
    BY DEF NodeAndSide
  <2>2. ~NodeCut(r+1) /\ ~NodeCut(r+2) /\ ~NodeCut(r+3) /\ ~SideCut(r+2)
    BY <2>1, Corner4 DEF Count
  <2>3. i = r
    <3>1. i = r \/ i % 4 = (r+1) % 4 \/ i % 4 = (r+2) % 4 \/ i % 4 = (r+3) % 4
      BY <2>1 DEF Corners
    <3>2. NodeCut(r+1) \/ NodeCut(r+2) \/ NodeCut(r+3) \/ i = r
      BY <3>1, <2>1 DEF NodeCut
    <3> QED BY <3>2, <2>2
  <2> QED BY <2>1, <2>2, <2>3
<1>6. Adjacent # {} \/ Facing # {} =>
        FacingNodes = {} /\ NodeAndSide(1) = {} /\ NodeAndSide(2) = {}
  BY <1>3 DEF Adjacent, Facing
<1>7. FacingNodes # {} => NodeAndSide(1) = {} /\ NodeAndSide(2) = {}
  BY <1>4 DEF FacingNodes
<1> QED BY <1>5, <1>6, <1>7

\* Every selection is one of these.
LEMMA Selection ==
  ASSUME PhiKnown, Selected.mode # "NO_INTERSECTION"
  PROVE  \E r \in Corners : SelectionAt(r)
<1>1. /\ Adjacent \in SUBSET Corners /\ Facing \in SUBSET Corners
      /\ FacingNodes \in SUBSET Corners /\ NodeAndSides \in SUBSET Corners
      /\ NodeAndSide(1) \in SUBSET Corners /\ NodeAndSide(2) \in SUBSET Corners
  BY DEF Adjacent, Facing, FacingNodes, NodeAndSides, NodeAndSide
<1> DEFINE A == Cuts = 2 /\ Adjacent # {}
           B == Cuts = 2 /\ Adjacent = {} /\ Facing # {}
           C == Cuts = 2 /\ FacingNodes # {}
           D == Cuts = 2 /\ NodeAndSide(1) # {}
           E == Cuts = 2 /\ NodeAndSide(2) # {}
           F == Cuts = 3 /\ NodeAndSides # {}
           G == Cuts = 4 /\ CutSides = Corners
<1>2. A \/ B \/ C \/ D \/ E \/ F \/ G
  BY DEF Selected
<1>3. CASE A
  <2> DEFINE r == First(Adjacent)
  <2>1. r \in Adjacent
    BY <1>1, <1>3, FirstOf
  <2>2. Selected = Choice("ADJACENT_EDGES", r, 0)
    BY <1>3, OneKindOfCuts DEF Selected, Choice
  <2>3. AdjacentSigns(r)
    BY <2>1, <1>3, AdjacentSelected
  <2> QED BY <1>1, <2>1, <2>2, <2>3 DEF SelectionAt
<1>4. CASE B
  <2> DEFINE r == First(Facing)
  <2>1. r \in Facing
    BY <1>1, <1>4, FirstOf
  <2>2. Selected = Choice("OPPOSITE_EDGES", r, 0)
    BY <1>4, OneKindOfCuts DEF Selected, Choice
  <2>3. OppositeEdgeSigns(r)
    BY <2>1, <1>4, FacingSelected
  <2> QED BY <1>1, <2>1, <2>2, <2>3 DEF SelectionAt
<1>5. CASE ~A /\ ~B /\ C
  <2> DEFINE r == First(FacingNodes)
  <2>1. r \in FacingNodes
    BY <1>1, <1>5, FirstOf
  <2>2. Selected = Choice("OPPOSITE_NODES", r, 0)
    BY <1>5, OneKindOfCuts DEF Selected, Choice
  <2>3. OppositeNodeSigns(r)
    BY <1>5, FacingNodesSelected
  <2> QED BY <1>1, <2>1, <2>2, <2>3 DEF SelectionAt
<1>6. CASE ~A /\ ~B /\ ~C /\ D
  <2> DEFINE r == First(NodeAndSide(1))
  <2>1. r \in NodeAndSide(1)
    BY <1>1, <1>6, FirstOf
  <2>2. Selected = Choice("NODE_AND_EDGE", r, 1)
    BY <1>6, OneKindOfCuts DEF Selected, Choice
  <2>3. NodeAndEdgeSigns(r, 1)
    BY <2>1, <1>6, NodeAndSideSelected
  <2> QED BY <1>1, <2>1, <2>2, <2>3 DEF SelectionAt
<1>7. CASE ~A /\ ~B /\ ~C /\ ~D /\ E
  <2> DEFINE r == First(NodeAndSide(2))
  <2>1. r \in NodeAndSide(2)
    BY <1>1, <1>7, FirstOf
  <2>2. Selected = Choice("NODE_AND_EDGE", r, 2)
    BY <1>7 DEF Selected, Choice
  <2>3. NodeAndEdgeSigns(r, 2)
    BY <2>1, <1>7, NodeAndSideSelected
  <2> QED BY <1>1, <2>1, <2>2, <2>3 DEF SelectionAt
<1>8. CASE F
  <2> DEFINE r == First(NodeAndSides)
  <2>1. r \in NodeAndSides
    BY <1>1, <1>8, FirstOf
  <2>2. Selected = Choice("NODE_AND_TWO_EDGES", r, 1)
    BY <1>8 DEF Selected, Choice
  <2>3. NodeAndTwoEdgeSigns(r)
    BY <2>1, NodeAndSidesSelected
  <2> QED BY <1>1, <2>1, <2>2, <2>3 DEF SelectionAt
<1>9. CASE G
  <2> DEFINE r == IF (mid > 0 /\ phi[0] > 0) \/ (mid < 0 /\ phi[0] < 0) THEN 0 ELSE 1
  <2>1. r \in {0, 1}
    OBVIOUS
  <2>2. Selected = Choice("TWO_ADJACENT_EDGES", r, 0)
    BY <1>9 DEF Selected, Choice
  <2>3. AlternatingSigns(r)
    BY <2>1, <1>9, AlternatingSelected
  <2> QED BY <2>1, <2>2, <2>3 DEF SelectionAt, Corners
<1> QED BY <1>2, <1>3, <1>4, <1>5, <1>6, <1>7, <1>8, <1>9

\* The extremes of the node values, and what they say of the nodes.
LEMMA Extremes ==
  ASSUME PhiKnown
  PROVE  LET S == {phi[i] : i \in Corners} \cup inner
         IN  /\ MinValue \in S /\ MaxValue \in S
             /\ \A v \in S : v \in Int /\ v # Tol /\ v # -Tol /\ MinValue <= v /\ v <= MaxValue
<1> DEFINE P == {phi[i] : i \in Corners}
           S == P \cup inner
<1>1. P = {phi[0], phi[1], phi[2], phi[3]}
  BY DEF Corners
<1>2. P \subseteq Values /\ P # {}
  BY <1>1 DEF PhiKnown, Corners
<1>3. S \in SUBSET Values /\ S # {}
  BY <1>2 DEF PhiKnown
<1> HIDE DEF P, S
<1>4. IsFiniteSet(S)
  BY <1>3, ValuesAssumption, FS_Subset
<1>5. S \subseteq Int /\ \A v \in S : v # Tol /\ v # -Tol
  BY <1>3, ValuesAssumption
<1>6. MinValue = Lowest(S) /\ MaxValue = Highest(S)
  BY DEF MinValue, MaxValue, S, P
<1>7. /\ MinValue \in S /\ \A v \in S : MinValue <= v
      /\ MaxValue \in S /\ \A v \in S : v <= MaxValue
  BY <1>3, <1>4, <1>5, <1>6, LowestExists, HighestExists
<1>8. /\ MinValue \in S /\ MaxValue \in S
      /\ \A v \in S : v \in Int /\ v # Tol /\ v # -Tol /\ MinValue <= v /\ v <= MaxValue
  BY <1>5, <1>7
<1> QED BY <1>8 DEF S, P

\* An element that is cut has a corner or an inner node above the level set,
\* and one that is not.
LEMMA CutHasBoth ==
  ASSUME PhiKnown, ~Uncut
  PROVE  LET S == {phi[i] : i \in Corners} \cup inner
         IN  (\E v \in S : v > Tol) /\ (\E v \in S : v < Tol)
<1> DEFINE S == {phi[i] : i \in Corners} \cup inner
<1>1. /\ MinValue \in S /\ MaxValue \in S
      /\ MinValue \in Int /\ MaxValue \in Int /\ MinValue # Tol /\ MaxValue # Tol
  BY Extremes
<1>2. ~(MinValue > Tol) /\ ~(MaxValue < Tol) /\ Tol \in Int
  BY ValuesAssumption DEF Uncut
<1> HIDE DEF S
<1>3. MaxValue > Tol /\ MinValue < Tol
  BY <1>1, <1>2
<1> QED BY <1>1, <1>3 DEF S

\* The corners of an element without other nodes show every change of sign:
\* if it is divided, a mode fits.  init gives up on nine-node elements only.
LEMMA QuadHandled ==
  ASSUME PhiKnown, inner = {}, Divided
  PROVE  Selected.mode # "NO_INTERSECTION"
<1>1. Tol \in Int /\ \A i \in Corners : phi[i] \in Int /\ i % 4 = i
  BY OneSign, ValuesAssumption DEF Corners
<1>2. ~Uncut
  BY DEF Divided
<1>3. (\E i \in Corners : Above(i)) /\ (\E i \in Corners : ~Above(i))
  <2>1. (\E i \in Corners : phi[i] > Tol) /\ (\E i \in Corners : phi[i] < Tol)
    BY <1>2, CutHasBoth
  <2> QED BY <2>1, <1>1 DEF Above
<1>4. Cardinality(CutNodes) = 1 => SignChange
  BY DEF Divided, Touching
<1>5. SignChange => \E i \in Corners : Below(i)
  <2>1. SignChange => MinValue < -Tol
    BY DEF SignChange
  <2>2. \E i \in Corners : MinValue = phi[i]
    BY Extremes
  <2> QED BY <2>1, <2>2, <1>1 DEF Below
<1>6. \A i \in Corners : ~(NodeCut(i) /\ NodeCut(i+1))
  BY DEF Divided, ColinearSides
<1>7. CutNodes \in SUBSET Corners /\ \A i \in Corners : i \in CutNodes <=> NodeCut(i)
  BY DEF CutNodes
<1>8. Count(NodeCut(0)) + Count(NodeCut(1)) + Count(NodeCut(2)) + Count(NodeCut(3)) = 1
        => \E i \in Corners : Below(i)
  <2>1. \A i \in Corners : Count(i \in CutNodes) = Count(NodeCut(i))
    BY <1>7 DEF Count
  <2>2. 0 \in Corners /\ 1 \in Corners /\ 2 \in Corners /\ 3 \in Corners
    BY DEF Corners
  <2>3. Cardinality(CutNodes) = Count(NodeCut(0)) + Count(NodeCut(1))
                                + Count(NodeCut(2)) + Count(NodeCut(3))
    BY <1>7, <2>1, <2>2, CountCorners, Zenon
  <2> QED BY <2>3, <1>4, <1>5
<1>9. \A i \in Corners : i = 0 \/ i = 1 \/ i = 2 \/ i = 3
  BY DEF Corners
<1>10. \/ Cuts = 2 /\ \E i \in Corners : SideCut(i) /\ (SideCut(i+1) \/ SideCut(i+2))
       \/ Cuts = 2 /\ \E i \in Corners : NodeCut(i)
                                /\ (NodeCut(i+2) \/ SideCut(i+1) \/ SideCut(i+2))
       \/ Cuts = 3 /\ \E i \in Corners : NodeCut(i) /\ SideCut(i+1) /\ SideCut(i+2)
       \/ Cuts = 4 /\ \A i \in Corners : SideCut(i)
  <2>1. \A i \in 0 .. 3 : /\ NodeCut(i+4) <=> NodeCut(i)
                          /\ SideCut(i+4) <=> SideCut(i)
    <3>1. \A i \in 0 .. 3 : (i+4) % 4 = i % 4 /\ ((i+4)+1) % 4 = (i+1) % 4
      OBVIOUS
    <3> QED BY <3>1 DEF NodeCut, SideCut
  <2> QED BY <2>1, <1>3, <1>6, <1>8, <1>9, CutsCount, Corner4 DEF Corners, Count, Unlike
<1>11. CutSides = Corners <=> \A i \in Corners : SideCut(i)
  BY DEF CutSides
<1>12. \/ Cuts = 2 /\ (Adjacent # {} \/ Facing # {} \/ FacingNodes # {}
                         \/ NodeAndSide(1) # {} \/ NodeAndSide(2) # {})
       \/ Cuts = 3 /\ NodeAndSides # {}
       \/ Cuts = 4 /\ CutSides = Corners
  BY <1>10, <1>11 DEF Adjacent, Facing, FacingNodes, NodeAndSide, NodeAndSides
<1> QED BY <1>12, OneKindOfCuts DEF Selected
-----------------------------------------------------------------------------
(* The invariant: what the object holds in each stage.                    *)

Blank ==
    /\ mode = "NO_INTERSECTION" /\ onPositive = FALSE /\ onNegative = FALSE
    /\ newNodes = << >> /\ newElems = 0 /\ positive = << >> /\ negative = << >>

\* The element init was given.
ElementKnown ==
    /\ PhiKnown
    /\ kind \in {"QUAD4", "QUAD9"}
    /\ kind = "QUAD4" <=> inner = {}
    /\ xi \in [Changing(phi) -> 1 .. (Cells - 1)]

\* The element was taken whole.
Undivided(m, isPositive, side) ==
    /\ mode = m /\ newNodes = << >> /\ newElems = 0
    /\ positive = IF isPositive THEN <<Whole(side)>> ELSE << >>
    /\ negative = IF isPositive THEN << >> ELSE <<Whole(side)>>

WasUncut ==
    /\ Uncut
    /\ onPositive = (MinValue > Tol) /\ onNegative = (MinValue < Tol)
    /\ Undivided("NO_INTERSECTION", MinValue > Tol, NoEntry)

WasTouched ==
    /\ Touching /\ onPositive = FALSE /\ onNegative = FALSE
    /\ Undivided("THROUGH_NODE", MaxValue > Tol, NoEntry)

WasColinear ==
    /\ Colinear /\ onPositive = FALSE /\ onNegative = FALSE
    /\ Undivided("COLINEAR_EDGE", MaxValue > Tol, First(ColinearSides))

WasDivided ==
    /\ Divided /\ Selected.mode # "NO_INTERSECTION"
    /\ onPositive = FALSE /\ onNegative = FALSE
    /\ mode = Selected.mode
    /\ newNodes = NewNodes(Selected)
    /\ newElems = Len(Pieces(Selected).first) + Len(Pieces(Selected).second)
    /\ positive = IF FirstIsPositive(Selected) THEN Pieces(Selected).first
                  ELSE Pieces(Selected).second
    /\ negative = IF FirstIsPositive(Selected) THEN Pieces(Selected).second
                  ELSE Pieces(Selected).first

Outcome == WasUncut \/ WasTouched \/ WasColinear \/ WasDivided

Inv ==
    /\ stage \in {"clear", "evaluated", "initialized", "aborted"}
    /\ stage \in {"clear", "evaluated", "aborted"} => Blank
    /\ stage # "clear" => ElementKnown
    /\ stage = "initialized" => Outcome
    /\ stage = "aborted" => Divided /\ Selected.mode = "NO_INTERSECTION"

\* Appending to an empty list, for the lists that init builds.
LEMMA AppendToEmpty ==
  ASSUME NEW a, NEW b, NEW c, NEW d
  PROVE  /\ << >> \o << >> = << >> /\ << >> \o <<a>> = <<a>> /\ << >> \o <<a, b>> = <<a, b>>
         /\ << >> \o <<a, b, c>> = <<a, b, c>> /\ << >> \o <<a, b, c, d>> = <<a, b, c, d>>
         /\ Append(<< >>, a) = <<a>>
<1> DEFINE S == {a, b, c, d}
<1>1. << >> \in Seq(S) /\ <<a>> \in Seq(S) /\ <<a, b>> \in Seq(S)
      /\ <<a, b, c>> \in Seq(S) /\ <<a, b, c, d>> \in Seq(S)
  OBVIOUS
<1> HIDE DEF S
<1>2. \A s \in Seq(S) : << >> \o s = s
  BY ConcatEmptySeq
<1>3. Append(<< >>, a) = <<a>>
  OBVIOUS
<1> QED BY <1>1, <1>2, <1>3

\* The new nodes and both groups of sub-elements are lists of that kind.
LEMMA ListsAppended ==
  ASSUME PhiKnown, Selected.mode # "NO_INTERSECTION"
  PROVE  /\ << >> \o NewNodes(Selected) = NewNodes(Selected)
         /\ << >> \o Pieces(Selected).first = Pieces(Selected).first
         /\ << >> \o Pieces(Selected).second = Pieces(Selected).second
         /\ Len(Pieces(Selected).first) \in {1, 2} /\ Len(Pieces(Selected).second) \in {1, 2}
<1>1. PICK r \in Corners : SelectionAt(r)
  BY Selection
<1> DEFINE Appended(s) == << >> \o s = s
           Listed(pieces) == /\ Appended(pieces.first) /\ Appended(pieces.second)
                             /\ Len(pieces.first) \in {1, 2} /\ Len(pieces.second) \in {1, 2}
           Nodes == Appended(NewNodes(Selected))
<1>2. CASE Selected = Choice("ADJACENT_EDGES", r, 0)
  <2>1. NewNodes(Selected) = <<CutNode(r), CutNode(r + 1), LevelNode(r)>>
        /\ Pieces(Selected) = AdjacentPieces(r)
    BY <1>2 DEF Choice, NewNodes, Pieces
  <2>2. Listed(AdjacentPieces(r))
    BY AppendToEmpty DEF AdjacentPieces
  <2> QED BY <2>1, <2>2, AppendToEmpty
<1>3. CASE Selected = Choice("OPPOSITE_EDGES", r, 0)
  <2>1. NewNodes(Selected) = <<CutNode(r), CutNode(r + 2)>>
        /\ Pieces(Selected) = OppositeEdgePieces(r)
    BY <1>3 DEF Choice, NewNodes, Pieces
  <2>2. Listed(OppositeEdgePieces(r))
    BY AppendToEmpty DEF OppositeEdgePieces
  <2> QED BY <2>1, <2>2, AppendToEmpty
<1>4. CASE Selected = Choice("OPPOSITE_NODES", r, 0)
  <2>1. NewNodes(Selected) = << >> /\ Pieces(Selected) = OppositeNodePieces(r)
    BY <1>4 DEF Choice, NewNodes, Pieces
  <2>2. Listed(OppositeNodePieces(r))
    BY AppendToEmpty DEF OppositeNodePieces
  <2> QED BY <2>1, <2>2, AppendToEmpty
<1>5. ASSUME NEW d \in {1, 2}, Selected = Choice("NODE_AND_EDGE", r, d)
      PROVE  Nodes /\ Listed(Pieces(Selected))
  <2>1. NewNodes(Selected) = <<CutNode(r + d)>> /\ Pieces(Selected) = NodeAndEdgePieces(r, d)
    BY <1>5 DEF Choice, NewNodes, Pieces
  <2>2. Listed(NodeAndEdgePieces(r, d))
    BY AppendToEmpty DEF NodeAndEdgePieces
  <2> QED BY <2>1, <2>2, AppendToEmpty
<1>6. CASE Selected = Choice("NODE_AND_TWO_EDGES", r, 1)
  <2>1. NewNodes(Selected) = <<CutNode(r + 1), CutNode(r + 2)>>
        /\ Pieces(Selected) = NodeAndTwoEdgePieces(r)
    BY <1>6 DEF Choice, NewNodes, Pieces
  <2>2. Listed(NodeAndTwoEdgePieces(r))
    BY AppendToEmpty DEF NodeAndTwoEdgePieces
  <2> QED BY <2>1, <2>2, AppendToEmpty
<1>7. CASE Selected = Choice("TWO_ADJACENT_EDGES", r, 0)
  <2>1. /\ NewNodes(Selected) = <<CutNode(r), CutNode(r + 1), CutNode(r + 2), CutNode(r + 3)>>
        /\ Pieces(Selected) = TwoAdjacentPieces(r)
    BY <1>7 DEF Choice, NewNodes, Pieces
  <2>2. Listed(TwoAdjacentPieces(r))
    BY AppendToEmpty DEF TwoAdjacentPieces
  <2> QED BY <2>1, <2>2, AppendToEmpty
<1>8. Nodes /\ Listed(Pieces(Selected))
  BY <1>1, <1>2, <1>3, <1>4, <1>5, <1>6, <1>7 DEF SelectionAt
<1> QED BY <1>8

\* What init computes from the element does not change with its result.
LEMMA SameElement ==
  ASSUME UNCHANGED element
  PROVE  /\ MinValue' = MinValue /\ MaxValue' = MaxValue
         /\ Uncut' = Uncut /\ Touching' = Touching /\ Colinear' = Colinear /\ Divided' = Divided
         /\ ColinearSides' = ColinearSides /\ Selected' = Selected
         /\ NewNodes(Selected)' = NewNodes(Selected) /\ Pieces(Selected)' = Pieces(Selected)
         /\ FirstIsPositive(Selected)' = FirstIsPositive(Selected)
         /\ ElementKnown' = ElementKnown
<1>1. phi' = phi /\ inner' = inner /\ mid' = mid /\ xi' = xi /\ kind' = kind
  BY DEF element
<1>2. MinValue' = MinValue /\ MaxValue' = MaxValue
  BY <1>1 DEF MinValue, MaxValue
<1>3. \A i : NodeCut(i)' = NodeCut(i) /\ SideCut(i)' = SideCut(i)
  BY <1>1 DEF NodeCut, SideCut
<1>4. /\ CutNodes' = CutNodes /\ CutSides' = CutSides /\ ColinearSides' = ColinearSides
      /\ Adjacent' = Adjacent /\ Facing' = Facing /\ FacingNodes' = FacingNodes
      /\ NodeAndSide(1)' = NodeAndSide(1) /\ NodeAndSide(2)' = NodeAndSide(2)
      /\ NodeAndSides' = NodeAndSides
  BY <1>1 DEF CutNodes, CutSides, ColinearSides, Adjacent, Facing, FacingNodes, NodeAndSide,
              NodeAndSides, NodeCut, SideCut
<1>5. Uncut' = Uncut
  BY <1>2 DEF Uncut
<1>6. Touching' = Touching
  BY <1>2, <1>4, <1>5 DEF Touching, SignChange
<1>7. Colinear' = Colinear /\ Divided' = Divided
  BY <1>4, <1>5, <1>6 DEF Colinear, Divided
<1>8. Cuts' = Cuts
  BY <1>4 DEF Cuts
<1>9. Selected' = Selected
  BY <1>1, <1>4, <1>8 DEF Selected
<1>10. ElementKnown' = ElementKnown
  BY <1>1 DEF ElementKnown, PhiKnown, Changing
<1>11. \A s : NewNodes(s)' = NewNodes(s) /\ Pieces(s)' = Pieces(s)
              /\ FirstIsPositive(s)' = FirstIsPositive(s)
  BY <1>1 DEF NewNodes, Pieces, FirstIsPositive, CutNode, LevelNode
<1> QED BY <1>2, <1>4, <1>5, <1>6, <1>7, <1>9, <1>10, <1>11

LEMMA InitInv == Init => Inv
BY DEF Init, Inv, Blank

\* Each operation keeps the invariant.
LEMMA EvaluateInv ==
  ASSUME Inv, NEW k \in {"QUAD4", "QUAD9"}, NEW p \in [Corners -> Values],
         NEW others \in (IF k = "QUAD9" THEN (SUBSET Values) \ {{}} ELSE {{}}),
         NEW centre, NEW cut \in [Changing(p) -> 1 .. (Cells - 1)],
         Evaluate(k, p, others, centre, cut)
  PROVE  Inv'
<1>1. Blank /\ Blank'
  <2>1. Blank
    BY DEF Inv, Evaluate
  <2>2. UNCHANGED result
    BY DEF Evaluate
  <2> QED BY <2>1, <2>2 DEF Blank, result
<1>2. ElementKnown'
  BY DEF Evaluate, ElementKnown, PhiKnown, Changing
<1>3. stage' = "evaluated"
  BY DEF Evaluate
<1> QED BY <1>1, <1>2, <1>3 DEF Inv

\* An element taken whole.
LEMMA TakeWholeKeeps ==
  ASSUME Inv, stage = "evaluated", NEW m, NEW isPositive, NEW side,
         TakeWhole(m, isPositive, side)
  PROVE  /\ mode' = m /\ newNodes' = << >> /\ newElems' = 0
         /\ positive' = IF isPositive THEN <<Whole(side)>> ELSE << >>
         /\ negative' = IF isPositive THEN << >> ELSE <<Whole(side)>>
         /\ UNCHANGED element /\ stage' = "initialized" /\ ElementKnown
<1>1. Blank /\ ElementKnown
  BY DEF Inv
<1>2. Append(<< >>, Whole(side)) = <<Whole(side)>>
  BY AppendToEmpty
<1> QED BY <1>1, <1>2 DEF TakeWhole, Blank

LEMMA InitUncutInv ==
  ASSUME Inv, InitUncut
  PROVE  Inv'
<1> DEFINE b == MinValue > Tol
<1>1. stage = "evaluated" /\ Uncut /\ TakeWhole("NO_INTERSECTION", b, NoEntry)
      /\ onPositive' = b /\ onNegative' = (MinValue < Tol)
  BY DEF InitUncut
<1>2. /\ mode' = "NO_INTERSECTION" /\ newNodes' = << >> /\ newElems' = 0
      /\ positive' = IF b THEN <<Whole(NoEntry)>> ELSE << >>
      /\ negative' = IF b THEN << >> ELSE <<Whole(NoEntry)>>
      /\ UNCHANGED element /\ stage' = "initialized" /\ ElementKnown
  BY <1>1, TakeWholeKeeps
<1>3. MinValue' = MinValue /\ Uncut'
  BY <1>1, <1>2, SameElement
<1>4. WasUncut'
  BY <1>1, <1>2, <1>3 DEF WasUncut, Undivided
<1> QED BY <1>2, <1>4, SameElement DEF Inv, Outcome

LEMMA InitThroughNodeInv ==
  ASSUME Inv, InitThroughNode
  PROVE  Inv'
<1> DEFINE b == MaxValue > Tol
<1>1. stage = "evaluated" /\ Touching /\ TakeWhole("THROUGH_NODE", b, NoEntry)
      /\ onPositive' = FALSE /\ onNegative' = FALSE
  BY DEF InitThroughNode
<1>2. /\ mode' = "THROUGH_NODE" /\ newNodes' = << >> /\ newElems' = 0
      /\ positive' = IF b THEN <<Whole(NoEntry)>> ELSE << >>
      /\ negative' = IF b THEN << >> ELSE <<Whole(NoEntry)>>
      /\ UNCHANGED element /\ stage' = "initialized" /\ ElementKnown
  BY <1>1, TakeWholeKeeps
<1>3. MaxValue' = MaxValue /\ Touching'
  BY <1>1, <1>2, SameElement
<1>4. WasTouched'
  BY <1>1, <1>2, <1>3 DEF WasTouched, Undivided
<1> QED BY <1>2, <1>4, SameElement DEF Inv, Outcome

LEMMA InitColinearInv ==
  ASSUME Inv, InitColinear
  PROVE  Inv'
<1> DEFINE b == MaxValue > Tol
           side == First(ColinearSides)
<1>1. stage = "evaluated" /\ Colinear /\ TakeWhole("COLINEAR_EDGE", b, side)
      /\ onPositive' = FALSE /\ onNegative' = FALSE
  BY DEF InitColinear
<1>2. /\ mode' = "COLINEAR_EDGE" /\ newNodes' = << >> /\ newElems' = 0
      /\ positive' = IF b THEN <<Whole(side)>> ELSE << >>
      /\ negative' = IF b THEN << >> ELSE <<Whole(side)>>
      /\ UNCHANGED element /\ stage' = "initialized" /\ ElementKnown
  BY <1>1, TakeWholeKeeps
<1>3. MaxValue' = MaxValue /\ Colinear' /\ ColinearSides' = ColinearSides
  BY <1>1, <1>2, SameElement
<1>4. WasColinear'
  BY <1>1, <1>2, <1>3 DEF WasColinear, Undivided, First, Whole, Piece, N
<1> QED BY <1>2, <1>4, SameElement DEF Inv, Outcome

LEMMA InitDividedInv ==
  ASSUME Inv, InitDivided
  PROVE  Inv'
<1>1. /\ stage = "evaluated" /\ Divided /\ Selected.mode # "NO_INTERSECTION"
      /\ UNCHANGED element /\ stage' = "initialized"
      /\ onPositive' = FALSE /\ onNegative' = FALSE /\ mode' = Selected.mode
  BY DEF InitDivided
<1>2. Blank /\ ElementKnown /\ PhiKnown
  BY <1>1 DEF Inv, ElementKnown
<1>3. /\ << >> \o NewNodes(Selected) = NewNodes(Selected)
      /\ << >> \o Pieces(Selected).first = Pieces(Selected).first
      /\ << >> \o Pieces(Selected).second = Pieces(Selected).second
      /\ Len(Pieces(Selected).first) \in {1, 2} /\ Len(Pieces(Selected).second) \in {1, 2}
  BY <1>1, <1>2, ListsAppended
<1>4. newNodes' = NewNodes(Selected)
  BY <1>2, <1>3 DEF InitDivided, Blank
<1>5. newElems' = Len(Pieces(Selected).first) + Len(Pieces(Selected).second)
  BY <1>2, <1>3 DEF InitDivided, Blank
<1>6. /\ positive' = IF FirstIsPositive(Selected) THEN Pieces(Selected).first
                     ELSE Pieces(Selected).second
      /\ negative' = IF FirstIsPositive(Selected) THEN Pieces(Selected).second
                     ELSE Pieces(Selected).first
  BY <1>2, <1>3 DEF InitDivided, Blank
<1>7. WasDivided'
  BY <1>1, <1>4, <1>5, <1>6, SameElement DEF WasDivided
<1> QED BY <1>1, <1>2, <1>7, SameElement DEF Inv, Outcome

LEMMA InitUnhandledInv ==
  ASSUME Inv, InitUnhandled
  PROVE  Inv'
<1>1. /\ stage = "evaluated" /\ stage' = "aborted"
      /\ Divided /\ Selected.mode = "NO_INTERSECTION"
      /\ UNCHANGED <<element, result>>
  BY DEF InitUnhandled
<1>2. Blank' = Blank
  BY <1>1 DEF Blank, result
<1> QED BY <1>1, <1>2, SameElement DEF Inv

LEMMA ClearInv ==
  ASSUME Inv, Clear
  PROVE  Inv'
BY DEF Clear, Inv, Blank

LEMMA StutterInv ==
  ASSUME Inv, UNCHANGED vars
  PROVE  Inv'
<1>1. UNCHANGED element /\ UNCHANGED result /\ stage' = stage
  BY DEF vars
<1>2. Blank' = Blank
  BY <1>1 DEF Blank, result
<1>4. mode' = mode /\ onPositive' = onPositive /\ onNegative' = onNegative
      /\ newNodes' = newNodes /\ newElems' = newElems
      /\ positive' = positive /\ negative' = negative
  BY <1>1 DEF result
<1>5. Outcome' <=> Outcome
  <2>1. WasUncut' <=> WasUncut
    BY <1>1, <1>4, SameElement DEF WasUncut, Undivided
  <2>2. WasTouched' <=> WasTouched
    BY <1>1, <1>4, SameElement DEF WasTouched, Undivided
  <2>3. WasColinear' <=> WasColinear
    <3>1. First(ColinearSides)' = First(ColinearSides)
      BY <1>1, SameElement DEF First
    <3> QED BY <1>1, <1>4, <3>1, SameElement DEF WasColinear, Undivided, Whole, Piece, N
  <2>4. WasDivided' <=> WasDivided
    BY <1>1, <1>4, SameElement DEF WasDivided
  <2> QED BY <2>1, <2>2, <2>3, <2>4 DEF Outcome
<1> QED BY <1>1, <1>2, <1>5, SameElement DEF Inv

LEMMA StepInv ==
  ASSUME Inv, [Next]_vars
  PROVE  Inv'
<1>1. CASE \E k \in {"QUAD4", "QUAD9"}, p \in [Corners -> Values] :
             \E others \in (IF k = "QUAD9" THEN (SUBSET Values) \ {{}} ELSE {{}}),
                centre \in (IF Changing(p) = Corners THEN Values ELSE {0}),
                cut \in [Changing(p) -> 1 .. (Cells - 1)] :
                  Evaluate(k, p, others, centre, cut)
  BY <1>1, EvaluateInv
<1> QED BY <1>1, InitUncutInv, InitThroughNodeInv, InitColinearInv, InitDividedInv,
           InitUnhandledInv, ClearInv, StutterInv DEF Next

\* The state of the object is one of the results of init, or blank.
THEOREM TypeCorrect == Spec => []Inv
BY InitInv, StepInv, PTL DEF Spec
-----------------------------------------------------------------------------
(* The signs of the sub-elements.                                         *)

\* Corner j is a node of a sub-element of the group g.
IsNode(x, p) == \E k \in 1 .. Len(p.nodes) : x = p.nodes[k]
CornerOf(g, j) == \E i \in 1 .. Len(g) : IsNode(N(j), g[i])

LEMMA SameNode == \A i, j \in Int : N(i) = N(j) <=> i % 4 = j % 4
BY DEF N

LEMMA OtherNode == \A i, k : N(i) # M(k)
BY DEF N, M

LEMMA NodesOfTriangle ==
  ASSUME NEW a, NEW b, NEW c, NEW s, NEW x
  PROVE  IsNode(x, Piece(<<a, b, c>>, s)) <=> x \in {a, b, c}
<1>1. 1 .. 3 = {1, 2, 3}
  OBVIOUS
<1>2. Piece(<<a, b, c>>, s).nodes = <<a, b, c>> /\ Len(<<a, b, c>>) = 3
  BY DEF Piece
<1>3. (\E k \in 1 .. 3 : x = <<a, b, c>>[k]) <=> x \in {a, b, c}
  BY <1>1
<1> QED BY <1>2, <1>3 DEF IsNode

LEMMA NodesOfQuad ==
  ASSUME NEW a, NEW b, NEW c, NEW d, NEW s, NEW x
  PROVE  IsNode(x, Piece(<<a, b, c, d>>, s)) <=> x \in {a, b, c, d}
<1>1. 1 .. 4 = {1, 2, 3, 4}
  OBVIOUS
<1>2. Piece(<<a, b, c, d>>, s).nodes = <<a, b, c, d>> /\ Len(<<a, b, c, d>>) = 4
  BY DEF Piece
<1>3. (\E k \in 1 .. 4 : x = <<a, b, c, d>>[k]) <=> x \in {a, b, c, d}
  BY <1>1
<1> QED BY <1>2, <1>3 DEF IsNode

\* The corners in a group of one sub-element, and of two.
LEMMA CornersOfOne == \A p, j : CornerOf(<<p>>, j) <=> IsNode(N(j), p)
<1> TAKE p, j
<1>1. Len(<<p>>) = 1 /\ <<p>>[1] = p /\ 1 .. 1 = {1}
  OBVIOUS
<1> QED BY <1>1 DEF CornerOf

LEMMA CornersOfTwo ==
  \A p, q, j : CornerOf(<<p, q>>, j) <=> IsNode(N(j), p) \/ IsNode(N(j), q)
<1> TAKE p, q, j
<1>1. Len(<<p, q>>) = 2 /\ <<p, q>>[1] = p /\ <<p, q>>[2] = q /\ 1 .. 2 = {1, 2}
  OBVIOUS
<1> QED BY <1>1 DEF CornerOf

\* The corners of each group of sub-elements.
LEMMA CornersOfGroups ==
  ASSUME NEW r \in Corners, NEW j \in Corners
  PROVE  LET At(k) == j % 4 = (r+k) % 4
             Of(pieces, A, B) == /\ CornerOf(pieces.first, j) => A
                                 /\ CornerOf(pieces.second, j) => B
         IN  /\ Of(AdjacentPieces(r), At(1), At(0) \/ At(2) \/ At(3))
             /\ Of(OppositeEdgePieces(r), At(1) \/ At(2), At(0) \/ At(3))
             /\ Of(NodeAndEdgePieces(r, 1), At(0) \/ At(1), At(0) \/ At(2) \/ At(3))
             /\ Of(NodeAndEdgePieces(r, 2), At(0) \/ At(3), At(0) \/ At(1) \/ At(2))
             /\ Of(OppositeNodePieces(r), At(0) \/ At(1) \/ At(2), At(0) \/ At(2) \/ At(3))
             /\ Of(NodeAndTwoEdgePieces(r), At(0) \/ At(1) \/ At(3), At(0) \/ At(2))
             /\ Of(TwoAdjacentPieces(r), At(1) \/ At(3), At(0) \/ At(2))
<1> DEFINE At(k) == j % 4 = (r+k) % 4
           Of(pieces, A, B) == /\ CornerOf(pieces.first, j) => A
                               /\ CornerOf(pieces.second, j) => B
<1>1. r \in Int /\ j \in Int /\ r + 0 = r /\ r + 1 \in Int /\ r + 2 \in Int /\ r + 3 \in Int
  BY DEF Corners
<1>2. /\ \A k \in {0, 1, 2, 3} : N(j) = N(r+k) <=> At(k)
      /\ N(j) = N(r) <=> At(0)
      /\ \A k : N(j) # M(k)
  BY <1>1, SameNode, OtherNode
<1> HIDE DEF At
<1>3. Of(AdjacentPieces(r), At(1), At(0) \/ At(2) \/ At(3))
  <2>1. AdjacentPieces(r).first = <<Piece(<<M(0), N(r+1), M(1)>>, 2)>>
    BY DEF AdjacentPieces
  <2>2. CornerOf(AdjacentPieces(r).first, j) => At(1)
    <3>1. CornerOf(AdjacentPieces(r).first, j) => N(j) \in {M(0), N(r+1), M(1)}
      BY <2>1, CornersOfOne, NodesOfTriangle
    <3> QED BY <3>1, <1>2
  <2>3. AdjacentPieces(r).second =
          <<Piece(<<M(0), M(2), N(r+3), N(r)>>, NoSide),
            Piece(<<M(1), N(r+2), M(2), M(0)>>, 3)>>
    BY DEF AdjacentPieces
  <2>4. CornerOf(AdjacentPieces(r).second, j) => At(0) \/ At(2) \/ At(3)
    <3>1. CornerOf(AdjacentPieces(r).second, j) =>
            N(j) \in {M(0), M(2), N(r+3), N(r)} \/ N(j) \in {M(1), N(r+2), M(2), M(0)}
      BY <2>3, CornersOfTwo, NodesOfQuad
    <3> QED BY <3>1, <1>2
  <2> QED BY <2>2, <2>4
<1>4. Of(OppositeEdgePieces(r), At(1) \/ At(2), At(0) \/ At(3))
  <2>1. OppositeEdgePieces(r).first = <<Piece(<<M(0), N(r+1), N(r+2), M(1)>>, 3)>>
    BY DEF OppositeEdgePieces
  <2>2. CornerOf(OppositeEdgePieces(r).first, j) => At(1) \/ At(2)
    <3>1. CornerOf(OppositeEdgePieces(r).first, j) => N(j) \in {M(0), N(r+1), N(r+2), M(1)}
      BY <2>1, CornersOfOne, NodesOfQuad
    <3> QED BY <3>1, <1>2
  <2>3. OppositeEdgePieces(r).second = <<Piece(<<M(1), N(r+3), N(r), M(0)>>, 3)>>
    BY DEF OppositeEdgePieces
  <2>4. CornerOf(OppositeEdgePieces(r).second, j) => At(0) \/ At(3)
    <3>1. CornerOf(OppositeEdgePieces(r).second, j) => N(j) \in {M(1), N(r+3), N(r), M(0)}
      BY <2>3, CornersOfOne, NodesOfQuad
    <3> QED BY <3>1, <1>2
  <2> QED BY <2>2, <2>4
<1>5. Of(NodeAndEdgePieces(r, 1), At(0) \/ At(1), At(0) \/ At(2) \/ At(3))
  <2>1. NodeAndEdgePieces(r, 1).first = <<Piece(<<N(r), N(r+1), M(0)>>, 2)>>
    BY DEF NodeAndEdgePieces
  <2>2. CornerOf(NodeAndEdgePieces(r, 1).first, j) => At(0) \/ At(1)
    <3>1. CornerOf(NodeAndEdgePieces(r, 1).first, j) => N(j) \in {N(r), N(r+1), M(0)}
      BY <2>1, CornersOfOne, NodesOfTriangle
    <3> QED BY <3>1, <1>2
  <2>3. NodeAndEdgePieces(r, 1).second = <<Piece(<<M(0), N(r+2), N(r+3), N(r)>>, 3)>>
    BY DEF NodeAndEdgePieces
  <2>4. CornerOf(NodeAndEdgePieces(r, 1).second, j) => At(0) \/ At(2) \/ At(3)
    <3>1. CornerOf(NodeAndEdgePieces(r, 1).second, j) => N(j) \in {M(0), N(r+2), N(r+3), N(r)}
      BY <2>3, CornersOfOne, NodesOfQuad
    <3> QED BY <3>1, <1>2
  <2> QED BY <2>2, <2>4
<1>6. Of(NodeAndEdgePieces(r, 2), At(0) \/ At(3), At(0) \/ At(1) \/ At(2))
  <2>1. NodeAndEdgePieces(r, 2).first = <<Piece(<<N(r), M(0), N(r+3)>>, 0)>>
    BY DEF NodeAndEdgePieces
  <2>2. CornerOf(NodeAndEdgePieces(r, 2).first, j) => At(0) \/ At(3)
    <3>1. CornerOf(NodeAndEdgePieces(r, 2).first, j) => N(j) \in {N(r), M(0), N(r+3)}
      BY <2>1, CornersOfOne, NodesOfTriangle
    <3> QED BY <3>1, <1>2
  <2>3. NodeAndEdgePieces(r, 2).second = <<Piece(<<N(r), N(r+1), N(r+2), M(0)>>, 3)>>
    BY DEF NodeAndEdgePieces
  <2>4. CornerOf(NodeAndEdgePieces(r, 2).second, j) => At(0) \/ At(1) \/ At(2)
    <3>1. CornerOf(NodeAndEdgePieces(r, 2).second, j) => N(j) \in {N(r), N(r+1), N(r+2), M(0)}
      BY <2>3, CornersOfOne, NodesOfQuad
    <3> QED BY <3>1, <1>2
  <2> QED BY <2>2, <2>4
<1>7. Of(OppositeNodePieces(r), At(0) \/ At(1) \/ At(2), At(0) \/ At(2) \/ At(3))
  <2>1. OppositeNodePieces(r).first = <<Piece(<<N(r), N(r+1), N(r+2)>>, 2)>>
    BY DEF OppositeNodePieces
  <2>2. CornerOf(OppositeNodePieces(r).first, j) => At(0) \/ At(1) \/ At(2)
    <3>1. CornerOf(OppositeNodePieces(r).first, j) => N(j) \in {N(r), N(r+1), N(r+2)}
      BY <2>1, CornersOfOne, NodesOfTriangle
    <3> QED BY <3>1, <1>2
  <2>3. OppositeNodePieces(r).second = <<Piece(<<N(r+2), N(r+3), N(r)>>, 2)>>
    BY DEF OppositeNodePieces
  <2>4. CornerOf(OppositeNodePieces(r).second, j) => At(0) \/ At(2) \/ At(3)
    <3>1. CornerOf(OppositeNodePieces(r).second, j) => N(j) \in {N(r+2), N(r+3), N(r)}
      BY <2>3, CornersOfOne, NodesOfTriangle
    <3> QED BY <3>1, <1>2
  <2> QED BY <2>2, <2>4
<1>8. Of(NodeAndTwoEdgePieces(r), At(0) \/ At(1) \/ At(3), At(0) \/ At(2))
  <2>1. NodeAndTwoEdgePieces(r).first =
          <<Piece(<<N(r), N(r+1), M(0)>>, 2),
            Piece(<<N(r), M(1), N(r+3)>>, 0)>>
    BY DEF NodeAndTwoEdgePieces
  <2>2. CornerOf(NodeAndTwoEdgePieces(r).first, j) => At(0) \/ At(1) \/ At(3)
    <3>1. CornerOf(NodeAndTwoEdgePieces(r).first, j) =>
            N(j) \in {N(r), N(r+1), M(0)} \/ N(j) \in {N(r), M(1), N(r+3)}
      BY <2>1, CornersOfTwo, NodesOfTriangle
    <3> QED BY <3>1, <1>2
  <2>3. NodeAndTwoEdgePieces(r).second =
          <<Piece(<<N(r), M(0), N(r+2)>>, 0),
            Piece(<<N(r), N(r+2), M(1)>>, 2)>>
    BY DEF NodeAndTwoEdgePieces
  <2>4. CornerOf(NodeAndTwoEdgePieces(r).second, j) => At(0) \/ At(2)
    <3>1. CornerOf(NodeAndTwoEdgePieces(r).second, j) =>
            N(j) \in {N(r), M(0), N(r+2)} \/ N(j) \in {N(r), N(r+2), M(1)}
      BY <2>3, CornersOfTwo, NodesOfTriangle
    <3> QED BY <3>1, <1>2
  <2> QED BY <2>2, <2>4
<1>9. Of(TwoAdjacentPieces(r), At(1) \/ At(3), At(0) \/ At(2))
  <2>1. TwoAdjacentPieces(r).first =
          <<Piece(<<M(0), N(r+1), M(1)>>, 2),
            Piece(<<M(3), M(2), N(r+3)>>, 0)>>
    BY DEF TwoAdjacentPieces
  <2>2. CornerOf(TwoAdjacentPieces(r).first, j) => At(1) \/ At(3)
    <3>1. CornerOf(TwoAdjacentPieces(r).first, j) =>
            N(j) \in {M(0), N(r+1), M(1)} \/ N(j) \in {M(3), M(2), N(r+3)}
      BY <2>1, CornersOfTwo, NodesOfTriangle
    <3> QED BY <3>1, <1>2
  <2>3. TwoAdjacentPieces(r).second =
          <<Piece(<<N(r), M(0), M(2), M(3)>>, 2),
            Piece(<<M(0), M(1), N(r+2), M(2)>>, 0)>>
    BY DEF TwoAdjacentPieces
  <2>4. CornerOf(TwoAdjacentPieces(r).second, j) => At(0) \/ At(2)
    <3>1. CornerOf(TwoAdjacentPieces(r).second, j) =>
            N(j) \in {N(r), M(0), M(2), M(3)} \/ N(j) \in {M(0), M(1), N(r+2), M(2)}
      BY <2>3, CornersOfTwo, NodesOfQuad
    <3> QED BY <3>1, <1>2
  <2> QED BY <2>2, <2>4
<1> QED BY <1>3, <1>4, <1>5, <1>6, <1>7, <1>8, <1>9 DEF At

\* No corner of a group is below the tolerance, or none is above it.
NoneBelow(g) == \A j \in Corners : CornerOf(g, j) => ~Below(j)
NoneAbove(g) == \A j \in Corners : CornerOf(g, j) => ~Above(j)
Material(pieces, firstPositive) ==
    IF firstPositive THEN NoneBelow(pieces.first) /\ NoneAbove(pieces.second)
    ELSE NoneAbove(pieces.first) /\ NoneBelow(pieces.second)

LEMMA SameSign ==
  ASSUME NEW j, NEW i, j % 4 = i % 4
  PROVE  (Above(j) <=> Above(i)) /\ (Below(j) <=> Below(i)) /\ (NodeCut(j) <=> NodeCut(i))
BY DEF Above, Below, NodeCut

\* The sign of the node value that the code looks at is the sign of the node.
LEMMA SignOf ==
  ASSUME PhiKnown, NEW i \in Int
  PROVE  /\ Above(i) => phi[i % 4] > 0
         /\ Below(i) => ~(phi[i % 4] > 0)
<1>1. i % 4 \in Corners
  BY DEF Corners
<1>2. phi[i % 4] \in Int /\ Tol \in Nat
  BY <1>1, OneSign, ValuesAssumption
<1> QED BY <1>2 DEF Above, Below

\* The group that init takes to be positive has no corner below the level set
\* and the other none above.  Only a diagonal between two corners on the level
\* set can divide corners of the same sign.
LEMMA GroupsHaveOneSign ==
  ASSUME PhiKnown, Selected.mode # "NO_INTERSECTION",
         Selected.mode = "OPPOSITE_NODES" => CornersBothSigns
  PROVE  Material(Pieces(Selected), FirstIsPositive(Selected))
<1>1. PICK r \in Corners : SelectionAt(r)
  BY Selection
<1>2. r \in Int /\ r + 0 = r /\ r + 1 \in Int /\ r + 2 \in Int /\ r % 4 = r
  BY DEF Corners
<1>3. /\ Above(r) => phi[r % 4] > 0
      /\ Below(r) => ~(phi[r % 4] > 0)
      /\ Above(r+1) => phi[(r+1) % 4] > 0
      /\ Below(r+1) => ~(phi[(r+1) % 4] > 0)
      /\ Above(r+2) => phi[(r+2) % 4] > 0
      /\ Below(r+2) => ~(phi[(r+2) % 4] > 0)
  BY <1>2, SignOf
<1>4. CASE Selected = Choice("ADJACENT_EDGES", r, 0) /\ AdjacentSigns(r)
  <2>1. Pieces(Selected) = AdjacentPieces(r)
    BY <1>4 DEF Choice, Pieces
  <2>2. FirstIsPositive(Selected) <=> ~(phi[r % 4] > 0)
    BY <1>2, <1>4 DEF Choice, FirstIsPositive
  <2>3. Material(AdjacentPieces(r), ~(phi[r % 4] > 0))
    BY <1>2, <1>3, <1>4, CornersOfGroups, SameSign, Corner4
       DEF Material, NoneAbove, NoneBelow, AdjacentSigns, Unlike, Alike
  <2> QED BY <2>1, <2>2, <2>3 DEF Material
<1>5. CASE Selected = Choice("OPPOSITE_EDGES", r, 0) /\ OppositeEdgeSigns(r)
  <2>1. Pieces(Selected) = OppositeEdgePieces(r)
    BY <1>5 DEF Choice, Pieces
  <2>2. FirstIsPositive(Selected) <=> ~(phi[r % 4] > 0)
    BY <1>2, <1>5 DEF Choice, FirstIsPositive
  <2>3. Material(OppositeEdgePieces(r), ~(phi[r % 4] > 0))
    BY <1>2, <1>3, <1>5, CornersOfGroups, SameSign, Corner4
       DEF Material, NoneAbove, NoneBelow, OppositeEdgeSigns, Unlike, Alike
  <2> QED BY <2>1, <2>2, <2>3 DEF Material
<1>6. CASE Selected = Choice("OPPOSITE_NODES", r, 0) /\ OppositeNodeSigns(r)
  <2>1. Pieces(Selected) = OppositeNodePieces(r)
    BY <1>6 DEF Choice, Pieces
  <2>2. FirstIsPositive(Selected) <=> phi[(r+1) % 4] > 0
    <3>1. (r+1) % 4 = r+1
      BY <1>6 DEF OppositeNodeSigns
    <3> QED BY <3>1, <1>6 DEF Choice, FirstIsPositive
  <2>3. Unlike(r+1, r+3)
    <3>1. PICK i \in Corners, j \in Corners : OppositeSigns(phi[i], phi[j])
      BY <1>6 DEF CornersBothSigns, Choice
    <3>2. i % 4 = i /\ j % 4 = j
      BY DEF Corners
    <3>3. Unlike(i, j)
      BY <3>1, <3>2 DEF OppositeSigns, Unlike, Above, Below
    <3>4. /\ i % 4 \in {r % 4, (r+1) % 4, (r+2) % 4, (r+3) % 4}
          /\ j % 4 \in {r % 4, (r+1) % 4, (r+2) % 4, (r+3) % 4}
      BY DEF Corners
    <3>5. \A k \in {i, j} : ~NodeCut(k) /\ (Above(k) \/ Below(k)) /\ ~(Above(k) /\ Below(k))
      BY <3>3, CornerFacts DEF Unlike
    <3>6. \A k \in {i, j} : k % 4 = (r+1) % 4 \/ k % 4 = (r+3) % 4
      BY <3>4, <3>5, <1>6, SameSign DEF OppositeNodeSigns
    <3> QED BY <3>3, <3>5, <3>6, SameSign DEF Unlike
  <2>4. Material(OppositeNodePieces(r), phi[(r+1) % 4] > 0)
    <3>1. ~Above(r) /\ ~Below(r) /\ ~Above(r+2) /\ ~Below(r+2)
      BY <1>2, <1>6, Corner4 DEF OppositeNodeSigns
    <3>2. ~(Above(r+1) /\ Below(r+1)) /\ ~(Above(r+3) /\ Below(r+3))
      BY <2>3, Corner4
    <3>3. ASSUME NEW j \in Corners
          PROVE  /\ CornerOf(OppositeNodePieces(r).first, j) /\ Above(r+1) => ~Below(j)
                 /\ CornerOf(OppositeNodePieces(r).first, j) /\ Below(r+1) => ~Above(j)
                 /\ CornerOf(OppositeNodePieces(r).second, j) /\ Above(r+1) => ~Above(j)
                 /\ CornerOf(OppositeNodePieces(r).second, j) /\ Below(r+1) => ~Below(j)
      <4>1. /\ CornerOf(OppositeNodePieces(r).first, j) =>
                 j % 4 = r % 4 \/ j % 4 = (r+1) % 4 \/ j % 4 = (r+2) % 4
            /\ CornerOf(OppositeNodePieces(r).second, j) =>
                 j % 4 = r % 4 \/ j % 4 = (r+2) % 4 \/ j % 4 = (r+3) % 4
        BY <1>2, CornersOfGroups
      <4> QED BY <4>1, <3>1, <3>2, <2>3, SameSign DEF Unlike
    <3>4. Above(r+1) \/ Below(r+1)
      BY <2>3 DEF Unlike
    <3> QED BY <1>3, <3>3, <3>4 DEF Material, NoneAbove, NoneBelow
  <2> QED BY <2>1, <2>2, <2>4 DEF Material
<1>7. CASE Selected = Choice("NODE_AND_EDGE", r, 1) /\ NodeAndEdgeSigns(r, 1)
  <2>1. Pieces(Selected) = NodeAndEdgePieces(r, 1)
    BY <1>7 DEF Choice, Pieces
  <2>2. FirstIsPositive(Selected) <=> phi[(r+1) % 4] > 0
    BY <1>7 DEF Choice, FirstIsPositive
  <2>3. Material(NodeAndEdgePieces(r, 1), phi[(r+1) % 4] > 0)
    BY <1>2, <1>3, <1>7, CornersOfGroups, SameSign, Corner4
       DEF Material, NoneAbove, NoneBelow, NodeAndEdgeSigns, Unlike, Alike
  <2> QED BY <2>1, <2>2, <2>3 DEF Material
<1>8. CASE Selected = Choice("NODE_AND_EDGE", r, 2) /\ NodeAndEdgeSigns(r, 2)
  <2>1. Pieces(Selected) = NodeAndEdgePieces(r, 2)
    BY <1>8 DEF Choice, Pieces
  <2>2. FirstIsPositive(Selected) <=> ~(phi[(r+2) % 4] > 0)
    BY <1>8 DEF Choice, FirstIsPositive
  <2>3. Material(NodeAndEdgePieces(r, 2), ~(phi[(r+2) % 4] > 0))
    BY <1>2, <1>3, <1>8, CornersOfGroups, SameSign, Corner4
       DEF Material, NoneAbove, NoneBelow, NodeAndEdgeSigns, Unlike, Alike
  <2> QED BY <2>1, <2>2, <2>3 DEF Material
<1>9. CASE Selected = Choice("NODE_AND_TWO_EDGES", r, 1) /\ NodeAndTwoEdgeSigns(r)
  <2>1. Pieces(Selected) = NodeAndTwoEdgePieces(r)
    BY <1>9 DEF Choice, Pieces
  <2>2. FirstIsPositive(Selected) <=> phi[(r+1) % 4] > 0
    BY <1>9 DEF Choice, FirstIsPositive
  <2>3. Material(NodeAndTwoEdgePieces(r), phi[(r+1) % 4] > 0)
    BY <1>2, <1>3, <1>9, CornersOfGroups, SameSign, Corner4
       DEF Material, NoneAbove, NoneBelow, NodeAndTwoEdgeSigns, Unlike, Alike
  <2> QED BY <2>1, <2>2, <2>3 DEF Material
<1>10. CASE Selected = Choice("TWO_ADJACENT_EDGES", r, 0) /\ AlternatingSigns(r)
  <2>1. Pieces(Selected) = TwoAdjacentPieces(r)
    BY <1>10 DEF Choice, Pieces
  <2>2. FirstIsPositive(Selected) <=> ~(phi[r % 4] > 0)
    BY <1>2, <1>10 DEF Choice, FirstIsPositive
  <2>3. Material(TwoAdjacentPieces(r), ~(phi[r % 4] > 0))
    BY <1>2, <1>3, <1>10, CornersOfGroups, SameSign, Corner4
       DEF Material, NoneAbove, NoneBelow, AlternatingSigns, Unlike, Alike
  <2> QED BY <2>1, <2>2, <2>3 DEF Material
<1> QED BY <1>1, <1>4, <1>5, <1>6, <1>7, <1>8, <1>9, <1>10 DEF SelectionAt

\* The corners of the element taken whole.
LEMMA WholeCorners ==
  ASSUME NEW side
  PROVE  /\ \A i \in 1 .. Len(<<Whole(side)>>) : i = 1
         /\ <<Whole(side)>>[1] = Whole(side) /\ <<Whole(side)>> # << >>
<1>1. Len(<<Whole(side)>>) = 1
  OBVIOUS
<1> QED BY <1>1

\* The node values say on which side of the level set each corner is.
LEMMA CornerValues ==
  ASSUME PhiKnown
  PROVE  /\ MinValue \in Int /\ MaxValue \in Int /\ Tol \in Nat
         /\ MinValue # Tol /\ MaxValue # Tol
         /\ MinValue # -Tol
         /\ \A j \in Corners : /\ phi[j] \in Int /\ phi[j] # Tol /\ phi[j] # -Tol
                               /\ MinValue <= phi[j] /\ phi[j] <= MaxValue
                               /\ Above(j) <=> phi[j] > Tol
                               /\ Below(j) <=> phi[j] < -Tol
<1>1. \A j \in Corners : phi[j] \in {phi[i] : i \in Corners} \cup inner
  OBVIOUS
<1>2. \A j \in Corners : j % 4 = j
  BY DEF Corners
<1>3. Tol \in Nat
  BY ValuesAssumption
<1> QED BY <1>1, <1>2, <1>3, Extremes DEF Above, Below

\* What SignsRight says, with the groups as wholes.
GroupsRight ==
    /\ HasPositiveRegion <=> positive # << >>
    /\ ~Degenerate =>
        /\ CornersBothSigns => positive # << >> /\ negative # << >>
        /\ NoneBelow(positive) /\ NoneAbove(negative)

LEMMA GroupsSuffice ==
  ASSUME PhiKnown, stage = "initialized" => GroupsRight
  PROVE  SignsRight
<1>1. \A p, x : x \in {p.nodes[k] : k \in 1 .. Len(p.nodes)} => IsNode(x, p)
  BY DEF IsNode
<1>2. \A g, j, i : /\ i \in 1 .. Len(g)
                   /\ N(j) \in {g[i].nodes[k] : k \in 1 .. Len(g[i].nodes)}
                   => CornerOf(g, j)
  BY <1>1 DEF CornerOf
<1>3. \A j \in Corners : (~Below(j) => phi[j] > -Tol) /\ (~Above(j) => phi[j] < Tol)
  BY CornerValues
<1> QED BY <1>2, <1>3 DEF SignsRight, GroupsRight, NoneBelow, NoneAbove

LEMMA EmptyGroup == NoneBelow(<< >>) /\ NoneAbove(<< >>)
<1>1. 1 .. Len(<< >>) = {}
  OBVIOUS
<1> QED BY <1>1 DEF NoneBelow, NoneAbove, CornerOf

\* An element taken whole.
LEMMA UndividedRight ==
  ASSUME PhiKnown, NEW isPositive \in BOOLEAN, NEW side, NEW m, Undivided(m, isPositive, side),
         HasPositiveRegion <=> isPositive,
         ~Degenerate => /\ ~CornersBothSigns
                        /\ isPositive => \A j \in Corners : ~Below(j)
                        /\ ~isPositive => \A j \in Corners : ~Above(j)
  PROVE  GroupsRight
<1>1. CASE isPositive
  <2>1. positive = <<Whole(side)>> /\ negative = << >>
    BY <1>1 DEF Undivided
  <2>2. positive # << >>
    BY <2>1, WholeCorners
  <2>3. ~Degenerate => NoneBelow(positive)
    BY <1>1 DEF NoneBelow
  <2> QED BY <1>1, <2>1, <2>2, <2>3, EmptyGroup DEF GroupsRight
<1>2. CASE ~isPositive
  <2>1. negative = <<Whole(side)>> /\ positive = << >>
    BY <1>2 DEF Undivided
  <2>2. ~Degenerate => NoneAbove(negative)
    BY <1>2 DEF NoneAbove
  <2> QED BY <1>2, <2>1, <2>2, EmptyGroup DEF GroupsRight
<1> QED BY <1>1, <1>2

LEMMA OutcomeRight ==
  ASSUME PhiKnown, Outcome
  PROVE  GroupsRight
<1>1. CASE WasUncut
  <2> DEFINE b == MinValue > Tol
  <2>1. Undivided("NO_INTERSECTION", b, NoEntry) /\ b \in BOOLEAN
    BY <1>1 DEF WasUncut
  <2>2. HasPositiveRegion <=> b
    <3> DEFINE c == MinValue < Tol
    <3>1. b <=> ~c
      BY CornerValues
    <3>2. onPositive = b /\ onNegative = c
      BY <1>1 DEF WasUncut
    <3> HIDE DEF b, c
    <3> QED BY <3>1, <3>2, Zenon DEF HasPositiveRegion
  <2>3. /\ b => \A j \in Corners : Above(j) /\ ~Below(j)
        /\ ~b => \A j \in Corners : ~Above(j)
    BY <1>1, CornerValues DEF WasUncut, Uncut
  <2>4. ~CornersBothSigns
    BY <2>3, CornerValues DEF CornersBothSigns, OppositeSigns
  <2> HIDE DEF b
  <2> QED BY <2>1, <2>2, <2>3, <2>4, UndividedRight
<1>2. ASSUME NEW m, NEW side, ~Uncut, Undivided(m, MaxValue > Tol, side),
             ~Degenerate => ~SignChange, onNegative = FALSE
      PROVE  GroupsRight
  <2> DEFINE b == MaxValue > Tol
  <2>1. b
    BY <1>2, CornerValues DEF Uncut
  <2>2. HasPositiveRegion
    BY <1>2 DEF HasPositiveRegion
  <2>3. ~Degenerate => \A j \in Corners : ~Below(j)
    BY <1>2, <2>1, CornerValues DEF SignChange
  <2>4. ~Degenerate => ~CornersBothSigns
    BY <2>3, CornerValues DEF CornersBothSigns, OppositeSigns
  <2>5. Undivided(m, TRUE, side)
    BY <2>1, <1>2 DEF Undivided
  <2> QED BY <2>2, <2>3, <2>4, <2>5, UndividedRight
<1>3. CASE WasTouched
  <2>1. ~Uncut /\ ~SignChange
    BY <1>3 DEF WasTouched, Touching
  <2> QED BY <2>1, <1>2, <1>3 DEF WasTouched
<1>4. CASE WasColinear
  <2>1. ~Uncut /\ mode = "COLINEAR_EDGE"
    BY <1>4 DEF WasColinear, Colinear, Undivided
  <2>2. ~Degenerate => ~SignChange
    BY <2>1 DEF Degenerate
  <2> QED BY <2>1, <2>2, <1>2, <1>4 DEF WasColinear
<1>5. CASE WasDivided
  <2>1. Selected.mode # "NO_INTERSECTION" /\ onNegative = FALSE
    BY <1>5 DEF WasDivided
  <2>2. Len(Pieces(Selected).first) \in {1, 2} /\ Len(Pieces(Selected).second) \in {1, 2}
    BY <2>1, ListsAppended
  <2>3. Pieces(Selected).first # << >> /\ Pieces(Selected).second # << >>
    <3>1. Len(<< >>) = 0
      OBVIOUS
    <3> QED BY <2>2, <3>1
  <2>4. positive # << >> /\ negative # << >>
    BY <2>3, <1>5 DEF WasDivided
  <2>5. ~Degenerate => Material(Pieces(Selected), FirstIsPositive(Selected))
    BY <2>1, <1>5, GroupsHaveOneSign DEF Degenerate, WasDivided
  <2>6. ~Degenerate => NoneBelow(positive) /\ NoneAbove(negative)
    BY <2>5, <1>5 DEF Material, WasDivided
  <2> QED BY <2>1, <2>4, <2>6 DEF GroupsRight, HasPositiveRegion
<1> QED BY <1>1, <1>3, <1>4, <1>5 DEF Outcome

\* Material is where the level set is positive: no positive sub-element has a
\* corner below the level set and no negative one a corner above it, and an
\* element with a change of sign has both.
THEOREM MaterialWherePositive == Spec => []SignsRight
<1>1. Inv => SignsRight
  <2> SUFFICES ASSUME Inv PROVE SignsRight
    OBVIOUS
  <2>1. CASE stage = "initialized"
    <3>1. PhiKnown /\ Outcome
      BY <2>1 DEF Inv, ElementKnown
    <3> QED BY <3>1, OutcomeRight, GroupsSuffice
  <2>2. CASE stage # "initialized"
    BY <2>2 DEF SignsRight
  <2> QED BY <2>1, <2>2
<1> QED BY <1>1, TypeCorrect, PTL
-----------------------------------------------------------------------------
(* The sides of the sub-elements.                                         *)

PiecesIn(g) == {g[i] : i \in 1 .. Len(g)}
SidesOf(S) == UNION {Sides(e) : e \in S}
MarkedSides(S) == {Side(e, e.side) : e \in {f \in S : f.side >= 0}}
MarkedSide(p) == IF p.side >= 0 THEN {Side(p, p.side)} ELSE {}

LEMMA GroupOfOne ==
  \A p : /\ PiecesIn(<<p>>) = {p}
         /\ SidesOf(PiecesIn(<<p>>)) = Sides(p)
         /\ MarkedSides(PiecesIn(<<p>>)) = MarkedSide(p)
<1> TAKE p
<1>1. PiecesIn(<<p>>) = {p}
  <2>1. Len(<<p>>) = 1 /\ <<p>>[1] = p /\ 1 .. 1 = {1}
    OBVIOUS
  <2> QED BY <2>1 DEF PiecesIn
<1>2. SidesOf({p}) = Sides(p)
  BY DEF SidesOf
<1>3. MarkedSides({p}) = MarkedSide(p)
  BY DEF MarkedSides, MarkedSide
<1> QED BY <1>1, <1>2, <1>3

LEMMA GroupOfTwo ==
  \A p, q : /\ PiecesIn(<<p, q>>) = {p, q}
            /\ SidesOf(PiecesIn(<<p, q>>)) = Sides(p) \cup Sides(q)
            /\ MarkedSides(PiecesIn(<<p, q>>)) = MarkedSide(p) \cup MarkedSide(q)
<1> TAKE p, q
<1>1. PiecesIn(<<p, q>>) = {p, q}
  <2>1. Len(<<p, q>>) = 2 /\ <<p, q>>[1] = p /\ <<p, q>>[2] = q /\ 1 .. 2 = {1, 2}
    OBVIOUS
  <2> QED BY <2>1 DEF PiecesIn
<1>2. SidesOf({p, q}) = Sides(p) \cup Sides(q)
  BY DEF SidesOf
<1>3. MarkedSides({p, q}) = MarkedSide(p) \cup MarkedSide(q)
  BY DEF MarkedSides, MarkedSide
<1> QED BY <1>1, <1>2, <1>3

\* The three sides of a triangle and the four of a quadrilateral.
LEMMA TriangleSides ==
  ASSUME NEW a, NEW b, NEW c, NEW p, p.nodes = <<a, b, c>>
  PROVE  /\ Sides(p) = {<<a, b>>, <<b, c>>, <<c, a>>}
         /\ Side(p, 0) = <<a, b>> /\ Side(p, 1) = <<b, c>> /\ Side(p, 2) = <<c, a>>
<1>1. /\ Len(p.nodes) = 3 /\ p.nodes[1] = a /\ p.nodes[2] = b /\ p.nodes[3] = c
      /\ (0 + 1) % 3 = 1 /\ (1 + 1) % 3 = 2 /\ (2 + 1) % 3 = 0
  OBVIOUS
<1>2. Side(p, 0) = <<a, b>> /\ Side(p, 1) = <<b, c>> /\ Side(p, 2) = <<c, a>>
  BY <1>1 DEF Side
<1>3. \A x : x \in Sides(p) <=> x = Side(p, 0) \/ x = Side(p, 1) \/ x = Side(p, 2)
  <2>1. \A i : i \in 0 .. (Len(p.nodes) - 1) <=> i = 0 \/ i = 1 \/ i = 2
    BY <1>1
  <2> QED BY <2>1, Zenon DEF Sides
<1> QED BY <1>2, <1>3

LEMMA QuadSides ==
  ASSUME NEW a, NEW b, NEW c, NEW d, NEW p, p.nodes = <<a, b, c, d>>
  PROVE  /\ Sides(p) = {<<a, b>>, <<b, c>>, <<c, d>>, <<d, a>>}
         /\ Side(p, 0) = <<a, b>> /\ Side(p, 1) = <<b, c>>
         /\ Side(p, 2) = <<c, d>> /\ Side(p, 3) = <<d, a>>
<1>1. /\ Len(p.nodes) = 4 /\ p.nodes[1] = a /\ p.nodes[2] = b /\ p.nodes[3] = c /\ p.nodes[4] = d
      /\ (0 + 1) % 4 = 1 /\ (1 + 1) % 4 = 2 /\ (2 + 1) % 4 = 3 /\ (3 + 1) % 4 = 0
  OBVIOUS
<1>2. /\ Side(p, 0) = <<a, b>> /\ Side(p, 1) = <<b, c>>
      /\ Side(p, 2) = <<c, d>> /\ Side(p, 3) = <<d, a>>
  BY <1>1 DEF Side
<1>3. \A x : x \in Sides(p) <=>
               x = Side(p, 0) \/ x = Side(p, 1) \/ x = Side(p, 2) \/ x = Side(p, 3)
  <2>1. \A i : i \in 0 .. (Len(p.nodes) - 1) <=> i = 0 \/ i = 1 \/ i = 2 \/ i = 3
    BY <1>1
  <2> QED BY <2>1, Zenon DEF Sides
<1> QED BY <1>2, <1>3

\* The sides of a piece, as a fact to be matched.
LEMMA TriangleShape ==
  \A a, b, c : /\ \A s : Sides(Piece(<<a, b, c>>, s)) = {<<a, b>>, <<b, c>>, <<c, a>>}
               /\ MarkedSide(Piece(<<a, b, c>>, 0)) = {<<a, b>>}
               /\ MarkedSide(Piece(<<a, b, c>>, 2)) = {<<c, a>>}
<1> TAKE a, b, c
<1>1. ASSUME NEW s
      PROVE  Piece(<<a, b, c>>, s).nodes = <<a, b, c>> /\ Piece(<<a, b, c>>, s).side = s
  BY DEF Piece
<1> QED BY <1>1, TriangleSides DEF MarkedSide

LEMMA QuadShape ==
  \A a, b, c, d :
    /\ \A s : Sides(Piece(<<a, b, c, d>>, s)) = {<<a, b>>, <<b, c>>, <<c, d>>, <<d, a>>}
    /\ MarkedSide(Piece(<<a, b, c, d>>, 0)) = {<<a, b>>}
    /\ MarkedSide(Piece(<<a, b, c, d>>, 2)) = {<<c, d>>}
    /\ MarkedSide(Piece(<<a, b, c, d>>, 3)) = {<<d, a>>}
    /\ MarkedSide(Piece(<<a, b, c, d>>, NoSide)) = {}
<1> TAKE a, b, c, d
<1>1. ASSUME NEW s
      PROVE  Piece(<<a, b, c, d>>, s).nodes = <<a, b, c, d>> /\ Piece(<<a, b, c, d>>, s).side = s
  BY DEF Piece
<1> QED BY <1>1, QuadSides DEF MarkedSide, NoSide

\* The marked sides of two groups are the sides they share, seen from both.
Interlock(F, G) ==
    /\ \A s : s \in MarkedSides(F) <=> s \in SidesOf(F) /\ Reversed(s) \in SidesOf(G)
    /\ \A s : s \in MarkedSides(G) <=> s \in SidesOf(G) /\ Reversed(s) \in SidesOf(F)
    /\ MarkedSides(F) # {} /\ MarkedSides(G) # {}
    /\ \A s \in SidesOf(F) \cup SidesOf(G) : Reversed(Reversed(s)) = s
GroupsMeet(pieces) == Interlock(PiecesIn(pieces.first), PiecesIn(pieces.second))

\* The marked sides join nodes of E.
EndsIn(pieces, E) ==
    \A s \in MarkedSides(PiecesIn(pieces.first)) \cup MarkedSides(PiecesIn(pieces.second)) :
        s[1] \in E /\ s[2] \in E

\* Corners and new nodes are different nodes.
LEMMA DistinctNodes ==
  ASSUME NEW r \in Corners
  PROVE  /\ N(r) # N(r+1) /\ N(r) # N(r+2) /\ N(r) # N(r+3)
         /\ N(r+1) # N(r+2) /\ N(r+1) # N(r+3) /\ N(r+2) # N(r+3)
         /\ \A i, k : N(i) # M(k)
         /\ M(0) # M(1) /\ M(0) # M(2) /\ M(0) # M(3) /\ M(1) # M(2) /\ M(1) # M(3) /\ M(2) # M(3)
<1>1. /\ r % 4 # (r+1) % 4 /\ r % 4 # (r+2) % 4 /\ r % 4 # (r+3) % 4
      /\ (r+1) % 4 # (r+2) % 4 /\ (r+1) % 4 # (r+3) % 4 /\ (r+2) % 4 # (r+3) % 4
  BY DEF Corners
<1>2. r \in Int /\ r + 1 \in Int /\ r + 2 \in Int /\ r + 3 \in Int
  BY DEF Corners
<1> QED BY <1>1, <1>2, SameNode, OtherNode DEF M

\* In each mode the two groups interlock along the cut.
LEMMA GroupsInterlock ==
  ASSUME NEW r \in Corners
  PROVE  /\ GroupsMeet(AdjacentPieces(r)) /\ EndsIn(AdjacentPieces(r), {M(0), M(1)})
         /\ GroupsMeet(OppositeEdgePieces(r)) /\ EndsIn(OppositeEdgePieces(r), {M(0), M(1)})
         /\ GroupsMeet(NodeAndEdgePieces(r, 1)) /\ EndsIn(NodeAndEdgePieces(r, 1), {N(r), M(0)})
         /\ GroupsMeet(NodeAndEdgePieces(r, 2)) /\ EndsIn(NodeAndEdgePieces(r, 2), {N(r), M(0)})
         /\ GroupsMeet(OppositeNodePieces(r)) /\ EndsIn(OppositeNodePieces(r), {N(r), N(r+2)})
         /\ GroupsMeet(NodeAndTwoEdgePieces(r))
         /\ EndsIn(NodeAndTwoEdgePieces(r), {N(r), M(0), M(1)})
         /\ GroupsMeet(TwoAdjacentPieces(r))
         /\ EndsIn(TwoAdjacentPieces(r), {M(0), M(1), M(2), M(3)})
<1> DEFINE a == N(r)  b == N(r+1)  c == N(r+2)  d == N(r+3)
           e == M(0)  f == M(1)  g == M(2)  h == M(3)
<1>1. /\ a # b /\ a # c /\ a # d /\ b # c /\ b # d /\ c # d
      /\ e # f /\ e # g /\ e # h /\ f # g /\ f # h /\ g # h
      /\ a # e /\ a # f /\ a # g /\ a # h /\ b # e /\ b # f /\ b # g /\ b # h
      /\ c # e /\ c # f /\ c # g /\ c # h /\ d # e /\ d # f /\ d # g /\ d # h
  BY DistinctNodes
<1>2. \A x, y : Reversed(<<x, y>>) = <<y, x>>
  BY DEF Reversed
<1>3. GroupsMeet(AdjacentPieces(r)) /\ EndsIn(AdjacentPieces(r), {e, f})
  <2> DEFINE F == AdjacentPieces(r).first
             G == AdjacentPieces(r).second
  <2>1. F = <<Piece(<<e, b, f>>, 2)>>
    BY DEF AdjacentPieces
  <2>2. G = <<Piece(<<e, g, d, a>>, NoSide), Piece(<<f, c, g, e>>, 3)>>
    BY DEF AdjacentPieces
  <2> HIDE DEF a, b, c, d, e, f, g, h, F, G
  <2>3. /\ SidesOf(PiecesIn(F)) = {<<e, b>>, <<b, f>>, <<f, e>>}
       /\ MarkedSides(PiecesIn(F)) = {<<f, e>>}
    BY <2>1, GroupOfOne, TriangleShape
  <2>4. /\ SidesOf(PiecesIn(G)) = {<<e, g>>, <<g, d>>, <<d, a>>, <<a, e>>,
                                  <<f, c>>, <<c, g>>, <<g, e>>, <<e, f>>}
       /\ MarkedSides(PiecesIn(G)) = {<<e, f>>}
    BY <2>2, GroupOfTwo, QuadShape
  <2>5. Interlock(PiecesIn(F), PiecesIn(G))
    BY <2>3, <2>4, <1>1, <1>2 DEF Interlock
  <2>6. \A s \in MarkedSides(PiecesIn(F)) \cup MarkedSides(PiecesIn(G)) :
          s[1] \in {e, f} /\ s[2] \in {e, f}
    BY <2>3, <2>4
  <2> QED BY <2>5, <2>6 DEF GroupsMeet, EndsIn, F, G
<1>4. GroupsMeet(OppositeEdgePieces(r)) /\ EndsIn(OppositeEdgePieces(r), {e, f})
  <2> DEFINE F == OppositeEdgePieces(r).first
             G == OppositeEdgePieces(r).second
  <2>1. F = <<Piece(<<e, b, c, f>>, 3)>>
    BY DEF OppositeEdgePieces
  <2>2. G = <<Piece(<<f, d, a, e>>, 3)>>
    BY DEF OppositeEdgePieces
  <2> HIDE DEF a, b, c, d, e, f, g, h, F, G
  <2>3. /\ SidesOf(PiecesIn(F)) = {<<e, b>>, <<b, c>>, <<c, f>>, <<f, e>>}
       /\ MarkedSides(PiecesIn(F)) = {<<f, e>>}
    BY <2>1, GroupOfOne, QuadShape
  <2>4. /\ SidesOf(PiecesIn(G)) = {<<f, d>>, <<d, a>>, <<a, e>>, <<e, f>>}
       /\ MarkedSides(PiecesIn(G)) = {<<e, f>>}
    BY <2>2, GroupOfOne, QuadShape
  <2>5. Interlock(PiecesIn(F), PiecesIn(G))
    BY <2>3, <2>4, <1>1, <1>2 DEF Interlock
  <2>6. \A s \in MarkedSides(PiecesIn(F)) \cup MarkedSides(PiecesIn(G)) :
          s[1] \in {e, f} /\ s[2] \in {e, f}
    BY <2>3, <2>4
  <2> QED BY <2>5, <2>6 DEF GroupsMeet, EndsIn, F, G
<1>5. GroupsMeet(NodeAndEdgePieces(r, 1)) /\ EndsIn(NodeAndEdgePieces(r, 1), {a, e})
  <2> DEFINE F == NodeAndEdgePieces(r, 1).first
             G == NodeAndEdgePieces(r, 1).second
  <2>1. F = <<Piece(<<a, b, e>>, 2)>>
    BY DEF NodeAndEdgePieces
  <2>2. G = <<Piece(<<e, c, d, a>>, 3)>>
    BY DEF NodeAndEdgePieces
  <2> HIDE DEF a, b, c, d, e, f, g, h, F, G
  <2>3. /\ SidesOf(PiecesIn(F)) = {<<a, b>>, <<b, e>>, <<e, a>>}
       /\ MarkedSides(PiecesIn(F)) = {<<e, a>>}
    BY <2>1, GroupOfOne, TriangleShape
  <2>4. /\ SidesOf(PiecesIn(G)) = {<<e, c>>, <<c, d>>, <<d, a>>, <<a, e>>}
       /\ MarkedSides(PiecesIn(G)) = {<<a, e>>}
    BY <2>2, GroupOfOne, QuadShape
  <2>5. Interlock(PiecesIn(F), PiecesIn(G))
    BY <2>3, <2>4, <1>1, <1>2 DEF Interlock
  <2>6. \A s \in MarkedSides(PiecesIn(F)) \cup MarkedSides(PiecesIn(G)) :
          s[1] \in {a, e} /\ s[2] \in {a, e}
    BY <2>3, <2>4
  <2> QED BY <2>5, <2>6 DEF GroupsMeet, EndsIn, F, G
<1>6. GroupsMeet(NodeAndEdgePieces(r, 2)) /\ EndsIn(NodeAndEdgePieces(r, 2), {a, e})
  <2> DEFINE F == NodeAndEdgePieces(r, 2).first
             G == NodeAndEdgePieces(r, 2).second
  <2>1. F = <<Piece(<<a, e, d>>, 0)>>
    BY DEF NodeAndEdgePieces
  <2>2. G = <<Piece(<<a, b, c, e>>, 3)>>
    BY DEF NodeAndEdgePieces
  <2> HIDE DEF a, b, c, d, e, f, g, h, F, G
  <2>3. /\ SidesOf(PiecesIn(F)) = {<<a, e>>, <<e, d>>, <<d, a>>}
       /\ MarkedSides(PiecesIn(F)) = {<<a, e>>}
    BY <2>1, GroupOfOne, TriangleShape
  <2>4. /\ SidesOf(PiecesIn(G)) = {<<a, b>>, <<b, c>>, <<c, e>>, <<e, a>>}
       /\ MarkedSides(PiecesIn(G)) = {<<e, a>>}
    BY <2>2, GroupOfOne, QuadShape
  <2>5. Interlock(PiecesIn(F), PiecesIn(G))
    BY <2>3, <2>4, <1>1, <1>2 DEF Interlock
  <2>6. \A s \in MarkedSides(PiecesIn(F)) \cup MarkedSides(PiecesIn(G)) :
          s[1] \in {a, e} /\ s[2] \in {a, e}
    BY <2>3, <2>4
  <2> QED BY <2>5, <2>6 DEF GroupsMeet, EndsIn, F, G
<1>7. GroupsMeet(OppositeNodePieces(r)) /\ EndsIn(OppositeNodePieces(r), {a, c})
  <2> DEFINE F == OppositeNodePieces(r).first
             G == OppositeNodePieces(r).second
  <2>1. F = <<Piece(<<a, b, c>>, 2)>>
    BY DEF OppositeNodePieces
  <2>2. G = <<Piece(<<c, d, a>>, 2)>>
    BY DEF OppositeNodePieces
  <2> HIDE DEF a, b, c, d, e, f, g, h, F, G
  <2>3. /\ SidesOf(PiecesIn(F)) = {<<a, b>>, <<b, c>>, <<c, a>>}
       /\ MarkedSides(PiecesIn(F)) = {<<c, a>>}
    BY <2>1, GroupOfOne, TriangleShape
  <2>4. /\ SidesOf(PiecesIn(G)) = {<<c, d>>, <<d, a>>, <<a, c>>}
       /\ MarkedSides(PiecesIn(G)) = {<<a, c>>}
    BY <2>2, GroupOfOne, TriangleShape
  <2>5. Interlock(PiecesIn(F), PiecesIn(G))
    BY <2>3, <2>4, <1>1, <1>2 DEF Interlock
  <2>6. \A s \in MarkedSides(PiecesIn(F)) \cup MarkedSides(PiecesIn(G)) :
          s[1] \in {a, c} /\ s[2] \in {a, c}
    BY <2>3, <2>4
  <2> QED BY <2>5, <2>6 DEF GroupsMeet, EndsIn, F, G
<1>8. GroupsMeet(NodeAndTwoEdgePieces(r)) /\ EndsIn(NodeAndTwoEdgePieces(r), {a, e, f})
  <2> DEFINE F == NodeAndTwoEdgePieces(r).first
             G == NodeAndTwoEdgePieces(r).second
  <2>1. F = <<Piece(<<a, b, e>>, 2), Piece(<<a, f, d>>, 0)>>
    BY DEF NodeAndTwoEdgePieces
  <2>2. G = <<Piece(<<a, e, c>>, 0), Piece(<<a, c, f>>, 2)>>
    BY DEF NodeAndTwoEdgePieces
  <2> HIDE DEF a, b, c, d, e, f, g, h, F, G
  <2>3. /\ SidesOf(PiecesIn(F)) = {<<a, b>>, <<b, e>>, <<e, a>>, <<a, f>>, <<f, d>>, <<d, a>>}
       /\ MarkedSides(PiecesIn(F)) = {<<e, a>>, <<a, f>>}
    BY <2>1, GroupOfTwo, TriangleShape
  <2>4. /\ SidesOf(PiecesIn(G)) = {<<a, e>>, <<e, c>>, <<c, a>>, <<a, c>>, <<c, f>>, <<f, a>>}
       /\ MarkedSides(PiecesIn(G)) = {<<a, e>>, <<f, a>>}
    BY <2>2, GroupOfTwo, TriangleShape
  <2>5. Interlock(PiecesIn(F), PiecesIn(G))
    BY <2>3, <2>4, <1>1, <1>2 DEF Interlock
  <2>6. \A s \in MarkedSides(PiecesIn(F)) \cup MarkedSides(PiecesIn(G)) :
          s[1] \in {a, e, f} /\ s[2] \in {a, e, f}
    BY <2>3, <2>4
  <2> QED BY <2>5, <2>6 DEF GroupsMeet, EndsIn, F, G
<1>9. GroupsMeet(TwoAdjacentPieces(r)) /\ EndsIn(TwoAdjacentPieces(r), {e, f, g, h})
  <2> DEFINE F == TwoAdjacentPieces(r).first
             G == TwoAdjacentPieces(r).second
  <2>1. F = <<Piece(<<e, b, f>>, 2), Piece(<<h, g, d>>, 0)>>
    BY DEF TwoAdjacentPieces
  <2>2. G = <<Piece(<<a, e, g, h>>, 2), Piece(<<e, f, c, g>>, 0)>>
    BY DEF TwoAdjacentPieces
  <2> HIDE DEF a, b, c, d, e, f, g, h, F, G
  <2>3. /\ SidesOf(PiecesIn(F)) = {<<e, b>>, <<b, f>>, <<f, e>>, <<h, g>>, <<g, d>>, <<d, h>>}
       /\ MarkedSides(PiecesIn(F)) = {<<f, e>>, <<h, g>>}
    BY <2>1, GroupOfTwo, TriangleShape
  <2>4. /\ SidesOf(PiecesIn(G)) = {<<a, e>>, <<e, g>>, <<g, h>>, <<h, a>>,
                                  <<e, f>>, <<f, c>>, <<c, g>>, <<g, e>>}
       /\ MarkedSides(PiecesIn(G)) = {<<g, h>>, <<e, f>>}
    BY <2>2, GroupOfTwo, QuadShape
  <2>5. Interlock(PiecesIn(F), PiecesIn(G))
    BY <2>3, <2>4, <1>1, <1>2 DEF Interlock
  <2>6. \A s \in MarkedSides(PiecesIn(F)) \cup MarkedSides(PiecesIn(G)) :
          s[1] \in {e, f, g, h} /\ s[2] \in {e, f, g, h}
    BY <2>3, <2>4
  <2> QED BY <2>5, <2>6 DEF GroupsMeet, EndsIn, F, G
<1> QED BY <1>3, <1>4, <1>5, <1>6, <1>7, <1>8, <1>9

\* In every selected mode, the marked sides join nodes on the level set.
LEMMA SelectedMeet ==
  ASSUME PhiKnown, Selected.mode # "NO_INTERSECTION", mode = Selected.mode
  PROVE  /\ ThroughElement
         /\ GroupsMeet(Pieces(Selected))
         /\ \A s \in MarkedSides(PiecesIn(Pieces(Selected).first))
                       \cup MarkedSides(PiecesIn(Pieces(Selected).second)) :
              OnInterface(s[1]) /\ OnInterface(s[2])
<1> DEFINE Meet(pieces) == /\ GroupsMeet(pieces)
                           /\ \A s \in MarkedSides(PiecesIn(pieces.first))
                                         \cup MarkedSides(PiecesIn(pieces.second)) :
                                OnInterface(s[1]) /\ OnInterface(s[2])
<1>1. PICK r \in Corners : SelectionAt(r)
  BY Selection
<1>2. \A i \in Int : NodeCut(i) => OnInterface(N(i))
  <2>1. \A i \in Int : (i % 4) % 4 = i % 4
    OBVIOUS
  <2> QED BY <2>1 DEF OnInterface, N, NodeCut
<1>3. OnInterface(M(0)) /\ OnInterface(M(1))
  BY DEF OnInterface, M
<1>4. mode # "ADJACENT_EDGES" => OnInterface(M(2)) /\ OnInterface(M(3))
  BY DEF OnInterface, M
<1>5. NodeCut(r) => OnInterface(N(r))
  BY <1>2 DEF Corners
<1>6. ASSUME NEW pieces, NEW E, GroupsMeet(pieces), EndsIn(pieces, E),
             \A x \in E : OnInterface(x)
      PROVE  Meet(pieces)
  BY <1>6 DEF EndsIn
<1> HIDE DEF Meet
<1> SUFFICES ThroughElement /\ Meet(Pieces(Selected))
  BY DEF Meet
<1>7. CASE Selected = Choice("ADJACENT_EDGES", r, 0)
  <2>1. Pieces(Selected) = AdjacentPieces(r) /\ mode = "ADJACENT_EDGES"
    BY <1>7 DEF Choice, Pieces
  <2>2. \A x \in {M(0), M(1)} : OnInterface(x)
    BY <1>3
  <2>4. GroupsMeet(AdjacentPieces(r)) /\ EndsIn(AdjacentPieces(r), {M(0), M(1)})
    BY GroupsInterlock
  <2>5. Meet(AdjacentPieces(r))
    BY <2>4, <2>2, <1>6
  <2>6. ThroughElement
    BY <2>1 DEF ThroughElement, Modes
  <2> QED BY <2>1, <2>5, <2>6
<1>8. CASE Selected = Choice("OPPOSITE_EDGES", r, 0)
  <2>1. Pieces(Selected) = OppositeEdgePieces(r) /\ mode = "OPPOSITE_EDGES"
    BY <1>8 DEF Choice, Pieces
  <2>2. \A x \in {M(0), M(1)} : OnInterface(x)
    BY <1>3
  <2>4. GroupsMeet(OppositeEdgePieces(r)) /\ EndsIn(OppositeEdgePieces(r), {M(0), M(1)})
    BY GroupsInterlock
  <2>5. Meet(OppositeEdgePieces(r))
    BY <2>4, <2>2, <1>6
  <2>6. ThroughElement
    BY <2>1 DEF ThroughElement, Modes
  <2> QED BY <2>1, <2>5, <2>6
<1>9. CASE Selected = Choice("OPPOSITE_NODES", r, 0) /\ OppositeNodeSigns(r)
  <2>1. Pieces(Selected) = OppositeNodePieces(r) /\ mode = "OPPOSITE_NODES"
    BY <1>9 DEF Choice, Pieces
  <2>2. r + 2 \in Int
    BY DEF Corners
  <2>3. \A x \in {N(r), N(r+2)} : OnInterface(x)
    BY <1>2, <1>5, <1>9, <2>2 DEF OppositeNodeSigns
  <2>4. GroupsMeet(OppositeNodePieces(r)) /\ EndsIn(OppositeNodePieces(r), {N(r), N(r+2)})
    BY GroupsInterlock
  <2>5. Meet(OppositeNodePieces(r))
    BY <2>4, <2>3, <1>6
  <2>6. ThroughElement
    BY <2>1 DEF ThroughElement, Modes
  <2> QED BY <2>1, <2>5, <2>6
<1>10. CASE Selected = Choice("NODE_AND_EDGE", r, 1) /\ NodeAndEdgeSigns(r, 1)
  <2>1. Pieces(Selected) = NodeAndEdgePieces(r, 1) /\ mode = "NODE_AND_EDGE"
    BY <1>10 DEF Choice, Pieces
  <2>2. \A x \in {N(r), M(0)} : OnInterface(x)
    BY <1>3, <1>5, <1>10 DEF NodeAndEdgeSigns
  <2>4. GroupsMeet(NodeAndEdgePieces(r, 1)) /\ EndsIn(NodeAndEdgePieces(r, 1), {N(r), M(0)})
    BY GroupsInterlock
  <2>5. Meet(NodeAndEdgePieces(r, 1))
    BY <2>4, <2>2, <1>6
  <2>6. ThroughElement
    BY <2>1 DEF ThroughElement, Modes
  <2> QED BY <2>1, <2>5, <2>6
<1>11. CASE Selected = Choice("NODE_AND_EDGE", r, 2) /\ NodeAndEdgeSigns(r, 2)
  <2>1. Pieces(Selected) = NodeAndEdgePieces(r, 2) /\ mode = "NODE_AND_EDGE"
    BY <1>11 DEF Choice, Pieces
  <2>2. \A x \in {N(r), M(0)} : OnInterface(x)
    BY <1>3, <1>5, <1>11 DEF NodeAndEdgeSigns
  <2>4. GroupsMeet(NodeAndEdgePieces(r, 2)) /\ EndsIn(NodeAndEdgePieces(r, 2), {N(r), M(0)})
    BY GroupsInterlock
  <2>5. Meet(NodeAndEdgePieces(r, 2))
    BY <2>4, <2>2, <1>6
  <2>6. ThroughElement
    BY <2>1 DEF ThroughElement, Modes
  <2> QED BY <2>1, <2>5, <2>6
<1>12. CASE Selected = Choice("NODE_AND_TWO_EDGES", r, 1) /\ NodeAndTwoEdgeSigns(r)
  <2>1. Pieces(Selected) = NodeAndTwoEdgePieces(r) /\ mode = "NODE_AND_TWO_EDGES"
    BY <1>12 DEF Choice, Pieces
  <2>2. \A x \in {N(r), M(0), M(1)} : OnInterface(x)
    BY <1>3, <1>5, <1>12 DEF NodeAndTwoEdgeSigns
  <2>4. GroupsMeet(NodeAndTwoEdgePieces(r)) /\ EndsIn(NodeAndTwoEdgePieces(r), {N(r), M(0), M(1)})
    BY GroupsInterlock
  <2>5. Meet(NodeAndTwoEdgePieces(r))
    BY <2>4, <2>2, <1>6
  <2>6. ThroughElement
    BY <2>1 DEF ThroughElement, Modes
  <2> QED BY <2>1, <2>5, <2>6
<1>13. CASE Selected = Choice("TWO_ADJACENT_EDGES", r, 0)
  <2>1. Pieces(Selected) = TwoAdjacentPieces(r) /\ mode = "TWO_ADJACENT_EDGES"
    BY <1>13 DEF Choice, Pieces
  <2>2. \A x \in {M(0), M(1), M(2), M(3)} : OnInterface(x)
    BY <1>3, <1>4, <2>1
  <2>4. GroupsMeet(TwoAdjacentPieces(r)) /\ EndsIn(TwoAdjacentPieces(r), {M(0), M(1), M(2), M(3)})
    BY GroupsInterlock
  <2>5. Meet(TwoAdjacentPieces(r))
    BY <2>4, <2>2, <1>6
  <2>6. ThroughElement
    BY <2>1 DEF ThroughElement, Modes
  <2> QED BY <2>1, <2>5, <2>6
<1> QED BY <1>1, <1>7, <1>8, <1>9, <1>10, <1>11, <1>12, <1>13 DEF SelectionAt

\* What InterfaceMatches says, for the two groups of a divided element.
LEMMA MatchingGroups ==
  ASSUME NEW F, NEW G, Interlock(F, G)
  PROVE  /\ MarkedSides(F) = {s \in SidesOf(F) : Reversed(s) \in SidesOf(G)}
         /\ {Reversed(s) : s \in MarkedSides(F)} = MarkedSides(G)
         /\ Interlock(G, F)
         /\ MarkedSides(F \cup G) = MarkedSides(F) \cup MarkedSides(G)
<1>1. MarkedSides(F) = {s \in SidesOf(F) : Reversed(s) \in SidesOf(G)}
  BY DEF Interlock
<1>2. {Reversed(s) : s \in MarkedSides(F)} = MarkedSides(G)
  <2>1. ASSUME NEW s \in MarkedSides(F) PROVE Reversed(s) \in MarkedSides(G)
    BY DEF Interlock
  <2>2. ASSUME NEW t \in MarkedSides(G)
        PROVE  Reversed(t) \in MarkedSides(F) /\ t = Reversed(Reversed(t))
    BY DEF Interlock
  <2> QED BY <2>1, <2>2
<1>3. Interlock(G, F)
  BY DEF Interlock
<1>4. MarkedSides(F \cup G) = MarkedSides(F) \cup MarkedSides(G)
  BY DEF MarkedSides
<1> QED BY <1>1, <1>2, <1>3, <1>4

\* The interface property, with the groups as sets.
Matches(P, Q) ==
    /\ \A s \in MarkedSides(P \cup Q) : OnInterface(s[1]) /\ OnInterface(s[2])
    /\ HasBoundary <=> MarkedSides(P \cup Q) # {}
    /\ ThroughElement => MarkedSides(P) = {s \in SidesOf(P) : Reversed(s) \in SidesOf(Q)}
    /\ ThroughElement => {Reversed(s) : s \in MarkedSides(P)} = MarkedSides(Q)

LEMMA DividedMatches ==
  ASSUME PhiKnown, WasDivided
  PROVE  Matches(PiecesIn(positive), PiecesIn(negative))
<1> DEFINE F == PiecesIn(Pieces(Selected).first)
           G == PiecesIn(Pieces(Selected).second)
<1>1. Selected.mode # "NO_INTERSECTION" /\ mode = Selected.mode
  BY DEF WasDivided
<1>2. ThroughElement /\ Interlock(F, G)
  BY <1>1, SelectedMeet DEF GroupsMeet
<1>3. \A s \in MarkedSides(F) \cup MarkedSides(G) : OnInterface(s[1]) /\ OnInterface(s[2])
  BY <1>1, SelectedMeet
<1>4. \/ PiecesIn(positive) = F /\ PiecesIn(negative) = G
      \/ PiecesIn(positive) = G /\ PiecesIn(negative) = F
  BY DEF WasDivided
<1> HIDE DEF F, G
<1>5. HasBoundary /\ MarkedSides(F) # {} /\ MarkedSides(G) # {}
  BY <1>2 DEF HasBoundary, Interlock
<1>6. ASSUME NEW P, NEW Q, Interlock(P, Q), MarkedSides(P) # {},
             \A s \in MarkedSides(P) \cup MarkedSides(Q) : OnInterface(s[1]) /\ OnInterface(s[2])
      PROVE  Matches(P, Q)
  <2>1. /\ MarkedSides(P) = {s \in SidesOf(P) : Reversed(s) \in SidesOf(Q)}
        /\ {Reversed(s) : s \in MarkedSides(P)} = MarkedSides(Q)
    BY <1>6, MatchingGroups
  <2>2. MarkedSides(P \cup Q) = MarkedSides(P) \cup MarkedSides(Q)
    BY <1>6, MatchingGroups
  <2>3. MarkedSides(P \cup Q) # {}
    BY <2>2, <1>6
  <2>4. \A s \in MarkedSides(P \cup Q) : OnInterface(s[1]) /\ OnInterface(s[2])
    BY <2>2, <1>6
  <2> HIDE DEF HasBoundary
  <2> QED BY <2>1, <2>3, <2>4, <1>5, Zenon DEF Matches
<1>7. Matches(F, G)
  BY <1>2, <1>3, <1>5, <1>6
<1>8. Matches(G, F)
  <2>1. Interlock(G, F)
    BY <1>2, MatchingGroups
  <2> QED BY <1>3, <1>5, <1>6, <2>1
<1> QED BY <1>4, <1>7, <1>8

\* An element taken whole has the marked side of its only sub-element.
LEMMA UndividedPieces ==
  ASSUME NEW m, NEW isPositive \in BOOLEAN, NEW side, Undivided(m, isPositive, side)
  PROVE  /\ PiecesIn(positive) \cup PiecesIn(negative) = {Whole(side)}
         /\ MarkedSides(PiecesIn(positive) \cup PiecesIn(negative)) = MarkedSide(Whole(side))
<1>1. PiecesIn(<< >>) = {}
  BY DEF PiecesIn
<1>2. PiecesIn(<<Whole(side)>>) = {Whole(side)}
      /\ MarkedSides({Whole(side)}) = MarkedSide(Whole(side))
  BY GroupOfOne
<1> QED BY <1>1, <1>2 DEF Undivided

LEMMA WholeMatches ==
  ASSUME PhiKnown, WasUncut \/ WasTouched \/ WasColinear
  PROVE  Matches(PiecesIn(positive), PiecesIn(negative))
<1> DEFINE All == PiecesIn(positive) \cup PiecesIn(negative)
<1>1. CASE WasUncut \/ WasTouched
  <2>1. /\ mode \in {"NO_INTERSECTION", "THROUGH_NODE"}
        /\ MarkedSides(All) = MarkedSide(Whole(NoEntry))
    <3>1. CASE WasUncut
      <4> DEFINE b == MinValue > Tol
      <4>1. Undivided("NO_INTERSECTION", b, NoEntry) /\ b \in BOOLEAN
        BY <3>1 DEF WasUncut
      <4> HIDE DEF b
      <4> QED BY <4>1, UndividedPieces DEF Undivided
    <3>2. CASE WasTouched
      <4> DEFINE b == MaxValue > Tol
      <4>1. Undivided("THROUGH_NODE", b, NoEntry) /\ b \in BOOLEAN
        BY <3>2 DEF WasTouched
      <4> HIDE DEF b
      <4> QED BY <4>1, UndividedPieces DEF Undivided
    <3> QED BY <1>1, <3>1, <3>2
  <2>2. MarkedSide(Whole(NoEntry)) = {}
    BY DEF MarkedSide, Whole, Piece, NoEntry
  <2>3. ~HasBoundary /\ ~ThroughElement
    BY <2>1 DEF HasBoundary, ThroughElement
  <2>4. MarkedSides(All) = {}
    BY <2>1, <2>2
  <2> QED BY <2>3, <2>4 DEF Matches
<1>2. CASE WasColinear
  <2> DEFINE k == First(ColinearSides)
             b == MaxValue > Tol
  <2>1. ColinearSides \in SUBSET Corners /\ ColinearSides # {}
    BY <1>2 DEF WasColinear, Colinear, ColinearSides
  <2>2. k \in ColinearSides
    BY <2>1, FirstOf
  <2>3. Undivided("COLINEAR_EDGE", b, k) /\ b \in BOOLEAN
    BY <1>2 DEF WasColinear
  <2> HIDE DEF k, b
  <2>4. k \in Corners /\ NodeCut(k) /\ NodeCut(k+1)
    BY <2>2 DEF ColinearSides
  <2>5. MarkedSides(All) = MarkedSide(Whole(k)) /\ mode = "COLINEAR_EDGE"
    BY <2>3, UndividedPieces DEF Undivided
  <2>6. MarkedSide(Whole(k)) = {<<N(k), N(k+1)>>}
    <3>1. N(4) = N(0)
      BY DEF N
    <3>2. /\ MarkedSide(Whole(0)) = {<<N(0), N(1)>>}
          /\ MarkedSide(Whole(2)) = {<<N(2), N(3)>>}
          /\ MarkedSide(Whole(3)) = {<<N(3), N(0)>>}
      BY QuadShape DEF Whole
    <3>3. MarkedSide(Whole(1)) = {<<N(1), N(2)>>}
      <4>1. Whole(1).nodes = <<N(0), N(1), N(2), N(3)>> /\ Whole(1).side = 1
        BY DEF Whole, Piece
      <4> QED BY <4>1, QuadSides DEF MarkedSide
    <3> QED BY <3>1, <3>2, <3>3, <2>4 DEF Corners
  <2>7. OnInterface(N(k)) /\ OnInterface(N(k+1))
    <3>1. /\ N(k)[1] = "N" /\ N(k)[2] = k % 4 /\ (k % 4) % 4 = k % 4
          /\ N(k+1)[1] = "N" /\ N(k+1)[2] = (k+1) % 4 /\ ((k+1) % 4) % 4 = (k+1) % 4
      BY <2>4 DEF N, Corners
    <3> QED BY <3>1, <2>4 DEF OnInterface, NodeCut
  <2>8. HasBoundary /\ ~ThroughElement
    BY <2>5 DEF HasBoundary, ThroughElement
  <2>9. MarkedSides(All) = {<<N(k), N(k+1)>>}
    BY <2>5, <2>6
  <2>10. \A s \in MarkedSides(All) : OnInterface(s[1]) /\ OnInterface(s[2])
    BY <2>7, <2>9
  <2> QED BY <2>8, <2>9, <2>10 DEF Matches
<1> QED BY <1>1, <1>2

\* The interface is the same seen from both sides: the marked sides of the
\* positive sub-elements are exactly the sides they share with the negative
\* ones, reversed, and they join nodes where the level set is zero.
THEOREM InterfaceSeenFromBothSides == Spec => []InterfaceMatches
<1>1. Inv => InterfaceMatches
  <2> SUFFICES ASSUME Inv PROVE InterfaceMatches
    OBVIOUS
  <2>1. SUFFICES ASSUME stage = "initialized"
                 PROVE  Matches(PiecesIn(positive), PiecesIn(negative))
    BY DEF InterfaceMatches, Matches, MarkedSides, SidesOf, PiecesIn
  <2>2. PhiKnown /\ Outcome
    BY <2>1 DEF Inv, ElementKnown
  <2> QED BY <2>2, DividedMatches, WholeMatches DEF Outcome
<1> QED BY <1>1, TypeCorrect, PTL
-----------------------------------------------------------------------------
(* Points of a convex quadrilateral and of its sides.                     *)

Points == Int \X Int

\* The corners of a convex quadrilateral, counter-clockwise.
Quadrilateral(a, b, c, d) ==
    /\ a \in Points /\ b \in Points /\ c \in Points /\ d \in Points
    /\ Turn(a, b, c) > 0 /\ Turn(b, c, d) > 0 /\ Turn(c, d, a) > 0 /\ Turn(d, a, b) > 0

\* m is inside the side from p to q.
Within(m, p, q) ==
    /\ m \in Points
    /\ \E k \in 1 .. (Cells - 1) : \A i \in {1, 2} : Cells * m[i] = (Cells - k) * p[i] + k * q[i]

LEMMA PointTypes == \A p \in Points : p[1] \in Int /\ p[2] \in Int
BY DEF Points

LEMMA TurnTypes ==
  ASSUME NEW p \in Points, NEW q \in Points, NEW s \in Points
  PROVE  /\ Turn(p, q, s) \in Int
         /\ Turn(p, q, s) = Turn(q, s, p) /\ Turn(p, q, s) = Turn(s, p, q)
         /\ Turn(p, p, q) = 0 /\ Turn(p, q, p) = 0 /\ Turn(p, q, q) = 0
<1>1. p[1] \in Int /\ p[2] \in Int /\ q[1] \in Int /\ q[2] \in Int /\ s[1] \in Int /\ s[2] \in Int
  BY PointTypes
<1>2. \A p1, p2, q1, q2, s1, s2 \in Int :
        /\ (q1 - p1) * (s2 - p2) - (q2 - p2) * (s1 - p1)
             = (s1 - q1) * (p2 - q2) - (s2 - q2) * (p1 - q1)
        /\ (q1 - p1) * (s2 - p2) - (q2 - p2) * (s1 - p1)
             = (p1 - s1) * (q2 - s2) - (p2 - s2) * (q1 - s1)
        /\ (q1 - p1) * (q2 - p2) - (q2 - p2) * (q1 - p1) = 0
        /\ (p1 - p1) * (q2 - p2) - (p2 - p2) * (q1 - p1) = 0
        /\ (q1 - p1) * (p2 - p2) - (q2 - p2) * (p1 - p1) = 0
  OBVIOUS
<1> QED BY <1>1, <1>2 DEF Turn

\* A turn towards a point inside a side is a mean of those towards its ends.
LEMMA TurnMean ==
  ASSUME NEW x \in Points, NEW y \in Points, NEW p \in Points, NEW q \in Points,
         NEW m, Within(m, p, q)
  PROVE  \E k \in 1 .. (Cells - 1) :
           Cells * Turn(x, y, m) = (Cells - k) * Turn(x, y, p) + k * Turn(x, y, q)
<1>1. PICK k \in 1 .. (Cells - 1) :
        \A i \in {1, 2} : Cells * m[i] = (Cells - k) * p[i] + k * q[i]
  BY DEF Within
<1> DEFINE C == Cells
           x1 == x[1]  x2 == x[2]  y1 == y[1]  y2 == y[2]  p1 == p[1]  p2 == p[2]
           q1 == q[1]  q2 == q[2]  m1 == m[1]  m2 == m[2]
<1>2. /\ x1 \in Int /\ x2 \in Int /\ y1 \in Int /\ y2 \in Int /\ p1 \in Int /\ p2 \in Int
      /\ q1 \in Int /\ q2 \in Int /\ m1 \in Int /\ m2 \in Int /\ C \in Int /\ k \in Int
  BY PointTypes, CellsAssumption DEF Within
<1>3. C * m1 = (C - k) * p1 + k * q1 /\ C * m2 = (C - k) * p2 + k * q2
  BY <1>1
<1>4. /\ Turn(x, y, m) = (y1 - x1) * (m2 - x2) - (y2 - x2) * (m1 - x1)
      /\ Turn(x, y, p) = (y1 - x1) * (p2 - x2) - (y2 - x2) * (p1 - x1)
      /\ Turn(x, y, q) = (y1 - x1) * (q2 - x2) - (y2 - x2) * (q1 - x1)
  BY DEF Turn
<1> HIDE DEF C, x1, x2, y1, y2, p1, p2, q1, q2, m1, m2
<1>5. C * ((y1 - x1) * (m2 - x2) - (y2 - x2) * (m1 - x1))
        = (y1 - x1) * (C * m2 - C * x2) - (y2 - x2) * (C * m1 - C * x1)
  BY <1>2
<1>6. C * ((y1 - x1) * (m2 - x2) - (y2 - x2) * (m1 - x1))
        = (y1 - x1) * (((C - k) * p2 + k * q2) - C * x2)
          - (y2 - x2) * (((C - k) * p1 + k * q1) - C * x1)
  BY <1>2, <1>3, <1>5
<1>7. (y1 - x1) * (((C - k) * p2 + k * q2) - C * x2)
        - (y2 - x2) * (((C - k) * p1 + k * q1) - C * x1)
      = (C - k) * ((y1 - x1) * (p2 - x2) - (y2 - x2) * (p1 - x1))
        + k * ((y1 - x1) * (q2 - x2) - (y2 - x2) * (q1 - x1))
  BY <1>2
<1>8. C * Turn(x, y, m) = (C - k) * Turn(x, y, p) + k * Turn(x, y, q)
  BY <1>4, <1>6, <1>7
<1> QED BY <1>8 DEF C

\* A mean of two integers with positive weights.
LEMMA MeanSign ==
  ASSUME NEW C \in Int, NEW j \in Int, NEW t \in Int, NEW u \in Int, NEW v \in Int,
         0 < j, j < C, C * t = (C - j) * u + j * v
  PROVE  /\ u >= 0 /\ v >= 0 /\ (u > 0 \/ v > 0) => t > 0
         /\ u = 0 /\ v = 0 => t = 0
<1>1. ASSUME u >= 0, v >= 0, u > 0 \/ v > 0 PROVE t > 0
  <2>1. (C - j) * u >= 0 /\ j * v >= 0
    BY <1>1
  <2>2. (C - j) * u + j * v > 0
    <3>1. CASE u > 0
      <4>1. (C - j) * u > 0
        BY <3>1
      <4> QED BY <2>1, <4>1
    <3>2. CASE v > 0
      <4>1. j * v > 0
        BY <3>2
      <4> QED BY <2>1, <4>1
    <3> QED BY <1>1, <3>1, <3>2
  <2>3. C * t > 0 /\ C > 0
    BY <2>2
  <2> QED BY <2>3
<1>2. ASSUME u = 0, v = 0 PROVE t = 0
  <2>1. C * t = 0 /\ C > 0
    BY <1>2
  <2> QED BY <2>1
<1> QED BY <1>1, <1>2

\* So a point inside a side is to the left of a line that has one end of the
\* side on its left and the other there or on the line.
LEMMA TurnWithin ==
  ASSUME NEW x \in Points, NEW y \in Points, NEW p \in Points, NEW q \in Points,
         NEW m, Within(m, p, q)
  PROVE  /\ m \in Points
         /\ Turn(x, y, p) >= 0 /\ Turn(x, y, q) >= 0 /\ (Turn(x, y, p) > 0 \/ Turn(x, y, q) > 0)
              => Turn(x, y, m) > 0
         /\ Turn(x, y, p) = 0 /\ Turn(x, y, q) = 0 => Turn(x, y, m) = 0
<1> DEFINE t == Turn(x, y, m)  u == Turn(x, y, p)  v == Turn(x, y, q)  C == Cells
<1>1. PICK k \in 1 .. (Cells - 1) : C * t = (C - k) * u + k * v
  BY TurnMean
<1>2. m \in Points
  BY DEF Within
<1>3. t \in Int /\ u \in Int /\ v \in Int
  BY <1>2, TurnTypes
<1>4. C \in Int /\ k \in Int /\ 0 < k /\ k < C
  BY CellsAssumption
<1> HIDE DEF t, u, v, C
<1>5. /\ u >= 0 /\ v >= 0 /\ (u > 0 \/ v > 0) => t > 0
      /\ u = 0 /\ v = 0 => t = 0
  BY <1>1, <1>3, <1>4, MeanSign
<1> QED BY <1>2, <1>5 DEF t, u, v

\* The corners of a quadrilateral can be counted from any of them, and any
\* three of them in order turn left.
LEMMA QuadrilateralTurns ==
  ASSUME NEW a, NEW b, NEW c, NEW d, Quadrilateral(a, b, c, d)
  PROVE  /\ Quadrilateral(b, c, d, a)
         /\ a \in Points /\ b \in Points /\ c \in Points /\ d \in Points
         /\ Turn(a, b, c) > 0 /\ Turn(b, c, a) > 0 /\ Turn(c, a, b) > 0
         /\ Turn(b, c, d) > 0 /\ Turn(c, d, b) > 0 /\ Turn(d, b, c) > 0
         /\ Turn(c, d, a) > 0 /\ Turn(d, a, c) > 0 /\ Turn(a, c, d) > 0
         /\ Turn(d, a, b) > 0 /\ Turn(a, b, d) > 0 /\ Turn(b, d, a) > 0
<1>1. Quadrilateral(b, c, d, a)
  BY DEF Quadrilateral
<1>2. a \in Points /\ b \in Points /\ c \in Points /\ d \in Points
  BY DEF Quadrilateral
<1>3. Turn(a, b, c) > 0 /\ Turn(b, c, d) > 0 /\ Turn(c, d, a) > 0 /\ Turn(d, a, b) > 0
  BY DEF Quadrilateral
<1>4. /\ Turn(a, b, c) = Turn(b, c, a) /\ Turn(a, b, c) = Turn(c, a, b)
      /\ Turn(b, c, d) = Turn(c, d, b) /\ Turn(b, c, d) = Turn(d, b, c)
      /\ Turn(c, d, a) = Turn(d, a, c) /\ Turn(c, d, a) = Turn(a, c, d)
      /\ Turn(d, a, b) = Turn(a, b, d) /\ Turn(d, a, b) = Turn(b, d, a)
  BY <1>2, TurnTypes
<1> QED BY <1>1, <1>2, <1>3, <1>4

\* A line with one end of a side on its left and the other not on its right.
LEMMA LeftOfLine ==
  ASSUME NEW x \in Points, NEW y \in Points, NEW p \in Points, NEW q \in Points,
         NEW m, Within(m, p, q),
         \/ Turn(x, y, p) > 0 /\ Turn(x, y, q) > 0
         \/ Turn(x, y, p) > 0 /\ (q = x \/ q = y)
         \/ Turn(x, y, q) > 0 /\ (p = x \/ p = y)
  PROVE  m \in Points /\ Turn(x, y, m) > 0 /\ Turn(y, m, x) > 0 /\ Turn(m, x, y) > 0
<1>1. Turn(x, y, x) = 0 /\ Turn(x, y, y) = 0
  BY TurnTypes
<1>2. Turn(x, y, p) \in Int /\ Turn(x, y, q) \in Int
  BY TurnTypes
<1>3. Turn(x, y, m) > 0 /\ m \in Points
  BY <1>1, <1>2, TurnWithin
<1>4. Turn(x, y, m) = Turn(y, m, x) /\ Turn(x, y, m) = Turn(m, x, y)
  BY <1>3, TurnTypes
<1> QED BY <1>3, <1>4

\* Corners, and one point m inside the side from a to b.
LEMMA OneSidePoint ==
  ASSUME NEW a, NEW b, NEW c, NEW d, Quadrilateral(a, b, c, d), NEW m, Within(m, a, b)
  PROVE  /\ m \in Points
         /\ Turn(m, b, c) > 0 /\ Turn(b, c, m) > 0 /\ Turn(c, m, b) > 0
         /\ Turn(m, b, d) > 0 /\ Turn(b, d, m) > 0 /\ Turn(d, m, b) > 0
         /\ Turn(m, c, d) > 0 /\ Turn(c, d, m) > 0 /\ Turn(d, m, c) > 0
         /\ Turn(m, c, a) > 0 /\ Turn(c, a, m) > 0 /\ Turn(a, m, c) > 0
         /\ Turn(m, d, a) > 0 /\ Turn(d, a, m) > 0 /\ Turn(a, m, d) > 0
<1>1. Turn(m, b, c) > 0 /\ Turn(b, c, m) > 0 /\ Turn(c, m, b) > 0
  BY QuadrilateralTurns, LeftOfLine
<1>2. Turn(m, b, d) > 0 /\ Turn(b, d, m) > 0 /\ Turn(d, m, b) > 0
  BY QuadrilateralTurns, LeftOfLine
<1>3. Turn(m, c, d) > 0 /\ Turn(c, d, m) > 0 /\ Turn(d, m, c) > 0
  BY QuadrilateralTurns, LeftOfLine
<1>4. Turn(m, c, a) > 0 /\ Turn(c, a, m) > 0 /\ Turn(a, m, c) > 0
  BY QuadrilateralTurns, LeftOfLine
<1>5. Turn(m, d, a) > 0 /\ Turn(d, a, m) > 0 /\ Turn(a, m, d) > 0
  BY QuadrilateralTurns, LeftOfLine
<1> QED BY <1>1, <1>2, <1>3, <1>4, <1>5 DEF Within

\* Points m and n inside two sides that follow one another.
LEMMA TwoSidePoints ==
  ASSUME NEW a, NEW b, NEW c, NEW d, Quadrilateral(a, b, c, d),
         NEW m, Within(m, a, b), NEW n, Within(n, b, c)
  PROVE  /\ Turn(m, b, n) > 0 /\ Turn(b, n, m) > 0 /\ Turn(n, m, b) > 0
         /\ Turn(m, n, c) > 0 /\ Turn(n, c, m) > 0 /\ Turn(c, m, n) > 0
         /\ Turn(m, n, d) > 0 /\ Turn(n, d, m) > 0 /\ Turn(d, m, n) > 0
         /\ Turn(m, n, a) > 0 /\ Turn(n, a, m) > 0 /\ Turn(a, m, n) > 0
<1>1. Turn(m, b, n) > 0 /\ Turn(b, n, m) > 0 /\ Turn(n, m, b) > 0
  BY QuadrilateralTurns, OneSidePoint, LeftOfLine
<1>2. Turn(m, n, c) > 0 /\ Turn(n, c, m) > 0 /\ Turn(c, m, n) > 0
  BY QuadrilateralTurns, OneSidePoint, LeftOfLine
<1>3. Turn(m, n, d) > 0 /\ Turn(n, d, m) > 0 /\ Turn(d, m, n) > 0
  BY QuadrilateralTurns, OneSidePoint, LeftOfLine
<1>4. Turn(m, n, a) > 0 /\ Turn(n, a, m) > 0 /\ Turn(a, m, n) > 0
  BY QuadrilateralTurns, OneSidePoint, LeftOfLine
<1> QED BY <1>1, <1>2, <1>3, <1>4

\* Points m and p inside two sides that face one another.
LEMMA FacingSidePoints ==
  ASSUME NEW a, NEW b, NEW c, NEW d, Quadrilateral(a, b, c, d),
         NEW m, Within(m, a, b), NEW p, Within(p, c, d)
  PROVE  /\ Turn(m, b, p) > 0 /\ Turn(b, p, m) > 0 /\ Turn(p, m, b) > 0
         /\ Turn(m, c, p) > 0 /\ Turn(c, p, m) > 0 /\ Turn(p, m, c) > 0
         /\ Turn(m, p, d) > 0 /\ Turn(p, d, m) > 0 /\ Turn(d, m, p) > 0
         /\ Turn(m, p, a) > 0 /\ Turn(p, a, m) > 0 /\ Turn(a, m, p) > 0
<1>1. Turn(m, b, p) > 0 /\ Turn(b, p, m) > 0 /\ Turn(p, m, b) > 0
  BY QuadrilateralTurns, OneSidePoint, LeftOfLine
<1>2. Turn(m, c, p) > 0 /\ Turn(c, p, m) > 0 /\ Turn(p, m, c) > 0
  BY QuadrilateralTurns, OneSidePoint, LeftOfLine
<1>3. Turn(m, p, d) > 0 /\ Turn(p, d, m) > 0 /\ Turn(d, m, p) > 0
  BY QuadrilateralTurns, OneSidePoint, LeftOfLine
<1>4. Turn(m, p, a) > 0 /\ Turn(p, a, m) > 0 /\ Turn(a, m, p) > 0
  BY QuadrilateralTurns, OneSidePoint, LeftOfLine
<1> QED BY <1>1, <1>2, <1>3, <1>4

\* Points m, n and p inside three sides that follow one another.
LEMMA ThreeSidePoints ==
  ASSUME NEW a, NEW b, NEW c, NEW d, Quadrilateral(a, b, c, d),
         NEW m, Within(m, a, b), NEW n, Within(n, b, c), NEW p, Within(p, c, d)
  PROVE  Turn(m, n, p) > 0 /\ Turn(n, p, m) > 0 /\ Turn(p, m, n) > 0
BY QuadrilateralTurns, TwoSidePoints, LeftOfLine DEF Within
-----------------------------------------------------------------------------
(* Areas and convexity of the sub-elements.                               *)

Cross(p, q) == p[1] * q[2] - p[2] * q[1]

LEMMA CrossTypes ==
  ASSUME NEW p \in Points, NEW q \in Points
  PROVE  Cross(p, q) \in Int /\ Cross(q, p) = -Cross(p, q)
<1> DEFINE p1 == p[1]  p2 == p[2]  q1 == q[1]  q2 == q[2]
<1>1. p1 \in Int /\ p2 \in Int /\ q1 \in Int /\ q2 \in Int
  BY PointTypes
<1>2. Cross(p, q) = p1 * q2 - p2 * q1 /\ Cross(q, p) = q1 * p2 - q2 * p1
  BY DEF Cross
<1> HIDE DEF p1, p2, q1, q2
<1>3. p1 * q2 - p2 * q1 \in Int /\ q1 * p2 - q2 * p1 = -(p1 * q2 - p2 * q1)
  BY <1>1
<1> QED BY <1>2, <1>3

\* Twice the area of a triangle, side by side.
LEMMA TurnCross ==
  ASSUME NEW p \in Points, NEW q \in Points, NEW s \in Points
  PROVE  Turn(p, q, s) = Cross(p, q) + Cross(q, s) + Cross(s, p)
<1> DEFINE p1 == p[1]  p2 == p[2]  q1 == q[1]  q2 == q[2]  s1 == s[1]  s2 == s[2]
<1>1. p1 \in Int /\ p2 \in Int /\ q1 \in Int /\ q2 \in Int /\ s1 \in Int /\ s2 \in Int
  BY PointTypes
<1>2. /\ Turn(p, q, s) = (q1 - p1) * (s2 - p2) - (q2 - p2) * (s1 - p1)
      /\ Cross(p, q) = p1 * q2 - p2 * q1
      /\ Cross(q, s) = q1 * s2 - q2 * s1
      /\ Cross(s, p) = s1 * p2 - s2 * p1
  BY DEF Turn, Cross
<1> HIDE DEF p1, p2, q1, q2, s1, s2
<1>3. (q1 - p1) * (s2 - p2) - (q2 - p2) * (s1 - p1)
        = (p1 * q2 - p2 * q1) + (q1 * s2 - q2 * s1) + (s1 * p2 - s2 * p1)
  BY <1>1
<1> QED BY <1>2, <1>3

\* A side is the sum of its parts.
LEMMA CrossWithin ==
  ASSUME NEW p \in Points, NEW q \in Points, NEW m, Within(m, p, q)
  PROVE  Cross(p, m) + Cross(m, q) = Cross(p, q)
<1>1. PICK k \in 1 .. (Cells - 1) :
        \A i \in {1, 2} : Cells * m[i] = (Cells - k) * p[i] + k * q[i]
  BY DEF Within
<1> DEFINE C == Cells
           p1 == p[1]  p2 == p[2]  q1 == q[1]  q2 == q[2]  m1 == m[1]  m2 == m[2]
<1>2. /\ p1 \in Int /\ p2 \in Int /\ q1 \in Int /\ q2 \in Int
      /\ m1 \in Int /\ m2 \in Int /\ C \in Int /\ k \in Int /\ C > 0
  BY PointTypes, CellsAssumption DEF Within
<1>3. C * m1 = (C - k) * p1 + k * q1 /\ C * m2 = (C - k) * p2 + k * q2
  BY <1>1
<1>4. /\ Cross(p, m) = p1 * m2 - p2 * m1
      /\ Cross(m, q) = m1 * q2 - m2 * q1
      /\ Cross(p, q) = p1 * q2 - p2 * q1
  BY DEF Cross
<1> HIDE DEF C, p1, p2, q1, q2, m1, m2
<1>5. C * ((p1 * m2 - p2 * m1) + (m1 * q2 - m2 * q1))
        = p1 * (C * m2) - p2 * (C * m1) + (C * m1) * q2 - (C * m2) * q1
  BY <1>2
<1>6. C * ((p1 * m2 - p2 * m1) + (m1 * q2 - m2 * q1))
        = p1 * ((C - k) * p2 + k * q2) - p2 * ((C - k) * p1 + k * q1)
          + ((C - k) * p1 + k * q1) * q2 - ((C - k) * p2 + k * q2) * q1
  BY <1>2, <1>3, <1>5
<1>7. p1 * ((C - k) * p2 + k * q2) - p2 * ((C - k) * p1 + k * q1)
        + ((C - k) * p1 + k * q1) * q2 - ((C - k) * p2 + k * q2) * q1
      = C * (p1 * q2 - p2 * q1)
  BY <1>2
<1>8. C * ((p1 * m2 - p2 * m1) + (m1 * q2 - m2 * q1)) = C * (p1 * q2 - p2 * q1)
  BY <1>6, <1>7
<1>9. \A u, v \in Int : C * u = C * v => u = v
  BY <1>2
<1>10. (p1 * m2 - p2 * m1) + (m1 * q2 - m2 * q1) \in Int /\ p1 * q2 - p2 * q1 \in Int
  BY <1>2
<1>11. (p1 * m2 - p2 * m1) + (m1 * q2 - m2 * q1) = p1 * q2 - p2 * q1
  BY <1>8, <1>9, <1>10
<1> QED BY <1>4, <1>11

\* A triangle that turns left, and its area.
LEMMA TriangleShapeOf ==
  ASSUME NEW x, NEW y, NEW z, NEW s, Pos(x) \in Points, Pos(y) \in Points, Pos(z) \in Points
  PROVE  LET e == Piece(<<x, y, z>>, s)
         IN  /\ Turn(Pos(x), Pos(y), Pos(z)) > 0 => Convex(e)
             /\ Area(e) = Cross(Pos(x), Pos(y)) + Cross(Pos(y), Pos(z)) + Cross(Pos(z), Pos(x))
<1> DEFINE e == Piece(<<x, y, z>>, s)
           at(i) == Pos(e.nodes[((i - 1) % Len(e.nodes)) + 1])
<1>1. /\ e.nodes = <<x, y, z>> /\ Len(e.nodes) = 3
      /\ e.nodes[1] = x /\ e.nodes[2] = y /\ e.nodes[3] = z
  BY DEF Piece
<1>2. /\ (1 - 1) % 3 = 0 /\ (2 - 1) % 3 = 1 /\ (3 - 1) % 3 = 2
      /\ ((1 + 1) - 1) % 3 = 1 /\ ((2 + 1) - 1) % 3 = 2 /\ ((3 + 1) - 1) % 3 = 0
      /\ ((1 + 2) - 1) % 3 = 2 /\ ((2 + 2) - 1) % 3 = 0 /\ ((3 + 2) - 1) % 3 = 1
  OBVIOUS
<1> HIDE DEF e
<1>3. /\ at(1) = Pos(x) /\ at(2) = Pos(y) /\ at(3) = Pos(z)
      /\ at(1 + 1) = Pos(y) /\ at(2 + 1) = Pos(z) /\ at(3 + 1) = Pos(x)
      /\ at(1 + 2) = Pos(z) /\ at(2 + 2) = Pos(x) /\ at(3 + 2) = Pos(y)
  BY <1>1, <1>2
<1> HIDE DEF at
<1>4. ASSUME Turn(Pos(x), Pos(y), Pos(z)) > 0
      PROVE  \A i \in 1 .. 3 : Turn(at(i), at(i + 1), at(i + 2)) > 0
  <2>1. /\ Turn(at(1), at(1 + 1), at(1 + 2)) > 0
        /\ Turn(at(2), at(2 + 1), at(2 + 2)) > 0
        /\ Turn(at(3), at(3 + 1), at(3 + 2)) > 0
    BY <1>3, <1>4, TurnTypes
  <2>2. \A i \in 1 .. 3 : i = 1 \/ i = 2 \/ i = 3
    OBVIOUS
  <2> QED BY <2>1, <2>2
<1>5. Turn(Pos(x), Pos(y), Pos(z)) > 0 => Convex(e)
  BY <1>1, <1>4 DEF Convex, at
<1>6. Area(e) = Turn(Pos(x), Pos(y), Pos(z)) + 0
  BY <1>1 DEF Area
<1>7. Turn(Pos(x), Pos(y), Pos(z)) \in Int
  BY TurnTypes
<1> QED BY <1>5, <1>6, <1>7, TurnCross DEF e

\* A quadrilateral that turns left at every node, and its area.
LEMMA QuadShapeOf ==
  ASSUME NEW x, NEW y, NEW z, NEW w, NEW s,
         Pos(x) \in Points, Pos(y) \in Points, Pos(z) \in Points, Pos(w) \in Points
  PROVE  LET e == Piece(<<x, y, z, w>>, s)
         IN  /\ Quadrilateral(Pos(x), Pos(y), Pos(z), Pos(w)) => Convex(e)
             /\ Area(e) = Cross(Pos(x), Pos(y)) + Cross(Pos(y), Pos(z))
                          + Cross(Pos(z), Pos(w)) + Cross(Pos(w), Pos(x))
<1> DEFINE e == Piece(<<x, y, z, w>>, s)
           at(i) == Pos(e.nodes[((i - 1) % Len(e.nodes)) + 1])
<1>1. /\ e.nodes = <<x, y, z, w>> /\ Len(e.nodes) = 4
      /\ e.nodes[1] = x /\ e.nodes[2] = y /\ e.nodes[3] = z /\ e.nodes[4] = w
  BY DEF Piece
<1>2. /\ (1 - 1) % 4 = 0 /\ (2 - 1) % 4 = 1 /\ (3 - 1) % 4 = 2 /\ (4 - 1) % 4 = 3
      /\ ((1 + 1) - 1) % 4 = 1 /\ ((2 + 1) - 1) % 4 = 2
      /\ ((3 + 1) - 1) % 4 = 3 /\ ((4 + 1) - 1) % 4 = 0
      /\ ((1 + 2) - 1) % 4 = 2 /\ ((2 + 2) - 1) % 4 = 3
      /\ ((3 + 2) - 1) % 4 = 0 /\ ((4 + 2) - 1) % 4 = 1
  OBVIOUS
<1> HIDE DEF e
<1>3. /\ at(1) = Pos(x) /\ at(2) = Pos(y) /\ at(3) = Pos(z) /\ at(4) = Pos(w)
      /\ at(1 + 1) = Pos(y) /\ at(2 + 1) = Pos(z) /\ at(3 + 1) = Pos(w) /\ at(4 + 1) = Pos(x)
      /\ at(1 + 2) = Pos(z) /\ at(2 + 2) = Pos(w) /\ at(3 + 2) = Pos(x) /\ at(4 + 2) = Pos(y)
  BY <1>1, <1>2
<1> HIDE DEF at
<1>4. ASSUME Quadrilateral(Pos(x), Pos(y), Pos(z), Pos(w))
      PROVE  \A i \in 1 .. 4 : Turn(at(i), at(i + 1), at(i + 2)) > 0
  <2>1. /\ Turn(at(1), at(1 + 1), at(1 + 2)) > 0
        /\ Turn(at(2), at(2 + 1), at(2 + 2)) > 0
        /\ Turn(at(3), at(3 + 1), at(3 + 2)) > 0
        /\ Turn(at(4), at(4 + 1), at(4 + 2)) > 0
    BY <1>3, <1>4 DEF Quadrilateral
  <2>2. \A i \in 1 .. 4 : i = 1 \/ i = 2 \/ i = 3 \/ i = 4
    OBVIOUS
  <2> QED BY <2>1, <2>2
<1>5. Quadrilateral(Pos(x), Pos(y), Pos(z), Pos(w)) => Convex(e)
  BY <1>1, <1>4 DEF Convex, at
<1>6. Area(e) = Turn(Pos(x), Pos(y), Pos(z)) + Turn(Pos(x), Pos(z), Pos(w))
  BY <1>1 DEF Area
<1>7. /\ Turn(Pos(x), Pos(y), Pos(z)) = Cross(Pos(x), Pos(y)) + Cross(Pos(y), Pos(z))
                                        + Cross(Pos(z), Pos(x))
      /\ Turn(Pos(x), Pos(z), Pos(w)) = Cross(Pos(x), Pos(z)) + Cross(Pos(z), Pos(w))
                                        + Cross(Pos(w), Pos(x))
  BY TurnCross
<1>8. /\ Cross(Pos(x), Pos(y)) \in Int /\ Cross(Pos(y), Pos(z)) \in Int
      /\ Cross(Pos(z), Pos(w)) \in Int /\ Cross(Pos(w), Pos(x)) \in Int
      /\ Cross(Pos(x), Pos(z)) \in Int /\ Cross(Pos(z), Pos(x)) = -Cross(Pos(x), Pos(z))
  BY CrossTypes
<1>9. Area(e) = Cross(Pos(x), Pos(y)) + Cross(Pos(y), Pos(z))
                + Cross(Pos(z), Pos(w)) + Cross(Pos(w), Pos(x))
  BY <1>6, <1>7, <1>8
<1> QED BY <1>5, <1>9 DEF e

\* The area of a list of at most two sub-elements.
LEMMA AreaOfLists ==
  ASSUME NEW p, NEW q, Area(p) \in Int, Area(q) \in Int
  PROVE  AreaOf(<< >>) = 0 /\ AreaOf(<<p>>) = Area(p) /\ AreaOf(<<p, q>>) = Area(p) + Area(q)
<1>1. ASSUME NEW s, Len(s) \in {0, 1, 2}, \A i \in 1 .. Len(s) : Area(s[i]) \in Int
      PROVE  AreaOf(s) = IF Len(s) = 0 THEN 0 ELSE IF Len(s) = 1 THEN Area(s[1])
                         ELSE Area(s[1]) + Area(s[2])
  <2> DEFINE Total(f) == f = [i \in 0 .. Len(s) |-> IF i = 0 THEN 0 ELSE f[i - 1] + Area(s[i])]
             g == [i \in 0 .. Len(s) |-> IF i = 0 THEN 0 ELSE IF i = 1 THEN Area(s[1])
                                         ELSE Area(s[1]) + Area(s[2])]
             h == CHOOSE f : Total(f)
  <2>1. Total(g)
    <3>1. ASSUME NEW i \in 0 .. Len(s)
          PROVE  g[i] = IF i = 0 THEN 0 ELSE g[i - 1] + Area(s[i])
      <4>1. i = 0 \/ i = 1 \/ i = 2
        BY <1>1
      <4>2. CASE i = 0
        BY <4>2
      <4>3. CASE i = 1
        <5>1. g[0] = 0 /\ g[1] = Area(s[1]) /\ Area(s[1]) \in Int
          BY <4>3, <1>1
        <5> QED BY <4>3, <5>1
      <4>4. CASE i = 2
        <5>1. g[1] = Area(s[1]) /\ g[2] = Area(s[1]) + Area(s[2])
          BY <4>4, <1>1
        <5> QED BY <4>4, <5>1
      <4> QED BY <4>1, <4>2, <4>3, <4>4
    <3> QED BY <3>1
  <2> HIDE DEF Total
  <2>2. Total(h)
    BY <2>1
  <2>3. AreaOf(s) = h[Len(s)]
    BY DEF AreaOf, Total
  <2> HIDE DEF h, g
  <2>4. \A i \in 0 .. Len(s) : h[i] = IF i = 0 THEN 0 ELSE h[i - 1] + Area(s[i])
    BY <2>2 DEF Total
  <2>5. CASE Len(s) = 0
    BY <2>3, <2>4, <2>5
  <2>6. CASE Len(s) = 1
    <3>1. h[0] = 0 /\ h[1] = h[0] + Area(s[1])
      BY <2>4, <2>6
    <3> QED BY <3>1, <2>3, <2>6, <1>1
  <2>7. CASE Len(s) = 2
    <3>1. h[0] = 0 /\ h[1] = h[0] + Area(s[1]) /\ h[2] = h[1] + Area(s[2])
      BY <2>4, <2>7
    <3> QED BY <3>1, <2>3, <2>7, <1>1
  <2> QED BY <1>1, <2>5, <2>6, <2>7
<1>2. Len(<< >>) = 0 /\ Len(<<p>>) = 1 /\ Len(<<p, q>>) = 2
      /\ <<p>>[1] = p /\ <<p, q>>[1] = p /\ <<p, q>>[2] = q
  OBVIOUS
<1> QED BY <1>1, <1>2
-----------------------------------------------------------------------------
(* Where the nodes are.                                                   *)

\* A point with coordinates that Cells divides, as the corners are.
OnGrid(p) == p \in Points /\ \E u, v \in Int : p[1] = Cells * u /\ p[2] = Cells * v

LEMMA CellsDivide ==
  ASSUME NEW C \in Int, C > 0
  PROVE  /\ \A x \in Int : x % C = 0 => \E u \in Int : x = C * u
         /\ \A k, z \in Int : (k * (C * z)) \div C = k * z
<1>1. ASSUME NEW x \in Int, x % C = 0 PROVE \E u \in Int : x = C * u
  <2>1. x = C * (x \div C) + (x % C) /\ x \div C \in Int
    OBVIOUS
  <2>2. x = C * (x \div C)
    BY <1>1, <2>1
  <2> QED BY <2>1, <2>2
<1>2. \A k, z \in Int : (k * (C * z)) \div C = k * z
  OBVIOUS
<1> QED BY <1>1, <1>2

LEMMA CornersOnGrid == \A i \in Corners : OnGrid(Corner[i]) /\ OnGrid(Reference[i])
<1> SUFFICES ASSUME NEW i \in Corners PROVE OnGrid(Corner[i]) /\ OnGrid(Reference[i])
  OBVIOUS
<1>1. Cells \in Int /\ Cells > 0
  BY CellsAssumption
<1>2. OnGrid(Corner[i])
  <2>1. Corner[i] \in Points /\ Corner[i][1] % Cells = 0 /\ Corner[i][2] % Cells = 0
    BY CornerAssumption DEF Points
  <2>2. Corner[i][1] \in Int /\ Corner[i][2] \in Int
    BY <2>1, PointTypes
  <2>3. /\ \E u \in Int : Corner[i][1] = Cells * u
        /\ \E u \in Int : Corner[i][2] = Cells * u
    BY <1>1, <2>1, <2>2, CellsDivide
  <2> QED BY <2>1, <2>3 DEF OnGrid
<1>3. OnGrid(Reference[i])
  <2>1. /\ Reference[0] = <<-Cells, -Cells>> /\ Reference[1] = <<Cells, -Cells>>
        /\ Reference[2] = <<Cells, Cells>> /\ Reference[3] = <<-Cells, Cells>>
    BY DEF Reference, Corners
  <2>2. Cells = Cells * 1 /\ -Cells = Cells * (-1) /\ 1 \in Int /\ -1 \in Int /\ -Cells \in Int
    BY <1>1
  <2>3. i = 0 \/ i = 1 \/ i = 2 \/ i = 3
    BY DEF Corners
  <2>4. \A x, y \in {Cells, -Cells} : OnGrid(<<x, y>>)
    <3> SUFFICES ASSUME NEW x \in {Cells, -Cells}, NEW y \in {Cells, -Cells}
             PROVE OnGrid(<<x, y>>)
      OBVIOUS
    <3>1. /\ \E u \in Int : x = Cells * u
          /\ \E v \in Int : y = Cells * v
      BY <2>2
    <3>2. <<x, y>> \in Points /\ <<x, y>>[1] = x /\ <<x, y>>[2] = y
      BY <1>1, <2>2 DEF Points
    <3> QED BY <3>1, <3>2 DEF OnGrid
  <2>5. \A x, y \in {Cells, -Cells} : OnGrid(<<x, y>>)
    BY <2>4
  <2>6. /\ OnGrid(Reference[0]) /\ OnGrid(Reference[1])
        /\ OnGrid(Reference[2]) /\ OnGrid(Reference[3])
    BY <2>1, <2>5
  <2> QED BY <2>3, <2>6
<1> QED BY <1>2, <1>3

\* The division in Between is exact.
LEMMA BetweenGrid ==
  ASSUME NEW p, NEW q, OnGrid(p), OnGrid(q), NEW k \in 1 .. (Cells - 1)
  PROVE  /\ Between(p, q, k) \in Points
         /\ \A i \in {1, 2} : Cells * Between(p, q, k)[i] = (Cells - k) * p[i] + k * q[i]
         /\ Between(p, q, k) = Between(q, p, Cells - k)
<1> DEFINE C == Cells  m == Between(p, q, k)  n == Between(q, p, Cells - k)
<1>1. C \in Int /\ C > 0 /\ k \in Int /\ C - k \in Int
  BY CellsAssumption
<1>2. PICK u1, u2 \in Int : p[1] = C * u1 /\ p[2] = C * u2
  BY DEF OnGrid
<1>3. PICK v1, v2 \in Int : q[1] = C * v1 /\ q[2] = C * v2
  BY DEF OnGrid
<1>4. m = << p[1] + (k * (q[1] - p[1])) \div C, p[2] + (k * (q[2] - p[2])) \div C >>
  BY DEF Between
<1>5. n = << q[1] + ((C - k) * (p[1] - q[1])) \div C, q[2] + ((C - k) * (p[2] - q[2])) \div C >>
  BY DEF Between
<1> HIDE DEF C, m, n
<1>6. ASSUME NEW u \in Int, NEW v \in Int
      PROVE  /\ (k * (C * v - C * u)) \div C = k * (v - u)
             /\ ((C - k) * (C * u - C * v)) \div C = (C - k) * (u - v)
  <2>1. /\ v - u \in Int /\ u - v \in Int
        /\ C * v - C * u = C * (v - u) /\ C * u - C * v = C * (u - v)
    BY <1>1
  <2> QED BY <1>1, <2>1, CellsDivide
<1>7. m = << C * u1 + k * (v1 - u1), C * u2 + k * (v2 - u2) >>
  BY <1>2, <1>3, <1>4, <1>6
<1>8. n = << C * v1 + (C - k) * (u1 - v1), C * v2 + (C - k) * (u2 - v2) >>
  BY <1>2, <1>3, <1>5, <1>6
<1>9. ASSUME NEW u \in Int, NEW v \in Int
      PROVE  /\ C * v + (C - k) * (u - v) = C * u + k * (v - u)
             /\ C * u + k * (v - u) \in Int
             /\ C * (C * u + k * (v - u)) = (C - k) * (C * u) + k * (C * v)
  BY <1>1
<1>10. m = n
  BY <1>7, <1>8, <1>9
<1>11. m \in Points
  BY <1>7, <1>9 DEF Points
<1>12. C * m[1] = (C - k) * p[1] + k * q[1] /\ C * m[2] = (C - k) * p[2] + k * q[2]
  BY <1>2, <1>3, <1>7, <1>9
<1> QED BY <1>10, <1>11, <1>12 DEF C, m, n

\* A cut is inside its side.
LEMMA AlongWithin ==
  ASSUME NEW s \in Nat, NEW k \in 1 .. (Cells - 1)
  PROVE  /\ Within(Along(Corner, s, k), Corner[s % 4], Corner[(s + 1) % 4])
         /\ Back(Corner, s, k) = Along(Corner, s, Cells - k)
         /\ Back(Reference, s, k) = Along(Reference, s, Cells - k)
         /\ Cells - k \in 1 .. (Cells - 1)
<1>1. s % 4 \in Corners /\ (s + 1) % 4 \in Corners
  BY DEF Corners
<1>2. Cells - k \in 1 .. (Cells - 1) /\ Cells - (Cells - k) = k
  BY CellsAssumption
<1>3. /\ OnGrid(Corner[s % 4]) /\ OnGrid(Corner[(s + 1) % 4])
      /\ OnGrid(Reference[s % 4]) /\ OnGrid(Reference[(s + 1) % 4])
  BY <1>1, CornersOnGrid
<1>4. Within(Along(Corner, s, k), Corner[s % 4], Corner[(s + 1) % 4])
  BY <1>3, BetweenGrid DEF Along, Within
<1>5. Back(Corner, s, k) = Along(Corner, s, Cells - k)
  BY <1>2, <1>3, BetweenGrid DEF Along, Back
<1>6. Back(Reference, s, k) = Along(Reference, s, Cells - k)
  BY <1>2, <1>3, BetweenGrid DEF Along, Back
<1> QED BY <1>2, <1>4, <1>5, <1>6

\* So the shape functions of the element map the local coordinates of a cut to
\* its position.
LEMMA AlongMapsTo ==
  ASSUME NEW s \in Nat, NEW k \in 1 .. (Cells - 1)
  PROVE  MapsTo(Along(Reference, s, k), Along(Corner, s, k))
<1> DEFINE C == Cells  m == Along(Corner, s, k)  n == Along(Reference, s, k)
<1>1. C \in Int /\ C > 0 /\ k \in Int
  BY CellsAssumption
<1>2. /\ s % 4 \in Corners /\ (s + 1) % 4 \in Corners
      /\ OnGrid(Corner[s % 4]) /\ OnGrid(Corner[(s + 1) % 4])
      /\ OnGrid(Reference[s % 4]) /\ OnGrid(Reference[(s + 1) % 4])
  BY CornersOnGrid DEF Corners
<1>3. /\ m \in Points /\ n \in Points
      /\ \A c \in {1, 2} : C * m[c] = (C - k) * Corner[s % 4][c] + k * Corner[(s + 1) % 4][c]
      /\ \A c \in {1, 2} : C * n[c] =
                                     (C - k) * Reference[s % 4][c] + k * Reference[(s + 1) % 4][c]
  BY <1>2, BetweenGrid DEF Along
<1>4. /\ Reference[0][1] = -C /\ Reference[0][2] = -C
      /\ Reference[1][1] = C /\ Reference[1][2] = -C
      /\ Reference[2][1] = C /\ Reference[2][2] = C /\ Reference[3][1] = -C /\ Reference[3][2] = C
  BY DEF Reference, Corners
<1>5. \A i \in Corners, c \in {1, 2} : Corner[i][c] \in Int
  BY CornersOnGrid, PointTypes DEF OnGrid
<1>6. \A c \in {1, 2} : m[c] \in Int /\ n[c] \in Int
  BY <1>3, PointTypes
<1> HIDE DEF C, m, n
<1>7. \A x, y \in Int : C * x = C * y => x = y
  BY <1>1
<1> DEFINE Image(c) == (C - n[1]) * (C - n[2]) * Corner[0][c]
                       + (C + n[1]) * (C - n[2]) * Corner[1][c]
                       + (C + n[1]) * (C + n[2]) * Corner[2][c]
                       + (C - n[1]) * (C + n[2]) * Corner[3][c]
<1>8. ASSUME NEW c \in {1, 2} PROVE 4 * C * C * m[c] = Image(c)
  <2> DEFINE w == m[c]  p0 == Corner[0][c]  p1 == Corner[1][c]
             p2 == Corner[2][c]  p3 == Corner[3][c]
             u == n[1]  v == n[2]
  <2>1. /\ w \in Int /\ p0 \in Int /\ p1 \in Int /\ p2 \in Int
        /\ p3 \in Int /\ u \in Int /\ v \in Int
    BY <1>5, <1>6 DEF Corners
  <2>2. CASE s % 4 = 0
    <3>1. (s + 1) % 4 = 1
      BY <2>2
    <3>2. /\ C * w = (C - k) * p0 + k * p1
          /\ C * u = (C - k) * (-C) + k * (C)
          /\ C * v = (C - k) * (-C) + k * (-C)
      BY <1>3, <1>4, <2>2, <3>1
    <3> HIDE DEF w, p0, p1, p2, p3, u, v
    <3>3. C * u = C * (2 * k - C) /\ C * v = C * (-C)
      BY <1>1, <2>1, <3>2
    <3>4. u = 2 * k - C /\ v = -C
      BY <1>1, <1>7, <2>1, <3>3
    <3>5. 4 * C * C * w = 4 * C * ((C - k) * p0 + k * p1)
      BY <1>1, <2>1, <3>2
    <3>6. (C - u) * (C - v) * p0 + (C + u) * (C - v) * p1
          + (C + u) * (C + v) * p2 + (C - u) * (C + v) * p3
            = 4 * C * ((C - k) * p0 + k * p1)
      BY <1>1, <2>1, <3>4
    <3> QED BY <3>5, <3>6 DEF w, p0, p1, p2, p3, u, v
  <2>3. CASE s % 4 = 1
    <3>1. (s + 1) % 4 = 2
      BY <2>3
    <3>2. /\ C * w = (C - k) * p1 + k * p2
          /\ C * u = (C - k) * (C) + k * (C)
          /\ C * v = (C - k) * (-C) + k * (C)
      BY <1>3, <1>4, <2>3, <3>1
    <3> HIDE DEF w, p0, p1, p2, p3, u, v
    <3>3. C * u = C * (C) /\ C * v = C * (2 * k - C)
      BY <1>1, <2>1, <3>2
    <3>4. u = C /\ v = 2 * k - C
      BY <1>1, <1>7, <2>1, <3>3
    <3>5. 4 * C * C * w = 4 * C * ((C - k) * p1 + k * p2)
      BY <1>1, <2>1, <3>2
    <3>6. (C - u) * (C - v) * p0 + (C + u) * (C - v) * p1
          + (C + u) * (C + v) * p2 + (C - u) * (C + v) * p3
            = 4 * C * ((C - k) * p1 + k * p2)
      BY <1>1, <2>1, <3>4
    <3> QED BY <3>5, <3>6 DEF w, p0, p1, p2, p3, u, v
  <2>4. CASE s % 4 = 2
    <3>1. (s + 1) % 4 = 3
      BY <2>4
    <3>2. /\ C * w = (C - k) * p2 + k * p3
          /\ C * u = (C - k) * (C) + k * (-C)
          /\ C * v = (C - k) * (C) + k * (C)
      BY <1>3, <1>4, <2>4, <3>1
    <3> HIDE DEF w, p0, p1, p2, p3, u, v
    <3>3. C * u = C * (C - 2 * k) /\ C * v = C * (C)
      BY <1>1, <2>1, <3>2
    <3>4. u = C - 2 * k /\ v = C
      BY <1>1, <1>7, <2>1, <3>3
    <3>5. 4 * C * C * w = 4 * C * ((C - k) * p2 + k * p3)
      BY <1>1, <2>1, <3>2
    <3>6. (C - u) * (C - v) * p0 + (C + u) * (C - v) * p1
          + (C + u) * (C + v) * p2 + (C - u) * (C + v) * p3
            = 4 * C * ((C - k) * p2 + k * p3)
      BY <1>1, <2>1, <3>4
    <3> QED BY <3>5, <3>6 DEF w, p0, p1, p2, p3, u, v
  <2>5. CASE s % 4 = 3
    <3>1. (s + 1) % 4 = 0
      BY <2>5
    <3>2. /\ C * w = (C - k) * p3 + k * p0
          /\ C * u = (C - k) * (-C) + k * (-C)
          /\ C * v = (C - k) * (C) + k * (-C)
      BY <1>3, <1>4, <2>5, <3>1
    <3> HIDE DEF w, p0, p1, p2, p3, u, v
    <3>3. C * u = C * (-C) /\ C * v = C * (C - 2 * k)
      BY <1>1, <2>1, <3>2
    <3>4. u = -C /\ v = C - 2 * k
      BY <1>1, <1>7, <2>1, <3>3
    <3>5. 4 * C * C * w = 4 * C * ((C - k) * p3 + k * p0)
      BY <1>1, <2>1, <3>2
    <3>6. (C - u) * (C - v) * p0 + (C + u) * (C - v) * p1
          + (C + u) * (C + v) * p2 + (C - u) * (C + v) * p3
            = 4 * C * ((C - k) * p3 + k * p0)
      BY <1>1, <2>1, <3>4
    <3> QED BY <3>5, <3>6 DEF w, p0, p1, p2, p3, u, v
  <2>6. s % 4 = 0 \/ s % 4 = 1 \/ s % 4 = 2 \/ s % 4 = 3
    BY <1>2 DEF Corners
  <2> QED BY <2>2, <2>3, <2>4, <2>5, <2>6
<1>9. \A c \in 1 .. 2 : c \in {1, 2}
  OBVIOUS
<1> QED BY <1>8, <1>9 DEF MapsTo, C, m, n

\* The corners of the element, counted from any of them.
LEMMA CornerPositions ==
  /\ \A i \in Int : Pos(N(i)) = Corner[i % 4]
  /\ \A j \in Int : Pos(M(j)) = newNodes[j + 1].at
<1>1. \A i : N(i)[1] = "N" /\ N(i)[2] = i % 4
  BY DEF N
<1>2. \A j : M(j)[1] = "M" /\ M(j)[2] = j
  BY DEF M
<1>3. "N" # "M"
  OBVIOUS
<1> QED BY <1>1, <1>2, <1>3 DEF Pos

LEMMA CornersConvex ==
  ASSUME NEW r \in Corners
  PROVE  Quadrilateral(Pos(N(r)), Pos(N(r+1)), Pos(N(r+2)), Pos(N(r+3)))
<1>1. r \in Int /\ r + 1 \in Int /\ r + 2 \in Int /\ r + 3 \in Int
  BY DEF Corners
<1>2. /\ Pos(N(r)) = Corner[r % 4] /\ Pos(N(r+1)) = Corner[(r+1) % 4]
      /\ Pos(N(r+2)) = Corner[(r+2) % 4] /\ Pos(N(r+3)) = Corner[(r+3) % 4]
  BY <1>1, CornerPositions
<1> DEFINE T(i, j, k) == Turn(Corner[i], Corner[j], Corner[k]) > 0
<1>3. /\ (0 + 1) % 4 = 1 /\ (0 + 2) % 4 = 2 /\ (1 + 1) % 4 = 2 /\ (1 + 2) % 4 = 3
      /\ (2 + 1) % 4 = 3 /\ (2 + 2) % 4 = 0 /\ (3 + 1) % 4 = 0 /\ (3 + 2) % 4 = 1
      /\ 0 \in Corners /\ 1 \in Corners /\ 2 \in Corners /\ 3 \in Corners
  BY DEF Corners
<1>4. \A i \in Corners : T(i, (i + 1) % 4, (i + 2) % 4)
  BY CornerAssumption
<1> HIDE DEF T
<1>5. T(0, 1, 2) /\ T(1, 2, 3) /\ T(2, 3, 0) /\ T(3, 0, 1)
  BY <1>3, <1>4
<1>6. \/ r % 4 = 0 /\ (r+1) % 4 = 1 /\ (r+2) % 4 = 2 /\ (r+3) % 4 = 3
      \/ r % 4 = 1 /\ (r+1) % 4 = 2 /\ (r+2) % 4 = 3 /\ (r+3) % 4 = 0
      \/ r % 4 = 2 /\ (r+1) % 4 = 3 /\ (r+2) % 4 = 0 /\ (r+3) % 4 = 1
      \/ r % 4 = 3 /\ (r+1) % 4 = 0 /\ (r+2) % 4 = 1 /\ (r+3) % 4 = 2
  BY DEF Corners
<1>7. /\ T(r % 4, (r+1) % 4, (r+2) % 4) /\ T((r+1) % 4, (r+2) % 4, (r+3) % 4)
      /\ T((r+2) % 4, (r+3) % 4, r % 4) /\ T((r+3) % 4, r % 4, (r+1) % 4)
  BY <1>5, <1>6
<1>8. \A i \in Int : Corner[i % 4] \in Points
  BY CornersOnGrid DEF OnGrid, Corners
<1>9. /\ Corner[r % 4] \in Points /\ Corner[(r+1) % 4] \in Points
      /\ Corner[(r+2) % 4] \in Points /\ Corner[(r+3) % 4] \in Points
  BY <1>1, <1>8
<1> QED BY <1>2, <1>7, <1>9 DEF Quadrilateral, T

\* Twice the area of the element, from any corner.
LEMMA WholeShape ==
  ASSUME NEW r \in Corners, NEW side
  PROVE  /\ Area(Whole(side)) = Cross(Pos(N(r)), Pos(N(r+1))) + Cross(Pos(N(r+1)), Pos(N(r+2)))
                                + Cross(Pos(N(r+2)), Pos(N(r+3))) + Cross(Pos(N(r+3)), Pos(N(r)))
         /\ Convex(Whole(side))
<1>1. /\ N(0+1) = N(1) /\ N(0+2) = N(2) /\ N(0+3) = N(3)
      /\ N(1+1) = N(2) /\ N(1+2) = N(3) /\ N(1+3) = N(0)
      /\ N(2+1) = N(3) /\ N(2+2) = N(0) /\ N(2+3) = N(1)
      /\ N(3+1) = N(0) /\ N(3+2) = N(1) /\ N(3+3) = N(2)
  BY DEF N
<1> DEFINE a == Pos(N(0))  b == Pos(N(1))  c == Pos(N(2))  d == Pos(N(3))
<1>2. 0 \in Corners
  BY DEF Corners
<1>3. Quadrilateral(a, b, c, d)
  BY <1>1, <1>2, CornersConvex
<1>4. a \in Points /\ b \in Points /\ c \in Points /\ d \in Points
  BY <1>3, QuadrilateralTurns
<1>5. /\ Area(Whole(side)) = Cross(a, b) + Cross(b, c) + Cross(c, d) + Cross(d, a)
      /\ Convex(Whole(side))
  BY <1>3, <1>4, QuadShapeOf DEF Whole
<1>6. Cross(a, b) \in Int /\ Cross(b, c) \in Int /\ Cross(c, d) \in Int /\ Cross(d, a) \in Int
  BY <1>4, CrossTypes
<1> HIDE DEF a, b, c, d
<1>7. \/ Pos(N(r)) = a /\ Pos(N(r+1)) = b /\ Pos(N(r+2)) = c /\ Pos(N(r+3)) = d
      \/ Pos(N(r)) = b /\ Pos(N(r+1)) = c /\ Pos(N(r+2)) = d /\ Pos(N(r+3)) = a
      \/ Pos(N(r)) = c /\ Pos(N(r+1)) = d /\ Pos(N(r+2)) = a /\ Pos(N(r+3)) = b
      \/ Pos(N(r)) = d /\ Pos(N(r+1)) = a /\ Pos(N(r+2)) = b /\ Pos(N(r+3)) = c
  <2>1. r = 0 \/ r = 1 \/ r = 2 \/ r = 3
    BY DEF Corners
  <2> QED BY <1>1, <2>1 DEF a, b, c, d
<1> QED BY <1>5, <1>6, <1>7

\* The new nodes of a cut side and, for the mode that cuts two adjacent sides,
\* of the side level with the first cut.
LEMMA CutPlaced ==
  ASSUME xi \in [Changing(phi) -> 1 .. (Cells - 1)], NEW s \in 0 .. 6, SideCut(s)
  PROVE  /\ Within(CutNode(s).at, Pos(N(s)), Pos(N(s+1)))
         /\ MapsTo(CutNode(s).local, CutNode(s).at)
<1>1. s % 4 \in Corners /\ ((s % 4) + 1) % 4 = (s + 1) % 4 /\ s \in Nat
  BY DEF Corners
<1>2. s % 4 \in Changing(phi)
  BY <1>1 DEF SideCut, Changing
<1>3. xi[s % 4] \in 1 .. (Cells - 1)
  BY <1>2
<1>4. Pos(N(s)) = Corner[s % 4] /\ Pos(N(s+1)) = Corner[(s+1) % 4]
  BY <1>1, CornerPositions
<1> QED BY <1>1, <1>3, <1>4, AlongWithin, AlongMapsTo DEF CutNode

LEMMA LevelPlaced ==
  ASSUME xi \in [Changing(phi) -> 1 .. (Cells - 1)], NEW r \in Corners, SideCut(r)
  PROVE  /\ Within(LevelNode(r).at, Pos(N(r+2)), Pos(N(r+3)))
         /\ MapsTo(LevelNode(r).local, LevelNode(r).at)
<1>1. r % 4 = r /\ r + 2 \in Nat /\ (r + 2) + 1 = r + 3
  BY DEF Corners
<1>2. r \in Changing(phi)
  BY <1>1 DEF SideCut, Changing
<1>3. xi[r] \in 1 .. (Cells - 1)
  BY <1>2
<1> DEFINE k == Cells - xi[r]
<1>4. k \in 1 .. (Cells - 1)
  BY <1>3, CellsAssumption
<1>5. LevelNode(r).at = Along(Corner, r + 2, k) /\ LevelNode(r).local = Along(Reference, r + 2, k)
  BY <1>1, <1>3, AlongWithin DEF LevelNode
<1>6. Pos(N(r+2)) = Corner[(r+2) % 4] /\ Pos(N(r+3)) = Corner[(r+3) % 4]
  BY CornerPositions DEF Corners
<1> HIDE DEF k
<1> QED BY <1>1, <1>4, <1>5, <1>6, AlongWithin, AlongMapsTo

\* The sides of the element, and the nodes on one of them.
EdgeOf(p, q) == \E i \in Corners : Pos(p) = Corner[i] /\ Pos(q) = Corner[(i + 1) % 4]
OnEdge(x, p, q) == x = p \/ x = q \/ Within(Pos(x), Pos(p), Pos(q))

LEMMA Edges ==
  ASSUME NEW r \in Corners
  PROVE  /\ EdgeOf(N(r), N(r+1)) /\ EdgeOf(N(r+1), N(r+2))
         /\ EdgeOf(N(r+2), N(r+3)) /\ EdgeOf(N(r+3), N(r))
<1>1. \A i \in Int : i % 4 \in Corners /\ ((i % 4) + 1) % 4 = (i + 1) % 4
  BY DEF Corners
<1>2. \A i, j \in Int : j % 4 = (i + 1) % 4 => EdgeOf(N(i), N(j))
  BY <1>1, CornerPositions DEF EdgeOf
<1>3. r \in Int /\ r + 1 \in Int /\ r + 2 \in Int /\ r + 3 \in Int /\ r % 4 = ((r+3) + 1) % 4
  BY DEF Corners
<1> QED BY <1>2, <1>3

LEMMA EdgeOnOutline ==
  ASSUME NEW p, NEW q, EdgeOf(p, q), NEW x, NEW y, OnEdge(x, p, q), OnEdge(y, p, q)
  PROVE  OnOutline(<<x, y>>)
<1>1. PICK i \in Corners : Pos(p) = Corner[i] /\ Pos(q) = Corner[(i + 1) % 4]
  BY DEF EdgeOf
<1>2. (i + 1) % 4 \in Corners
  BY DEF Corners
<1>3. Pos(p) \in Points /\ Pos(q) \in Points
  BY <1>1, <1>2, CornersOnGrid DEF OnGrid
<1>4. Turn(Pos(p), Pos(q), Pos(p)) = 0 /\ Turn(Pos(p), Pos(q), Pos(q)) = 0
  BY <1>3, TurnTypes
<1>5. ASSUME NEW z, OnEdge(z, p, q) PROVE Turn(Pos(p), Pos(q), Pos(z)) = 0
  <2>1. CASE z = p \/ z = q
    BY <1>4, <2>1
  <2>2. CASE Within(Pos(z), Pos(p), Pos(q))
    BY <1>3, <1>4, <2>2, TurnWithin
  <2> QED BY <1>5, <2>1, <2>2 DEF OnEdge
<1>6. OnSide(x, i) /\ OnSide(y, i)
  BY <1>1, <1>5 DEF OnSide
<1> QED BY <1>6 DEF OnOutline

\* A set of sub-elements without overlaps: each is convex, and each side is on
\* the outline or is the side of one other sub-element, which is across it.
Tiles(S) ==
    /\ \A e \in S : Convex(e)
    /\ \A s \in SidesOf(S) : OnOutline(s) \/ Reversed(s) \in SidesOf(S)
    /\ \A e, f \in S : e # f => Sides(e) \cap Sides(f) = {}

\* Two groups of sub-elements that divide the element.
Divides(pieces) ==
    /\ Tiles(PiecesIn(pieces.first) \cup PiecesIn(pieces.second))
    /\ AreaOf(pieces.first) \in Int /\ AreaOf(pieces.second) \in Int
    /\ AreaOf(pieces.first) + AreaOf(pieces.second) = Area(Whole(NoSide))
    /\ Len(pieces.first) + Len(pieces.second) <= MaxElems

\* In each mode the two groups divide the element, if each new node is inside
\* the side that it cuts.
LEMMA AdjacentDivides ==
  ASSUME NEW r \in Corners,
         Within(Pos(M(0)), Pos(N(r)), Pos(N(r+1))),
         Within(Pos(M(1)), Pos(N(r+1)), Pos(N(r+2))),
         Within(Pos(M(2)), Pos(N(r+2)), Pos(N(r+3)))
  PROVE  Divides(AdjacentPieces(r))
<1> DEFINE a == N(r)  b == N(r+1)  c == N(r+2)  d == N(r+3)  e == M(0)  f == M(1)  g == M(2)
<1>1. /\ a # b /\ a # c /\ a # d /\ a # e /\ a # f /\ a # g /\ b # c /\ b # d /\ b # e /\ b # f
      /\ b # g /\ c # d /\ c # e /\ c # f /\ c # g /\ d # e /\ d # f /\ d # g /\ e # f /\ e # g
      /\ f # g
  BY DistinctNodes
<1>2. \A x, y : Reversed(<<x, y>>) = <<y, x>>
  BY DEF Reversed
<1>3. /\ Quadrilateral(Pos(a), Pos(b), Pos(c), Pos(d))
      /\ Quadrilateral(Pos(b), Pos(c), Pos(d), Pos(a))
      /\ Quadrilateral(Pos(c), Pos(d), Pos(a), Pos(b))
      /\ Quadrilateral(Pos(d), Pos(a), Pos(b), Pos(c))
  BY CornersConvex, QuadrilateralTurns
<1>4. EdgeOf(a, b) /\ EdgeOf(b, c) /\ EdgeOf(c, d) /\ EdgeOf(d, a)
  BY Edges
<1>5. /\ Within(Pos(e), Pos(a), Pos(b)) /\ Within(Pos(f), Pos(b), Pos(c))
      /\ Within(Pos(g), Pos(c), Pos(d))
  OBVIOUS
<1> DEFINE p1 == Piece(<<e, b, f>>, 2)
           p2 == Piece(<<e, g, d, a>>, NoSide)
           p3 == Piece(<<f, c, g, e>>, 3)
           first == AdjacentPieces(r).first
           second == AdjacentPieces(r).second
<1>6. first = <<p1>> /\ second = <<p2, p3>>
  BY DEF AdjacentPieces
<1> HIDE DEF a, b, c, d, e, f, g, first, second
<1>7. /\ Pos(a) \in Points /\ Pos(b) \in Points /\ Pos(c) \in Points /\ Pos(d) \in Points
      /\ Pos(e) \in Points /\ Pos(f) \in Points /\ Pos(g) \in Points
  BY <1>3, <1>5 DEF Quadrilateral, Within
<1>8. /\ Convex(p1)
      /\ Area(p1) = Cross(Pos(e), Pos(b)) + Cross(Pos(b), Pos(f)) + Cross(Pos(f), Pos(e))
  <2>1. Turn(Pos(e), Pos(b), Pos(f)) > 0
    BY <1>3, <1>5, TwoSidePoints
  <2> QED BY <1>7, <2>1, TriangleShapeOf
<1>9. /\ Convex(p2)
      /\ Area(p2) = Cross(Pos(e), Pos(g)) + Cross(Pos(g), Pos(d)) + Cross(Pos(d), Pos(a))
                        + Cross(Pos(a), Pos(e))
  <2>1. Turn(Pos(e), Pos(g), Pos(d)) > 0
    BY <1>3, <1>5, FacingSidePoints
  <2>2. Turn(Pos(g), Pos(d), Pos(a)) > 0
    BY <1>3, <1>5, OneSidePoint
  <2>3. Turn(Pos(d), Pos(a), Pos(e)) > 0
    BY <1>3, <1>5, OneSidePoint
  <2>4. Turn(Pos(a), Pos(e), Pos(g)) > 0
    BY <1>3, <1>5, FacingSidePoints
  <2>5. Quadrilateral(Pos(e), Pos(g), Pos(d), Pos(a))
    BY <1>7, <2>1, <2>2, <2>3, <2>4 DEF Quadrilateral
  <2> QED BY <1>7, <2>5, QuadShapeOf
<1>10. /\ Convex(p3)
      /\ Area(p3) = Cross(Pos(f), Pos(c)) + Cross(Pos(c), Pos(g)) + Cross(Pos(g), Pos(e))
                        + Cross(Pos(e), Pos(f))
  <2>1. Turn(Pos(f), Pos(c), Pos(g)) > 0
    BY <1>3, <1>5, TwoSidePoints
  <2>2. Turn(Pos(c), Pos(g), Pos(e)) > 0
    BY <1>3, <1>5, FacingSidePoints
  <2>3. Turn(Pos(g), Pos(e), Pos(f)) > 0
    BY <1>3, <1>5, ThreeSidePoints
  <2>4. Turn(Pos(e), Pos(f), Pos(c)) > 0
    BY <1>3, <1>5, TwoSidePoints
  <2>5. Quadrilateral(Pos(f), Pos(c), Pos(g), Pos(e))
    BY <1>7, <2>1, <2>2, <2>3, <2>4 DEF Quadrilateral
  <2> QED BY <1>7, <2>5, QuadShapeOf
<1> HIDE DEF p1, p2, p3
<1>11. /\ Cross(Pos(e), Pos(b)) \in Int /\ Cross(Pos(b), Pos(f)) \in Int
      /\ Cross(Pos(f), Pos(e)) \in Int /\ Cross(Pos(e), Pos(g)) \in Int
      /\ Cross(Pos(g), Pos(d)) \in Int /\ Cross(Pos(d), Pos(a)) \in Int
      /\ Cross(Pos(a), Pos(e)) \in Int /\ Cross(Pos(f), Pos(c)) \in Int
      /\ Cross(Pos(c), Pos(g)) \in Int /\ Cross(Pos(g), Pos(e)) \in Int
      /\ Cross(Pos(e), Pos(f)) \in Int /\ Cross(Pos(a), Pos(b)) \in Int
      /\ Cross(Pos(b), Pos(c)) \in Int /\ Cross(Pos(c), Pos(d)) \in Int
      /\ Cross(Pos(e), Pos(f)) = -Cross(Pos(f), Pos(e))
      /\ Cross(Pos(g), Pos(e)) = -Cross(Pos(e), Pos(g))
  BY <1>7, CrossTypes
<1>12. /\ Cross(Pos(a), Pos(e)) + Cross(Pos(e), Pos(b)) = Cross(Pos(a), Pos(b))
      /\ Cross(Pos(b), Pos(f)) + Cross(Pos(f), Pos(c)) = Cross(Pos(b), Pos(c))
      /\ Cross(Pos(c), Pos(g)) + Cross(Pos(g), Pos(d)) = Cross(Pos(c), Pos(d))
  BY <1>5, <1>7, CrossWithin
<1>13. /\ Area(p1) \in Int /\ Area(p2) \in Int /\ Area(p3) \in Int
  BY <1>8, <1>9, <1>10, <1>11
<1>14. Area(Whole(NoSide)) = Cross(Pos(a), Pos(b)) + Cross(Pos(b), Pos(c)) + Cross(Pos(c), Pos(d))
                          + Cross(Pos(d), Pos(a))
  BY WholeShape DEF a, b, c, d
<1>15. Area(p1) + Area(p2) + Area(p3) = Area(Whole(NoSide))
  BY <1>8, <1>9, <1>10, <1>11, <1>12, <1>14
<1>16. AreaOf(first) = Area(p1) /\ AreaOf(second) = Area(p2) + Area(p3)
  BY <1>6, <1>13, AreaOfLists
<1>17. /\ Sides(p1) = {<<e, b>>, <<b, f>>, <<f, e>>}
      /\ Sides(p2) = {<<e, g>>, <<g, d>>, <<d, a>>, <<a, e>>}
      /\ Sides(p3) = {<<f, c>>, <<c, g>>, <<g, e>>, <<e, f>>}
  BY QuadShape, TriangleShape DEF p1, p2, p3
<1>18. /\ OnOutline(<<e, b>>) /\ OnOutline(<<b, f>>) /\ OnOutline(<<g, d>>) /\ OnOutline(<<d, a>>)
      /\ OnOutline(<<a, e>>) /\ OnOutline(<<f, c>>) /\ OnOutline(<<c, g>>)
  BY <1>4, <1>5, EdgeOnOutline DEF OnEdge
<1>19. PiecesIn(first) \cup PiecesIn(second) = {p1, p2, p3}
  <2>1. PiecesIn(first) = {p1}
    BY <1>6, GroupOfOne
  <2>2. PiecesIn(second) = {p2, p3}
    BY <1>6, GroupOfTwo
  <2> QED BY <2>1, <2>2
<1> DEFINE all == {p1, p2, p3}
<1>20. Tiles(all)
  <2>1. \A x \in all : Convex(x)
    BY <1>8, <1>9, <1>10
  <2>2. \A s : s \in SidesOf(all) <=> s \in Sides(p1) \/ s \in Sides(p2) \/ s \in Sides(p3)
    BY DEF SidesOf
  <2>3. /\ Sides(p1) \cap Sides(p2) = {} /\ Sides(p1) \cap Sides(p3) = {}
        /\ Sides(p2) \cap Sides(p3) = {}
    BY <1>1, <1>17
  <2>4. \A x, y \in all : x # y => Sides(x) \cap Sides(y) = {}
    BY <2>3
  <2> HIDE DEF all
  <2>5. /\ <<f, e>> \in SidesOf(all) /\ <<e, g>> \in SidesOf(all) /\ <<g, e>> \in SidesOf(all)
        /\ <<e, f>> \in SidesOf(all)
    BY <2>2, <1>17
  <2>6. /\ Reversed(<<f, e>>) \in SidesOf(all) /\ Reversed(<<e, g>>) \in SidesOf(all)
        /\ Reversed(<<g, e>>) \in SidesOf(all) /\ Reversed(<<e, f>>) \in SidesOf(all)
    BY <2>5, <1>2
  <2>7. \A s \in SidesOf(all) : OnOutline(s) \/ Reversed(s) \in SidesOf(all)
    <3> TAKE s \in SidesOf(all)
    <3>1. s = <<e, b>> \/ s = <<b, f>> \/ s = <<f, e>> \/ s = <<e, g>> \/ s = <<g, d>> \/
          s = <<d, a>> \/ s = <<a, e>> \/ s = <<f, c>> \/ s = <<c, g>> \/ s = <<g, e>> \/
          s = <<e, f>>
      BY <2>2, <1>17
    <3> QED BY <3>1, <2>6, <1>18
  <2> QED BY <2>1, <2>4, <2>7 DEF Tiles
<1>21. /\ AreaOf(first) \in Int /\ AreaOf(second) \in Int
      /\ AreaOf(first) + AreaOf(second) = Area(Whole(NoSide))
  BY <1>13, <1>15, <1>16
<1>22. Len(first) = 1 /\ Len(second) = 2
  BY <1>6
<1>23. Len(first) + Len(second) <= MaxElems
  BY <1>22, RoomAssumption
<1>24. Tiles(PiecesIn(first) \cup PiecesIn(second))
  BY <1>19, <1>20
<1> QED BY <1>21, <1>23, <1>24 DEF Divides, first, second

LEMMA OppositeEdgesDivide ==
  ASSUME NEW r \in Corners,
         Within(Pos(M(0)), Pos(N(r)), Pos(N(r+1))),
         Within(Pos(M(1)), Pos(N(r+2)), Pos(N(r+3)))
  PROVE  Divides(OppositeEdgePieces(r))
<1> DEFINE a == N(r)  b == N(r+1)  c == N(r+2)  d == N(r+3)  e == M(0)  f == M(1)
<1>1. /\ a # b /\ a # c /\ a # d /\ a # e /\ a # f /\ b # c /\ b # d /\ b # e /\ b # f /\ c # d
      /\ c # e /\ c # f /\ d # e /\ d # f /\ e # f
  BY DistinctNodes
<1>2. \A x, y : Reversed(<<x, y>>) = <<y, x>>
  BY DEF Reversed
<1>3. /\ Quadrilateral(Pos(a), Pos(b), Pos(c), Pos(d))
      /\ Quadrilateral(Pos(b), Pos(c), Pos(d), Pos(a))
      /\ Quadrilateral(Pos(c), Pos(d), Pos(a), Pos(b))
      /\ Quadrilateral(Pos(d), Pos(a), Pos(b), Pos(c))
  BY CornersConvex, QuadrilateralTurns
<1>4. EdgeOf(a, b) /\ EdgeOf(b, c) /\ EdgeOf(c, d) /\ EdgeOf(d, a)
  BY Edges
<1>5. /\ Within(Pos(e), Pos(a), Pos(b)) /\ Within(Pos(f), Pos(c), Pos(d))
  OBVIOUS
<1> DEFINE p1 == Piece(<<e, b, c, f>>, 3)
           p2 == Piece(<<f, d, a, e>>, 3)
           first == OppositeEdgePieces(r).first
           second == OppositeEdgePieces(r).second
<1>6. first = <<p1>> /\ second = <<p2>>
  BY DEF OppositeEdgePieces
<1> HIDE DEF a, b, c, d, e, f, first, second
<1>7. /\ Pos(a) \in Points /\ Pos(b) \in Points /\ Pos(c) \in Points /\ Pos(d) \in Points
      /\ Pos(e) \in Points /\ Pos(f) \in Points
  BY <1>3, <1>5 DEF Quadrilateral, Within
<1>8. /\ Convex(p1)
      /\ Area(p1) = Cross(Pos(e), Pos(b)) + Cross(Pos(b), Pos(c)) + Cross(Pos(c), Pos(f))
                        + Cross(Pos(f), Pos(e))
  <2>1. Turn(Pos(e), Pos(b), Pos(c)) > 0
    BY <1>3, <1>5, OneSidePoint
  <2>2. Turn(Pos(b), Pos(c), Pos(f)) > 0
    BY <1>3, <1>5, OneSidePoint
  <2>3. Turn(Pos(c), Pos(f), Pos(e)) > 0
    BY <1>3, <1>5, FacingSidePoints
  <2>4. Turn(Pos(f), Pos(e), Pos(b)) > 0
    BY <1>3, <1>5, FacingSidePoints
  <2>5. Quadrilateral(Pos(e), Pos(b), Pos(c), Pos(f))
    BY <1>7, <2>1, <2>2, <2>3, <2>4 DEF Quadrilateral
  <2> QED BY <1>7, <2>5, QuadShapeOf
<1>9. /\ Convex(p2)
      /\ Area(p2) = Cross(Pos(f), Pos(d)) + Cross(Pos(d), Pos(a)) + Cross(Pos(a), Pos(e))
                        + Cross(Pos(e), Pos(f))
  <2>1. Turn(Pos(f), Pos(d), Pos(a)) > 0
    BY <1>3, <1>5, OneSidePoint
  <2>2. Turn(Pos(d), Pos(a), Pos(e)) > 0
    BY <1>3, <1>5, OneSidePoint
  <2>3. Turn(Pos(a), Pos(e), Pos(f)) > 0
    BY <1>3, <1>5, FacingSidePoints
  <2>4. Turn(Pos(e), Pos(f), Pos(d)) > 0
    BY <1>3, <1>5, FacingSidePoints
  <2>5. Quadrilateral(Pos(f), Pos(d), Pos(a), Pos(e))
    BY <1>7, <2>1, <2>2, <2>3, <2>4 DEF Quadrilateral
  <2> QED BY <1>7, <2>5, QuadShapeOf
<1> HIDE DEF p1, p2
<1>10. /\ Cross(Pos(e), Pos(b)) \in Int /\ Cross(Pos(b), Pos(c)) \in Int
      /\ Cross(Pos(c), Pos(f)) \in Int /\ Cross(Pos(f), Pos(e)) \in Int
      /\ Cross(Pos(f), Pos(d)) \in Int /\ Cross(Pos(d), Pos(a)) \in Int
      /\ Cross(Pos(a), Pos(e)) \in Int /\ Cross(Pos(e), Pos(f)) \in Int
      /\ Cross(Pos(a), Pos(b)) \in Int /\ Cross(Pos(c), Pos(d)) \in Int
      /\ Cross(Pos(e), Pos(f)) = -Cross(Pos(f), Pos(e))
  BY <1>7, CrossTypes
<1>11. /\ Cross(Pos(a), Pos(e)) + Cross(Pos(e), Pos(b)) = Cross(Pos(a), Pos(b))
      /\ Cross(Pos(c), Pos(f)) + Cross(Pos(f), Pos(d)) = Cross(Pos(c), Pos(d))
  BY <1>5, <1>7, CrossWithin
<1>12. /\ Area(p1) \in Int /\ Area(p2) \in Int
  BY <1>8, <1>9, <1>10
<1>13. Area(Whole(NoSide)) = Cross(Pos(a), Pos(b)) + Cross(Pos(b), Pos(c)) + Cross(Pos(c), Pos(d))
                          + Cross(Pos(d), Pos(a))
  BY WholeShape DEF a, b, c, d
<1>14. Area(p1) + Area(p2) = Area(Whole(NoSide))
  BY <1>8, <1>9, <1>10, <1>11, <1>13
<1>15. AreaOf(first) = Area(p1) /\ AreaOf(second) = Area(p2)
  BY <1>6, <1>12, AreaOfLists
<1>16. /\ Sides(p1) = {<<e, b>>, <<b, c>>, <<c, f>>, <<f, e>>}
      /\ Sides(p2) = {<<f, d>>, <<d, a>>, <<a, e>>, <<e, f>>}
  BY QuadShape DEF p1, p2
<1>17. /\ OnOutline(<<e, b>>) /\ OnOutline(<<b, c>>) /\ OnOutline(<<c, f>>) /\ OnOutline(<<f, d>>)
      /\ OnOutline(<<d, a>>) /\ OnOutline(<<a, e>>)
  BY <1>4, <1>5, EdgeOnOutline DEF OnEdge
<1>18. PiecesIn(first) \cup PiecesIn(second) = {p1, p2}
  <2>1. PiecesIn(first) = {p1}
    BY <1>6, GroupOfOne
  <2>2. PiecesIn(second) = {p2}
    BY <1>6, GroupOfOne
  <2> QED BY <2>1, <2>2
<1> DEFINE all == {p1, p2}
<1>19. Tiles(all)
  <2>1. \A x \in all : Convex(x)
    BY <1>8, <1>9
  <2>2. \A s : s \in SidesOf(all) <=> s \in Sides(p1) \/ s \in Sides(p2)
    BY DEF SidesOf
  <2>3. /\ Sides(p1) \cap Sides(p2) = {}
    BY <1>1, <1>16
  <2>4. \A x, y \in all : x # y => Sides(x) \cap Sides(y) = {}
    BY <2>3
  <2> HIDE DEF all
  <2>5. /\ <<f, e>> \in SidesOf(all) /\ <<e, f>> \in SidesOf(all)
    BY <2>2, <1>16
  <2>6. /\ Reversed(<<f, e>>) \in SidesOf(all) /\ Reversed(<<e, f>>) \in SidesOf(all)
    BY <2>5, <1>2
  <2>7. \A s \in SidesOf(all) : OnOutline(s) \/ Reversed(s) \in SidesOf(all)
    <3> TAKE s \in SidesOf(all)
    <3>1. s = <<e, b>> \/ s = <<b, c>> \/ s = <<c, f>> \/ s = <<f, e>> \/ s = <<f, d>> \/
          s = <<d, a>> \/ s = <<a, e>> \/ s = <<e, f>>
      BY <2>2, <1>16
    <3> QED BY <3>1, <2>6, <1>17
  <2> QED BY <2>1, <2>4, <2>7 DEF Tiles
<1>20. /\ AreaOf(first) \in Int /\ AreaOf(second) \in Int
      /\ AreaOf(first) + AreaOf(second) = Area(Whole(NoSide))
  BY <1>12, <1>14, <1>15
<1>21. Len(first) = 1 /\ Len(second) = 1
  BY <1>6
<1>22. Len(first) + Len(second) <= MaxElems
  BY <1>21, RoomAssumption
<1>23. Tiles(PiecesIn(first) \cup PiecesIn(second))
  BY <1>18, <1>19
<1> QED BY <1>20, <1>22, <1>23 DEF Divides, first, second

LEMMA NodeAndNextEdgeDivide ==
  ASSUME NEW r \in Corners,
         Within(Pos(M(0)), Pos(N(r+1)), Pos(N(r+2)))
  PROVE  Divides(NodeAndEdgePieces(r, 1))
<1> DEFINE a == N(r)  b == N(r+1)  c == N(r+2)  d == N(r+3)  e == M(0)
<1>1. /\ a # b /\ a # c /\ a # d /\ a # e /\ b # c /\ b # d /\ b # e /\ c # d /\ c # e /\ d # e
  BY DistinctNodes
<1>2. \A x, y : Reversed(<<x, y>>) = <<y, x>>
  BY DEF Reversed
<1>3. /\ Quadrilateral(Pos(a), Pos(b), Pos(c), Pos(d))
      /\ Quadrilateral(Pos(b), Pos(c), Pos(d), Pos(a))
      /\ Quadrilateral(Pos(c), Pos(d), Pos(a), Pos(b))
      /\ Quadrilateral(Pos(d), Pos(a), Pos(b), Pos(c))
  BY CornersConvex, QuadrilateralTurns
<1>4. EdgeOf(a, b) /\ EdgeOf(b, c) /\ EdgeOf(c, d) /\ EdgeOf(d, a)
  BY Edges
<1>5. /\ Within(Pos(e), Pos(b), Pos(c))
  OBVIOUS
<1> DEFINE p1 == Piece(<<a, b, e>>, 2)
           p2 == Piece(<<e, c, d, a>>, 3)
           first == NodeAndEdgePieces(r, 1).first
           second == NodeAndEdgePieces(r, 1).second
<1>6. first = <<p1>> /\ second = <<p2>>
  BY DEF NodeAndEdgePieces
<1> HIDE DEF a, b, c, d, e, first, second
<1>7. /\ Pos(a) \in Points /\ Pos(b) \in Points /\ Pos(c) \in Points /\ Pos(d) \in Points
      /\ Pos(e) \in Points
  BY <1>3, <1>5 DEF Quadrilateral, Within
<1>8. /\ Convex(p1)
      /\ Area(p1) = Cross(Pos(a), Pos(b)) + Cross(Pos(b), Pos(e)) + Cross(Pos(e), Pos(a))
  <2>1. Turn(Pos(a), Pos(b), Pos(e)) > 0
    BY <1>3, <1>5, OneSidePoint
  <2> QED BY <1>7, <2>1, TriangleShapeOf
<1>9. /\ Convex(p2)
      /\ Area(p2) = Cross(Pos(e), Pos(c)) + Cross(Pos(c), Pos(d)) + Cross(Pos(d), Pos(a))
                        + Cross(Pos(a), Pos(e))
  <2>1. Turn(Pos(e), Pos(c), Pos(d)) > 0
    BY <1>3, <1>5, OneSidePoint
  <2>2. Turn(Pos(c), Pos(d), Pos(a)) > 0
    BY <1>3, QuadrilateralTurns
  <2>3. Turn(Pos(d), Pos(a), Pos(e)) > 0
    BY <1>3, <1>5, OneSidePoint
  <2>4. Turn(Pos(a), Pos(e), Pos(c)) > 0
    BY <1>3, <1>5, OneSidePoint
  <2>5. Quadrilateral(Pos(e), Pos(c), Pos(d), Pos(a))
    BY <1>7, <2>1, <2>2, <2>3, <2>4 DEF Quadrilateral
  <2> QED BY <1>7, <2>5, QuadShapeOf
<1> HIDE DEF p1, p2
<1>10. /\ Cross(Pos(a), Pos(b)) \in Int /\ Cross(Pos(b), Pos(e)) \in Int
      /\ Cross(Pos(e), Pos(a)) \in Int /\ Cross(Pos(e), Pos(c)) \in Int
      /\ Cross(Pos(c), Pos(d)) \in Int /\ Cross(Pos(d), Pos(a)) \in Int
      /\ Cross(Pos(a), Pos(e)) \in Int /\ Cross(Pos(b), Pos(c)) \in Int
      /\ Cross(Pos(a), Pos(e)) = -Cross(Pos(e), Pos(a))
  BY <1>7, CrossTypes
<1>11. /\ Cross(Pos(b), Pos(e)) + Cross(Pos(e), Pos(c)) = Cross(Pos(b), Pos(c))
  BY <1>5, <1>7, CrossWithin
<1>12. /\ Area(p1) \in Int /\ Area(p2) \in Int
  BY <1>8, <1>9, <1>10
<1>13. Area(Whole(NoSide)) = Cross(Pos(a), Pos(b)) + Cross(Pos(b), Pos(c)) + Cross(Pos(c), Pos(d))
                          + Cross(Pos(d), Pos(a))
  BY WholeShape DEF a, b, c, d
<1>14. Area(p1) + Area(p2) = Area(Whole(NoSide))
  BY <1>8, <1>9, <1>10, <1>11, <1>13
<1>15. AreaOf(first) = Area(p1) /\ AreaOf(second) = Area(p2)
  BY <1>6, <1>12, AreaOfLists
<1>16. /\ Sides(p1) = {<<a, b>>, <<b, e>>, <<e, a>>}
      /\ Sides(p2) = {<<e, c>>, <<c, d>>, <<d, a>>, <<a, e>>}
  BY QuadShape, TriangleShape DEF p1, p2
<1>17. /\ OnOutline(<<a, b>>) /\ OnOutline(<<b, e>>) /\ OnOutline(<<e, c>>) /\ OnOutline(<<c, d>>)
      /\ OnOutline(<<d, a>>)
  BY <1>4, <1>5, EdgeOnOutline DEF OnEdge
<1>18. PiecesIn(first) \cup PiecesIn(second) = {p1, p2}
  <2>1. PiecesIn(first) = {p1}
    BY <1>6, GroupOfOne
  <2>2. PiecesIn(second) = {p2}
    BY <1>6, GroupOfOne
  <2> QED BY <2>1, <2>2
<1> DEFINE all == {p1, p2}
<1>19. Tiles(all)
  <2>1. \A x \in all : Convex(x)
    BY <1>8, <1>9
  <2>2. \A s : s \in SidesOf(all) <=> s \in Sides(p1) \/ s \in Sides(p2)
    BY DEF SidesOf
  <2>3. /\ Sides(p1) \cap Sides(p2) = {}
    BY <1>1, <1>16
  <2>4. \A x, y \in all : x # y => Sides(x) \cap Sides(y) = {}
    BY <2>3
  <2> HIDE DEF all
  <2>5. /\ <<e, a>> \in SidesOf(all) /\ <<a, e>> \in SidesOf(all)
    BY <2>2, <1>16
  <2>6. /\ Reversed(<<e, a>>) \in SidesOf(all) /\ Reversed(<<a, e>>) \in SidesOf(all)
    BY <2>5, <1>2
  <2>7. \A s \in SidesOf(all) : OnOutline(s) \/ Reversed(s) \in SidesOf(all)
    <3> TAKE s \in SidesOf(all)
    <3>1. s = <<a, b>> \/ s = <<b, e>> \/ s = <<e, a>> \/ s = <<e, c>> \/ s = <<c, d>> \/
          s = <<d, a>> \/ s = <<a, e>>
      BY <2>2, <1>16
    <3> QED BY <3>1, <2>6, <1>17
  <2> QED BY <2>1, <2>4, <2>7 DEF Tiles
<1>20. /\ AreaOf(first) \in Int /\ AreaOf(second) \in Int
      /\ AreaOf(first) + AreaOf(second) = Area(Whole(NoSide))
  BY <1>12, <1>14, <1>15
<1>21. Len(first) = 1 /\ Len(second) = 1
  BY <1>6
<1>22. Len(first) + Len(second) <= MaxElems
  BY <1>21, RoomAssumption
<1>23. Tiles(PiecesIn(first) \cup PiecesIn(second))
  BY <1>18, <1>19
<1> QED BY <1>20, <1>22, <1>23 DEF Divides, first, second

LEMMA NodeAndFarEdgeDivide ==
  ASSUME NEW r \in Corners,
         Within(Pos(M(0)), Pos(N(r+2)), Pos(N(r+3)))
  PROVE  Divides(NodeAndEdgePieces(r, 2))
<1> DEFINE a == N(r)  b == N(r+1)  c == N(r+2)  d == N(r+3)  e == M(0)
<1>1. /\ a # b /\ a # c /\ a # d /\ a # e /\ b # c /\ b # d /\ b # e /\ c # d /\ c # e /\ d # e
  BY DistinctNodes
<1>2. \A x, y : Reversed(<<x, y>>) = <<y, x>>
  BY DEF Reversed
<1>3. /\ Quadrilateral(Pos(a), Pos(b), Pos(c), Pos(d))
      /\ Quadrilateral(Pos(b), Pos(c), Pos(d), Pos(a))
      /\ Quadrilateral(Pos(c), Pos(d), Pos(a), Pos(b))
      /\ Quadrilateral(Pos(d), Pos(a), Pos(b), Pos(c))
  BY CornersConvex, QuadrilateralTurns
<1>4. EdgeOf(a, b) /\ EdgeOf(b, c) /\ EdgeOf(c, d) /\ EdgeOf(d, a)
  BY Edges
<1>5. /\ Within(Pos(e), Pos(c), Pos(d))
  OBVIOUS
<1> DEFINE p1 == Piece(<<a, e, d>>, 0)
           p2 == Piece(<<a, b, c, e>>, 3)
           first == NodeAndEdgePieces(r, 2).first
           second == NodeAndEdgePieces(r, 2).second
<1>6. first = <<p1>> /\ second = <<p2>>
  BY DEF NodeAndEdgePieces
<1> HIDE DEF a, b, c, d, e, first, second
<1>7. /\ Pos(a) \in Points /\ Pos(b) \in Points /\ Pos(c) \in Points /\ Pos(d) \in Points
      /\ Pos(e) \in Points
  BY <1>3, <1>5 DEF Quadrilateral, Within
<1>8. /\ Convex(p1)
      /\ Area(p1) = Cross(Pos(a), Pos(e)) + Cross(Pos(e), Pos(d)) + Cross(Pos(d), Pos(a))
  <2>1. Turn(Pos(a), Pos(e), Pos(d)) > 0
    BY <1>3, <1>5, OneSidePoint
  <2> QED BY <1>7, <2>1, TriangleShapeOf
<1>9. /\ Convex(p2)
      /\ Area(p2) = Cross(Pos(a), Pos(b)) + Cross(Pos(b), Pos(c)) + Cross(Pos(c), Pos(e))
                        + Cross(Pos(e), Pos(a))
  <2>1. Turn(Pos(a), Pos(b), Pos(c)) > 0
    BY <1>3, QuadrilateralTurns
  <2>2. Turn(Pos(b), Pos(c), Pos(e)) > 0
    BY <1>3, <1>5, OneSidePoint
  <2>3. Turn(Pos(c), Pos(e), Pos(a)) > 0
    BY <1>3, <1>5, OneSidePoint
  <2>4. Turn(Pos(e), Pos(a), Pos(b)) > 0
    BY <1>3, <1>5, OneSidePoint
  <2>5. Quadrilateral(Pos(a), Pos(b), Pos(c), Pos(e))
    BY <1>7, <2>1, <2>2, <2>3, <2>4 DEF Quadrilateral
  <2> QED BY <1>7, <2>5, QuadShapeOf
<1> HIDE DEF p1, p2
<1>10. /\ Cross(Pos(a), Pos(e)) \in Int /\ Cross(Pos(e), Pos(d)) \in Int
      /\ Cross(Pos(d), Pos(a)) \in Int /\ Cross(Pos(a), Pos(b)) \in Int
      /\ Cross(Pos(b), Pos(c)) \in Int /\ Cross(Pos(c), Pos(e)) \in Int
      /\ Cross(Pos(e), Pos(a)) \in Int /\ Cross(Pos(c), Pos(d)) \in Int
      /\ Cross(Pos(e), Pos(a)) = -Cross(Pos(a), Pos(e))
  BY <1>7, CrossTypes
<1>11. /\ Cross(Pos(c), Pos(e)) + Cross(Pos(e), Pos(d)) = Cross(Pos(c), Pos(d))
  BY <1>5, <1>7, CrossWithin
<1>12. /\ Area(p1) \in Int /\ Area(p2) \in Int
  BY <1>8, <1>9, <1>10
<1>13. Area(Whole(NoSide)) = Cross(Pos(a), Pos(b)) + Cross(Pos(b), Pos(c)) + Cross(Pos(c), Pos(d))
                          + Cross(Pos(d), Pos(a))
  BY WholeShape DEF a, b, c, d
<1>14. Area(p1) + Area(p2) = Area(Whole(NoSide))
  BY <1>8, <1>9, <1>10, <1>11, <1>13
<1>15. AreaOf(first) = Area(p1) /\ AreaOf(second) = Area(p2)
  BY <1>6, <1>12, AreaOfLists
<1>16. /\ Sides(p1) = {<<a, e>>, <<e, d>>, <<d, a>>}
      /\ Sides(p2) = {<<a, b>>, <<b, c>>, <<c, e>>, <<e, a>>}
  BY QuadShape, TriangleShape DEF p1, p2
<1>17. /\ OnOutline(<<e, d>>) /\ OnOutline(<<d, a>>) /\ OnOutline(<<a, b>>) /\ OnOutline(<<b, c>>)
      /\ OnOutline(<<c, e>>)
  BY <1>4, <1>5, EdgeOnOutline DEF OnEdge
<1>18. PiecesIn(first) \cup PiecesIn(second) = {p1, p2}
  <2>1. PiecesIn(first) = {p1}
    BY <1>6, GroupOfOne
  <2>2. PiecesIn(second) = {p2}
    BY <1>6, GroupOfOne
  <2> QED BY <2>1, <2>2
<1> DEFINE all == {p1, p2}
<1>19. Tiles(all)
  <2>1. \A x \in all : Convex(x)
    BY <1>8, <1>9
  <2>2. \A s : s \in SidesOf(all) <=> s \in Sides(p1) \/ s \in Sides(p2)
    BY DEF SidesOf
  <2>3. /\ Sides(p1) \cap Sides(p2) = {}
    BY <1>1, <1>16
  <2>4. \A x, y \in all : x # y => Sides(x) \cap Sides(y) = {}
    BY <2>3
  <2> HIDE DEF all
  <2>5. /\ <<a, e>> \in SidesOf(all) /\ <<e, a>> \in SidesOf(all)
    BY <2>2, <1>16
  <2>6. /\ Reversed(<<a, e>>) \in SidesOf(all) /\ Reversed(<<e, a>>) \in SidesOf(all)
    BY <2>5, <1>2
  <2>7. \A s \in SidesOf(all) : OnOutline(s) \/ Reversed(s) \in SidesOf(all)
    <3> TAKE s \in SidesOf(all)
    <3>1. s = <<a, e>> \/ s = <<e, d>> \/ s = <<d, a>> \/ s = <<a, b>> \/ s = <<b, c>> \/
          s = <<c, e>> \/ s = <<e, a>>
      BY <2>2, <1>16
    <3> QED BY <3>1, <2>6, <1>17
  <2> QED BY <2>1, <2>4, <2>7 DEF Tiles
<1>20. /\ AreaOf(first) \in Int /\ AreaOf(second) \in Int
      /\ AreaOf(first) + AreaOf(second) = Area(Whole(NoSide))
  BY <1>12, <1>14, <1>15
<1>21. Len(first) = 1 /\ Len(second) = 1
  BY <1>6
<1>22. Len(first) + Len(second) <= MaxElems
  BY <1>21, RoomAssumption
<1>23. Tiles(PiecesIn(first) \cup PiecesIn(second))
  BY <1>18, <1>19
<1> QED BY <1>20, <1>22, <1>23 DEF Divides, first, second

LEMMA OppositeNodesDivide ==
  ASSUME NEW r \in Corners
  PROVE  Divides(OppositeNodePieces(r))
<1> DEFINE a == N(r)  b == N(r+1)  c == N(r+2)  d == N(r+3)
<1>1. /\ a # b /\ a # c /\ a # d /\ b # c /\ b # d /\ c # d
  BY DistinctNodes
<1>2. \A x, y : Reversed(<<x, y>>) = <<y, x>>
  BY DEF Reversed
<1>3. /\ Quadrilateral(Pos(a), Pos(b), Pos(c), Pos(d))
      /\ Quadrilateral(Pos(b), Pos(c), Pos(d), Pos(a))
      /\ Quadrilateral(Pos(c), Pos(d), Pos(a), Pos(b))
      /\ Quadrilateral(Pos(d), Pos(a), Pos(b), Pos(c))
  BY CornersConvex, QuadrilateralTurns
<1>4. EdgeOf(a, b) /\ EdgeOf(b, c) /\ EdgeOf(c, d) /\ EdgeOf(d, a)
  BY Edges
<1> DEFINE p1 == Piece(<<a, b, c>>, 2)
           p2 == Piece(<<c, d, a>>, 2)
           first == OppositeNodePieces(r).first
           second == OppositeNodePieces(r).second
<1>6. first = <<p1>> /\ second = <<p2>>
  BY DEF OppositeNodePieces
<1> HIDE DEF a, b, c, d, first, second
<1>7. /\ Pos(a) \in Points /\ Pos(b) \in Points /\ Pos(c) \in Points /\ Pos(d) \in Points
  BY <1>3 DEF Quadrilateral
<1>8. /\ Convex(p1)
      /\ Area(p1) = Cross(Pos(a), Pos(b)) + Cross(Pos(b), Pos(c)) + Cross(Pos(c), Pos(a))
  <2>1. Turn(Pos(a), Pos(b), Pos(c)) > 0
    BY <1>3, QuadrilateralTurns
  <2> QED BY <1>7, <2>1, TriangleShapeOf
<1>9. /\ Convex(p2)
      /\ Area(p2) = Cross(Pos(c), Pos(d)) + Cross(Pos(d), Pos(a)) + Cross(Pos(a), Pos(c))
  <2>1. Turn(Pos(c), Pos(d), Pos(a)) > 0
    BY <1>3, QuadrilateralTurns
  <2> QED BY <1>7, <2>1, TriangleShapeOf
<1> HIDE DEF p1, p2
<1>10. /\ Cross(Pos(a), Pos(b)) \in Int /\ Cross(Pos(b), Pos(c)) \in Int
      /\ Cross(Pos(c), Pos(a)) \in Int /\ Cross(Pos(c), Pos(d)) \in Int
      /\ Cross(Pos(d), Pos(a)) \in Int /\ Cross(Pos(a), Pos(c)) \in Int
      /\ Cross(Pos(a), Pos(c)) = -Cross(Pos(c), Pos(a))
  BY <1>7, CrossTypes
<1>11. /\ Area(p1) \in Int /\ Area(p2) \in Int
  BY <1>8, <1>9, <1>10
<1>12. Area(Whole(NoSide)) = Cross(Pos(a), Pos(b)) + Cross(Pos(b), Pos(c)) + Cross(Pos(c), Pos(d))
                          + Cross(Pos(d), Pos(a))
  BY WholeShape DEF a, b, c, d
<1>13. Area(p1) + Area(p2) = Area(Whole(NoSide))
  BY <1>8, <1>9, <1>10, <1>12
<1>14. AreaOf(first) = Area(p1) /\ AreaOf(second) = Area(p2)
  BY <1>6, <1>11, AreaOfLists
<1>15. /\ Sides(p1) = {<<a, b>>, <<b, c>>, <<c, a>>}
      /\ Sides(p2) = {<<c, d>>, <<d, a>>, <<a, c>>}
  BY TriangleShape DEF p1, p2
<1>16. /\ OnOutline(<<a, b>>) /\ OnOutline(<<b, c>>) /\ OnOutline(<<c, d>>) /\ OnOutline(<<d, a>>)
  BY <1>4, EdgeOnOutline DEF OnEdge
<1>17. PiecesIn(first) \cup PiecesIn(second) = {p1, p2}
  <2>1. PiecesIn(first) = {p1}
    BY <1>6, GroupOfOne
  <2>2. PiecesIn(second) = {p2}
    BY <1>6, GroupOfOne
  <2> QED BY <2>1, <2>2
<1> DEFINE all == {p1, p2}
<1>18. Tiles(all)
  <2>1. \A x \in all : Convex(x)
    BY <1>8, <1>9
  <2>2. \A s : s \in SidesOf(all) <=> s \in Sides(p1) \/ s \in Sides(p2)
    BY DEF SidesOf
  <2>3. /\ Sides(p1) \cap Sides(p2) = {}
    BY <1>1, <1>15
  <2>4. \A x, y \in all : x # y => Sides(x) \cap Sides(y) = {}
    BY <2>3
  <2> HIDE DEF all
  <2>5. /\ <<c, a>> \in SidesOf(all) /\ <<a, c>> \in SidesOf(all)
    BY <2>2, <1>15
  <2>6. /\ Reversed(<<c, a>>) \in SidesOf(all) /\ Reversed(<<a, c>>) \in SidesOf(all)
    BY <2>5, <1>2
  <2>7. \A s \in SidesOf(all) : OnOutline(s) \/ Reversed(s) \in SidesOf(all)
    <3> TAKE s \in SidesOf(all)
    <3>1. s = <<a, b>> \/ s = <<b, c>> \/ s = <<c, a>> \/ s = <<c, d>> \/ s = <<d, a>> \/
          s = <<a, c>>
      BY <2>2, <1>15
    <3> QED BY <3>1, <2>6, <1>16
  <2> QED BY <2>1, <2>4, <2>7 DEF Tiles
<1>19. /\ AreaOf(first) \in Int /\ AreaOf(second) \in Int
      /\ AreaOf(first) + AreaOf(second) = Area(Whole(NoSide))
  BY <1>11, <1>13, <1>14
<1>20. Len(first) = 1 /\ Len(second) = 1
  BY <1>6
<1>21. Len(first) + Len(second) <= MaxElems
  BY <1>20, RoomAssumption
<1>22. Tiles(PiecesIn(first) \cup PiecesIn(second))
  BY <1>17, <1>18
<1> QED BY <1>19, <1>21, <1>22 DEF Divides, first, second

LEMMA NodeAndTwoEdgesDivide ==
  ASSUME NEW r \in Corners,
         Within(Pos(M(0)), Pos(N(r+1)), Pos(N(r+2))),
         Within(Pos(M(1)), Pos(N(r+2)), Pos(N(r+3)))
  PROVE  Divides(NodeAndTwoEdgePieces(r))
<1> DEFINE a == N(r)  b == N(r+1)  c == N(r+2)  d == N(r+3)  e == M(0)  f == M(1)
<1>1. /\ a # b /\ a # c /\ a # d /\ a # e /\ a # f /\ b # c /\ b # d /\ b # e /\ b # f /\ c # d
      /\ c # e /\ c # f /\ d # e /\ d # f /\ e # f
  BY DistinctNodes
<1>2. \A x, y : Reversed(<<x, y>>) = <<y, x>>
  BY DEF Reversed
<1>3. /\ Quadrilateral(Pos(a), Pos(b), Pos(c), Pos(d))
      /\ Quadrilateral(Pos(b), Pos(c), Pos(d), Pos(a))
      /\ Quadrilateral(Pos(c), Pos(d), Pos(a), Pos(b))
      /\ Quadrilateral(Pos(d), Pos(a), Pos(b), Pos(c))
  BY CornersConvex, QuadrilateralTurns
<1>4. EdgeOf(a, b) /\ EdgeOf(b, c) /\ EdgeOf(c, d) /\ EdgeOf(d, a)
  BY Edges
<1>5. /\ Within(Pos(e), Pos(b), Pos(c)) /\ Within(Pos(f), Pos(c), Pos(d))
  OBVIOUS
<1> DEFINE p1 == Piece(<<a, b, e>>, 2)
           p2 == Piece(<<a, f, d>>, 0)
           p3 == Piece(<<a, e, c>>, 0)
           p4 == Piece(<<a, c, f>>, 2)
           first == NodeAndTwoEdgePieces(r).first
           second == NodeAndTwoEdgePieces(r).second
<1>6. first = <<p1, p2>> /\ second = <<p3, p4>>
  BY DEF NodeAndTwoEdgePieces
<1> HIDE DEF a, b, c, d, e, f, first, second
<1>7. /\ Pos(a) \in Points /\ Pos(b) \in Points /\ Pos(c) \in Points /\ Pos(d) \in Points
      /\ Pos(e) \in Points /\ Pos(f) \in Points
  BY <1>3, <1>5 DEF Quadrilateral, Within
<1>8. /\ Convex(p1)
      /\ Area(p1) = Cross(Pos(a), Pos(b)) + Cross(Pos(b), Pos(e)) + Cross(Pos(e), Pos(a))
  <2>1. Turn(Pos(a), Pos(b), Pos(e)) > 0
    BY <1>3, <1>5, OneSidePoint
  <2> QED BY <1>7, <2>1, TriangleShapeOf
<1>9. /\ Convex(p2)
      /\ Area(p2) = Cross(Pos(a), Pos(f)) + Cross(Pos(f), Pos(d)) + Cross(Pos(d), Pos(a))
  <2>1. Turn(Pos(a), Pos(f), Pos(d)) > 0
    BY <1>3, <1>5, OneSidePoint
  <2> QED BY <1>7, <2>1, TriangleShapeOf
<1>10. /\ Convex(p3)
      /\ Area(p3) = Cross(Pos(a), Pos(e)) + Cross(Pos(e), Pos(c)) + Cross(Pos(c), Pos(a))
  <2>1. Turn(Pos(a), Pos(e), Pos(c)) > 0
    BY <1>3, <1>5, OneSidePoint
  <2> QED BY <1>7, <2>1, TriangleShapeOf
<1>11. /\ Convex(p4)
      /\ Area(p4) = Cross(Pos(a), Pos(c)) + Cross(Pos(c), Pos(f)) + Cross(Pos(f), Pos(a))
  <2>1. Turn(Pos(a), Pos(c), Pos(f)) > 0
    BY <1>3, <1>5, OneSidePoint
  <2> QED BY <1>7, <2>1, TriangleShapeOf
<1> HIDE DEF p1, p2, p3, p4
<1>12. /\ Cross(Pos(a), Pos(b)) \in Int /\ Cross(Pos(b), Pos(e)) \in Int
      /\ Cross(Pos(e), Pos(a)) \in Int /\ Cross(Pos(a), Pos(f)) \in Int
      /\ Cross(Pos(f), Pos(d)) \in Int /\ Cross(Pos(d), Pos(a)) \in Int
      /\ Cross(Pos(a), Pos(e)) \in Int /\ Cross(Pos(e), Pos(c)) \in Int
      /\ Cross(Pos(c), Pos(a)) \in Int /\ Cross(Pos(a), Pos(c)) \in Int
      /\ Cross(Pos(c), Pos(f)) \in Int /\ Cross(Pos(f), Pos(a)) \in Int
      /\ Cross(Pos(b), Pos(c)) \in Int /\ Cross(Pos(c), Pos(d)) \in Int
      /\ Cross(Pos(a), Pos(e)) = -Cross(Pos(e), Pos(a))
      /\ Cross(Pos(f), Pos(a)) = -Cross(Pos(a), Pos(f))
      /\ Cross(Pos(a), Pos(c)) = -Cross(Pos(c), Pos(a))
  BY <1>7, CrossTypes
<1>13. /\ Cross(Pos(b), Pos(e)) + Cross(Pos(e), Pos(c)) = Cross(Pos(b), Pos(c))
      /\ Cross(Pos(c), Pos(f)) + Cross(Pos(f), Pos(d)) = Cross(Pos(c), Pos(d))
  BY <1>5, <1>7, CrossWithin
<1>14. /\ Area(p1) \in Int /\ Area(p2) \in Int /\ Area(p3) \in Int /\ Area(p4) \in Int
  BY <1>8, <1>9, <1>10, <1>11, <1>12
<1>15. Area(Whole(NoSide)) = Cross(Pos(a), Pos(b)) + Cross(Pos(b), Pos(c)) + Cross(Pos(c), Pos(d))
                          + Cross(Pos(d), Pos(a))
  BY WholeShape DEF a, b, c, d
<1>16. Area(p1) + Area(p2) + Area(p3) + Area(p4) = Area(Whole(NoSide))
  BY <1>8, <1>9, <1>10, <1>11, <1>12, <1>13, <1>15
<1>17. AreaOf(first) = Area(p1) + Area(p2) /\ AreaOf(second) = Area(p3) + Area(p4)
  BY <1>6, <1>14, AreaOfLists
<1>18. /\ Sides(p1) = {<<a, b>>, <<b, e>>, <<e, a>>}
      /\ Sides(p2) = {<<a, f>>, <<f, d>>, <<d, a>>}
      /\ Sides(p3) = {<<a, e>>, <<e, c>>, <<c, a>>}
      /\ Sides(p4) = {<<a, c>>, <<c, f>>, <<f, a>>}
  BY TriangleShape DEF p1, p2, p3, p4
<1>19. /\ OnOutline(<<a, b>>) /\ OnOutline(<<b, e>>) /\ OnOutline(<<f, d>>) /\ OnOutline(<<d, a>>)
      /\ OnOutline(<<e, c>>) /\ OnOutline(<<c, f>>)
  BY <1>4, <1>5, EdgeOnOutline DEF OnEdge
<1>20. PiecesIn(first) \cup PiecesIn(second) = {p1, p2, p3, p4}
  <2>1. PiecesIn(first) = {p1, p2}
    BY <1>6, GroupOfTwo
  <2>2. PiecesIn(second) = {p3, p4}
    BY <1>6, GroupOfTwo
  <2> QED BY <2>1, <2>2
<1> DEFINE all == {p1, p2, p3, p4}
<1>21. Tiles(all)
  <2>1. \A x \in all : Convex(x)
    BY <1>8, <1>9, <1>10, <1>11
  <2>2. \A s : s \in SidesOf(all) <=>
            s \in Sides(p1) \/ s \in Sides(p2) \/ s \in Sides(p3) \/ s \in Sides(p4)
    BY DEF SidesOf
  <2>3. /\ Sides(p1) \cap Sides(p2) = {} /\ Sides(p1) \cap Sides(p3) = {}
        /\ Sides(p1) \cap Sides(p4) = {} /\ Sides(p2) \cap Sides(p3) = {}
        /\ Sides(p2) \cap Sides(p4) = {} /\ Sides(p3) \cap Sides(p4) = {}
    BY <1>1, <1>18
  <2>4. \A x, y \in all : x # y => Sides(x) \cap Sides(y) = {}
    BY <2>3
  <2> HIDE DEF all
  <2>5. /\ <<e, a>> \in SidesOf(all) /\ <<a, f>> \in SidesOf(all) /\ <<a, e>> \in SidesOf(all)
        /\ <<c, a>> \in SidesOf(all) /\ <<a, c>> \in SidesOf(all) /\ <<f, a>> \in SidesOf(all)
    BY <2>2, <1>18
  <2>6. /\ Reversed(<<e, a>>) \in SidesOf(all) /\ Reversed(<<a, f>>) \in SidesOf(all)
        /\ Reversed(<<a, e>>) \in SidesOf(all) /\ Reversed(<<c, a>>) \in SidesOf(all)
        /\ Reversed(<<a, c>>) \in SidesOf(all) /\ Reversed(<<f, a>>) \in SidesOf(all)
    BY <2>5, <1>2
  <2>7. \A s \in SidesOf(all) : OnOutline(s) \/ Reversed(s) \in SidesOf(all)
    <3> TAKE s \in SidesOf(all)
    <3>1. s = <<a, b>> \/ s = <<b, e>> \/ s = <<e, a>> \/ s = <<a, f>> \/ s = <<f, d>> \/
          s = <<d, a>> \/ s = <<a, e>> \/ s = <<e, c>> \/ s = <<c, a>> \/ s = <<a, c>> \/
          s = <<c, f>> \/ s = <<f, a>>
      BY <2>2, <1>18
    <3> QED BY <3>1, <2>6, <1>19
  <2> QED BY <2>1, <2>4, <2>7 DEF Tiles
<1>22. /\ AreaOf(first) \in Int /\ AreaOf(second) \in Int
      /\ AreaOf(first) + AreaOf(second) = Area(Whole(NoSide))
  BY <1>14, <1>16, <1>17
<1>23. Len(first) = 2 /\ Len(second) = 2
  BY <1>6
<1>24. Len(first) + Len(second) <= MaxElems
  BY <1>23, RoomAssumption
<1>25. Tiles(PiecesIn(first) \cup PiecesIn(second))
  BY <1>20, <1>21
<1> QED BY <1>22, <1>24, <1>25 DEF Divides, first, second

LEMMA TwoAdjacentEdgesDivide ==
  ASSUME NEW r \in Corners,
         Within(Pos(M(0)), Pos(N(r)), Pos(N(r+1))),
         Within(Pos(M(1)), Pos(N(r+1)), Pos(N(r+2))),
         Within(Pos(M(2)), Pos(N(r+2)), Pos(N(r+3))),
         Within(Pos(M(3)), Pos(N(r+3)), Pos(N(r)))
  PROVE  Divides(TwoAdjacentPieces(r))
<1> DEFINE a == N(r)  b == N(r+1)  c == N(r+2)  d == N(r+3)  e == M(0)  f == M(1)  g == M(2)
           h == M(3)
<1>1. /\ a # b /\ a # c /\ a # d /\ a # e /\ a # f /\ a # g /\ a # h /\ b # c /\ b # d /\ b # e
      /\ b # f /\ b # g /\ b # h /\ c # d /\ c # e /\ c # f /\ c # g /\ c # h /\ d # e /\ d # f
      /\ d # g /\ d # h /\ e # f /\ e # g /\ e # h /\ f # g /\ f # h /\ g # h
  BY DistinctNodes
<1>2. \A x, y : Reversed(<<x, y>>) = <<y, x>>
  BY DEF Reversed
<1>3. /\ Quadrilateral(Pos(a), Pos(b), Pos(c), Pos(d))
      /\ Quadrilateral(Pos(b), Pos(c), Pos(d), Pos(a))
      /\ Quadrilateral(Pos(c), Pos(d), Pos(a), Pos(b))
      /\ Quadrilateral(Pos(d), Pos(a), Pos(b), Pos(c))
  BY CornersConvex, QuadrilateralTurns
<1>4. EdgeOf(a, b) /\ EdgeOf(b, c) /\ EdgeOf(c, d) /\ EdgeOf(d, a)
  BY Edges
<1>5. /\ Within(Pos(e), Pos(a), Pos(b)) /\ Within(Pos(f), Pos(b), Pos(c))
      /\ Within(Pos(g), Pos(c), Pos(d)) /\ Within(Pos(h), Pos(d), Pos(a))
  OBVIOUS
<1> DEFINE p1 == Piece(<<e, b, f>>, 2)
           p2 == Piece(<<h, g, d>>, 0)
           p3 == Piece(<<a, e, g, h>>, 2)
           p4 == Piece(<<e, f, c, g>>, 0)
           first == TwoAdjacentPieces(r).first
           second == TwoAdjacentPieces(r).second
<1>6. first = <<p1, p2>> /\ second = <<p3, p4>>
  BY DEF TwoAdjacentPieces
<1> HIDE DEF a, b, c, d, e, f, g, h, first, second
<1>7. /\ Pos(a) \in Points /\ Pos(b) \in Points /\ Pos(c) \in Points /\ Pos(d) \in Points
      /\ Pos(e) \in Points /\ Pos(f) \in Points /\ Pos(g) \in Points /\ Pos(h) \in Points
  BY <1>3, <1>5 DEF Quadrilateral, Within
<1>8. /\ Convex(p1)
      /\ Area(p1) = Cross(Pos(e), Pos(b)) + Cross(Pos(b), Pos(f)) + Cross(Pos(f), Pos(e))
  <2>1. Turn(Pos(e), Pos(b), Pos(f)) > 0
    BY <1>3, <1>5, TwoSidePoints
  <2> QED BY <1>7, <2>1, TriangleShapeOf
<1>9. /\ Convex(p2)
      /\ Area(p2) = Cross(Pos(h), Pos(g)) + Cross(Pos(g), Pos(d)) + Cross(Pos(d), Pos(h))
  <2>1. Turn(Pos(h), Pos(g), Pos(d)) > 0
    BY <1>3, <1>5, TwoSidePoints
  <2> QED BY <1>7, <2>1, TriangleShapeOf
<1>10. /\ Convex(p3)
      /\ Area(p3) = Cross(Pos(a), Pos(e)) + Cross(Pos(e), Pos(g)) + Cross(Pos(g), Pos(h))
                        + Cross(Pos(h), Pos(a))
  <2>1. Turn(Pos(a), Pos(e), Pos(g)) > 0
    BY <1>3, <1>5, FacingSidePoints
  <2>2. Turn(Pos(e), Pos(g), Pos(h)) > 0
    BY <1>3, <1>5, ThreeSidePoints
  <2>3. Turn(Pos(g), Pos(h), Pos(a)) > 0
    BY <1>3, <1>5, TwoSidePoints
  <2>4. Turn(Pos(h), Pos(a), Pos(e)) > 0
    BY <1>3, <1>5, TwoSidePoints
  <2>5. Quadrilateral(Pos(a), Pos(e), Pos(g), Pos(h))
    BY <1>7, <2>1, <2>2, <2>3, <2>4 DEF Quadrilateral
  <2> QED BY <1>7, <2>5, QuadShapeOf
<1>11. /\ Convex(p4)
      /\ Area(p4) = Cross(Pos(e), Pos(f)) + Cross(Pos(f), Pos(c)) + Cross(Pos(c), Pos(g))
                        + Cross(Pos(g), Pos(e))
  <2>1. Turn(Pos(e), Pos(f), Pos(c)) > 0
    BY <1>3, <1>5, TwoSidePoints
  <2>2. Turn(Pos(f), Pos(c), Pos(g)) > 0
    BY <1>3, <1>5, TwoSidePoints
  <2>3. Turn(Pos(c), Pos(g), Pos(e)) > 0
    BY <1>3, <1>5, FacingSidePoints
  <2>4. Turn(Pos(g), Pos(e), Pos(f)) > 0
    BY <1>3, <1>5, ThreeSidePoints
  <2>5. Quadrilateral(Pos(e), Pos(f), Pos(c), Pos(g))
    BY <1>7, <2>1, <2>2, <2>3, <2>4 DEF Quadrilateral
  <2> QED BY <1>7, <2>5, QuadShapeOf
<1> HIDE DEF p1, p2, p3, p4
<1>12. /\ Cross(Pos(e), Pos(b)) \in Int /\ Cross(Pos(b), Pos(f)) \in Int
      /\ Cross(Pos(f), Pos(e)) \in Int /\ Cross(Pos(h), Pos(g)) \in Int
      /\ Cross(Pos(g), Pos(d)) \in Int /\ Cross(Pos(d), Pos(h)) \in Int
      /\ Cross(Pos(a), Pos(e)) \in Int /\ Cross(Pos(e), Pos(g)) \in Int
      /\ Cross(Pos(g), Pos(h)) \in Int /\ Cross(Pos(h), Pos(a)) \in Int
      /\ Cross(Pos(e), Pos(f)) \in Int /\ Cross(Pos(f), Pos(c)) \in Int
      /\ Cross(Pos(c), Pos(g)) \in Int /\ Cross(Pos(g), Pos(e)) \in Int
      /\ Cross(Pos(a), Pos(b)) \in Int /\ Cross(Pos(b), Pos(c)) \in Int
      /\ Cross(Pos(c), Pos(d)) \in Int /\ Cross(Pos(d), Pos(a)) \in Int
      /\ Cross(Pos(e), Pos(f)) = -Cross(Pos(f), Pos(e))
      /\ Cross(Pos(g), Pos(h)) = -Cross(Pos(h), Pos(g))
      /\ Cross(Pos(g), Pos(e)) = -Cross(Pos(e), Pos(g))
  BY <1>7, CrossTypes
<1>13. /\ Cross(Pos(a), Pos(e)) + Cross(Pos(e), Pos(b)) = Cross(Pos(a), Pos(b))
      /\ Cross(Pos(b), Pos(f)) + Cross(Pos(f), Pos(c)) = Cross(Pos(b), Pos(c))
      /\ Cross(Pos(c), Pos(g)) + Cross(Pos(g), Pos(d)) = Cross(Pos(c), Pos(d))
      /\ Cross(Pos(d), Pos(h)) + Cross(Pos(h), Pos(a)) = Cross(Pos(d), Pos(a))
  BY <1>5, <1>7, CrossWithin
<1>14. /\ Area(p1) \in Int /\ Area(p2) \in Int /\ Area(p3) \in Int /\ Area(p4) \in Int
  BY <1>8, <1>9, <1>10, <1>11, <1>12
<1>15. Area(Whole(NoSide)) = Cross(Pos(a), Pos(b)) + Cross(Pos(b), Pos(c)) + Cross(Pos(c), Pos(d))
                          + Cross(Pos(d), Pos(a))
  BY WholeShape DEF a, b, c, d
<1>16. Area(p1) + Area(p2) + Area(p3) + Area(p4) = Area(Whole(NoSide))
  BY <1>8, <1>9, <1>10, <1>11, <1>12, <1>13, <1>15
<1>17. AreaOf(first) = Area(p1) + Area(p2) /\ AreaOf(second) = Area(p3) + Area(p4)
  BY <1>6, <1>14, AreaOfLists
<1>18. /\ Sides(p1) = {<<e, b>>, <<b, f>>, <<f, e>>}
      /\ Sides(p2) = {<<h, g>>, <<g, d>>, <<d, h>>}
      /\ Sides(p3) = {<<a, e>>, <<e, g>>, <<g, h>>, <<h, a>>}
      /\ Sides(p4) = {<<e, f>>, <<f, c>>, <<c, g>>, <<g, e>>}
  BY QuadShape, TriangleShape DEF p1, p2, p3, p4
<1>19. /\ OnOutline(<<e, b>>) /\ OnOutline(<<b, f>>) /\ OnOutline(<<g, d>>) /\ OnOutline(<<d, h>>)
      /\ OnOutline(<<a, e>>) /\ OnOutline(<<h, a>>) /\ OnOutline(<<f, c>>) /\ OnOutline(<<c, g>>)
  BY <1>4, <1>5, EdgeOnOutline DEF OnEdge
<1>20. PiecesIn(first) \cup PiecesIn(second) = {p1, p2, p3, p4}
  <2>1. PiecesIn(first) = {p1, p2}
    BY <1>6, GroupOfTwo
  <2>2. PiecesIn(second) = {p3, p4}
    BY <1>6, GroupOfTwo
  <2> QED BY <2>1, <2>2
<1> DEFINE all == {p1, p2, p3, p4}
<1>21. Tiles(all)
  <2>1. \A x \in all : Convex(x)
    BY <1>8, <1>9, <1>10, <1>11
  <2>2. \A s : s \in SidesOf(all) <=>
            s \in Sides(p1) \/ s \in Sides(p2) \/ s \in Sides(p3) \/ s \in Sides(p4)
    BY DEF SidesOf
  <2>3. /\ Sides(p1) \cap Sides(p2) = {} /\ Sides(p1) \cap Sides(p3) = {}
        /\ Sides(p1) \cap Sides(p4) = {} /\ Sides(p2) \cap Sides(p3) = {}
        /\ Sides(p2) \cap Sides(p4) = {} /\ Sides(p3) \cap Sides(p4) = {}
    BY <1>1, <1>18
  <2>4. \A x, y \in all : x # y => Sides(x) \cap Sides(y) = {}
    BY <2>3
  <2> HIDE DEF all
  <2>5. /\ <<f, e>> \in SidesOf(all) /\ <<h, g>> \in SidesOf(all) /\ <<e, g>> \in SidesOf(all)
        /\ <<g, h>> \in SidesOf(all) /\ <<e, f>> \in SidesOf(all) /\ <<g, e>> \in SidesOf(all)
    BY <2>2, <1>18
  <2>6. /\ Reversed(<<f, e>>) \in SidesOf(all) /\ Reversed(<<h, g>>) \in SidesOf(all)
        /\ Reversed(<<e, g>>) \in SidesOf(all) /\ Reversed(<<g, h>>) \in SidesOf(all)
        /\ Reversed(<<e, f>>) \in SidesOf(all) /\ Reversed(<<g, e>>) \in SidesOf(all)
    BY <2>5, <1>2
  <2>7. \A s \in SidesOf(all) : OnOutline(s) \/ Reversed(s) \in SidesOf(all)
    <3> TAKE s \in SidesOf(all)
    <3>1. s = <<e, b>> \/ s = <<b, f>> \/ s = <<f, e>> \/ s = <<h, g>> \/ s = <<g, d>> \/
          s = <<d, h>> \/ s = <<a, e>> \/ s = <<e, g>> \/ s = <<g, h>> \/ s = <<h, a>> \/
          s = <<e, f>> \/ s = <<f, c>> \/ s = <<c, g>> \/ s = <<g, e>>
      BY <2>2, <1>18
    <3> QED BY <3>1, <2>6, <1>19
  <2> QED BY <2>1, <2>4, <2>7 DEF Tiles
<1>22. /\ AreaOf(first) \in Int /\ AreaOf(second) \in Int
      /\ AreaOf(first) + AreaOf(second) = Area(Whole(NoSide))
  BY <1>14, <1>16, <1>17
<1>23. Len(first) = 2 /\ Len(second) = 2
  BY <1>6
<1>24. Len(first) + Len(second) <= MaxElems
  BY <1>23, RoomAssumption
<1>25. Tiles(PiecesIn(first) \cup PiecesIn(second))
  BY <1>20, <1>21
<1> QED BY <1>22, <1>24, <1>25 DEF Divides, first, second

\* A list of new nodes, each mapped to its place.
Mapped(nodes) == \A i \in 1 .. Len(nodes) : MapsTo(nodes[i].local, nodes[i].at)

\* The groups that are selected divide the element, and the new nodes are
\* where their local coordinates say.
LEMMA SelectedDivides ==
  ASSUME ElementKnown, Selected.mode # "NO_INTERSECTION", newNodes = NewNodes(Selected)
  PROVE  Divides(Pieces(Selected)) /\ Mapped(newNodes)
<1>1. PICK r \in Corners : SelectionAt(r)
  BY Selection DEF ElementKnown
<1> DEFINE Placed(x, s, t) == /\ Within(x.at, Pos(N(s)), Pos(N(t)))
                              /\ MapsTo(x.local, x.at)
<1>2. /\ Unlike(r, r+1) => SideCut(r)
      /\ Unlike(r+1, r+2) => SideCut(r+1)
      /\ Unlike(r+2, r+3) => SideCut(r+2)
      /\ Unlike(r+3, r) => SideCut(r+3)
  BY Corner4 DEF ElementKnown
<1>3. /\ SideCut(r) => Placed(CutNode(r), r, r+1) /\ Placed(LevelNode(r), r+2, r+3)
      /\ SideCut(r+1) => Placed(CutNode(r+1), r+1, r+2)
      /\ SideCut(r+2) => Placed(CutNode(r+2), r+2, r+3)
      /\ SideCut(r+3) => Placed(CutNode(r+3), r+3, r)
  <2>1. xi \in [Changing(phi) -> 1 .. (Cells - 1)]
    BY DEF ElementKnown
  <2>2. /\ r \in 0 .. 6 /\ r + 1 \in 0 .. 6 /\ r + 2 \in 0 .. 6 /\ r + 3 \in 0 .. 6
        /\ (r + 1) + 1 = r + 2 /\ (r + 2) + 1 = r + 3
    BY DEF Corners
  <2>3. N((r + 3) + 1) = N(r)
    <3>1. ((r + 3) + 1) % 4 = r % 4
      BY DEF Corners
    <3> QED BY <3>1 DEF N
  <2>4. ASSUME NEW s \in 0 .. 6, SideCut(s) PROVE Placed(CutNode(s), s, s + 1)
    BY <2>1, <2>4, CutPlaced
  <2>5. SideCut(r) => Placed(CutNode(r), r, r+1)
    BY <2>2, <2>4
  <2>6. SideCut(r+1) => Placed(CutNode(r+1), r+1, (r+1)+1)
    BY <2>2, <2>4
  <2>7. SideCut(r+2) => Placed(CutNode(r+2), r+2, (r+2)+1)
    BY <2>2, <2>4
  <2>8. SideCut(r+3) => Placed(CutNode(r+3), r+3, (r+3)+1)
    BY <2>2, <2>4
  <2>9. SideCut(r) => Placed(LevelNode(r), r+2, r+3)
    BY <2>1, LevelPlaced
  <2> QED BY <2>2, <2>3, <2>5, <2>6, <2>7, <2>8, <2>9
<1>4. Pos(M(0)) = newNodes[1].at /\ Pos(M(1)) = newNodes[2].at
      /\ Pos(M(2)) = newNodes[3].at /\ Pos(M(3)) = newNodes[4].at
  BY CornerPositions
<1>5. CASE Selected = Choice("ADJACENT_EDGES", r, 0) /\ AdjacentSigns(r)
  <2>1. /\ Pieces(Selected) = AdjacentPieces(r)
        /\ newNodes = <<CutNode(r), CutNode(r+1), LevelNode(r)>>
    BY <1>5 DEF Choice, Pieces, NewNodes
  <2>2. /\ Placed(CutNode(r), r, r+1)
        /\ Placed(CutNode(r+1), r+1, r+2)
        /\ Placed(LevelNode(r), r+2, r+3)
    BY <1>2, <1>3, <1>5 DEF AdjacentSigns
  <2>3. /\ Len(newNodes) = 3
        /\ newNodes[1] = CutNode(r) /\ newNodes[2] = CutNode(r+1) /\ newNodes[3] = LevelNode(r)
    BY <2>1
  <2>4. /\ Within(Pos(M(0)), Pos(N(r)), Pos(N(r+1)))
        /\ Within(Pos(M(1)), Pos(N(r+1)), Pos(N(r+2)))
        /\ Within(Pos(M(2)), Pos(N(r+2)), Pos(N(r+3)))
    BY <1>4, <2>2, <2>3
  <2>5. Mapped(newNodes)
    <3>1. \A i \in 1 .. Len(newNodes) : i = 1 \/ i = 2 \/ i = 3
      BY <2>3
    <3> QED BY <2>2, <2>3, <3>1 DEF Mapped
  <2>6. Divides(AdjacentPieces(r))
    BY <2>4, AdjacentDivides
  <2> QED BY <2>1, <2>5, <2>6
<1>6. CASE Selected = Choice("OPPOSITE_EDGES", r, 0) /\ OppositeEdgeSigns(r)
  <2>1. Pieces(Selected) = OppositeEdgePieces(r) /\ newNodes = <<CutNode(r), CutNode(r+2)>>
    BY <1>6 DEF Choice, Pieces, NewNodes
  <2>2. /\ Placed(CutNode(r), r, r+1)
        /\ Placed(CutNode(r+2), r+2, r+3)
    BY <1>2, <1>3, <1>6 DEF OppositeEdgeSigns
  <2>3. /\ Len(newNodes) = 2
        /\ newNodes[1] = CutNode(r) /\ newNodes[2] = CutNode(r+2)
    BY <2>1
  <2>4. /\ Within(Pos(M(0)), Pos(N(r)), Pos(N(r+1)))
        /\ Within(Pos(M(1)), Pos(N(r+2)), Pos(N(r+3)))
    BY <1>4, <2>2, <2>3
  <2>5. Mapped(newNodes)
    <3>1. \A i \in 1 .. Len(newNodes) : i = 1 \/ i = 2
      BY <2>3
    <3> QED BY <2>2, <2>3, <3>1 DEF Mapped
  <2>6. Divides(OppositeEdgePieces(r))
    BY <2>4, OppositeEdgesDivide
  <2> QED BY <2>1, <2>5, <2>6
<1>7. CASE Selected = Choice("OPPOSITE_NODES", r, 0) /\ OppositeNodeSigns(r)
  <2>1. Pieces(Selected) = OppositeNodePieces(r) /\ newNodes = << >>
    BY <1>7 DEF Choice, Pieces, NewNodes
  <2>2. Len(newNodes) = 0
    BY <2>1
  <2>3. Mapped(newNodes)
    BY <2>2 DEF Mapped
  <2>4. Divides(OppositeNodePieces(r))
    BY OppositeNodesDivide
  <2> QED BY <2>1, <2>3, <2>4
<1>8. CASE Selected = Choice("NODE_AND_EDGE", r, 1) /\ NodeAndEdgeSigns(r, 1)
  <2>1. Pieces(Selected) = NodeAndEdgePieces(r, 1) /\ newNodes = <<CutNode(r+1)>>
    BY <1>8 DEF Choice, Pieces, NewNodes
  <2>2. /\ Placed(CutNode(r+1), r+1, r+2)
    BY <1>2, <1>3, <1>8 DEF NodeAndEdgeSigns
  <2>3. /\ Len(newNodes) = 1
        /\ newNodes[1] = CutNode(r+1)
    BY <2>1
  <2>4. /\ Within(Pos(M(0)), Pos(N(r+1)), Pos(N(r+2)))
    BY <1>4, <2>2, <2>3
  <2>5. Mapped(newNodes)
    <3>1. \A i \in 1 .. Len(newNodes) : i = 1
      BY <2>3
    <3> QED BY <2>2, <2>3, <3>1 DEF Mapped
  <2>6. Divides(NodeAndEdgePieces(r, 1))
    BY <2>4, NodeAndNextEdgeDivide
  <2> QED BY <2>1, <2>5, <2>6
<1>9. CASE Selected = Choice("NODE_AND_EDGE", r, 2) /\ NodeAndEdgeSigns(r, 2)
  <2>1. Pieces(Selected) = NodeAndEdgePieces(r, 2) /\ newNodes = <<CutNode(r+2)>>
    BY <1>9 DEF Choice, Pieces, NewNodes
  <2>2. /\ Placed(CutNode(r+2), r+2, r+3)
    BY <1>2, <1>3, <1>9 DEF NodeAndEdgeSigns
  <2>3. /\ Len(newNodes) = 1
        /\ newNodes[1] = CutNode(r+2)
    BY <2>1
  <2>4. /\ Within(Pos(M(0)), Pos(N(r+2)), Pos(N(r+3)))
    BY <1>4, <2>2, <2>3
  <2>5. Mapped(newNodes)
    <3>1. \A i \in 1 .. Len(newNodes) : i = 1
      BY <2>3
    <3> QED BY <2>2, <2>3, <3>1 DEF Mapped
  <2>6. Divides(NodeAndEdgePieces(r, 2))
    BY <2>4, NodeAndFarEdgeDivide
  <2> QED BY <2>1, <2>5, <2>6
<1>10. CASE Selected = Choice("NODE_AND_TWO_EDGES", r, 1) /\ NodeAndTwoEdgeSigns(r)
  <2>1. Pieces(Selected) = NodeAndTwoEdgePieces(r) /\ newNodes = <<CutNode(r+1), CutNode(r+2)>>
    BY <1>10 DEF Choice, Pieces, NewNodes
  <2>2. /\ Placed(CutNode(r+1), r+1, r+2)
        /\ Placed(CutNode(r+2), r+2, r+3)
    BY <1>2, <1>3, <1>10 DEF NodeAndTwoEdgeSigns
  <2>3. /\ Len(newNodes) = 2
        /\ newNodes[1] = CutNode(r+1) /\ newNodes[2] = CutNode(r+2)
    BY <2>1
  <2>4. /\ Within(Pos(M(0)), Pos(N(r+1)), Pos(N(r+2)))
        /\ Within(Pos(M(1)), Pos(N(r+2)), Pos(N(r+3)))
    BY <1>4, <2>2, <2>3
  <2>5. Mapped(newNodes)
    <3>1. \A i \in 1 .. Len(newNodes) : i = 1 \/ i = 2
      BY <2>3
    <3> QED BY <2>2, <2>3, <3>1 DEF Mapped
  <2>6. Divides(NodeAndTwoEdgePieces(r))
    BY <2>4, NodeAndTwoEdgesDivide
  <2> QED BY <2>1, <2>5, <2>6
<1>11. CASE Selected = Choice("TWO_ADJACENT_EDGES", r, 0) /\ AlternatingSigns(r)
  <2>1. /\ Pieces(Selected) = TwoAdjacentPieces(r)
        /\ newNodes = <<CutNode(r), CutNode(r+1), CutNode(r+2), CutNode(r+3)>>
    BY <1>11 DEF Choice, Pieces, NewNodes
  <2>2. /\ Placed(CutNode(r), r, r+1)
        /\ Placed(CutNode(r+1), r+1, r+2)
        /\ Placed(CutNode(r+2), r+2, r+3)
        /\ Placed(CutNode(r+3), r+3, r)
    BY <1>2, <1>3, <1>11 DEF AlternatingSigns
  <2>3. /\ Len(newNodes) = 4
        /\ newNodes[1] = CutNode(r) /\ newNodes[2] = CutNode(r+1)
        /\ newNodes[3] = CutNode(r+2) /\ newNodes[4] = CutNode(r+3)
    BY <2>1
  <2>4. /\ Within(Pos(M(0)), Pos(N(r)), Pos(N(r+1)))
        /\ Within(Pos(M(1)), Pos(N(r+1)), Pos(N(r+2)))
        /\ Within(Pos(M(2)), Pos(N(r+2)), Pos(N(r+3)))
        /\ Within(Pos(M(3)), Pos(N(r+3)), Pos(N(r)))
    BY <1>4, <2>2, <2>3
  <2>5. Mapped(newNodes)
    <3>1. \A i \in 1 .. Len(newNodes) : i = 1 \/ i = 2 \/ i = 3 \/ i = 4
      BY <2>3
    <3> QED BY <2>2, <2>3, <3>1 DEF Mapped
  <2>6. Divides(TwoAdjacentPieces(r))
    BY <2>4, TwoAdjacentEdgesDivide
  <2> QED BY <2>1, <2>5, <2>6
<1> QED BY <1>1, <1>5, <1>6, <1>7, <1>8, <1>9, <1>10, <1>11 DEF SelectionAt

\* An element taken whole is its only sub-element.
LEMMA WholeTiles ==
  ASSUME NEW side
  PROVE  /\ Tiles({Whole(side)})
         /\ Area(Whole(side)) = Area(Whole(NoSide)) /\ Area(Whole(side)) \in Int
<1> DEFINE a == N(0)  b == N(1)  c == N(2)  d == N(3)  w == Whole(side)
<1>1. /\ 0 \in Corners
      /\ N(0) = a /\ N(0+1) = b /\ N(0+2) = c /\ N(0+3) = d
  BY DEF Corners
<1>2. EdgeOf(a, b) /\ EdgeOf(b, c) /\ EdgeOf(c, d) /\ EdgeOf(d, a)
  BY <1>1, Edges
<1>3. Pos(a) \in Points /\ Pos(b) \in Points /\ Pos(c) \in Points /\ Pos(d) \in Points
  BY <1>1, CornersConvex DEF Quadrilateral
<1>4. Sides(w) = {<<a, b>>, <<b, c>>, <<c, d>>, <<d, a>>}
  BY QuadShape DEF Whole
<1>5. \A x : Area(Whole(x)) = Cross(Pos(a), Pos(b)) + Cross(Pos(b), Pos(c))
                              + Cross(Pos(c), Pos(d)) + Cross(Pos(d), Pos(a))
  BY <1>1, WholeShape
<1>6. Convex(w)
  BY <1>1, WholeShape
<1> HIDE DEF a, b, c, d, w
<1>7. /\ Cross(Pos(a), Pos(b)) \in Int /\ Cross(Pos(b), Pos(c)) \in Int
      /\ Cross(Pos(c), Pos(d)) \in Int /\ Cross(Pos(d), Pos(a)) \in Int
  BY <1>3, CrossTypes
<1>8. /\ OnOutline(<<a, b>>) /\ OnOutline(<<b, c>>) /\ OnOutline(<<c, d>>) /\ OnOutline(<<d, a>>)
  BY <1>2, EdgeOnOutline DEF OnEdge
<1>9. \A s : s \in SidesOf({w}) <=> s \in Sides(w)
  BY DEF SidesOf
<1>10. \A s \in SidesOf({w}) : OnOutline(s)
  BY <1>4, <1>8, <1>9
<1>11. Tiles({w})
  BY <1>6, <1>10 DEF Tiles
<1>12. Area(w) = Area(Whole(NoSide)) /\ Area(w) \in Int
  BY <1>5, <1>7 DEF w
<1> QED BY <1>11, <1>12 DEF w

\* What Partition says of an initialized object.
PartitionAt(P, Q) ==
    /\ Mapped(newNodes)
    /\ Tiles(PiecesIn(P) \cup PiecesIn(Q))
    /\ AreaOf(P) + AreaOf(Q) = Area(Whole(NoSide))
    /\ newElems <= MaxElems

LEMMA UndividedPartition ==
  ASSUME NEW m, NEW isPositive \in BOOLEAN, NEW side, Undivided(m, isPositive, side)
  PROVE  PartitionAt(positive, negative)
<1>1. PiecesIn(positive) \cup PiecesIn(negative) = {Whole(side)}
  BY UndividedPieces
<1>2. Area(Whole(side)) \in Int
  BY WholeTiles
<1>3. AreaOf(<< >>) = 0 /\ AreaOf(<<Whole(side)>>) = Area(Whole(side))
  BY <1>2, AreaOfLists
<1>4. AreaOf(positive) + AreaOf(negative) = Area(Whole(side))
  <2>1. \/ positive = <<Whole(side)>> /\ negative = << >>
        \/ positive = << >> /\ negative = <<Whole(side)>>
    BY DEF Undivided
  <2> QED BY <2>1, <1>2, <1>3
<1>5. AreaOf(positive) + AreaOf(negative) = Area(Whole(NoSide))
  BY <1>4, WholeTiles
<1>6. Mapped(newNodes)
  <2>1. Len(newNodes) = 0
    BY DEF Undivided
  <2> QED BY <2>1 DEF Mapped
<1>7. newElems <= MaxElems
  BY RoomAssumption DEF Undivided
<1>8. Tiles(PiecesIn(positive) \cup PiecesIn(negative))
  BY <1>1, WholeTiles
<1> QED BY <1>5, <1>6, <1>7, <1>8 DEF PartitionAt

LEMMA DividedPartition ==
  ASSUME ElementKnown, WasDivided
  PROVE  PartitionAt(positive, negative)
<1> DEFINE F == Pieces(Selected).first
           G == Pieces(Selected).second
<1>1. Divides(Pieces(Selected)) /\ Mapped(newNodes)
  BY SelectedDivides DEF WasDivided
<1>2. (positive = F /\ negative = G) \/ (positive = G /\ negative = F)
  BY DEF WasDivided
<1>3. newElems = Len(F) + Len(G)
  BY DEF WasDivided
<1>4. /\ Tiles(PiecesIn(F) \cup PiecesIn(G))
      /\ AreaOf(F) \in Int /\ AreaOf(G) \in Int
      /\ AreaOf(F) + AreaOf(G) = Area(Whole(NoSide))
      /\ Len(F) + Len(G) <= MaxElems
  BY <1>1 DEF Divides
<1> HIDE DEF F, G
<1>5. AreaOf(positive) + AreaOf(negative) = Area(Whole(NoSide))
  BY <1>2, <1>4
<1>6. PiecesIn(positive) \cup PiecesIn(negative) = PiecesIn(F) \cup PiecesIn(G)
  BY <1>2
<1>7. newElems <= MaxElems
  BY <1>3, <1>4
<1>8. Tiles(PiecesIn(positive) \cup PiecesIn(negative))
  BY <1>4, <1>6
<1> QED BY <1>1, <1>5, <1>7, <1>8 DEF PartitionAt

\* The sub-elements of an initialized object divide the element: they are
\* convex, do not overlap and fill it, their number has room among the ids, and
\* the new nodes are where their local coordinates say; init gives up only on
\* nine-node elements.  For every convex quadrilateral, every place of the cuts
\* and every value of the level set.
THEOREM ElementIsPartitioned == Spec => []Partition
<1>1. Inv => Partition
  <2> SUFFICES ASSUME Inv PROVE Partition
    OBVIOUS
  <2>1. ASSUME stage = "aborted" PROVE kind = "QUAD9" /\ inner # {}
    <3>1. ElementKnown /\ Divided /\ Selected.mode = "NO_INTERSECTION"
      BY <2>1 DEF Inv
    <3>2. inner # {}
      BY <3>1, QuadHandled DEF ElementKnown
    <3> QED BY <3>1, <3>2 DEF ElementKnown
  <2>2. ASSUME stage = "initialized" PROVE PartitionAt(positive, negative)
    <3>1. ElementKnown /\ Outcome
      BY <2>2 DEF Inv
    <3>2. CASE WasUncut
      <4> DEFINE b == MinValue > Tol
      <4>1. Undivided("NO_INTERSECTION", b, NoEntry) /\ b \in BOOLEAN
        BY <3>2 DEF WasUncut
      <4> HIDE DEF b
      <4> QED BY <4>1, UndividedPartition
    <3>3. CASE WasTouched
      <4> DEFINE b == MaxValue > Tol
      <4>1. Undivided("THROUGH_NODE", b, NoEntry) /\ b \in BOOLEAN
        BY <3>3 DEF WasTouched
      <4> HIDE DEF b
      <4> QED BY <4>1, UndividedPartition
    <3>4. CASE WasColinear
      <4> DEFINE b == MaxValue > Tol  k == First(ColinearSides)
      <4>1. Undivided("COLINEAR_EDGE", b, k) /\ b \in BOOLEAN
        BY <3>4 DEF WasColinear
      <4> HIDE DEF b, k
      <4> QED BY <4>1, UndividedPartition
    <3>5. CASE WasDivided
      BY <3>1, <3>5, DividedPartition
    <3> QED BY <3>1, <3>2, <3>3, <3>4, <3>5 DEF Outcome
  <2>3. SubElems = PiecesIn(positive) \cup PiecesIn(negative)
        /\ AllSides = SidesOf(SubElems)
    BY DEF SubElems, PiecesIn, AllSides, SidesOf
  <2>4. ASSUME PartitionAt(positive, negative)
        PROVE  /\ \A i \in 1..Len(newNodes) : MapsTo(newNodes[i].local, newNodes[i].at)
               /\ \A e \in SubElems : Convex(e)
               /\ AreaOf(positive) + AreaOf(negative) = Area(Whole(NoSide))
               /\ \A s \in AllSides : OnOutline(s) \/ Reversed(s) \in AllSides
               /\ \A e, f \in SubElems : e # f => Sides(e) \cap Sides(f) = {}
               /\ newElems <= MaxElems
    BY <2>3, <2>4 DEF PartitionAt, Mapped, Tiles
  <2> QED BY <2>1, <2>2, <2>4 DEF Partition
<1> QED BY <1>1, TypeCorrect, PTL
-----------------------------------------------------------------------------
(* Induction over the subsets of a finite set, with the set of the subsets  *)
(* that have a property in place of the property.                           *)

\* A set that holds a subset of S whenever it holds all smaller ones holds all.
LEMMA SubsetInduction ==
  ASSUME NEW S, IsFiniteSet(S), NEW C,
         \A T \in SUBSET S : (\A Q \in SUBSET T : Q # T => Q \in C) => T \in C
  PROVE  \A T \in SUBSET S : T \in C
<1> DEFINE Bad == {T \in SUBSET S : T \notin C}
<1>1. SUFFICES Bad = {}
  OBVIOUS
<1>2. SUFFICES ASSUME Bad # {} PROVE FALSE
  OBVIOUS
<1>3. Bad \subseteq FiniteSubsetsOf(S)
  BY FS_FiniteSubsetsOfFinite
<1> HIDE DEF Bad
<1>4. PICK T \in Bad : \A Q \in Bad : ~ (<<Q, T>> \in StrictSubsetOrdering(S))
  BY <1>2, <1>3, FS_StrictSubsetOrderingWellFounded, WFMin
<1>5. \A Q \in SUBSET T : Q # T => Q \in C
  <2>1. TAKE Q \in SUBSET T
  <2>2. HAVE Q # T
  <2>3. <<Q, T>> \in StrictSubsetOrdering(S)
    BY <2>2 DEF StrictSubsetOrdering, Bad
  <2> QED
    BY <1>4, <2>3 DEF Bad
<1> QED
  BY <1>5 DEF Bad

\* A set that holds the empty set, and with a subset of S every one that has one
\* element more, holds S.
LEMMA SetInduction ==
  ASSUME NEW S, IsFiniteSet(S), NEW C, {} \in C,
         \A T \in SUBSET S : \A i \in S \ T : T \in C => T \cup {i} \in C
  PROVE  S \in C
<1>1. ASSUME NEW T \in SUBSET S, \A Q \in SUBSET T : Q # T => Q \in C
      PROVE  T \in C
  <2>1. CASE T = {}
    BY <2>1
  <2>2. CASE T # {}
    <3>1. PICK i \in T : TRUE
      BY <2>2
    <3>2. /\ T \ {i} \in SUBSET T /\ T \ {i} # T
          /\ T \ {i} \in SUBSET S /\ i \in S \ (T \ {i})
          /\ (T \ {i}) \cup {i} = T
      BY <3>1
    <3> QED
      BY <1>1, <3>2
  <2> QED
    BY <2>1, <2>2
<1> QED
  BY <1>1, SubsetInduction
-----------------------------------------------------------------------------
(* Sums over finite sets.                                                   *)

\* The sum of g over S.
Total(g, S) == MapThenSumSet(LAMBDA i : g[i], S)

\* h gives the sum of g over every subset of S.
Additive(h, g, S) ==
  /\ h \in [SUBSET S -> Int]
  /\ h[{}] = 0
  /\ \A T \in SUBSET S : \A i \in S \ T : h[T \cup {i}] = g[i] + h[T]

\* Every function to the integers has its sums.
LEMMA AdditiveExists ==
  ASSUME NEW S, IsFiniteSet(S), NEW g, \A i \in S : g[i] \in Int
  PROVE  \E h : Additive(h, g, S)
<1> DEFINE C == {T \in SUBSET S : \E h : Additive(h, g, T)}
<1>1. {} \in C
  <2> DEFINE h == [T \in {{}} |-> 0]
  <2>1. Additive(h, g, {})
    BY DEF Additive
  <2> QED
    BY <2>1
<1>2. ASSUME NEW T \in SUBSET S, NEW i \in S \ T, T \in C
      PROVE  T \cup {i} \in C
  <2>1. PICK h : Additive(h, g, T)
    BY <1>2
  <2> DEFINE R == T \cup {i}
             n == [Q \in SUBSET R |-> IF i \in Q THEN g[i] + h[Q \ {i}] ELSE h[Q]]
  <2>2. ASSUME NEW Q \in SUBSET R
        PROVE  /\ i \notin Q => Q \in SUBSET T
               /\ Q \ {i} \in SUBSET T
    OBVIOUS
  <2>3. n \in [SUBSET R -> Int]
    BY <2>1, <2>2 DEF Additive
  <2>4. n[{}] = 0
    BY <2>1 DEF Additive
  <2>5. ASSUME NEW Q \in SUBSET R, NEW j \in R \ Q
        PROVE  n[Q \cup {j}] = g[j] + n[Q]
    <3>1. CASE j = i
      <4>1. i \notin Q /\ (Q \cup {j}) \ {i} = Q /\ Q \in SUBSET T /\ i \in Q \cup {j}
        BY <3>1, <2>2, <2>5
      <4> QED
        BY <4>1, <3>1
    <3>2. CASE j # i /\ i \in Q
      <4>1. /\ (Q \cup {j}) \ {i} = (Q \ {i}) \cup {j} /\ i \in Q \cup {j}
            /\ Q \ {i} \in SUBSET T /\ j \in T \ (Q \ {i}) /\ Q \cup {j} \in SUBSET R
        BY <3>2, <2>2, <2>5
      <4>2. h[(Q \ {i}) \cup {j}] = g[j] + h[Q \ {i}]
        BY <4>1, <2>1 DEF Additive
      <4>3. g[i] \in Int /\ g[j] \in Int /\ h[Q \ {i}] \in Int
        BY <4>1, <2>1 DEF Additive
      <4>4. n[Q \cup {j}] = g[i] + (g[j] + h[Q \ {i}]) /\ n[Q] = g[i] + h[Q \ {i}]
        BY <4>1, <4>2, <3>2
      <4> HIDE DEF n
      <4> QED
        BY <4>3, <4>4
    <3>3. CASE j # i /\ i \notin Q
      <4>1. /\ i \notin Q \cup {j} /\ Q \in SUBSET T /\ j \in T \ Q
            /\ Q \cup {j} \in SUBSET R
        BY <3>3, <2>2, <2>5
      <4>2. h[Q \cup {j}] = g[j] + h[Q]
        BY <4>1, <2>1 DEF Additive
      <4> QED
        BY <4>1, <4>2, <3>3
    <3> QED
      BY <3>1, <3>2, <3>3
  <2>6. Additive(n, g, R)
    <3> HIDE DEF n, R
    <3> QED
      BY <2>3, <2>4, <2>5 DEF Additive
  <2> QED
    BY <2>6
<1>3. S \in C
  <2> HIDE DEF C
  <2> QED
    BY <1>1, <1>2, SetInduction
<1> QED
  BY <1>3

\* The sum of a set is the value of its additive function: the fold finds it,
\* whatever order it takes the elements in.
LEMMA TotalIsAdditive ==
  ASSUME NEW S, IsFiniteSet(S), NEW g, \A i \in S : g[i] \in Int,
         NEW h, Additive(h, g, S)
  PROVE  Total(g, S) = h[S]
<1> DEFINE Some(T) == CHOOSE i \in T : TRUE
           Unfolded(z) == [T \in SUBSET S |->
                             IF T = {} THEN 0 ELSE g[Some(T)] + z[T \ {Some(T)}]]
           iter == CHOOSE z : z = Unfolded(z)
<1>1. Total(g, S) = iter[S]
  BY DEF Total, MapThenSumSet, MapThenFoldSet
<1>2. \A T \in SUBSET S : T # {} =>
         /\ Some(T) \in T /\ Some(T) \in S /\ g[Some(T)] \in Int
         /\ T \ {Some(T)} \in SUBSET T /\ T \ {Some(T)} # T
         /\ T \ {Some(T)} \in SUBSET S
         /\ h[T] = g[Some(T)] + h[T \ {Some(T)}]
  <2> SUFFICES ASSUME NEW T \in SUBSET S, T # {}
               PROVE  /\ Some(T) \in T /\ Some(T) \in S /\ g[Some(T)] \in Int
                      /\ T \ {Some(T)} \in SUBSET T /\ T \ {Some(T)} # T
                      /\ T \ {Some(T)} \in SUBSET S
                      /\ h[T] = g[Some(T)] + h[T \ {Some(T)}]
    OBVIOUS
  <2>1. Some(T) \in T
    OBVIOUS
  <2> HIDE DEF Some
  <2>2. (T \ {Some(T)}) \cup {Some(T)} = T
    BY <2>1
  <2> QED
    BY <2>1, <2>2 DEF Additive
<1> HIDE DEF Some
<1>3. h = Unfolded(h)
  <2>1. ASSUME NEW T \in SUBSET S PROVE h[T] = Unfolded(h)[T]
    BY <1>2 DEF Additive
  <2>2. h \in [SUBSET S -> Int]
    BY DEF Additive
  <2> QED
    BY <2>1, <2>2
<1> HIDE DEF Unfolded
<1>4. iter = Unfolded(iter)
  BY <1>3
<1> HIDE DEF iter
<1>5. \A T \in SUBSET S : T \in {Q \in SUBSET S : iter[Q] = h[Q]}
  <2> DEFINE C == {Q \in SUBSET S : iter[Q] = h[Q]}
  <2>1. ASSUME NEW T \in SUBSET S, \A Q \in SUBSET T : Q # T => Q \in C
        PROVE  T \in C
    <3>1. iter[T] = IF T = {} THEN 0 ELSE g[Some(T)] + iter[T \ {Some(T)}]
      BY <1>4 DEF Unfolded
    <3>2. CASE T = {}
      BY <3>1, <3>2 DEF Additive
    <3>3. CASE T # {}
      <4>1. iter[T \ {Some(T)}] = h[T \ {Some(T)}]
        BY <1>2, <2>1, <3>3
      <4> QED
        BY <3>1, <3>3, <4>1, <1>2
    <3> QED
      BY <3>2, <3>3
  <2> HIDE DEF C
  <2>2. \A T \in SUBSET S : T \in C
    BY <2>1, SubsetInduction
  <2> QED
    BY <2>2 DEF C
<1> QED
  BY <1>1, <1>5

\* Facts about a sum that its additive function gives.
LEMMA TotalFacts ==
  ASSUME NEW g
  PROVE  /\ Total(g, {}) = 0
         /\ \A S : IsFiniteSet(S) /\ (\A i \in S : g[i] \in Int) => Total(g, S) \in Int
<1>1. Total(g, {}) = 0
  <2>1. IsFiniteSet({}) /\ \A i \in {} : g[i] \in Int
    BY FS_EmptySet
  <2>2. PICK h : Additive(h, g, {})
    BY <2>1, AdditiveExists
  <2> QED
    BY <2>1, <2>2, TotalIsAdditive DEF Additive
<1>2. ASSUME NEW S, IsFiniteSet(S), \A i \in S : g[i] \in Int
      PROVE  Total(g, S) \in Int
  <2>1. PICK h : Additive(h, g, S)
    BY <1>2, AdditiveExists
  <2>2. Total(g, S) = h[S]
    BY <1>2, <2>1, TotalIsAdditive
  <2>3. h \in [SUBSET S -> Int] /\ S \in SUBSET S
    BY <2>1 DEF Additive
  <2>4. h[S] \in Int
    BY <2>3
  <2> QED
    BY <2>2, <2>4
<1> QED
  BY <1>1, <1>2

\* A set with one element more.
LEMMA TotalAdd ==
  ASSUME NEW g, NEW S, IsFiniteSet(S), NEW i, i \notin S,
         \A j \in S \cup {i} : g[j] \in Int
  PROVE  Total(g, S \cup {i}) = g[i] + Total(g, S)
<1> DEFINE R == S \cup {i}
<1>1. IsFiniteSet(R)
  BY FS_AddElement
<1>2. PICK h : Additive(h, g, R)
  BY <1>1, AdditiveExists
<1>3. Total(g, R) = h[R]
  BY <1>1, <1>2, TotalIsAdditive
<1> DEFINE n == [T \in SUBSET S |-> h[T]]
<1>4. Additive(n, g, S)
  <2>1. n \in [SUBSET S -> Int] /\ n[{}] = 0
    BY <1>2 DEF Additive
  <2>2. ASSUME NEW T \in SUBSET S, NEW j \in S \ T
        PROVE  n[T \cup {j}] = g[j] + n[T]
    <3>1. T \in SUBSET R /\ j \in R \ T /\ T \cup {j} \in SUBSET S
      OBVIOUS
    <3> QED
      BY <3>1, <1>2 DEF Additive
  <2> QED
    BY <2>1, <2>2 DEF Additive
<1>5. Total(g, S) = n[S]
  BY <1>4, TotalIsAdditive
<1>6. h[S \cup {i}] = g[i] + h[S]
  BY <1>2 DEF Additive
<1> QED
  BY <1>3, <1>5, <1>6
-----------------------------------------------------------------------------
(* Congruence modulo Prime.                                                 *)

\* a and b differ by a multiple of Prime.
Cong(a, b) == \E q \in Int : a = b + q * Prime

\* What the remainders need of Prime.
LEMMA PrimeFacts == Prime \in Nat /\ Prime >= 2
  BY SizesAssumption

\* Congruence is an equivalence that sums and products keep.
LEMMA CongFacts ==
  ASSUME NEW a \in Int, NEW b \in Int
  PROVE  /\ Cong(a, a)
         /\ Cong(a, b) => Cong(b, a)
         /\ \A c \in Int : Cong(a, b) /\ Cong(b, c) => Cong(a, c)
         /\ \A c \in Int : Cong(a, b) => Cong(c * a, c * b)
         /\ \A c, d \in Int : Cong(a, b) /\ Cong(c, d) => Cong(a + c, b + d)
<1> USE PrimeFacts
<1>1. Cong(a, a)
  <2>1. a = a + 0 * Prime
    OBVIOUS
  <2> QED
    BY <2>1 DEF Cong
<1>2. ASSUME Cong(a, b) PROVE Cong(b, a)
  <2>1. PICK q \in Int : a = b + q * Prime
    BY <1>2 DEF Cong
  <2>2. b = a + (-q) * Prime
    BY <2>1
  <2> QED
    BY <2>2 DEF Cong
<1>3. ASSUME NEW c \in Int, Cong(a, b), Cong(b, c) PROVE Cong(a, c)
  <2>1. PICK q \in Int : a = b + q * Prime
    BY <1>3 DEF Cong
  <2>2. PICK r \in Int : b = c + r * Prime
    BY <1>3 DEF Cong
  <2>3. a = c + (q + r) * Prime
    BY <2>1, <2>2
  <2> QED
    BY <2>3 DEF Cong
<1>4. ASSUME NEW c \in Int, Cong(a, b) PROVE Cong(c * a, c * b)
  <2>1. PICK q \in Int : a = b + q * Prime
    BY <1>4 DEF Cong
  <2>2. c * a = c * b + (c * q) * Prime
    BY <2>1
  <2>3. c * q \in Int
    OBVIOUS
  <2> QED
    BY <2>2, <2>3 DEF Cong
<1>5. ASSUME NEW c \in Int, NEW d \in Int, Cong(a, b), Cong(c, d)
      PROVE  Cong(a + c, b + d)
  <2>1. PICK q \in Int : a = b + q * Prime
    BY <1>5 DEF Cong
  <2>2. PICK r \in Int : c = d + r * Prime
    BY <1>5 DEF Cong
  <2>3. a + c = b + d + (q + r) * Prime
    BY <2>1, <2>2
  <2> QED
    BY <2>3 DEF Cong
<1> QED
  BY <1>1, <1>2, <1>3, <1>4, <1>5

\* The remainder is congruent, and in the field.
LEMMA ModFacts ==
  ASSUME NEW a \in Int
  PROVE  a % Prime \in Field /\ a % Prime \in Int /\ Cong(a % Prime, a) /\ Cong(a, a % Prime)
<1> USE PrimeFacts
<1>1. a % Prime \in Field /\ a % Prime \in Int
  BY DEF Field
<1>2. a = (a % Prime) + (a \div Prime) * Prime /\ a \div Prime \in Int
  OBVIOUS
<1>3. Cong(a, a % Prime)
  BY <1>2 DEF Cong
<1> QED
  BY <1>1, <1>3, CongFacts

\* Congruent members of the field are equal.
LEMMA FieldUnique ==
  ASSUME NEW a \in Field, NEW b \in Field, Cong(a, b)
  PROVE  a = b
<1> USE PrimeFacts
<1>1. PICK q \in Int : a = b + q * Prime
  BY DEF Cong
<1>2. a \in Int /\ b \in Int /\ 0 <= a /\ a < Prime /\ 0 <= b /\ b < Prime
  BY DEF Field
<1>3. ASSUME q >= 1 PROVE FALSE
  <2>1. q * Prime >= Prime
    BY <1>3
  <2> QED
    BY <2>1, <1>1, <1>2
<1>4. ASSUME q <= -1 PROVE FALSE
  <2>1. q * Prime <= -Prime
    BY <1>4
  <2> QED
    BY <2>1, <1>1, <1>2
<1>5. q = 0
  BY <1>3, <1>4
<1> QED
  BY <1>1, <1>2, <1>5

\* Equal remainders are congruent numbers.
LEMMA ModEqual ==
  ASSUME NEW a \in Int, NEW b \in Int
  PROVE  (a % Prime = b % Prime) <=> Cong(a, b)
<1>1. ASSUME a % Prime = b % Prime PROVE Cong(a, b)
  BY <1>1, ModFacts, CongFacts
<1>2. ASSUME Cong(a, b) PROVE a % Prime = b % Prime
  <2>1. Cong(a % Prime, b)
    BY <1>2, ModFacts, CongFacts
  <2>2. Cong(a % Prime, b % Prime)
    BY <2>1, ModFacts, CongFacts
  <2> QED
    BY <2>2, ModFacts, FieldUnique
<1> QED
  BY <1>1, <1>2
-----------------------------------------------------------------------------
(* Sums modulo Prime.                                                       *)

\* A sum is linear in what is summed.
LEMMA TotalCong ==
  ASSUME NEW S, IsFiniteSet(S), NEW c \in Int,
         NEW f, \A i \in S : f[i] \in Int,
         NEW g, \A i \in S : g[i] \in Int,
         NEW h, \A i \in S : h[i] \in Int,
         \A i \in S : Cong(h[i], f[i] + c * g[i])
  PROVE  Cong(Total(h, S), Total(f, S) + c * Total(g, S))
<1> DEFINE C == {T \in SUBSET S : Cong(Total(h, T), Total(f, T) + c * Total(g, T))}
<1>1. {} \in C
  BY TotalFacts, CongFacts
<1>2. ASSUME NEW T \in SUBSET S, NEW i \in S \ T, T \in C
      PROVE  T \cup {i} \in C
  <2>1. IsFiniteSet(T) /\ i \notin T /\ T \cup {i} \in SUBSET S
    BY FS_Subset
  <2>2. /\ Total(f, T \cup {i}) = f[i] + Total(f, T)
        /\ Total(g, T \cup {i}) = g[i] + Total(g, T)
        /\ Total(h, T \cup {i}) = h[i] + Total(h, T)
    BY <2>1, TotalAdd
  <2>3. Total(f, T) \in Int /\ Total(g, T) \in Int /\ Total(h, T) \in Int
    BY <2>1, TotalFacts
  <2>4. f[i] \in Int /\ g[i] \in Int /\ h[i] \in Int
    OBVIOUS
  <2>5. Cong(h[i] + Total(h, T), (f[i] + c * g[i]) + (Total(f, T) + c * Total(g, T)))
    <3> DEFINE u == f[i] + c * g[i]
               v == Total(f, T) + c * Total(g, T)
    <3>1. Cong(h[i], u) /\ Cong(Total(h, T), v) /\ u \in Int /\ v \in Int
      BY <1>2, <2>3, <2>4
    <3> HIDE DEF u, v
    <3>2. Cong(h[i] + Total(h, T), u + v)
      BY <3>1, <2>3, <2>4, CongFacts
    <3> QED
      BY <3>2 DEF u, v
  <2>6. (f[i] + c * g[i]) + (Total(f, T) + c * Total(g, T))
           = (f[i] + Total(f, T)) + c * (g[i] + Total(g, T))
    BY <2>3, <2>4
  <2> QED
    BY <2>1, <2>2, <2>5, <2>6
<1>3. S \in C
  <2> HIDE DEF C
  <2> QED
    BY <1>1, <1>2, SetInduction
<1> QED
  BY <1>3

\* Congruent summands have congruent sums.
LEMMA TotalSame ==
  ASSUME NEW S, IsFiniteSet(S),
         NEW g, \A i \in S : g[i] \in Int,
         NEW h, \A i \in S : h[i] \in Int,
         \A i \in S : Cong(h[i], g[i])
  PROVE  Cong(Total(h, S), Total(g, S))
<1>1. \A i \in S : g[i] + 0 * g[i] = g[i]
  OBVIOUS
<1>2. \A i \in S : Cong(h[i], g[i] + 0 * g[i])
  BY <1>1
<1>3. Cong(Total(h, S), Total(g, S) + 0 * Total(g, S))
  BY <1>2, TotalCong, 0 \in Int
<1>4. Total(g, S) \in Int
  BY TotalFacts
<1>5. Total(g, S) + 0 * Total(g, S) = Total(g, S)
  BY <1>4
<1> QED
  BY <1>3, <1>5

\* What is zero outside a subset can be summed over the subset.
LEMMA TotalOver ==
  ASSUME NEW S, IsFiniteSet(S), NEW T \in SUBSET S,
         NEW g, \A i \in S : g[i] \in Int,
         \A i \in S \ T : Cong(g[i], 0)
  PROVE  Cong(Total(g, S), Total(g, T))
<1> DEFINE R == S \ T
           C == {Q \in SUBSET R : Cong(Total(g, T \cup Q), Total(g, T))}
<1>1. IsFiniteSet(R) /\ IsFiniteSet(T)
  BY FS_Subset
<1>2. {} \in C
  <2>1. Total(g, T) \in Int /\ T \cup {} = T
    BY <1>1, TotalFacts
  <2> QED
    BY <2>1, CongFacts
<1>3. ASSUME NEW Q \in SUBSET R, NEW i \in R \ Q, Q \in C
      PROVE  Q \cup {i} \in C
  <2>1. /\ T \cup Q \in SUBSET S /\ i \notin T \cup Q /\ i \in S \ T
        /\ T \cup (Q \cup {i}) = (T \cup Q) \cup {i}
        /\ Q \cup {i} \in SUBSET R
    OBVIOUS
  <2>2. IsFiniteSet(T \cup Q)
    BY <2>1, FS_Subset
  <2>3. Total(g, (T \cup Q) \cup {i}) = g[i] + Total(g, T \cup Q)
    BY <2>1, <2>2, TotalAdd
  <2>4. Total(g, T \cup Q) \in Int /\ Total(g, T) \in Int /\ g[i] \in Int
    BY <2>1, <2>2, <1>1, TotalFacts
  <2>5. Cong(g[i] + Total(g, T \cup Q), 0 + Total(g, T))
    <3>1. Cong(g[i], 0) /\ Cong(Total(g, T \cup Q), Total(g, T)) /\ 0 \in Int
      BY <2>1, <1>3
    <3> QED
      BY <2>4, <3>1, CongFacts
  <2>6. 0 + Total(g, T) = Total(g, T)
    BY <2>4
  <2> QED
    BY <2>1, <2>3, <2>5, <2>6
<1>4. R \in C
  <2> HIDE DEF C, R
  <2> QED
    BY <1>1, <1>2, <1>3, SetInduction
<1> QED
  <2>1. T \cup R = S
    OBVIOUS
  <2> QED
    BY <1>4, <2>1

\* A sum over two parts of a set.
LEMMA TotalSplit ==
  ASSUME NEW S, IsFiniteSet(S), NEW T \in SUBSET S,
         NEW g, \A i \in S : g[i] \in Int
  PROVE  Total(g, S) = Total(g, T) + Total(g, S \ T)
<1> DEFINE R == S \ T
           C == {Q \in SUBSET R : Total(g, T \cup Q) = Total(g, T) + Total(g, Q)}
<1>1. IsFiniteSet(R) /\ IsFiniteSet(T)
  BY FS_Subset
<1>2. {} \in C
  <2>1. Total(g, T) \in Int /\ T \cup {} = T /\ Total(g, {}) = 0
    BY <1>1, TotalFacts
  <2> QED
    BY <2>1
<1>3. ASSUME NEW Q \in SUBSET R, NEW i \in R \ Q, Q \in C
      PROVE  Q \cup {i} \in C
  <2>1. /\ T \cup Q \in SUBSET S /\ i \notin T \cup Q /\ i \in S /\ i \notin Q
        /\ T \cup (Q \cup {i}) = (T \cup Q) \cup {i}
        /\ Q \cup {i} \in SUBSET R /\ Q \in SUBSET S
    OBVIOUS
  <2>2. IsFiniteSet(T \cup Q) /\ IsFiniteSet(Q)
    BY <2>1, FS_Subset
  <2>3. Total(g, (T \cup Q) \cup {i}) = g[i] + Total(g, T \cup Q)
    BY <2>1, <2>2, TotalAdd
  <2>4. Total(g, Q \cup {i}) = g[i] + Total(g, Q)
    BY <2>1, <2>2, TotalAdd
  <2>5. Total(g, Q) \in Int /\ Total(g, T) \in Int /\ g[i] \in Int
    BY <2>1, <2>2, <1>1, TotalFacts
  <2>6. Total(g, T \cup Q) = Total(g, T) + Total(g, Q)
    BY <1>3
  <2>7. Total(g, (T \cup Q) \cup {i}) = Total(g, T) + Total(g, Q \cup {i})
    BY <2>3, <2>4, <2>5, <2>6
  <2>8. Total(g, T \cup (Q \cup {i})) = Total(g, T) + Total(g, Q \cup {i})
    <3>1. T \cup (Q \cup {i}) = (T \cup Q) \cup {i}
      BY <2>1
    <3> QED
      BY ONLY <2>7, <3>1
  <2> QED
    BY <2>1, <2>8
<1>4. R \in C
  <2> HIDE DEF C, R
  <2> QED
    BY <1>1, <1>2, <1>3, SetInduction
<1> QED
  <2>1. T \cup R = S
    OBVIOUS
  <2> QED
    BY <1>4, <2>1

\* The order of two sums can be exchanged.
LEMMA TotalExchange ==
  ASSUME NEW S, IsFiniteSet(S), NEW T, IsFiniteSet(T),
         NEW g, \A i \in S : \A j \in T : g[i][j] \in Int
  PROVE  Cong(Total([i \in S |-> Total([j \in T |-> g[i][j]], T)], S),
              Total([j \in T |-> Total([i \in S |-> g[i][j]], S)], T))
<1> DEFINE row == [i \in S |-> Total([j \in T |-> g[i][j]], T)]
           col(R) == [j \in T |-> Total([i \in S |-> g[i][j]], R)]
           C == {R \in SUBSET S : Cong(Total(row, R), Total(col(R), T))}
<1>1. \A i \in S : row[i] \in Int
  <2> SUFFICES ASSUME NEW i \in S PROVE row[i] \in Int
    OBVIOUS
  <2> DEFINE n == [j \in T |-> g[i][j]]
  <2>1. \A j \in T : n[j] \in Int
    OBVIOUS
  <2> HIDE DEF n
  <2>2. Total(n, T) \in Int
    BY <2>1, TotalFacts
  <2> QED
    BY <2>2 DEF n
<1>2. \A R \in SUBSET S : \A j \in T : col(R)[j] \in Int
  <2> SUFFICES ASSUME NEW R \in SUBSET S, NEW j \in T PROVE col(R)[j] \in Int
    OBVIOUS
  <2> DEFINE n == [i \in S |-> g[i][j]]
  <2>1. (\A i \in R : n[i] \in Int) /\ IsFiniteSet(R)
    BY FS_Subset
  <2> HIDE DEF n
  <2>2. Total(n, R) \in Int
    BY <2>1, TotalFacts
  <2> QED
    BY <2>2 DEF n
<1>3. {} \in C
  <2>1. Total(row, {}) = 0
    BY TotalFacts
  <2>2. \A j \in T : col({})[j] = 0
    BY TotalFacts
  <2> DEFINE z == col({})
  <2>3. \A j \in T : z[j] \in Int /\ Cong(z[j], z[j] + (-1) * z[j])
    <3>1. Cong(0, 0) /\ 0 + (-1) * 0 = 0
      BY CongFacts
    <3> QED
      BY <2>2, <3>1
  <2> HIDE DEF z
  <2>4. Cong(Total(z, T), Total(z, T) + (-1) * Total(z, T))
    BY <2>3, TotalCong
  <2>5. Total(z, T) \in Int
    BY <2>3, TotalFacts
  <2>6. Cong(Total(z, T), 0)
    BY <2>4, <2>5
  <2>7. Cong(0, Total(z, T))
    BY <2>5, <2>6, CongFacts
  <2> QED
    BY <2>1, <2>7 DEF z
<1>4. ASSUME NEW R \in SUBSET S, NEW m \in S \ R, R \in C
      PROVE  R \cup {m} \in C
  <2>1. IsFiniteSet(R) /\ m \notin R /\ R \cup {m} \in SUBSET S
    BY FS_Subset
  <2>2. Total(row, R \cup {m}) = row[m] + Total(row, R)
    BY <2>1, <1>1, TotalAdd
  <2>3. \A j \in T : col(R \cup {m})[j] = g[m][j] + col(R)[j]
    <3> SUFFICES ASSUME NEW j \in T PROVE col(R \cup {m})[j] = g[m][j] + col(R)[j]
      OBVIOUS
    <3> DEFINE n == [i \in S |-> g[i][j]]
    <3>1. (\A i \in R \cup {m} : n[i] \in Int) /\ n[m] = g[m][j]
      OBVIOUS
    <3> HIDE DEF n
    <3>2. Total(n, R \cup {m}) = n[m] + Total(n, R)
      BY <2>1, <3>1, TotalAdd
    <3> QED
      BY <3>1, <3>2 DEF n
  <2> DEFINE p == col(R)
             q == col(R \cup {m})
             n == [j \in T |-> g[m][j]]
  <2>4. \A j \in T : p[j] \in Int /\ q[j] \in Int /\ n[j] \in Int
    BY <1>2, <2>1
  <2>5. \A j \in T : q[j] = n[j] + 1 * p[j]
    <3>1. \A j \in T : q[j] = n[j] + p[j]
      BY <2>3
    <3> HIDE DEF p, q, n
    <3> QED
      BY <2>4, <3>1
  <2>6. row[m] = Total(n, T)
    OBVIOUS
  <2>7. Cong(Total(row, R), Total(p, T))
    BY <1>4
  <2>8. /\ R \cup {m} \in C <=> Cong(Total(row, R \cup {m}), Total(q, T))
    BY <2>1
  <2> HIDE DEF p, q, n, row, C
  <2>9. Cong(Total(q, T), Total(n, T) + 1 * Total(p, T))
    <3>1. \A j \in T : Cong(q[j], n[j] + 1 * p[j])
      BY <2>4, <2>5, CongFacts
    <3> QED
      BY <2>4, <3>1, TotalCong
  <2>10. /\ Total(q, T) \in Int /\ Total(n, T) \in Int /\ Total(p, T) \in Int
         /\ Total(row, R) \in Int
    BY <2>1, <2>4, <1>1, TotalFacts
  <2>11. Cong(Total(q, T), Total(n, T) + Total(p, T))
    BY <2>9, <2>10
  <2>12. Cong(Total(n, T) + Total(row, R), Total(n, T) + Total(p, T))
    BY <2>7, <2>10, CongFacts
  <2>13. Cong(Total(n, T) + Total(p, T), Total(q, T))
    BY <2>10, <2>11, CongFacts
  <2>14. Cong(Total(n, T) + Total(row, R), Total(q, T))
    BY <2>10, <2>12, <2>13, CongFacts
  <2> QED
    BY <2>2, <2>6, <2>8, <2>14
<1>5. S \in C
  <2> HIDE DEF C
  <2> QED
    BY <1>3, <1>4, SetInduction
<1> QED
  BY <1>5
-----------------------------------------------------------------------------
(* Products of a row and a vector.                                          *)

\* The product of the row a and the vector y over S.
Dot(a, y, S) == Total([j \in S |-> a[j] * y[j]], S)

\* a has integers at the members of S.
Ints(a, S) == \A j \in S : a[j] \in Int

\* The model's sum of the products of a row and a vector is their product.
LEMMA SumIsDot ==
  ASSUME NEW S, NEW a, NEW y
  PROVE  Sum([j \in S |-> a[j] * y[j]]) = Dot(a, y, S) % Prime
BY DEF Sum, Dot, Total

\* A product of integers is an integer.
LEMMA DotInt ==
  ASSUME NEW S, IsFiniteSet(S), NEW a, Ints(a, S), NEW y, Ints(y, S)
  PROVE  Dot(a, y, S) \in Int
<1> DEFINE g == [j \in S |-> a[j] * y[j]]
<1>1. \A j \in S : g[j] \in Int
  BY DEF Ints
<1> HIDE DEF g
<1>2. Total(g, S) \in Int
  BY <1>1, TotalFacts
<1> QED
  BY <1>2 DEF g, Dot

\* A product is linear in the vector, and depends on residues only.
LEMMA DotCong ==
  ASSUME NEW S, IsFiniteSet(S), NEW c \in Int,
         NEW a, Ints(a, S), NEW y, Ints(y, S), NEW z, Ints(z, S), NEW w, Ints(w, S),
         \A j \in S : Cong(w[j], y[j] + c * z[j])
  PROVE  Cong(Dot(a, w, S), Dot(a, y, S) + c * Dot(a, z, S))
<1> DEFINE f == [j \in S |-> a[j] * y[j]]
           g == [j \in S |-> a[j] * z[j]]
           h == [j \in S |-> a[j] * w[j]]
<1>1. \A j \in S : f[j] \in Int /\ g[j] \in Int /\ h[j] \in Int
  BY DEF Ints
<1>2. \A j \in S : Cong(h[j], f[j] + c * g[j])
  <2> SUFFICES ASSUME NEW j \in S PROVE Cong(h[j], f[j] + c * g[j])
    OBVIOUS
  <2>1. a[j] \in Int /\ y[j] \in Int /\ z[j] \in Int /\ w[j] \in Int
    BY DEF Ints
  <2>2. y[j] + c * z[j] \in Int
    BY <2>1
  <2>3. Cong(a[j] * w[j], a[j] * (y[j] + c * z[j]))
    <3> DEFINE v == y[j] + c * z[j]
    <3>1. v \in Int /\ Cong(w[j], v)
      BY <2>2
    <3> HIDE DEF v
    <3>2. Cong(a[j] * w[j], a[j] * v)
      BY <2>1, <3>1, CongFacts
    <3> QED
      BY <3>2 DEF v
  <2>4. a[j] * (y[j] + c * z[j]) = a[j] * y[j] + c * (a[j] * z[j])
    BY <2>1
  <2> QED
    BY <2>3, <2>4
<1> HIDE DEF f, g, h
<1>3. Cong(Total(h, S), Total(f, S) + c * Total(g, S))
  BY <1>1, <1>2, TotalCong
<1> QED
  BY <1>3 DEF f, g, h, Dot

\* A product is linear in the row.
LEMMA DotRow ==
  ASSUME NEW S, IsFiniteSet(S), NEW c \in Int,
         NEW a, Ints(a, S), NEW b, Ints(b, S), NEW d, Ints(d, S), NEW y, Ints(y, S),
         \A j \in S : Cong(d[j], a[j] + c * b[j])
  PROVE  Cong(Dot(d, y, S), Dot(a, y, S) + c * Dot(b, y, S))
<1>1. \A r \in {a, b, d} : Dot(r, y, S) = Dot(y, r, S)
  <2> SUFFICES ASSUME NEW r \in {a, b, d} PROVE Dot(r, y, S) = Dot(y, r, S)
    OBVIOUS
  <2>1. \A j \in S : r[j] * y[j] = y[j] * r[j]
    BY DEF Ints
  <2>2. [j \in S |-> r[j] * y[j]] = [j \in S |-> y[j] * r[j]]
    BY <2>1
  <2> QED
    BY <2>2 DEF Dot
<1>2. Cong(Dot(y, d, S), Dot(y, a, S) + c * Dot(y, b, S))
  BY DotCong
<1> QED
  BY <1>1, <1>2

\* Congruent rows and vectors have congruent products.
LEMMA DotSame ==
  ASSUME NEW S, IsFiniteSet(S),
         NEW a, Ints(a, S), NEW b, Ints(b, S), NEW y, Ints(y, S), NEW z, Ints(z, S),
         \A j \in S : Cong(a[j], b[j]), \A j \in S : Cong(y[j], z[j])
  PROVE  Cong(Dot(a, y, S), Dot(b, z, S))
<1>1. \A j \in S : z[j] + 0 * z[j] = z[j] /\ b[j] + 0 * b[j] = b[j]
  BY DEF Ints
<1>2. (\A j \in S : Cong(y[j], z[j] + 0 * z[j])) /\ (\A j \in S : Cong(a[j], b[j] + 0 * b[j]))
  BY <1>1
<1>3. Cong(Dot(a, y, S), Dot(a, z, S) + 0 * Dot(a, z, S))
  BY <1>2, DotCong, 0 \in Int
<1>4. Cong(Dot(a, z, S), Dot(b, z, S) + 0 * Dot(b, z, S))
  BY <1>2, DotRow, 0 \in Int
<1>5. Dot(a, y, S) \in Int /\ Dot(a, z, S) \in Int /\ Dot(b, z, S) \in Int
  BY DotInt
<1>6. Dot(a, z, S) + 0 * Dot(a, z, S) = Dot(a, z, S)
      /\ Dot(b, z, S) + 0 * Dot(b, z, S) = Dot(b, z, S)
  BY <1>5
<1> QED
  BY <1>3, <1>4, <1>5, <1>6, CongFacts

\* A row times a number.
LEMMA DotScale ==
  ASSUME NEW S, IsFiniteSet(S), NEW c \in Int,
         NEW a, Ints(a, S), NEW b, Ints(b, S), NEW y, Ints(y, S),
         \A j \in S : Cong(b[j], c * a[j])
  PROVE  Cong(Dot(b, y, S), c * Dot(a, y, S))
<1> DEFINE z == [j \in S |-> 0]
<1>1. Ints(z, S) /\ \A j \in S : z[j] + c * a[j] = c * a[j]
  BY DEF Ints
<1>2. \A j \in S : z[j] = z[j] + (-1) * z[j]
  OBVIOUS
<1> HIDE DEF z
<1>3. Cong(Dot(b, y, S), Dot(z, y, S) + c * Dot(a, y, S))
  BY <1>1, DotRow
<1>4. \A j \in S : Cong(z[j], z[j] + (-1) * z[j])
  BY <1>1, <1>2, CongFacts DEF Ints
<1>5. Cong(Dot(z, y, S), Dot(z, y, S) + (-1) * Dot(z, y, S))
  BY <1>1, <1>4, DotRow
<1>6. Dot(b, y, S) \in Int /\ Dot(a, y, S) \in Int /\ Dot(z, y, S) \in Int
  BY <1>1, DotInt
<1>7. Dot(z, y, S) + (-1) * Dot(z, y, S) = 0 /\ c * Dot(a, y, S) \in Int
  BY <1>6
<1>8. Cong(Dot(z, y, S), 0)
  BY <1>5, <1>7
<1>9. Cong(Dot(z, y, S) + c * Dot(a, y, S), 0 + c * Dot(a, y, S))
  BY <1>6, <1>7, <1>8, CongFacts, 0 \in Int
<1>10. 0 + c * Dot(a, y, S) = c * Dot(a, y, S) /\ Dot(z, y, S) + c * Dot(a, y, S) \in Int
  BY <1>6, <1>7
<1> QED
  BY <1>3, <1>6, <1>7, <1>9, <1>10, CongFacts
-----------------------------------------------------------------------------
(* Linear systems: Solve finds a solution of a regular system, and there is *)
(* only one.                                                                *)

\* Only zero solves the homogeneous equations of a over S.
Nonsingular(a, S) ==
  \A y \in [S -> Field] :
    (\A i \in S : Dot(a[i], y, S) % Prime = 0) => \A i \in S : y[i] = 0

\* a has integers at the rows R and the columns S.
Matrix(a, R, S) == \A i \in R : Ints(a[i], S)

\* A nonsingular matrix takes different vectors to different ones.
LEMMA SolutionUnique ==
  ASSUME NEW S, IsFiniteSet(S), NEW a, Matrix(a, S, S), Nonsingular(a, S),
         NEW y, Ints(y, S), NEW z, Ints(z, S),
         \A i \in S : Cong(Dot(a[i], y, S), Dot(a[i], z, S))
  PROVE  \A j \in S : Cong(y[j], z[j])
<1> DEFINE n == [j \in S |-> (y[j] + (-1) * z[j]) % Prime]
<1>1. \A j \in S : y[j] \in Int /\ z[j] \in Int /\ y[j] + (-1) * z[j] \in Int
  BY DEF Ints
<1>2. n \in [S -> Field] /\ Ints(n, S)
  BY <1>1, ModFacts DEF Ints
<1>3. \A j \in S : Cong(n[j], y[j] + (-1) * z[j])
  BY <1>1, ModFacts
<1>4. \A j \in S : n[j] = 0 => Cong(y[j], z[j])
  <2> SUFFICES ASSUME NEW j \in S, n[j] = 0 PROVE Cong(y[j], z[j])
    OBVIOUS
  <2>1. Cong(0, y[j] + (-1) * z[j])
    BY <1>3
  <2>2. Cong(0 + z[j], (y[j] + (-1) * z[j]) + z[j])
    BY <1>1, <2>1, CongFacts, 0 \in Int
  <2>3. 0 + z[j] = z[j] /\ (y[j] + (-1) * z[j]) + z[j] = y[j]
    BY <1>1
  <2> QED
    BY <1>1, <2>2, <2>3, CongFacts
<1> HIDE DEF n
<1>5. \A i \in S : Dot(a[i], n, S) % Prime = 0
  <2> SUFFICES ASSUME NEW i \in S PROVE Dot(a[i], n, S) % Prime = 0
    OBVIOUS
  <2>1. Ints(a[i], S)
    BY DEF Matrix
  <2> DEFINE p == Dot(a[i], y, S)
             q == Dot(a[i], z, S)
             r == Dot(a[i], n, S)
  <2>2. Cong(r, p + (-1) * q)
    BY <2>1, <1>2, <1>3, DotCong
  <2>3. p \in Int /\ q \in Int /\ r \in Int
    BY <2>1, <1>2, DotInt
  <2>4. Cong(p, q)
    OBVIOUS
  <2> HIDE DEF p, q, r
  <2>5. Cong(p + (-1) * q, q + (-1) * q)
    BY <2>3, <2>4, CongFacts
  <2>6. q + (-1) * q = 0 /\ p + (-1) * q \in Int
    BY <2>3
  <2>7. Cong(r, 0)
    BY <2>2, <2>3, <2>5, <2>6, CongFacts
  <2>8. r % Prime = 0 % Prime
    BY <2>3, <2>7, ModEqual
  <2>9. 0 % Prime = 0
    BY PrimeFacts
  <2> QED
    BY <2>8, <2>9 DEF r
<1>6. \A i \in S : n[i] = 0
  BY <1>2, <1>5 DEF Nonsingular
<1> QED
  BY <1>4, <1>6

\* The functions between two finite sets are finitely many.
LEMMA FunctionsFinite ==
  ASSUME NEW S, IsFiniteSet(S), NEW T, IsFiniteSet(T)
  PROVE  IsFiniteSet([S -> T])
<1> DEFINE Graph(y) == {<<i, y[i]>> : i \in S}
           m == [y \in [S -> T] |-> Graph(y)]
<1>1. IsFiniteSet(SUBSET (S \X T))
  BY FS_Product, FS_SUBSET
<1>2. m \in [[S -> T] -> SUBSET (S \X T)]
  OBVIOUS
<1>3. ASSUME NEW y \in [S -> T], NEW z \in [S -> T], m[y] = m[z]
      PROVE  y = z
  <2>1. ASSUME NEW i \in S PROVE y[i] = z[i]
    <3>1. <<i, y[i]>> \in Graph(z)
      BY <1>3
    <3> QED
      BY <3>1
  <2> QED
    BY <2>1
<1>4. m \in Injection([S -> T], SUBSET (S \X T))
  <2> HIDE DEF m
  <2> QED
    BY <1>2, <1>3 DEF Injection, IsInjective
<1> QED
  BY <1>1, <1>4, FS_Injection

\* Solve finds a solution: an injective function on the finite set of vectors of
\* the field takes every value.
LEMMA SolveCorrect ==
  ASSUME NEW S, IsFiniteSet(S), NEW a, Matrix(a, S, S), Nonsingular(a, S),
         NEW b, Ints(b, S)
  PROVE  /\ Solve(a, S, b) \in [S -> Field]
         /\ Ints(Solve(a, S, b), S)
         /\ \A i \in S : Cong(Dot(a[i], Solve(a, S, b), S), b[i])
<1> DEFINE F == [S -> Field]
           m == [y \in F |-> [i \in S |-> Dot(a[i], y, S) % Prime]]
           t == [i \in S |-> b[i] % Prime]
<1>0. \A y \in F : Ints(y, S)
  BY PrimeFacts DEF Ints, Field
<1>1. \A y \in F, i \in S : Dot(a[i], y, S) \in Int
  BY <1>0, DotInt DEF Matrix
<1>2. m \in [F -> F] /\ t \in F
  BY <1>1, ModFacts DEF Ints
<1>3. ASSUME NEW y \in F, NEW z \in F, m[y] = m[z]
      PROVE  y = z
  <2>1. \A i \in S : Dot(a[i], y, S) % Prime = Dot(a[i], z, S) % Prime
    BY <1>3
  <2>2. \A i \in S : Cong(Dot(a[i], y, S), Dot(a[i], z, S))
    BY <2>1, <1>1, ModEqual
  <2>3. \A j \in S : Cong(y[j], z[j])
    BY <2>2, <1>0, SolutionUnique
  <2>4. \A j \in S : y[j] = z[j]
    BY <2>3, FieldUnique
  <2> QED
    BY <2>4
<1>4. IsFiniteSet(F)
  <2>1. IsFiniteSet(Field)
    BY PrimeFacts, FS_Interval DEF Field
  <2> QED
    BY <2>1, FunctionsFinite
<1> HIDE DEF F, m
<1>5. m \in Injection(F, F)
  BY <1>2, <1>3 DEF Injection, IsInjective
<1>6. m \in Surjection(F, F)
  BY <1>4, <1>5, FS_Injection
<1>7. PICK y \in F : m[y] = t
  BY <1>2, <1>6 DEF Surjection
<1>8. \A i \in S : Sum([j \in S |-> a[i][j] * y[j]]) = b[i] % Prime
  <2> SUFFICES ASSUME NEW i \in S
               PROVE  Sum([j \in S |-> a[i][j] * y[j]]) = b[i] % Prime
    OBVIOUS
  <2>1. m[y][i] = t[i]
    BY <1>7
  <2> QED
    BY <2>1, SumIsDot DEF m
<1> DEFINE w == Solve(a, S, b)
<1>9. w \in F /\ \A i \in S : Sum([j \in S |-> a[i][j] * w[j]]) = b[i] % Prime
  BY <1>8 DEF Solve, F
<1> HIDE DEF w, t
<1>10. ASSUME NEW i \in S PROVE Cong(Dot(a[i], w, S), b[i])
  <2>1. Dot(a[i], w, S) % Prime = b[i] % Prime
    BY <1>9, SumIsDot
  <2> QED
    BY <2>1, <1>1, <1>9, ModEqual DEF Ints, F
<1> QED
  BY <1>0, <1>9, <1>10 DEF w, F
-----------------------------------------------------------------------------
(* The equations of one element.                                            *)

\* The nodes of an element are its material and its void ones.
LEMMA MeshFacts ==
  ASSUME NEW e \in Elements
  PROVE  /\ IsFiniteSet(NodesOf[e]) /\ IsFiniteSet(VoidRows(e)) /\ IsFiniteSet(MaterialRows(e))
         /\ VoidRows(e) \in SUBSET NodesOf[e] /\ MaterialRows(e) = NodesOf[e] \ VoidRows(e)
         /\ MaterialRows(e) \in SUBSET NodesOf[e]
         /\ e \notin Factored => VoidRows(e) = {}
         /\ Fraction[e] \in Int
<1>1. IsFiniteSet(NodesOf[e])
  BY MeshAssumption
<1>2. /\ VoidRows(e) \in SUBSET NodesOf[e] /\ MaterialRows(e) = NodesOf[e] \ VoidRows(e)
      /\ MaterialRows(e) \in SUBSET NodesOf[e]
  BY DEF VoidRows, MaterialRows
<1>3. e \notin Factored => VoidRows(e) = {}
  BY MeshAssumption DEF VoidRows
<1> QED
  BY <1>1, <1>2, <1>3, FS_Subset, FractionAssumption

\* The stiffness and the loads are those of an analysis that can be solved.
EquationsOK ==
  /\ \A e \in Elements : Matrix(stiffness[e], NodesOf[e], NodesOf[e])
  /\ \A e \in Elements : Ints(load[e], NodesOf[e])
  /\ Regular(stiffness)

\* The Jacobian of an element is its stiffness times its volume fraction.
LEMMA JacobianFacts ==
  ASSUME EquationsOK, NEW e \in Elements
  PROVE  /\ Matrix(Jacobian(e), NodesOf[e], NodesOf[e])
         /\ \A i, j \in NodesOf[e] : Cong(Jacobian(e)[i][j], Fraction[e] * stiffness[e][i][j])
<1> SUFFICES ASSUME NEW i \in NodesOf[e], NEW j \in NodesOf[e]
             PROVE  /\ Jacobian(e)[i][j] \in Int
                    /\ Cong(Jacobian(e)[i][j], Fraction[e] * stiffness[e][i][j])
  BY DEF Matrix, Ints
<1>1. stiffness[e][i][j] \in Int /\ Fraction[e] \in Int
  BY MeshFacts DEF EquationsOK, Matrix, Ints
<1> DEFINE p == Fraction[e] * stiffness[e][i][j]
<1>2. p \in Int
  BY <1>1
<1>3. Jacobian(e)[i][j] = p % Prime
  BY DEF Jacobian
<1> HIDE DEF p
<1>4. p % Prime \in Int /\ Cong(p % Prime, p)
  BY <1>2, ModFacts
<1> QED
  BY <1>3, <1>4 DEF p

\* A product in the field is zero only if a factor is.
LEMMA NoZeroDivisors ==
  ASSUME NEW a \in Int, a % Prime # 0, NEW b \in Int, Cong(a * b, 0)
  PROVE  Cong(b, 0)
<1> DEFINE p == a % Prime
           q == b % Prime
<1>1. p \in Field /\ q \in Field /\ p \in Int /\ q \in Int /\ Cong(p, a) /\ Cong(q, b)
  BY ModFacts
<1>2. a * b \in Int /\ p * q \in Int /\ a * q \in Int
  BY <1>1
<1> HIDE DEF p, q
<1>3. Cong(a * q, a * b)
  BY <1>1, CongFacts
<1>4. Cong(q * p, q * a)
  BY <1>1, CongFacts
<1>5. q * p = p * q /\ q * a = a * q
  BY <1>1
<1>6. Cong(p * q, 0)
  BY <1>2, <1>3, <1>4, <1>5, CongFacts, 0 \in Int
<1>7. (p * q) % Prime = 0 % Prime
  BY <1>2, <1>6, ModEqual, 0 \in Int
<1>8. 0 % Prime = 0
  BY PrimeFacts
<1>9. q = 0
  BY <1>1, <1>7, <1>8, FieldAssumption DEF p
<1> QED
  BY <1>1, <1>9, CongFacts

\* The equations of the void nodes can be solved, scaled by the fraction or not.
LEMMA VoidRegular ==
  ASSUME EquationsOK, NEW e \in Factored
  PROVE  /\ Matrix(Jacobian(e), VoidRows(e), VoidRows(e))
         /\ Nonsingular(Jacobian(e), VoidRows(e))
<1> DEFINE V == VoidRows(e)
           a == Jacobian(e)
           c == Fraction[e]
<1>1. e \in Elements /\ c \in Int /\ c % Prime # 0
  BY MeshAssumption, FractionAssumption
<1>2. V \in SUBSET NodesOf[e] /\ IsFiniteSet(V)
  BY <1>1, MeshFacts
<1>3. Matrix(a, NodesOf[e], NodesOf[e]) /\ Matrix(stiffness[e], NodesOf[e], NodesOf[e])
      /\ \A i, j \in NodesOf[e] : Cong(a[i][j], c * stiffness[e][i][j])
  BY <1>1, JacobianFacts DEF EquationsOK
<1> HIDE DEF V, a, c
<1>4. Matrix(a, V, V) /\ Matrix(stiffness[e], V, V)
  BY <1>2, <1>3 DEF Matrix, Ints
<1>5. ASSUME NEW y \in [V -> Field], \A i \in V : Dot(a[i], y, V) % Prime = 0
      PROVE  \A i \in V : y[i] = 0
  <2>1. Ints(y, V)
    BY PrimeFacts DEF Ints, Field
  <2>2. ASSUME NEW i \in V PROVE Sum([j \in V |-> stiffness[e][i][j] * y[j]]) = 0
    <3> DEFINE p == Dot(a[i], y, V)
               q == Dot(stiffness[e][i], y, V)
    <3>1. Ints(a[i], V) /\ Ints(stiffness[e][i], V)
      BY <1>4 DEF Matrix
    <3>2. \A j \in V : Cong(a[i][j], c * stiffness[e][i][j])
      BY <1>2, <1>3
    <3>3. Cong(p, c * q)
      BY <1>1, <1>2, <2>1, <3>1, <3>2, DotScale
    <3>4. p \in Int /\ q \in Int
      BY <1>2, <2>1, <3>1, DotInt
    <3>5. p % Prime = 0
      BY <1>5
    <3> HIDE DEF p, q
    <3>6. Cong(0, p)
      BY <3>4, <3>5, ModFacts
    <3>7. c * q \in Int
      BY <1>1, <3>4
    <3>8. Cong(c * q, 0)
      BY <3>3, <3>4, <3>6, <3>7, CongFacts, 0 \in Int
    <3>9. Cong(q, 0)
      BY <1>1, <3>4, <3>8, NoZeroDivisors
    <3>10. q % Prime = 0 % Prime /\ 0 % Prime = 0
      BY <3>4, <3>9, ModEqual, PrimeFacts, 0 \in Int
    <3> QED
      BY <3>10, SumIsDot DEF q
  <2> QED
    BY <2>2 DEF EquationsOK, Regular, V
<1>6. Nonsingular(a, V)
  BY <1>5 DEF Nonsingular
<1> QED
  BY <1>4, <1>6 DEF a, V

\* The residual of an element is its Jacobian times the solution, less the loads.
LEMMA ResidualFacts ==
  ASSUME EquationsOK, NEW e \in Elements, NEW y, Ints(y, NodesOf[e])
  PROVE  /\ Ints(Residual(e, y), NodesOf[e])
         /\ \A i \in NodesOf[e] :
              /\ Residual(e, y)[i] \in Field
              /\ Cong(Residual(e, y)[i],
                      Dot(Jacobian(e)[i], y, NodesOf[e]) + (-(Fraction[e] * load[e][i])))
<1> DEFINE Rows == NodesOf[e]
           c == Fraction[e]
           r == Residual(e, y)
<1> SUFFICES ASSUME NEW i \in Rows
             PROVE  /\ r[i] \in Int
                    /\ r[i] \in Field
                    /\ Cong(r[i], Dot(Jacobian(e)[i], y, Rows) + (-(c * load[e][i])))
  BY DEF Ints
<1> DEFINE p == Dot(Jacobian(e)[i], y, Rows)
           q == Dot(stiffness[e][i], y, Rows)
           b == load[e][i]
<1>1. IsFiniteSet(Rows) /\ c \in Int /\ b \in Int
  BY MeshFacts DEF EquationsOK, Ints
<1>2. /\ Ints(stiffness[e][i], Rows) /\ Ints(Jacobian(e)[i], Rows)
      /\ \A j \in Rows : Cong(Jacobian(e)[i][j], c * stiffness[e][i][j])
  BY JacobianFacts DEF EquationsOK, Matrix
<1>3. p \in Int /\ q \in Int
  BY <1>1, <1>2, DotInt
<1>4. Cong(p, c * q)
  <2>1. Ints(y, Rows)
    OBVIOUS
  <2> HIDE DEF c, Rows
  <2> QED
    BY <1>1, <1>2, <2>1, DotScale
<1>5. r[i] = (c * ((q % Prime) - b)) % Prime
  BY SumIsDot DEF Residual
<1> HIDE DEF p, q, b, c, r, Rows
<1>6. Cong(q % Prime, q) /\ q % Prime \in Int
  BY <1>3, ModFacts
<1> DEFINE m == q % Prime
           u == c * (m - b)
<1>7. m \in Int /\ Cong(m, q)
  BY <1>6
<1>8. r[i] = u % Prime
  BY <1>5
<1> HIDE DEF m
<1>9. u \in Int
  BY <1>1, <1>7
<1> HIDE DEF u
<1>10. r[i] \in Field /\ r[i] \in Int /\ Cong(r[i], u)
  BY <1>8, <1>9, ModFacts
<1>11. PICK k \in Int : m = q + k * Prime
  BY <1>7 DEF Cong
<1>12. PICK l \in Int : r[i] = u + l * Prime
  BY <1>10 DEF Cong
<1>13. PICK n \in Int : p = c * q + n * Prime
  BY <1>4 DEF Cong
<1>14. r[i] = (p + (-(c * b))) + (c * k + l - n) * Prime
  BY <1>1, <1>3, <1>7, <1>11, <1>12, <1>13, PrimeFacts DEF u
<1>15. c * k + l - n \in Int
  BY <1>1
<1>16. Cong(r[i], p + (-(c * b)))
  BY <1>14, <1>15 DEF Cong
<1> QED
  BY <1>10, <1>16 DEF p, b

\* A step of the element's solution adds the Jacobian times the step.
LEMMA ResidualMoves ==
  ASSUME EquationsOK, NEW e \in Elements,
         NEW y, Ints(y, NodesOf[e]), NEW z, Ints(z, NodesOf[e]), NEW d, Ints(d, NodesOf[e]),
         \A j \in NodesOf[e] : Cong(z[j], y[j] + d[j])
  PROVE  \A i \in NodesOf[e] :
           Cong(Residual(e, z)[i], Residual(e, y)[i] + Dot(Jacobian(e)[i], d, NodesOf[e]))
<1> DEFINE Rows == NodesOf[e]
<1> SUFFICES ASSUME NEW i \in Rows
             PROVE  Cong(Residual(e, z)[i], Residual(e, y)[i] + Dot(Jacobian(e)[i], d, Rows))
  OBVIOUS
<1> DEFINE p == Dot(Jacobian(e)[i], y, Rows)
           q == Dot(Jacobian(e)[i], z, Rows)
           r == Dot(Jacobian(e)[i], d, Rows)
           s == Residual(e, y)[i]
           t == Residual(e, z)[i]
           b == -(Fraction[e] * load[e][i])
<1>1. IsFiniteSet(Rows) /\ b \in Int
  BY MeshFacts DEF EquationsOK, Ints
<1>2. Ints(Jacobian(e)[i], Rows)
  BY JacobianFacts DEF Matrix
<1>3. p \in Int /\ q \in Int /\ r \in Int
  BY <1>1, <1>2, DotInt
<1>4. s \in Int /\ t \in Int /\ Cong(s, p + b) /\ Cong(t, q + b)
  BY ResidualFacts DEF Ints
<1>5. Cong(q, p + 1 * r)
  <2>1. \A j \in Rows : z[j] \in Int /\ y[j] \in Int /\ d[j] \in Int
    BY DEF Ints
  <2>2. \A j \in Rows : y[j] + 1 * d[j] = y[j] + d[j]
    BY <2>1
  <2>3. \A j \in Rows : Cong(z[j], y[j] + 1 * d[j])
    BY <2>2
  <2> QED
    BY <1>1, <1>2, <2>3, DotCong, 1 \in Int
<1> HIDE DEF p, q, r, s, t, b
<1>6. PICK k \in Int : s = (p + b) + k * Prime
  BY <1>4 DEF Cong
<1>7. PICK l \in Int : t = (q + b) + l * Prime
  BY <1>4 DEF Cong
<1>8. PICK m \in Int : q = (p + 1 * r) + m * Prime
  BY <1>5 DEF Cong
<1>9. t = (s + r) + (l + m - k) * Prime
  BY <1>1, <1>3, <1>4, <1>6, <1>7, <1>8, PrimeFacts
<1>10. Cong(t, s + r)
  BY <1>9 DEF Cong
<1> QED
  BY <1>10 DEF t, s, r
-----------------------------------------------------------------------------
(* Condensation.                                                            *)

\* A product over S is the sum of those over a subset and over the rest.
LEMMA DotSplit ==
  ASSUME NEW S, IsFiniteSet(S), NEW T \in SUBSET S,
         NEW a, Ints(a, S), NEW y, Ints(y, S)
  PROVE  Cong(Dot(a, y, S), Dot(a, y, S \ T) + Dot(a, y, T))
<1> DEFINE g == [j \in S |-> a[j] * y[j]]
           part(Q) == [j \in Q |-> a[j] * y[j]]
<1>1. \A j \in S : g[j] \in Int
  BY DEF Ints
<1>2. \A Q \in SUBSET S : Cong(Total(g, Q), Total(part(Q), Q)) /\ Total(part(Q), Q) \in Int
  <2> SUFFICES ASSUME NEW Q \in SUBSET S
               PROVE  Cong(Total(g, Q), Total(part(Q), Q)) /\ Total(part(Q), Q) \in Int
    OBVIOUS
  <2> DEFINE h == part(Q)
  <2>1. IsFiniteSet(Q)
    BY FS_Subset
  <2>2. \A j \in Q : h[j] = g[j] /\ g[j] \in Int
    BY <1>1
  <2> HIDE DEF h, g
  <2>3. \A j \in Q : Cong(g[j], h[j])
    BY <2>2, CongFacts
  <2> QED
    BY <2>1, <2>2, <2>3, TotalSame, TotalFacts DEF h
<1>3. Total(g, S) = Dot(a, y, S)
  BY DEF Dot
<1>4. T \in SUBSET S /\ S \ T \in SUBSET S /\ IsFiniteSet(T) /\ IsFiniteSet(S \ T)
  BY FS_Subset
<1> HIDE DEF g
<1>5. Total(g, S) = Total(g, S \ T) + Total(g, T)
  <2>1. Total(g, T) \in Int /\ Total(g, S \ T) \in Int
    BY <1>1, <1>4, TotalFacts
  <2>2. Total(g, S) = Total(g, T) + Total(g, S \ T)
    BY <1>1, TotalSplit
  <2> QED
    BY <2>1, <2>2
<1>6. /\ Cong(Total(g, T), Dot(a, y, T)) /\ Dot(a, y, T) \in Int
      /\ Cong(Total(g, S \ T), Dot(a, y, S \ T)) /\ Dot(a, y, S \ T) \in Int
  BY <1>2, <1>4 DEF Dot
<1>7. Total(g, T) \in Int /\ Total(g, S \ T) \in Int
  BY <1>1, <1>4, TotalFacts
<1> QED
  BY <1>3, <1>5, <1>6, <1>7, CongFacts

\* Products with the columns of a matrix can be exchanged.
LEMMA DotExchange ==
  ASSUME NEW S, IsFiniteSet(S), NEW T, IsFiniteSet(T),
         NEW a, Ints(a, S), NEW w, \A m \in T : Ints(w[m], S), NEW d, Ints(d, T)
  PROVE  Cong(Dot(a, [j \in S |-> Dot([m \in T |-> w[m][j]], d, T)], S),
              Dot([m \in T |-> Dot(a, w[m], S)], d, T))
<1> DEFINE g == [j \in S |-> [m \in T |-> a[j] * w[m][j] * d[m]]]
           col(j) == [m \in T |-> w[m][j]]
           x == [j \in S |-> Dot(col(j), d, T)]
           b == [m \in T |-> Dot(a, w[m], S)]
           p == [j \in S |-> Total([m \in T |-> g[j][m]], T)]
           q == [m \in T |-> Total([j \in S |-> g[j][m]], S)]
<1>1. \A j \in S : a[j] \in Int /\ \A m \in T : w[m][j] \in Int /\ d[m] \in Int
  BY DEF Ints
<1>2. \A j \in S : \A m \in T : g[j][m] \in Int
  BY <1>1
<1>3. \A j \in S : /\ p[j] \in Int /\ x[j] \in Int /\ a[j] * x[j] \in Int
                   /\ Cong(p[j], a[j] * x[j])
  <2> SUFFICES ASSUME NEW j \in S
               PROVE  /\ p[j] \in Int /\ x[j] \in Int /\ a[j] * x[j] \in Int
                      /\ Cong(p[j], a[j] * x[j])
    OBVIOUS
  <2> DEFINE c == col(j)
             r == [m \in T |-> a[j] * w[m][j]]
  <2>1. Ints(c, T) /\ Ints(r, T)
    BY <1>1 DEF Ints
  <2>2. \A m \in T : r[m] = a[j] * c[m] /\ r[m] \in Int
    BY <1>1
  <2>3. p[j] = Dot(r, d, T) /\ x[j] = Dot(c, d, T)
    <3>1. [m \in T |-> g[j][m]] = [m \in T |-> r[m] * d[m]]
      OBVIOUS
    <3> QED
      BY <3>1 DEF Dot
  <2>4. a[j] \in Int
    BY <1>1
  <2> HIDE DEF c, r, p, x
  <2>5. \A m \in T : Cong(r[m], a[j] * c[m])
    BY <2>2, CongFacts
  <2>6. Cong(Dot(r, d, T), a[j] * Dot(c, d, T))
    BY <2>1, <2>4, <2>5, DotScale
  <2>7. Dot(r, d, T) \in Int /\ Dot(c, d, T) \in Int
    BY <2>1, DotInt
  <2> QED
    BY <2>3, <2>4, <2>6, <2>7
<1>4. \A m \in T : /\ q[m] \in Int /\ b[m] \in Int /\ b[m] * d[m] \in Int
                   /\ Cong(q[m], b[m] * d[m])
  <2> SUFFICES ASSUME NEW m \in T
               PROVE  /\ q[m] \in Int /\ b[m] \in Int /\ b[m] * d[m] \in Int
                      /\ Cong(q[m], b[m] * d[m])
    OBVIOUS
  <2> DEFINE r == [j \in S |-> d[m] * a[j]]
             v == w[m]
  <2>1. Ints(v, S) /\ Ints(r, S) /\ d[m] \in Int
    BY <1>1 DEF Ints
  <2>2. \A j \in S : r[j] = d[m] * a[j] /\ r[j] \in Int
    BY <1>1, <2>1
  <2>3. q[m] = Dot(r, v, S)
    <3>1. \A j \in S : g[j][m] = r[j] * v[j]
      BY <1>1, <2>1
    <3> HIDE DEF g, r, v
    <3>2. [j \in S |-> g[j][m]] = [j \in S |-> r[j] * v[j]]
      BY <3>1
    <3> QED
      BY <3>2 DEF Dot
  <2>4. b[m] = Dot(a, v, S)
    OBVIOUS
  <2> HIDE DEF v, r, b, q
  <2>5. \A j \in S : Cong(r[j], d[m] * a[j])
    BY <2>2, CongFacts
  <2>6. Cong(Dot(r, v, S), d[m] * Dot(a, v, S))
    BY <2>1, <2>5, DotScale
  <2>7. Dot(r, v, S) \in Int /\ Dot(a, v, S) \in Int
    BY <2>1, DotInt
  <2>8. d[m] * Dot(a, v, S) = Dot(a, v, S) * d[m] /\ Dot(a, v, S) * d[m] \in Int
    BY <2>1, <2>7
  <2> QED
    BY <2>3, <2>4, <2>6, <2>7, <2>8
<1>5. Cong(Total(p, S), Total(q, T))
  <2> HIDE DEF g
  <2> QED
    BY <1>2, TotalExchange
<1> DEFINE f == [j \in S |-> a[j] * x[j]]
           h == [m \in T |-> b[m] * d[m]]
<1>6. \A j \in S : f[j] = a[j] * x[j]
  OBVIOUS
<1>7. \A m \in T : h[m] = b[m] * d[m]
  OBVIOUS
<1>8. Dot(a, x, S) = Total(f, S) /\ Dot(b, d, T) = Total(h, T)
  BY DEF Dot
<1> HIDE DEF p, q, f, h, x, b
<1>9. Cong(Total(p, S), Total(f, S))
  BY <1>3, <1>6, TotalSame
<1>10. Cong(Total(q, T), Total(h, T))
  BY <1>4, <1>7, TotalSame
<1>11. Total(p, S) \in Int /\ Total(f, S) \in Int /\ Total(q, T) \in Int /\ Total(h, T) \in Int
  BY <1>3, <1>4, <1>6, <1>7, TotalFacts
<1>12. Cong(Total(f, S), Total(h, T))
  BY <1>5, <1>9, <1>10, <1>11, CongFacts
<1> QED
  BY <1>8, <1>12 DEF x, b

\* The product with a vector of zeros is zero.
LEMMA DotZero ==
  ASSUME NEW S, IsFiniteSet(S), NEW a, Ints(a, S), NEW d, Ints(d, S),
         \A j \in S : Cong(d[j], 0)
  PROVE  Cong(Dot(a, d, S), 0)
<1> DEFINE g == [j \in S |-> a[j] * d[j]]
<1>1. \A j \in S : g[j] \in Int /\ Cong(g[j], 0)
  <2> SUFFICES ASSUME NEW j \in S PROVE g[j] \in Int /\ Cong(g[j], 0)
    OBVIOUS
  <2>1. a[j] \in Int /\ d[j] \in Int
    BY DEF Ints
  <2>2. Cong(a[j] * d[j], a[j] * 0)
    BY <2>1, CongFacts, 0 \in Int
  <2>3. a[j] * 0 = 0
    BY <2>1
  <2> QED
    BY <2>1, <2>2, <2>3
<1> HIDE DEF g
<1>2. {} \in SUBSET S /\ S \ {} = S
  OBVIOUS
<1>3. Cong(Total(g, S), Total(g, {}))
  BY <1>1, <1>2, TotalOver
<1>4. Total(g, {}) = 0
  BY TotalFacts
<1> QED
  BY <1>3, <1>4 DEF g, Dot

\* What the condensed residual of a factored element is.
LEMMA CondensedFacts ==
  ASSUME EquationsOK, NEW e \in Factored, NEW r, Ints(r, NodesOf[e]), NEW w,
         w = Solve(Jacobian(e), VoidRows(e), r)
  PROVE  /\ Ints(w, VoidRows(e))
         /\ \A i \in VoidRows(e) : Cong(Dot(Jacobian(e)[i], w, VoidRows(e)), r[i])
         /\ \A i \in MaterialRows(e) :
              /\ CondensedResidual(e, r)[i] \in Field
              /\ CondensedResidual(e, r)[i] \in Int
              /\ Cong(CondensedResidual(e, r)[i],
                      r[i] + (-1) * Dot(Jacobian(e)[i], w, VoidRows(e)))
         /\ \A i \in VoidRows(e) : CondensedResidual(e, r)[i] = 0
<1> DEFINE V == VoidRows(e)
           a == Jacobian(e)
<1>1. e \in Elements
  BY MeshAssumption
<1>2. IsFiniteSet(V) /\ V \in SUBSET NodesOf[e] /\ MaterialRows(e) \in SUBSET NodesOf[e]
  BY <1>1, MeshFacts
<1>3. Matrix(a, V, V) /\ Nonsingular(a, V)
  BY VoidRegular
<1>4. Ints(r, V)
  BY <1>2 DEF Ints
<1>5. Ints(w, V) /\ \A i \in V : Cong(Dot(a[i], w, V), r[i])
  <2> HIDE DEF a, V
  <2>1. w = Solve(a, V, r)
    BY DEF a, V
  <2> QED
    BY <1>2, <1>3, <1>4, <2>1, SolveCorrect
<1>6. \A i \in V : CondensedResidual(e, r)[i] = 0
  BY <1>2 DEF CondensedResidual, VoidRows
<1>7. ASSUME NEW i \in MaterialRows(e)
      PROVE  /\ CondensedResidual(e, r)[i] \in Field
             /\ CondensedResidual(e, r)[i] \in Int
             /\ Cong(CondensedResidual(e, r)[i], r[i] + (-1) * Dot(a[i], w, V))
  <2> DEFINE p == Dot(a[i], w, V)
             q == p % Prime
             t == CondensedResidual(e, r)[i]
  <2>1. i \in NodesOf[e] /\ i \notin VoidNodes
    BY <1>2 DEF MaterialRows
  <2>2. t = (r[i] - q) % Prime
    BY <2>1, SumIsDot DEF CondensedResidual
  <2>3. r[i] \in Int
    BY <2>1 DEF Ints
  <2>4. Ints(a[i], V)
    BY <1>1, <1>2, <2>1, JacobianFacts DEF Matrix, Ints
  <2>5. p \in Int
    BY <1>2, <1>5, <2>4, DotInt
  <2> HIDE DEF p, t
  <2>6. q \in Int /\ Cong(q, p)
    BY <2>5, ModFacts
  <2> HIDE DEF q
  <2>7. r[i] - q \in Int
    BY <2>3, <2>6
  <2>8. t \in Field /\ t \in Int /\ Cong(t, r[i] - q)
    BY <2>2, <2>7, ModFacts
  <2>9. PICK k \in Int : q = p + k * Prime
    BY <2>6 DEF Cong
  <2>10. PICK l \in Int : t = (r[i] - q) + l * Prime
    BY <2>8 DEF Cong
  <2>11. t = (r[i] + (-1) * p) + (l - k) * Prime
    BY <2>3, <2>5, <2>6, <2>8, <2>9, <2>10, PrimeFacts
  <2>12. Cong(t, r[i] + (-1) * p)
    BY <2>11 DEF Cong
  <2> QED
    BY <2>8, <2>12 DEF t, p
<1> QED
  BY <1>5, <1>6, <1>7

\* The condensed residual does not depend on the solution at the void nodes.
LEMMA CondensedIgnoresVoid ==
  ASSUME EquationsOK, NEW e \in Factored,
         NEW s, Ints(s, NodesOf[e]), NEW t, Ints(t, NodesOf[e]),
         \A j \in MaterialRows(e) : t[j] = s[j]
  PROVE  CondensedResidual(e, Residual(e, t)) = CondensedResidual(e, Residual(e, s))
<1> DEFINE Rows == NodesOf[e]
           V == VoidRows(e)
           U == MaterialRows(e)
           a == Jacobian(e)
           r == Residual(e, s)
           u == Residual(e, t)
           w == Solve(a, V, r)
           x == Solve(a, V, u)
           d == [j \in Rows |-> t[j] - s[j]]
           z == [j \in V |-> w[j] + d[j]]
<1>1. e \in Elements
  BY MeshAssumption
<1>2. /\ IsFiniteSet(Rows) /\ IsFiniteSet(V) /\ IsFiniteSet(U)
      /\ V \in SUBSET Rows /\ U \in SUBSET Rows /\ U = Rows \ V
  BY <1>1, MeshFacts
<1>3. \A i \in Rows : Ints(a[i], Rows) /\ Ints(a[i], V) /\ Ints(a[i], U)
  BY <1>1, <1>2, JacobianFacts DEF Matrix, Ints
<1>4. Ints(r, Rows) /\ Ints(u, Rows)
  BY <1>1, ResidualFacts
<1>5. /\ Ints(d, Rows) /\ Ints(d, V) /\ Ints(d, U)
      /\ \A j \in Rows : t[j] = s[j] + d[j] /\ t[j] \in Int /\ s[j] \in Int
      /\ \A j \in U : d[j] = 0
  BY <1>2 DEF Ints
<1>6. \A i \in Rows : Cong(u[i], r[i] + Dot(a[i], d, Rows))
  <2> HIDE DEF d
  <2>1. \A j \in Rows : Cong(t[j], s[j] + d[j])
    <3> SUFFICES ASSUME NEW j \in Rows PROVE Cong(t[j], s[j] + d[j])
      OBVIOUS
    <3>1. t[j] = s[j] + d[j] /\ t[j] \in Int
      BY <1>5
    <3>2. Cong(t[j], t[j])
      BY <3>1, CongFacts
    <3> QED
      BY <3>1, <3>2
  <2> QED
    BY <1>1, <1>5, <2>1, ResidualMoves
<1>7. /\ Ints(w, V) /\ \A i \in V : Cong(Dot(a[i], w, V), r[i])
      /\ \A i \in U : /\ CondensedResidual(e, r)[i] \in Field
                      /\ CondensedResidual(e, r)[i] \in Int
                      /\ Cong(CondensedResidual(e, r)[i], r[i] + (-1) * Dot(a[i], w, V))
      /\ \A i \in V : CondensedResidual(e, r)[i] = 0
  <2> HIDE DEF r
  <2> QED
    BY <1>4, CondensedFacts
<1>8. /\ Ints(x, V) /\ \A i \in V : Cong(Dot(a[i], x, V), u[i])
      /\ \A i \in U : /\ CondensedResidual(e, u)[i] \in Field
                      /\ CondensedResidual(e, u)[i] \in Int
                      /\ Cong(CondensedResidual(e, u)[i], u[i] + (-1) * Dot(a[i], x, V))
      /\ \A i \in V : CondensedResidual(e, u)[i] = 0
  <2> HIDE DEF u
  <2> QED
    BY <1>4, CondensedFacts
<1>9. Matrix(a, V, V) /\ Nonsingular(a, V)
  BY VoidRegular
<1>10. /\ \A i \in V : z[i] = w[i] + d[i] /\ w[i] \in Int /\ d[i] \in Int
       /\ Ints(z, V)
  BY <1>5, <1>7 DEF Ints
<1>11. /\ CondensedResidual(e, u) = [i \in Rows |-> CondensedResidual(e, u)[i]]
       /\ CondensedResidual(e, r) = [i \in Rows |-> CondensedResidual(e, r)[i]]
  BY DEF CondensedResidual
<1> HIDE DEF Rows, V, U, a, r, u, w, x, d, z
<1>12. \A i \in Rows : /\ Dot(a[i], d, Rows) \in Int /\ Dot(a[i], d, V) \in Int
                    /\ Cong(Dot(a[i], d, Rows), Dot(a[i], d, V))
  <2> SUFFICES ASSUME NEW i \in Rows
               PROVE  /\ Dot(a[i], d, Rows) \in Int /\ Dot(a[i], d, V) \in Int
                      /\ Cong(Dot(a[i], d, Rows), Dot(a[i], d, V))
    OBVIOUS
  <2>1. /\ Dot(a[i], d, Rows) \in Int /\ Dot(a[i], d, V) \in Int /\ Dot(a[i], d, U) \in Int
    BY <1>2, <1>3, <1>5, DotInt
  <2>2. Cong(Dot(a[i], d, Rows), Dot(a[i], d, U) + Dot(a[i], d, V))
    BY <1>2, <1>3, <1>5, DotSplit
  <2>3. \A j \in U : Cong(d[j], 0)
    BY <1>5, CongFacts, 0 \in Int
  <2>4. Cong(Dot(a[i], d, U), 0)
    BY <1>2, <1>3, <1>5, <2>3, DotZero
  <2> DEFINE p == Dot(a[i], d, Rows)
             q == Dot(a[i], d, U)
             v == Dot(a[i], d, V)
  <2> HIDE DEF p, q, v
  <2>5. PICK k \in Int : p = (q + v) + k * Prime
    BY <2>2 DEF Cong, p, q, v
  <2>6. PICK l \in Int : q = 0 + l * Prime
    BY <2>4 DEF Cong, q
  <2>7. p = v + (k + l) * Prime
    BY <2>1, <2>5, <2>6, PrimeFacts DEF p, q, v
  <2>8. Cong(p, v)
    BY <2>7 DEF Cong
  <2> QED
    BY <2>1, <2>8 DEF p, v
<1>13. \A i \in Rows : /\ Dot(a[i], w, V) \in Int /\ Dot(a[i], x, V) \in Int
                    /\ Dot(a[i], z, V) \in Int
                    /\ Cong(Dot(a[i], z, V), Dot(a[i], w, V) + 1 * Dot(a[i], d, V))
  <2>1. \A j \in V : z[j] = w[j] + 1 * d[j] /\ z[j] \in Int
    BY <1>10
  <2>2. \A j \in V : Cong(z[j], w[j] + 1 * d[j])
    BY <2>1, CongFacts
  <2> QED
    BY <1>2, <1>3, <1>5, <1>7, <1>8, <1>10, <2>2, DotCong, DotInt, 1 \in Int
<1>14. \A i \in V : Cong(Dot(a[i], x, V), Dot(a[i], z, V))
  <2> SUFFICES ASSUME NEW i \in V
               PROVE  Cong(Dot(a[i], x, V), Dot(a[i], z, V))
    OBVIOUS
  <2> DEFINE p == Dot(a[i], x, V)
             q == Dot(a[i], z, V)
             l == Dot(a[i], w, V)
             m == Dot(a[i], d, V)
             n == Dot(a[i], d, Rows)
             f == r[i]
             g == u[i]
  <2>0. i \in Rows
    BY <1>2
  <2>1. /\ Cong(p, g) /\ Cong(g, f + n) /\ Cong(n, m) /\ Cong(l, f)
        /\ Cong(q, l + 1 * m)
    BY <2>0, <1>6, <1>7, <1>8, <1>12, <1>13
  <2>2. /\ p \in Int /\ q \in Int /\ l \in Int /\ m \in Int /\ n \in Int
        /\ f \in Int /\ g \in Int
    BY <2>0, <1>4, <1>12, <1>13 DEF Ints
  <2> HIDE DEF p, q, l, m, n, f, g
  <2>3. PICK c1 \in Int : p = g + c1 * Prime
    BY <2>1 DEF Cong
  <2>4. PICK c2 \in Int : g = (f + n) + c2 * Prime
    BY <2>1 DEF Cong
  <2>5. PICK c3 \in Int : n = m + c3 * Prime
    BY <2>1 DEF Cong
  <2>6. PICK c4 \in Int : l = f + c4 * Prime
    BY <2>1 DEF Cong
  <2>7. PICK c5 \in Int : q = (l + 1 * m) + c5 * Prime
    BY <2>1 DEF Cong
  <2>8. p = q + (c1 + c2 + c3 - c4 - c5) * Prime
    BY <2>2, <2>3, <2>4, <2>5, <2>6, <2>7, PrimeFacts
  <2>9. Cong(p, q)
    BY <2>8 DEF Cong
  <2> QED
    BY <2>9 DEF p, q
<1>15. \A j \in V : Cong(x[j], z[j])
  BY <1>2, <1>8, <1>9, <1>10, <1>14, SolutionUnique
<1>16. \A i \in Rows : Cong(Dot(a[i], x, V), Dot(a[i], z, V))
  <2>1. \A i \in Rows : \A j \in V : Cong(a[i][j], a[i][j])
    BY <1>3, CongFacts DEF Ints
  <2> QED
    BY <1>2, <1>3, <1>8, <1>10, <1>15, <2>1, DotSame
<1>17. \A i \in U : CondensedResidual(e, u)[i] = CondensedResidual(e, r)[i]
  <2> SUFFICES ASSUME NEW i \in U
               PROVE  CondensedResidual(e, u)[i] = CondensedResidual(e, r)[i]
    OBVIOUS
  <2> DEFINE p == Dot(a[i], x, V)
             q == Dot(a[i], z, V)
             l == Dot(a[i], w, V)
             m == Dot(a[i], d, V)
             n == Dot(a[i], d, Rows)
             f == r[i]
             g == u[i]
             b == CondensedResidual(e, r)[i]
             c == CondensedResidual(e, u)[i]
  <2>0. i \in Rows
    BY <1>2
  <2>1. /\ Cong(p, q) /\ Cong(g, f + n) /\ Cong(n, m) /\ Cong(q, l + 1 * m)
        /\ Cong(b, f + (-1) * l) /\ Cong(c, g + (-1) * p)
    BY <2>0, <1>6, <1>7, <1>8, <1>12, <1>13, <1>16
  <2>2. /\ p \in Int /\ q \in Int /\ l \in Int /\ m \in Int /\ n \in Int
        /\ f \in Int /\ g \in Int
        /\ b \in Field /\ c \in Field /\ b \in Int /\ c \in Int
    BY <2>0, <1>4, <1>7, <1>8, <1>12, <1>13 DEF Ints
  <2> HIDE DEF p, q, l, m, n, f, g, b, c
  <2>3. PICK c1 \in Int : p = q + c1 * Prime
    BY <2>1 DEF Cong
  <2>4. PICK c2 \in Int : g = (f + n) + c2 * Prime
    BY <2>1 DEF Cong
  <2>5. PICK c3 \in Int : n = m + c3 * Prime
    BY <2>1 DEF Cong
  <2>6. PICK c4 \in Int : q = (l + 1 * m) + c4 * Prime
    BY <2>1 DEF Cong
  <2>7. PICK c5 \in Int : b = (f + (-1) * l) + c5 * Prime
    BY <2>1 DEF Cong
  <2>8. PICK c6 \in Int : c = (g + (-1) * p) + c6 * Prime
    BY <2>1 DEF Cong
  <2>9. c = b + (c2 + c3 + c6 - c1 - c4 - c5) * Prime
    BY <2>2, <2>3, <2>4, <2>5, <2>6, <2>7, <2>8, PrimeFacts
  <2>10. Cong(c, b)
    BY <2>9 DEF Cong
  <2>11. c = b
    BY <2>2, <2>10, FieldUnique
  <2> QED
    BY <2>11 DEF c, b
<1>18. \A i \in Rows : CondensedResidual(e, u)[i] = CondensedResidual(e, r)[i]
  <2>1. \A i \in V : CondensedResidual(e, u)[i] = CondensedResidual(e, r)[i]
    BY <1>7, <1>8
  <2> QED
    BY <1>2, <1>17, <2>1
<1>19. CondensedResidual(e, u) = CondensedResidual(e, r)
  BY <1>11, <1>18
<1> QED
  BY <1>19 DEF u, r

\* What the condensed Jacobian of a factored element is.
LEMMA CondensedJacobianFacts ==
  ASSUME EquationsOK, NEW e \in Factored, NEW w,
         w = [m \in MaterialRows(e) |->
                Solve(Jacobian(e), VoidRows(e), [i \in VoidRows(e) |-> Jacobian(e)[i][m]])]
  PROVE  /\ \A m \in MaterialRows(e) :
              /\ Ints(w[m], VoidRows(e))
              /\ \A i \in VoidRows(e) :
                   Cong(Dot(Jacobian(e)[i], w[m], VoidRows(e)), Jacobian(e)[i][m])
         /\ \A i \in MaterialRows(e) :
              /\ Ints(CondensedJacobian(e)[i], NodesOf[e])
              /\ \A m \in VoidRows(e) : CondensedJacobian(e)[i][m] = 0
              /\ \A m \in MaterialRows(e) :
                   Cong(CondensedJacobian(e)[i][m],
                        Jacobian(e)[i][m] + (-1) * Dot(Jacobian(e)[i], w[m], VoidRows(e)))
<1> DEFINE V == VoidRows(e)
           U == MaterialRows(e)
           Rows == NodesOf[e]
           a == Jacobian(e)
           col(m) == [i \in V |-> a[i][m]]
<1>1. e \in Elements
  BY MeshAssumption
<1>2. /\ IsFiniteSet(V) /\ V \in SUBSET Rows /\ U \in SUBSET Rows
      /\ \A m \in Rows : m \notin U => m \in V
      /\ \A m \in V : m \notin U
  BY <1>1, MeshFacts
<1>3. Matrix(a, V, V) /\ Nonsingular(a, V)
  BY VoidRegular
<1>4. \A i \in Rows : Ints(a[i], Rows) /\ Ints(a[i], V)
  BY <1>1, <1>2, JacobianFacts DEF Matrix, Ints
<1>5. \A i \in Rows, m \in Rows : a[i][m] \in Int
  BY <1>4 DEF Ints
<1>6. ASSUME NEW m \in U
      PROVE  Ints(w[m], V) /\ \A i \in V : Cong(Dot(a[i], w[m], V), a[i][m])
  <2> DEFINE b == col(m)
  <2>1. Ints(b, V)
    BY <1>2, <1>5 DEF Ints
  <2>2. w[m] = Solve(a, V, b)
    OBVIOUS
  <2>3. \A i \in V : b[i] = a[i][m]
    OBVIOUS
  <2> HIDE DEF b, a, V
  <2> QED
    BY <1>2, <1>3, <2>1, <2>2, <2>3, SolveCorrect
<1>7. ASSUME NEW i \in U, NEW m \in V PROVE CondensedJacobian(e)[i][m] = 0
  <2>1. i \in Rows /\ m \in Rows /\ i \in U /\ m \notin U /\ i # m
    BY <1>2
  <2> QED
    BY <2>1 DEF CondensedJacobian
<1>8. ASSUME NEW i \in U, NEW m \in U
      PROVE  /\ CondensedJacobian(e)[i][m] \in Int
             /\ Cong(CondensedJacobian(e)[i][m], a[i][m] + (-1) * Dot(a[i], w[m], V))
  <2> DEFINE p == Dot(a[i], w[m], V)
             q == p % Prime
             f == a[i][m]
             t == CondensedJacobian(e)[i][m]
  <2>1. i \in Rows /\ m \in Rows
    BY <1>2
  <2>2. t = (f - Sum([j \in V |-> a[i][j] * w[m][j]])) % Prime
    BY <2>1 DEF CondensedJacobian
  <2>3. t = (f - q) % Prime
    BY <2>2, SumIsDot
  <2>4. f \in Int /\ p \in Int
    BY <1>2, <1>4, <1>5, <1>6, <2>1, DotInt
  <2> HIDE DEF p, t, f
  <2>5. q \in Int /\ Cong(q, p)
    BY <2>4, ModFacts
  <2> HIDE DEF q
  <2>6. f - q \in Int
    BY <2>4, <2>5
  <2>7. t \in Int /\ Cong(t, f - q)
    BY <2>3, <2>6, ModFacts
  <2>8. PICK k \in Int : q = p + k * Prime
    BY <2>5 DEF Cong
  <2>9. PICK l \in Int : t = (f - q) + l * Prime
    BY <2>7 DEF Cong
  <2>10. t = (f + (-1) * p) + (l - k) * Prime
    BY <2>4, <2>5, <2>7, <2>8, <2>9, PrimeFacts
  <2>11. Cong(t, f + (-1) * p)
    BY <2>10 DEF Cong
  <2> QED
    BY <2>7, <2>11 DEF t, p, f
<1>9. ASSUME NEW i \in U PROVE Ints(CondensedJacobian(e)[i], Rows)
  BY <1>2, <1>7, <1>8, 0 \in Int DEF Ints
<1> QED
  BY <1>6, <1>7, <1>8, <1>9

\* A step of a factored element whose void part solves the void equations: these
\* are balanced, and the others change as the condensed equations say.
LEMMA FactoredStep ==
  ASSUME EquationsOK, NEW e \in Factored,
         NEW s, Ints(s, NodesOf[e]), NEW t, Ints(t, NodesOf[e]), NEW d, Ints(d, NodesOf[e]),
         NEW f, Ints(f, VoidRows(e)),
         \A i \in VoidRows(e) :
           Cong(Dot(Jacobian(e)[i], f, VoidRows(e)),
                (-1) * Residual(e, s)[i] + (-1) * Dot(Jacobian(e)[i], d, MaterialRows(e))),
         \A j \in MaterialRows(e) : Cong(t[j], s[j] + d[j]),
         \A j \in VoidRows(e) : Cong(t[j], s[j] + f[j])
  PROVE  /\ \A i \in VoidRows(e) : Residual(e, t)[i] = 0
         /\ \A i \in MaterialRows(e) :
              Cong(Residual(e, t)[i],
                   CondensedResidual(e, Residual(e, s))[i]
                     + Dot(CondensedJacobian(e)[i], d, NodesOf[e]))
<1> DEFINE Rows == NodesOf[e]
           V == VoidRows(e)
           U == MaterialRows(e)
           a == Jacobian(e)
           r == Residual(e, s)
           u == Residual(e, t)
           x == Solve(a, V, r)
           w == [m \in U |-> Solve(a, V, [i \in V |-> a[i][m]])]
           y == [j \in V |-> Dot([m \in U |-> w[m][j]], d, U)]
           z == [j \in V |-> (-1) * x[j] + (-1) * y[j]]
           g == [j \in Rows |-> IF j \in V THEN f[j] ELSE d[j]]
           v(i) == [m \in U |-> Dot(a[i], w[m], V)]
<1>1. e \in Elements
  BY MeshAssumption
<1>2. /\ IsFiniteSet(Rows) /\ IsFiniteSet(V) /\ IsFiniteSet(U)
      /\ V \in SUBSET Rows /\ U \in SUBSET Rows /\ U = Rows \ V
  BY <1>1, MeshFacts
<1>3. \A i \in Rows : Ints(a[i], Rows) /\ Ints(a[i], V) /\ Ints(a[i], U)
  BY <1>1, <1>2, JacobianFacts DEF Matrix, Ints
<1>4. Ints(r, Rows) /\ Ints(u, Rows) /\ \A i \in Rows : u[i] \in Field
  BY <1>1, ResidualFacts
<1>5. Ints(d, U) /\ Ints(f, V)
  BY <1>2 DEF Ints
<1>6. /\ Ints(g, Rows) /\ Ints(g, V) /\ Ints(g, U)
      /\ \A j \in V : g[j] = f[j]
      /\ \A j \in U : g[j] = d[j]
  BY <1>2 DEF Ints
<1>7. \A i \in Rows : Cong(u[i], r[i] + Dot(a[i], g, Rows))
  <2>1. \A j \in Rows : Cong(t[j], s[j] + g[j])
    BY <1>2, <1>6
  <2> HIDE DEF g
  <2> QED
    BY <1>1, <1>6, <2>1, ResidualMoves
<1>8. \A i \in V : Cong(Dot(a[i], f, V), (-1) * r[i] + (-1) * Dot(a[i], d, U))
  OBVIOUS
<1>9. /\ Ints(x, V) /\ \A i \in V : Cong(Dot(a[i], x, V), r[i])
      /\ \A i \in U : /\ CondensedResidual(e, r)[i] \in Int
                      /\ Cong(CondensedResidual(e, r)[i], r[i] + (-1) * Dot(a[i], x, V))
  <2> HIDE DEF r
  <2> QED
    BY <1>4, CondensedFacts
<1>10. /\ \A m \in U : /\ Ints(w[m], V)
                       /\ \A i \in V : Cong(Dot(a[i], w[m], V), a[i][m])
       /\ \A i \in U :
            /\ Ints(CondensedJacobian(e)[i], Rows)
            /\ \A m \in V : CondensedJacobian(e)[i][m] = 0
            /\ \A m \in U : Cong(CondensedJacobian(e)[i][m], a[i][m] + (-1) * Dot(a[i], w[m], V))
  BY CondensedJacobianFacts
<1>11. Matrix(a, V, V) /\ Nonsingular(a, V)
  BY VoidRegular
<1>12. \A i \in Rows : /\ Ints(v(i), U) /\ \A m \in U : v(i)[m] = Dot(a[i], w[m], V)
  <2> HIDE DEF w, a, V, U, Rows
  <2> QED
    BY <1>2, <1>3, <1>10, DotInt DEF Ints
<1>13. Ints(y, V) /\ \A i \in Rows : Cong(Dot(a[i], y, V), Dot(v(i), d, U))
  <2> HIDE DEF w, a, V, U, Rows
  <2>1. ASSUME NEW j \in V PROVE y[j] \in Int
    <3> DEFINE c == [m \in U |-> w[m][j]]
    <3>1. Ints(c, U)
      BY <1>10 DEF Ints
    <3> HIDE DEF c
    <3>2. Dot(c, d, U) \in Int
      BY <1>2, <1>5, <3>1, DotInt
    <3> QED
      BY <3>2 DEF c
  <2>2. Ints(y, V)
    BY <2>1 DEF Ints
  <2>3. ASSUME NEW i \in Rows PROVE Cong(Dot(a[i], y, V), Dot(v(i), d, U))
    BY <1>2, <1>3, <1>5, <1>10, DotExchange
  <2> QED
    BY <2>2, <2>3
<1>14. Ints(z, V) /\ \A j \in V : z[j] = (-1) * x[j] + (-1) * y[j]
  <2> HIDE DEF x, y
  <2> QED
    BY <1>9, <1>13 DEF Ints
<1> HIDE DEF Rows, V, U, a, r, u, x, w, y, z, g, v
\* The products that occur, at every row.
<1>15. \A i \in Rows :
         /\ Dot(a[i], f, V) \in Int /\ Dot(a[i], x, V) \in Int /\ Dot(a[i], y, V) \in Int
         /\ Dot(a[i], z, V) \in Int /\ Dot(a[i], d, U) \in Int /\ Dot(v(i), d, U) \in Int
         /\ Dot(a[i], g, Rows) \in Int /\ Dot(a[i], g, U) \in Int /\ Dot(a[i], g, V) \in Int
         /\ r[i] \in Int /\ u[i] \in Int
  BY <1>2, <1>3, <1>4, <1>5, <1>6, <1>9, <1>12, <1>13, <1>14, DotInt DEF Ints
<1>16. \A i \in Rows : Cong(Dot(a[i], g, Rows), Dot(a[i], d, U) + Dot(a[i], f, V))
  <2> SUFFICES ASSUME NEW i \in Rows
               PROVE  Cong(Dot(a[i], g, Rows), Dot(a[i], d, U) + Dot(a[i], f, V))
    OBVIOUS
  <2>1. Cong(Dot(a[i], g, Rows), Dot(a[i], g, U) + Dot(a[i], g, V))
    BY <1>2, <1>3, <1>6, DotSplit
  <2>2. Dot(a[i], g, U) = Dot(a[i], d, U)
    <3>1. [j \in U |-> a[i][j] * g[j]] = [j \in U |-> a[i][j] * d[j]]
      BY <1>6
    <3> QED
      BY <3>1 DEF Dot
  <2>3. Dot(a[i], g, V) = Dot(a[i], f, V)
    <3>1. [j \in V |-> a[i][j] * g[j]] = [j \in V |-> a[i][j] * f[j]]
      BY <1>6
    <3> QED
      BY <3>1 DEF Dot
  <2> QED
    BY <2>1, <2>2, <2>3
<1>17. \A i \in Rows : Cong(Dot(a[i], z, V), (-1) * Dot(a[i], x, V) + (-1) * Dot(a[i], y, V))
  <2> SUFFICES ASSUME NEW i \in Rows
               PROVE  Cong(Dot(a[i], z, V), (-1) * Dot(a[i], x, V) + (-1) * Dot(a[i], y, V))
    OBVIOUS
  <2> DEFINE n == [j \in V |-> (-1) * x[j]]
  <2>1. \A j \in V : x[j] \in Int /\ y[j] \in Int
    BY <1>9, <1>13 DEF Ints
  <2>2. Ints(n, V) /\ \A j \in V : n[j] = (-1) * x[j]
    BY <2>1 DEF Ints
  <2> DEFINE o == [j \in V |-> 0]
  <2>3. Ints(o, V) /\ \A j \in V : o[j] = 0
    BY DEF Ints
  <2> HIDE DEF n, o
  <2>4. \A j \in V : z[j] = n[j] + (-1) * y[j] /\ z[j] \in Int
    BY <1>14, <2>1, <2>2
  <2>5. \A j \in V : n[j] = o[j] + (-1) * x[j] /\ n[j] \in Int
    BY <2>1, <2>2, <2>3
  <2>6. \A j \in V : Cong(z[j], n[j] + (-1) * y[j])
    BY <2>4, CongFacts
  <2>7. \A j \in V : Cong(n[j], o[j] + (-1) * x[j])
    BY <2>5, CongFacts
  <2>8. \A j \in V : Cong(o[j], 0)
    BY <2>3, CongFacts, 0 \in Int
  <2>9. -1 \in Int /\ Ints(a[i], V)
    BY <1>3
  <2>10. Cong(Dot(a[i], z, V), Dot(a[i], n, V) + (-1) * Dot(a[i], y, V))
    BY <1>2, <1>13, <1>14, <2>2, <2>6, <2>9, DotCong
  <2>11. Cong(Dot(a[i], n, V), Dot(a[i], o, V) + (-1) * Dot(a[i], x, V))
    BY <1>2, <1>9, <2>2, <2>3, <2>7, <2>9, DotCong
  <2>12. Cong(Dot(a[i], o, V), 0)
    BY <1>2, <2>3, <2>8, <2>9, DotZero
  <2> DEFINE p == Dot(a[i], z, V)
             q == Dot(a[i], n, V)
             k == Dot(a[i], o, V)
             l == Dot(a[i], x, V)
             m == Dot(a[i], y, V)
  <2>13. p \in Int /\ q \in Int /\ k \in Int /\ l \in Int /\ m \in Int
    BY <1>2, <1>15, <2>2, <2>3, <2>9, DotInt
  <2> HIDE DEF p, q, k, l, m
  <2>14. PICK c1 \in Int : p = (q + (-1) * m) + c1 * Prime
    BY <2>10 DEF Cong, p, q, m
  <2>15. PICK c2 \in Int : q = (k + (-1) * l) + c2 * Prime
    BY <2>11 DEF Cong, q, k, l
  <2>16. PICK c3 \in Int : k = 0 + c3 * Prime
    BY <2>12 DEF Cong, k
  <2>17. p = ((-1) * l + (-1) * m) + (c1 + c2 + c3) * Prime
    BY <2>13, <2>14, <2>15, <2>16, PrimeFacts
  <2>18. Cong(p, (-1) * l + (-1) * m)
    BY <2>17 DEF Cong
  <2> QED
    BY <2>18 DEF p, l, m
\* The void rows of the columns are those of the Jacobian.
<1>18. \A i \in V : Cong(Dot(v(i), d, U), Dot(a[i], d, U))
  <2> SUFFICES ASSUME NEW i \in V PROVE Cong(Dot(v(i), d, U), Dot(a[i], d, U))
    OBVIOUS
  <2>1. i \in Rows
    BY <1>2
  <2>2. \A m \in U : Cong(v(i)[m], a[i][m])
    BY <1>10, <1>12, <2>1
  <2>3. \A m \in U : Cong(d[m], d[m])
    BY <1>5, CongFacts DEF Ints
  <2> DEFINE b == v(i)
             c == a[i]
  <2>4. Ints(b, U) /\ Ints(c, U) /\ (\A m \in U : Cong(b[m], c[m]))
    BY <1>3, <1>12, <2>1, <2>2
  <2> HIDE DEF b, c
  <2>5. Cong(Dot(b, d, U), Dot(c, d, U))
    BY <1>2, <1>5, <2>3, <2>4, DotSame
  <2> QED
    BY <2>5 DEF b, c
<1>19. \A i \in V : Cong(Dot(a[i], f, V), Dot(a[i], z, V))
  <2> SUFFICES ASSUME NEW i \in V PROVE Cong(Dot(a[i], f, V), Dot(a[i], z, V))
    OBVIOUS
  <2> DEFINE p == Dot(a[i], f, V)
             q == Dot(a[i], z, V)
             l == Dot(a[i], x, V)
             m == Dot(a[i], y, V)
             n == Dot(a[i], d, U)
             o == Dot(v(i), d, U)
             b == r[i]
  <2>0. i \in Rows
    BY <1>2
  <2>1. /\ Cong(p, (-1) * b + (-1) * n) /\ Cong(q, (-1) * l + (-1) * m)
        /\ Cong(l, b) /\ Cong(m, o) /\ Cong(o, n)
    BY <2>0, <1>8, <1>9, <1>13, <1>17, <1>18
  <2>2. /\ p \in Int /\ q \in Int /\ l \in Int /\ m \in Int /\ n \in Int
        /\ o \in Int /\ b \in Int
    BY <2>0, <1>15
  <2> HIDE DEF p, q, l, m, n, o, b
  <2>3. PICK c1 \in Int : p = ((-1) * b + (-1) * n) + c1 * Prime
    BY <2>1 DEF Cong
  <2>4. PICK c2 \in Int : q = ((-1) * l + (-1) * m) + c2 * Prime
    BY <2>1 DEF Cong
  <2>5. PICK c3 \in Int : l = b + c3 * Prime
    BY <2>1 DEF Cong
  <2>6. PICK c4 \in Int : m = o + c4 * Prime
    BY <2>1 DEF Cong
  <2>7. PICK c5 \in Int : o = n + c5 * Prime
    BY <2>1 DEF Cong
  <2>8. p = q + (c1 - c2 + c3 + c4 + c5) * Prime
    BY <2>2, <2>3, <2>4, <2>5, <2>6, <2>7, PrimeFacts
  <2>9. Cong(p, q)
    BY <2>8 DEF Cong
  <2> QED
    BY <2>9 DEF p, q
<1>20. \A j \in V : Cong(f[j], z[j])
  BY <1>2, <1>5, <1>11, <1>14, <1>19, SolutionUnique
<1>21. \A i \in Rows : Cong(Dot(a[i], f, V), Dot(a[i], z, V))
  <2>1. \A i \in Rows : \A j \in V : Cong(a[i][j], a[i][j])
    BY <1>3, CongFacts DEF Ints
  <2> QED
    BY <1>2, <1>3, <1>5, <1>14, <1>20, <2>1, DotSame
\* The void rows are balanced.
<1>22. \A i \in V : u[i] = 0
  <2> SUFFICES ASSUME NEW i \in V PROVE u[i] = 0
    OBVIOUS
  <2> DEFINE p == Dot(a[i], f, V)
             n == Dot(a[i], d, U)
             o == Dot(a[i], g, Rows)
             b == r[i]
             c == u[i]
  <2>0. i \in Rows
    BY <1>2
  <2>1. Cong(c, b + o) /\ Cong(o, n + p) /\ Cong(p, (-1) * b + (-1) * n)
    BY <2>0, <1>7, <1>8, <1>16
  <2>2. /\ p \in Int /\ n \in Int /\ o \in Int /\ b \in Int /\ c \in Int /\ c \in Field
    BY <2>0, <1>4, <1>15
  <2> HIDE DEF p, n, o, b, c
  <2>3. PICK c1 \in Int : c = (b + o) + c1 * Prime
    BY <2>1 DEF Cong
  <2>4. PICK c2 \in Int : o = (n + p) + c2 * Prime
    BY <2>1 DEF Cong
  <2>5. PICK c3 \in Int : p = ((-1) * b + (-1) * n) + c3 * Prime
    BY <2>1 DEF Cong
  <2>6. c = 0 + (c1 + c2 + c3) * Prime
    BY <2>2, <2>3, <2>4, <2>5, PrimeFacts
  <2>7. Cong(c, 0) /\ 0 \in Field
    BY <2>6, PrimeFacts DEF Cong, Field
  <2>8. c = 0
    BY <2>2, <2>7, FieldUnique
  <2> QED
    BY <2>8 DEF c
\* The condensed Jacobian times the step.
<1>23. \A i \in U : /\ Dot(CondensedJacobian(e)[i], d, Rows) \in Int
                    /\ Cong(Dot(CondensedJacobian(e)[i], d, Rows),
                            Dot(a[i], d, U) + (-1) * Dot(v(i), d, U))
  <2> SUFFICES ASSUME NEW i \in U
               PROVE  /\ Dot(CondensedJacobian(e)[i], d, Rows) \in Int
                      /\ Cong(Dot(CondensedJacobian(e)[i], d, Rows),
                              Dot(a[i], d, U) + (-1) * Dot(v(i), d, U))
    OBVIOUS
  <2> DEFINE b == CondensedJacobian(e)[i]
             c == a[i]
             h == v(i)
  <2>0. i \in Rows
    BY <1>2
  <2>1. /\ Ints(b, Rows) /\ Ints(b, V) /\ Ints(b, U) /\ Ints(c, U) /\ Ints(h, U) /\ Ints(d, Rows)
        /\ Ints(d, V)
    BY <1>2, <1>3, <1>10, <1>12, <2>0 DEF Ints, Rows
  <2>2. (\A m \in V : b[m] = 0) /\ (\A m \in U : Cong(b[m], c[m] + (-1) * h[m]))
    BY <1>10, <1>12, <2>0
  <2>3. Dot(c, d, U) \in Int /\ Dot(h, d, U) \in Int
    BY <1>15, <2>0
  <2> HIDE DEF b, c, h
  <2>4. Cong(Dot(b, d, Rows), Dot(b, d, U) + Dot(b, d, V))
    BY <1>2, <2>1, DotSplit
  <2>5. Cong(Dot(b, d, U), Dot(c, d, U) + (-1) * Dot(h, d, U))
    <3>1. -1 \in Int
      OBVIOUS
    <3> QED
      BY <1>2, <1>5, <2>1, <2>2, <3>1, DotRow
  <2>6. Cong(Dot(b, d, V), 0)
    <3>1. Dot(b, d, V) = Dot(d, b, V)
      <4>1. \A m \in V : b[m] * d[m] = d[m] * b[m]
        BY <2>1 DEF Ints
      <4>2. [m \in V |-> b[m] * d[m]] = [m \in V |-> d[m] * b[m]]
        BY <4>1
      <4> QED
        BY <4>2 DEF Dot
    <3>2. \A m \in V : Cong(b[m], 0)
      BY <2>2, CongFacts, 0 \in Int
    <3>3. Cong(Dot(d, b, V), 0)
      BY <1>2, <2>1, <3>2, DotZero
    <3> QED
      BY <3>1, <3>3
  <2>7. Dot(b, d, Rows) \in Int /\ Dot(b, d, U) \in Int /\ Dot(b, d, V) \in Int
    BY <1>2, <1>5, <2>1, DotInt
  <2> DEFINE p == Dot(b, d, Rows)
             q == Dot(b, d, U)
             k == Dot(b, d, V)
             l == Dot(c, d, U)
             m == Dot(h, d, U)
  <2> HIDE DEF p, q, k, l, m
  <2>8. PICK c1 \in Int : p = (q + k) + c1 * Prime
    BY <2>4 DEF Cong, p, q, k
  <2>9. PICK c2 \in Int : q = (l + (-1) * m) + c2 * Prime
    BY <2>5 DEF Cong, q, l, m
  <2>10. PICK c3 \in Int : k = 0 + c3 * Prime
    BY <2>6 DEF Cong, k
  <2>11. p \in Int /\ q \in Int /\ k \in Int /\ l \in Int /\ m \in Int
    BY <2>3, <2>7 DEF p, q, k, l, m
  <2>12. p = (l + (-1) * m) + (c1 + c2 + c3) * Prime
    BY <2>8, <2>9, <2>10, <2>11, PrimeFacts
  <2>13. Cong(p, l + (-1) * m)
    BY <2>12 DEF Cong
  <2> QED
    BY <2>7, <2>13 DEF p, l, m, b, c, h
\* The material rows.
<1>24. \A i \in U : Cong(u[i], CondensedResidual(e, r)[i]
                                 + Dot(CondensedJacobian(e)[i], d, Rows))
  <2> SUFFICES ASSUME NEW i \in U
               PROVE  Cong(u[i], CondensedResidual(e, r)[i]
                                   + Dot(CondensedJacobian(e)[i], d, Rows))
    OBVIOUS
  <2> DEFINE p == Dot(a[i], f, V)
             q == Dot(a[i], z, V)
             l == Dot(a[i], x, V)
             m == Dot(a[i], y, V)
             n == Dot(a[i], d, U)
             o == Dot(v(i), d, U)
             k == Dot(a[i], g, Rows)
             b == r[i]
             c == u[i]
             h == CondensedResidual(e, r)[i]
             t2 == Dot(CondensedJacobian(e)[i], d, Rows)
  <2>0. i \in Rows
    BY <1>2
  <2>1. /\ Cong(c, b + k) /\ Cong(k, n + p) /\ Cong(p, q) /\ Cong(q, (-1) * l + (-1) * m)
        /\ Cong(m, o) /\ Cong(h, b + (-1) * l) /\ Cong(t2, n + (-1) * o)
    BY <2>0, <1>7, <1>9, <1>13, <1>16, <1>17, <1>21, <1>23
  <2>2. /\ p \in Int /\ q \in Int /\ l \in Int /\ m \in Int /\ n \in Int /\ o \in Int
        /\ k \in Int /\ b \in Int /\ c \in Int /\ h \in Int /\ t2 \in Int
    BY <2>0, <1>9, <1>15, <1>23
  <2> HIDE DEF p, q, l, m, n, o, k, b, c, h, t2
  <2>3. PICK c1 \in Int : c = (b + k) + c1 * Prime
    BY <2>1 DEF Cong
  <2>4. PICK c2 \in Int : k = (n + p) + c2 * Prime
    BY <2>1 DEF Cong
  <2>5. PICK c3 \in Int : p = q + c3 * Prime
    BY <2>1 DEF Cong
  <2>6. PICK c4 \in Int : q = ((-1) * l + (-1) * m) + c4 * Prime
    BY <2>1 DEF Cong
  <2>7. PICK c5 \in Int : m = o + c5 * Prime
    BY <2>1 DEF Cong
  <2>8. PICK c6 \in Int : h = (b + (-1) * l) + c6 * Prime
    BY <2>1 DEF Cong
  <2>9. PICK c7 \in Int : t2 = (n + (-1) * o) + c7 * Prime
    BY <2>1 DEF Cong
  <2>10. c = (h + t2) + (c1 + c2 + c3 + c4 - c5 - c6 - c7) * Prime
    BY <2>2, <2>3, <2>4, <2>5, <2>6, <2>7, <2>8, <2>9, PrimeFacts
  <2>11. Cong(c, h + t2)
    BY <2>10 DEF Cong
  <2> QED
    BY <2>11 DEF c, h, t2
<1> QED
  BY <1>22, <1>24 DEF u, r, V, U, Rows
-----------------------------------------------------------------------------
(* The equations of the mesh.                                               *)

\* A common factor of the terms is one of the sum.
LEMMA TotalScale ==
  ASSUME NEW S, IsFiniteSet(S), NEW c \in Int,
         NEW g, \A i \in S : g[i] \in Int, NEW h, \A i \in S : h[i] \in Int,
         \A i \in S : Cong(h[i], c * g[i])
  PROVE  Cong(Total(h, S), c * Total(g, S))
<1> DEFINE f == [i \in S |-> 0]
<1>1. \A i \in S : f[i] = 0 /\ f[i] \in Int /\ Cong(f[i], 0)
  BY CongFacts, 0 \in Int
<1>2. \A i \in S : f[i] + c * g[i] = c * g[i]
  OBVIOUS
<1> HIDE DEF f
<1>3. Cong(Total(h, S), Total(f, S) + c * Total(g, S))
  BY <1>1, <1>2, TotalCong
<1>4. {} \in SUBSET S /\ S \ {} = S /\ Total(f, {}) = 0
  BY TotalFacts
<1>5. Cong(Total(f, S), 0)
  BY <1>1, <1>4, TotalOver
<1>6. Total(f, S) \in Int /\ Total(g, S) \in Int /\ Total(h, S) \in Int
  BY <1>1, TotalFacts
<1> DEFINE p == Total(h, S)
           q == Total(f, S)
           r == Total(g, S)
<1> HIDE DEF p, q, r
<1>7. PICK k \in Int : p = (q + c * r) + k * Prime
  BY <1>3 DEF Cong, p, q, r
<1>8. PICK l \in Int : q = 0 + l * Prime
  BY <1>5 DEF Cong, q
<1>9. p = c * r + (k + l) * Prime
  BY <1>6, <1>7, <1>8, PrimeFacts DEF p, q, r
<1>10. Cong(p, c * r)
  BY <1>9 DEF Cong
<1> QED
  BY <1>10 DEF p, r

\* The nodes of the mesh, and the elements at a node, are finite sets.
LEMMA AllNodesFacts ==
  /\ IsFiniteSet(AllNodes)
  /\ \A e \in Elements : NodesOf[e] \in SUBSET AllNodes
  /\ \A i : With(i) \in SUBSET Elements /\ IsFiniteSet(With(i))
  /\ \A i : \A e \in With(i) : e \in Elements /\ i \in NodesOf[e]
<1>1. IsFiniteSet(AllNodes)
  <2> DEFINE T == {NodesOf[e] : e \in Elements}
             m == [e \in Elements |-> NodesOf[e]]
  <2>1. m \in Surjection(Elements, T)
    BY DEF Surjection
  <2>2. IsFiniteSet(T)
    BY <2>1, MeshAssumption, FS_Surjection
  <2>3. \A Q \in T : IsFiniteSet(Q)
    BY MeshAssumption
  <2> HIDE DEF T
  <2>4. IsFiniteSet(UNION T)
    BY <2>2, <2>3, FS_UNION
  <2> QED
    BY <2>4 DEF AllNodes, T
<1>2. \A e \in Elements : NodesOf[e] \in SUBSET AllNodes
  BY DEF AllNodes
<1>3. \A i : With(i) \in SUBSET Elements /\ \A e \in With(i) : e \in Elements /\ i \in NodesOf[e]
  BY DEF With
<1>4. \A i : IsFiniteSet(With(i))
  BY <1>3, MeshAssumption, FS_Subset
<1> QED
  BY <1>1, <1>2, <1>3, <1>4

\* The copies are integers at the nodes of every factored element.
CopiesOK(store) == \A e \in Factored : Ints(store[e], NodesOf[e])

\* An element takes the solution at its material nodes and its copies at the others.
LEMMA ElementSolutionFacts ==
  ASSUME NEW e \in Elements, NEW y, Ints(y, AllNodes), NEW store, CopiesOK(store)
  PROVE  /\ Ints(ElementSolution(e, y, store), NodesOf[e])
         /\ \A i \in MaterialRows(e) : ElementSolution(e, y, store)[i] = y[i]
         /\ \A i \in VoidRows(e) : ElementSolution(e, y, store)[i] = store[e][i]
<1>1. \A i \in NodesOf[e] : y[i] \in Int
  BY AllNodesFacts DEF Ints
<1>2. \A i \in VoidRows(e) : e \in Factored /\ i \in VoidNodes /\ i \in NodesOf[e]
  BY MeshFacts DEF VoidRows
<1>3. e \in Factored => \A i \in NodesOf[e] : store[e][i] \in Int
  BY DEF CopiesOK, Ints
<1> QED
  BY <1>1, <1>2, <1>3 DEF ElementSolution, MaterialRows, Ints

\* Recovered copies are integers, and their void part solves the void rows.
LEMMA RecoveredFacts ==
  ASSUME EquationsOK, NEW e \in Factored, NEW y, Ints(y, AllNodes), NEW d, Ints(d, AllNodes),
         NEW store, CopiesOK(store)
  PROVE  /\ Ints(Recovered(e, y, d, store), NodesOf[e])
         /\ \E f : /\ Ints(f, VoidRows(e))
                   /\ \A i \in VoidRows(e) :
                        /\ Cong(Dot(Jacobian(e)[i], f, VoidRows(e)),
                                (-1) * Residual(e, ElementSolution(e, y, store))[i]
                                  + (-1) * Dot(Jacobian(e)[i], d, MaterialRows(e)))
                        /\ Cong(Recovered(e, y, d, store)[i],
                                ElementSolution(e, y, store)[i] + f[i])
<1> DEFINE V == VoidRows(e)
           U == MaterialRows(e)
           Rows == NodesOf[e]
           a == Jacobian(e)
           s == ElementSolution(e, y, store)
           r == Residual(e, s)
           b == [i \in V |-> (- r[i] - Sum([j \in U |-> a[i][j] * d[j]])) % Prime]
           f == Solve(a, V, b)
           x == Recovered(e, y, d, store)
<1>1. e \in Elements
  BY MeshAssumption
<1>2. IsFiniteSet(V) /\ IsFiniteSet(U) /\ V \in SUBSET Rows /\ U \in SUBSET Rows /\ U = Rows \ V
  BY <1>1, MeshFacts
<1>3. Matrix(a, V, V) /\ Nonsingular(a, V)
  BY VoidRegular
<1>4. \A i \in Rows : Ints(a[i], U)
  BY <1>1, <1>2, JacobianFacts DEF Matrix, Ints
<1>5. Ints(s, Rows)
  BY <1>1, ElementSolutionFacts
<1>6. Ints(r, Rows)
  <2> HIDE DEF s
  <2> QED
    BY <1>1, <1>5, ResidualFacts
<1>7. Ints(d, U)
  BY <1>1, <1>2, AllNodesFacts DEF Ints
<1>8. x = [i \in Rows |-> IF i \in VoidNodes THEN (s[i] + f[i]) % Prime ELSE s[i]]
  BY DEF Recovered
<1>9. /\ \A i \in V : i \in Rows /\ i \in VoidNodes
      /\ \A i \in Rows : i \in VoidNodes => i \in V
  BY DEF VoidRows
<1>10. \A i \in V : /\ Dot(a[i], d, U) \in Int /\ r[i] \in Int
                    /\ b[i] = (- r[i] - (Dot(a[i], d, U) % Prime)) % Prime
  BY <1>2, <1>4, <1>6, <1>7, DotInt, SumIsDot DEF Ints
<1> HIDE DEF V, U, Rows, a, s, r, b, x
<1>11. \A i \in V : /\ b[i] \in Int
                    /\ Cong(b[i], (-1) * r[i] + (-1) * Dot(a[i], d, U))
  <2> SUFFICES ASSUME NEW i \in V
               PROVE  /\ b[i] \in Int
                      /\ Cong(b[i], (-1) * r[i] + (-1) * Dot(a[i], d, U))
    OBVIOUS
  <2> DEFINE p == Dot(a[i], d, U)
             q == p % Prime
             g == r[i]
             h == b[i]
  <2>1. p \in Int /\ g \in Int /\ h = (- g - q) % Prime
    BY <1>10
  <2> HIDE DEF p, g, h
  <2>2. q \in Int /\ Cong(q, p)
    BY <2>1, ModFacts
  <2> HIDE DEF q
  <2>3. - g - q \in Int
    BY <2>1, <2>2
  <2>4. h \in Int /\ Cong(h, - g - q)
    BY <2>1, <2>3, ModFacts
  <2>5. PICK k \in Int : q = p + k * Prime
    BY <2>2 DEF Cong
  <2>6. PICK l \in Int : h = (- g - q) + l * Prime
    BY <2>4 DEF Cong
  <2>7. h = ((-1) * g + (-1) * p) + (l - k) * Prime
    BY <2>1, <2>2, <2>4, <2>5, <2>6, PrimeFacts
  <2>8. Cong(h, (-1) * g + (-1) * p)
    BY <2>7 DEF Cong
  <2> QED
    BY <2>4, <2>8 DEF h, g, p
<1>12. Ints(b, V)
  BY <1>11 DEF Ints
<1>13. Ints(f, V) /\ \A i \in V : Cong(Dot(a[i], f, V), b[i])
  BY <1>2, <1>3, <1>12, SolveCorrect
<1> HIDE DEF f
<1>14. \A i \in V : Cong(Dot(a[i], f, V), (-1) * r[i] + (-1) * Dot(a[i], d, U))
  <2> SUFFICES ASSUME NEW i \in V
               PROVE  Cong(Dot(a[i], f, V), (-1) * r[i] + (-1) * Dot(a[i], d, U))
    OBVIOUS
  <2> DEFINE p == Dot(a[i], f, V)
             c == (-1) * r[i] + (-1) * Dot(a[i], d, U)
             q == b[i]
  <2>1. Ints(a[i], V)
    BY <1>3 DEF Matrix
  <2>2. p \in Int
    BY <1>2, <1>13, <2>1, DotInt
  <2>3. c \in Int
    BY <1>10
  <2>4. q \in Int /\ Cong(p, q) /\ Cong(q, c)
    BY <1>11, <1>13
  <2> HIDE DEF p, c, q
  <2>5. Cong(p, c)
    BY <2>2, <2>3, <2>4, CongFacts
  <2> QED
    BY <2>5 DEF p, c
<1>15. \A i \in V : x[i] \in Int /\ Cong(x[i], s[i] + f[i])
  <2> SUFFICES ASSUME NEW i \in V PROVE x[i] \in Int /\ Cong(x[i], s[i] + f[i])
    OBVIOUS
  <2> DEFINE p == s[i] + f[i]
  <2>1. p \in Int
    BY <1>5, <1>9, <1>13 DEF Ints
  <2>2. x[i] = p % Prime
    BY <1>8, <1>9
  <2> HIDE DEF p
  <2>3. x[i] \in Int /\ Cong(x[i], p)
    BY <2>1, <2>2, ModFacts
  <2> QED
    BY <2>3 DEF p
<1>16. Ints(x, Rows)
  <2>1. ASSUME NEW i \in Rows, i \notin V PROVE x[i] \in Int
    BY <1>5, <1>8, <1>9, <2>1 DEF Ints
  <2> QED
    BY <1>15, <2>1 DEF Ints
<1> QED
  BY <1>13, <1>14, <1>15, <1>16 DEF V, U, Rows, a, s, r, x

\* A whole step and its copies: the void rows of an element are balanced, and the
\* material rows change as its assembled equations say.
LEMMA ElementStep ==
  ASSUME EquationsOK, NEW e \in Elements,
         NEW y, Ints(y, AllNodes), NEW d, Ints(d, AllNodes), NEW store, CopiesOK(store),
         NEW x, Ints(x, AllNodes), NEW new, CopiesOK(new),
         \A j \in AllNodes : Cong(x[j], y[j] + d[j]),
         e \in Factored => new[e] = Recovered(e, y, d, store)
  PROVE  /\ \A i \in VoidRows(e) : Residual(e, ElementSolution(e, x, new))[i] = 0
         /\ \A i \in MaterialRows(e) :
              /\ Residual(e, ElementSolution(e, x, new))[i] \in Int
              /\ ElementResidual(e, y, store)[i] \in Int
              /\ Ints(ElementJacobian(e)[i], NodesOf[e])
              /\ Cong(Residual(e, ElementSolution(e, x, new))[i],
                      ElementResidual(e, y, store)[i]
                        + Dot(ElementJacobian(e)[i], d, NodesOf[e]))
<1> DEFINE s == ElementSolution(e, y, store)
           t == ElementSolution(e, x, new)
           Rows == NodesOf[e]
           V == VoidRows(e)
           U == MaterialRows(e)
<1>1. /\ V \in SUBSET Rows /\ U \in SUBSET Rows /\ U = Rows \ V /\ Rows \in SUBSET AllNodes
      /\ e \notin Factored => V = {}
  BY MeshFacts, AllNodesFacts
<1>2. /\ Ints(s, Rows) /\ Ints(t, Rows)
      /\ \A i \in U : s[i] = y[i] /\ t[i] = x[i]
      /\ \A i \in V : s[i] = store[e][i] /\ t[i] = new[e][i]
  BY ElementSolutionFacts
<1>3. Ints(d, Rows)
  BY <1>1 DEF Ints
<1>4. \A j \in U : Cong(t[j], s[j] + d[j])
  BY <1>1, <1>2
<1>5. ElementResidual(e, y, store)
        = IF e \in Factored THEN CondensedResidual(e, Residual(e, s)) ELSE Residual(e, s)
  BY DEF ElementResidual
<1> HIDE DEF s, t
<1>6. Ints(Residual(e, s), Rows) /\ Ints(Residual(e, t), Rows)
  BY <1>2, ResidualFacts
<1>7. CASE e \notin Factored
  <2>1. U = Rows /\ ElementJacobian(e) = Jacobian(e) /\ ElementResidual(e, y, store) = Residual(e, s)
    BY <1>1, <1>5, <1>7 DEF ElementJacobian
  <2>2. \A i \in Rows : Cong(Residual(e, t)[i], Residual(e, s)[i] + Dot(Jacobian(e)[i], d, Rows))
    <3>1. \A j \in Rows : Cong(t[j], s[j] + d[j])
      BY <1>4, <2>1
    <3> QED
      BY <1>2, <1>3, <3>1, ResidualMoves
  <2>3. \A i \in Rows : Ints(Jacobian(e)[i], Rows)
    BY JacobianFacts DEF Matrix
  <2> QED
    BY <1>1, <1>6, <1>7, <2>1, <2>2, <2>3 DEF Ints, t
<1>8. CASE e \in Factored
  <2>1. ElementJacobian(e) = CondensedJacobian(e)
        /\ ElementResidual(e, y, store) = CondensedResidual(e, Residual(e, s))
    BY <1>5, <1>8 DEF ElementJacobian
  <2>2. PICK f : /\ Ints(f, V)
                 /\ \A i \in V :
                      /\ Cong(Dot(Jacobian(e)[i], f, V),
                              (-1) * Residual(e, s)[i] + (-1) * Dot(Jacobian(e)[i], d, U))
                      /\ Cong(Recovered(e, y, d, store)[i], s[i] + f[i])
    BY <1>8, RecoveredFacts DEF s
  <2>3. \A j \in V : Cong(t[j], s[j] + f[j])
    BY <1>2, <1>8, <2>2
  <2>4. /\ \A i \in V : Residual(e, t)[i] = 0
        /\ \A i \in U : Cong(Residual(e, t)[i],
                             CondensedResidual(e, Residual(e, s))[i]
                               + Dot(CondensedJacobian(e)[i], d, Rows))
    BY <1>2, <1>3, <1>4, <1>8, <2>2, <2>3, FactoredStep
  <2>5. \A i \in U : CondensedResidual(e, Residual(e, s))[i] \in Int
    <3> DEFINE r == Residual(e, s)
    <3>1. Ints(r, Rows)
      BY <1>6
    <3> HIDE DEF r
    <3>2. \A i \in U : CondensedResidual(e, r)[i] \in Int
      BY <1>8, <3>1, CondensedFacts
    <3> QED
      BY <3>2 DEF r
  <2>6. \A i \in U : Ints(CondensedJacobian(e)[i], Rows)
    BY <1>8, CondensedJacobianFacts
  <2> QED
    BY <1>1, <1>6, <2>1, <2>4, <2>5, <2>6 DEF Ints, t
<1> QED
  BY <1>7, <1>8

\* The assembled equations of a material node are the sums over its elements.
LEMMA AssembledRow ==
  ASSUME NEW i \in AllNodes, NEW d, Ints(d, AllNodes),
         \A e \in With(i) : Ints(ElementJacobian(e)[i], NodesOf[e])
  PROVE  /\ Ints(AssembledJacobian[i], AllNodes)
         /\ Cong(Total([e \in With(i) |-> Dot(ElementJacobian(e)[i], d, NodesOf[e])], With(i)),
                 Dot(AssembledJacobian[i], d, AllNodes))
<1> DEFINE W == With(i)
           row(e) == ElementJacobian(e)[i]
           a == AssembledJacobian[i]
           g == [e \in W |-> [m \in AllNodes |->
                   IF m \in NodesOf[e] THEN row(e)[m] * d[m] ELSE 0]]
           p == [e \in W |-> Total([m \in AllNodes |-> g[e][m]], AllNodes)]
           q == [m \in AllNodes |-> Total([e \in W |-> g[e][m]], W)]
           h == [e \in W |-> Dot(row(e), d, NodesOf[e])]
           c == [m \in AllNodes |-> a[m] * d[m]]
<1>1. /\ IsFiniteSet(AllNodes) /\ IsFiniteSet(W)
      /\ \A e \in W : e \in Elements /\ NodesOf[e] \in SUBSET AllNodes /\ IsFiniteSet(NodesOf[e])
  BY AllNodesFacts, MeshFacts
<1>2. \A m \in AllNodes : d[m] \in Int
  BY DEF Ints
<1>3. \A e \in W : \A m \in NodesOf[e] : row(e)[m] \in Int /\ row(e)[m] * d[m] \in Int
  <2> HIDE DEF W
  <2> SUFFICES ASSUME NEW e \in W, NEW m \in NodesOf[e]
               PROVE  row(e)[m] \in Int /\ row(e)[m] * d[m] \in Int
    OBVIOUS
  <2>1. row(e)[m] \in Int /\ d[m] \in Int
    BY <1>1, <1>2 DEF Ints, W
  <2> QED
    BY <2>1
<1>4. \A m \in AllNodes : a[m] = Sum([e \in W \cap With(m) |-> row(e)[m]])
  BY DEF AssembledJacobian
<1> HIDE DEF W, row, a
<1>5. \A e \in W : \A m \in AllNodes : g[e][m] \in Int
  BY <1>3
<1>6. \A e \in W : p[e] \in Int /\ h[e] \in Int /\ Cong(h[e], p[e])
  <2> SUFFICES ASSUME NEW e \in W PROVE p[e] \in Int /\ h[e] \in Int /\ Cong(h[e], p[e])
    OBVIOUS
  <2> DEFINE n == [m \in AllNodes |-> g[e][m]]
             k == [m \in NodesOf[e] |-> row(e)[m] * d[m]]
             Rows == NodesOf[e]
  <2>1. \A m \in AllNodes : n[m] \in Int
    BY <1>5
  <2>2. \A m \in Rows : k[m] = n[m] /\ k[m] \in Int /\ n[m] \in Int
    BY <1>1, <1>3
  <2>3. \A m \in AllNodes \ Rows : n[m] = 0
    OBVIOUS
  <2>4. p[e] = Total(n, AllNodes) /\ h[e] = Total(k, Rows)
    BY DEF Dot
  <2>5. Rows \in SUBSET AllNodes /\ IsFiniteSet(Rows)
    BY <1>1
  <2> HIDE DEF n, k, p, h, Rows
  <2>6. Cong(Total(n, AllNodes), Total(n, Rows))
    <3>1. \A m \in AllNodes \ Rows : Cong(n[m], 0)
      BY <2>3, CongFacts, 0 \in Int
    <3> QED
      BY <1>1, <2>1, <2>5, <3>1, TotalOver
  <2>7. Cong(Total(k, Rows), Total(n, Rows))
    <3>1. \A m \in Rows : Cong(k[m], n[m])
      BY <2>2, CongFacts
    <3> QED
      BY <2>2, <2>5, <3>1, TotalSame
  <2>8. Total(n, AllNodes) \in Int /\ Total(n, Rows) \in Int /\ Total(k, Rows) \in Int
    BY <1>1, <2>1, <2>2, <2>5, TotalFacts
  <2>9. Cong(Total(k, Rows), Total(n, AllNodes))
    BY <2>6, <2>7, <2>8, CongFacts
  <2> QED
    BY <2>4, <2>8, <2>9
<1>7. \A m \in AllNodes : /\ q[m] \in Int /\ a[m] \in Int /\ c[m] \in Int
                          /\ Cong(q[m], c[m])
  <2> SUFFICES ASSUME NEW m \in AllNodes
               PROVE  q[m] \in Int /\ a[m] \in Int /\ c[m] \in Int /\ Cong(q[m], c[m])
    OBVIOUS
  <2> DEFINE Q == W \cap With(m)
             n == [e \in W |-> g[e][m]]
             k == [e \in Q |-> row(e)[m]]
             u == Total(k, Q)
  <2>1. Q \in SUBSET W /\ IsFiniteSet(Q) /\ \A e \in W : e \in Q <=> m \in NodesOf[e]
    <3>1. \A e \in W : e \in With(m) <=> m \in NodesOf[e]
      BY <1>1 DEF With
    <3> QED
      BY <1>1, <3>1, FS_Subset
  <2>2. \A e \in W : n[e] \in Int
    BY <1>5
  <2>3. \A e \in Q : k[e] \in Int /\ n[e] = d[m] * k[e] /\ n[e] \in Int
    <3> SUFFICES ASSUME NEW e \in Q
                 PROVE  k[e] \in Int /\ n[e] = d[m] * k[e] /\ n[e] \in Int
      OBVIOUS
    <3>1. m \in NodesOf[e] /\ e \in W
      BY <2>1
    <3>2. k[e] = row(e)[m] /\ n[e] = row(e)[m] * d[m]
      BY <3>1
    <3>3. row(e)[m] \in Int /\ d[m] \in Int
      BY <1>2, <1>3, <3>1
    <3> QED
      BY <3>2, <3>3
  <2>4. \A e \in W \ Q : n[e] = 0
    BY <2>1
  <2>5. q[m] = Total(n, W) /\ a[m] = u % Prime /\ c[m] = a[m] * d[m]
    BY <1>4 DEF Sum, Total
  <2> HIDE DEF n, k, q, Q, c
  <2>6. Cong(Total(n, W), Total(n, Q))
    <3>1. \A e \in W \ Q : Cong(n[e], 0)
      BY <2>4, CongFacts, 0 \in Int
    <3> QED
      BY <1>1, <2>1, <2>2, <3>1, TotalOver
  <2>7. Cong(Total(n, Q), d[m] * u)
    <3>1. \A e \in Q : Cong(n[e], d[m] * k[e])
      BY <2>3, CongFacts
    <3> QED
      BY <1>2, <2>1, <2>3, <3>1, TotalScale
  <2>8. Total(n, W) \in Int /\ Total(n, Q) \in Int /\ u \in Int
    BY <1>1, <2>1, <2>2, <2>3, TotalFacts
  <2> HIDE DEF u
  <2>9. a[m] \in Int /\ Cong(a[m], u)
    BY <2>5, <2>8, ModFacts
  <2> DEFINE x == Total(n, W)
             y == Total(n, Q)
             z == a[m]
             b == d[m]
  <2>10. x \in Int /\ y \in Int /\ z \in Int /\ b \in Int
    BY <1>2, <2>8, <2>9
  <2> HIDE DEF x, y, z, b
  <2>11. PICK c1 \in Int : x = y + c1 * Prime
    BY <2>6 DEF Cong, x, y
  <2>12. PICK c2 \in Int : y = b * u + c2 * Prime
    BY <2>7 DEF Cong, y, b
  <2>13. PICK c3 \in Int : z = u + c3 * Prime
    BY <2>9 DEF Cong, z
  <2>14. x = z * b + (c1 + c2 - b * c3) * Prime /\ z * b \in Int /\ c1 + c2 - b * c3 \in Int
    BY <2>8, <2>10, <2>11, <2>12, <2>13, PrimeFacts
  <2>15. Cong(x, z * b) /\ z * b \in Int
    BY <2>14 DEF Cong
  <2> QED
    BY <2>5, <2>8, <2>9, <2>15 DEF x, z, b
<1>8. Cong(Total(p, W), Total(q, AllNodes))
  <2> HIDE DEF g
  <2> QED
    BY <1>1, <1>5, TotalExchange
<1>9. Dot(a, d, AllNodes) = Total(c, AllNodes)
  BY DEF Dot
<1> HIDE DEF p, q, h, c
<1>10. Cong(Total(h, W), Total(p, W))
  BY <1>1, <1>6, TotalSame
<1>11. Cong(Total(q, AllNodes), Total(c, AllNodes))
  BY <1>1, <1>7, TotalSame, CongFacts
<1>12. /\ Total(h, W) \in Int /\ Total(p, W) \in Int
       /\ Total(q, AllNodes) \in Int /\ Total(c, AllNodes) \in Int
  BY <1>1, <1>6, <1>7, TotalFacts
<1>13. Cong(Total(h, W), Total(c, AllNodes))
  BY <1>8, <1>10, <1>11, <1>12, CongFacts
<1>14. Ints(a, AllNodes)
  BY <1>7 DEF Ints
<1> QED
  BY <1>9, <1>13, <1>14 DEF h, W, row, a

\* The equations with independent copies, at the solution y and copies store.
BalancedAt(y, store) ==
  /\ \A i \in AllNodes \ VoidNodes :
       Sum([e \in With(i) |-> Residual(e, ElementSolution(e, y, store))[i]]) = 0
  /\ \A e \in Factored : \A i \in VoidRows(e) : Residual(e, ElementSolution(e, y, store))[i] = 0

\* d solves the assembled equations at y and store.
SolvesAssembled(y, store, d) ==
  \A i \in AllNodes :
    (Sum([j \in AllNodes |-> AssembledJacobian[i][j] * d[j]])
      + Assembled(y, store)[i]) % Prime = 0

\* A whole step of the assembled equations, with the copies recovered from it,
\* solves the equations with independent copies.
LEMMA StepBalances ==
  ASSUME EquationsOK,
         NEW y, Ints(y, AllNodes), NEW d, Ints(d, AllNodes), NEW store, CopiesOK(store),
         NEW x, Ints(x, AllNodes), NEW new, CopiesOK(new),
         \A j \in AllNodes : Cong(x[j], y[j] + d[j]),
         \A e \in Factored : new[e] = Recovered(e, y, d, store),
         SolvesAssembled(y, store, d)
  PROVE  BalancedAt(x, new)
<1>1. ASSUME NEW e \in Elements
      PROVE  /\ \A i \in VoidRows(e) : Residual(e, ElementSolution(e, x, new))[i] = 0
             /\ \A i \in MaterialRows(e) :
                  /\ Residual(e, ElementSolution(e, x, new))[i] \in Int
                  /\ ElementResidual(e, y, store)[i] \in Int
                  /\ Ints(ElementJacobian(e)[i], NodesOf[e])
                  /\ Cong(Residual(e, ElementSolution(e, x, new))[i],
                          ElementResidual(e, y, store)[i]
                            + Dot(ElementJacobian(e)[i], d, NodesOf[e]))
  BY ElementStep
<1>2. \A e \in Factored : \A i \in VoidRows(e) : Residual(e, ElementSolution(e, x, new))[i] = 0
  BY <1>1, MeshAssumption
<1>3. ASSUME NEW i \in AllNodes \ VoidNodes
      PROVE  Sum([e \in With(i) |-> Residual(e, ElementSolution(e, x, new))[i]]) = 0
  <2> DEFINE W == With(i)
             p == [e \in W |-> Residual(e, ElementSolution(e, x, new))[i]]
             q == [e \in W |-> ElementResidual(e, y, store)[i]]
             h == [e \in W |-> Dot(ElementJacobian(e)[i], d, NodesOf[e])]
             a == AssembledJacobian[i]
  <2>1. IsFiniteSet(W) /\ \A e \in W : e \in Elements /\ i \in MaterialRows(e)
    BY AllNodesFacts DEF MaterialRows
  <2>2. \A e \in W : Ints(ElementJacobian(e)[i], NodesOf[e])
    BY <1>1, <2>1
  <2>3. /\ Ints(a, AllNodes)
        /\ Cong(Total(h, W), Dot(a, d, AllNodes))
    BY <2>2, AssembledRow
  <2>4. \A e \in W : p[e] \in Int /\ q[e] \in Int /\ h[e] \in Int /\ Cong(p[e], q[e] + 1 * h[e])
    <3> SUFFICES ASSUME NEW e \in W
                 PROVE  /\ p[e] \in Int /\ q[e] \in Int /\ h[e] \in Int
                        /\ Cong(p[e], q[e] + 1 * h[e])
      OBVIOUS
    <3>1. p[e] \in Int /\ q[e] \in Int /\ Cong(p[e], q[e] + h[e])
      BY <1>1, <2>1
    <3>2. h[e] \in Int
      <4>1. Ints(d, NodesOf[e]) /\ IsFiniteSet(NodesOf[e])
        BY <2>1, AllNodesFacts, MeshFacts DEF Ints
      <4> QED
        BY <2>2, <4>1, DotInt
    <3> HIDE DEF p, q, h
    <3>3. 1 * h[e] = h[e]
      BY <3>2
    <3> QED
      BY <3>1, <3>2, <3>3
  <2>5. Assembled(y, store)[i] = Total(q, W) % Prime
    BY DEF Assembled, Sum, Total
  <2>6. ((Dot(a, d, AllNodes) % Prime) + (Total(q, W) % Prime)) % Prime = 0
    BY <2>5, SumIsDot DEF SolvesAssembled
  <2>7. Sum(p) = Total(p, W) % Prime
    BY DEF Sum, Total
  <2> HIDE DEF p, q, h, a, W
  <2>8. Cong(Total(p, W), Total(q, W) + 1 * Total(h, W))
    BY <2>1, <2>4, TotalCong, 1 \in Int
  <2> DEFINE b == Total(p, W)
             f == Total(q, W)
             g == Total(h, W)
             k == Dot(a, d, AllNodes)
  <2>9. b \in Int /\ f \in Int /\ g \in Int /\ k \in Int
    BY <2>1, <2>3, <2>4, AllNodesFacts, TotalFacts, DotInt
  <2> HIDE DEF b, f, g, k
  <2> DEFINE l == k % Prime
             m == f % Prime
  <2>10. l \in Int /\ Cong(l, k) /\ m \in Int /\ Cong(m, f)
    BY <2>9, ModFacts
  <2>11. (l + m) % Prime = 0
    BY <2>6 DEF k, f
  <2> HIDE DEF l, m
  <2>12. Cong(l + m, 0)
    <3>1. 0 % Prime = 0 /\ l + m \in Int
      BY <2>10, PrimeFacts
    <3> DEFINE n == l + m
    <3>2. n \in Int /\ n % Prime = 0 % Prime
      BY <2>11, <3>1
    <3> HIDE DEF n
    <3>3. Cong(n, 0)
      BY <3>2, ModEqual, 0 \in Int
    <3> QED
      BY <3>3 DEF n
  <2>13. PICK c1 \in Int : b = (f + 1 * g) + c1 * Prime
    BY <2>8 DEF Cong, b, f, g
  <2>14. PICK c2 \in Int : g = k + c2 * Prime
    BY <2>3 DEF Cong, g, k
  <2>15. PICK c3 \in Int : l = k + c3 * Prime
    BY <2>10 DEF Cong
  <2>16. PICK c4 \in Int : m = f + c4 * Prime
    BY <2>10 DEF Cong
  <2>17. PICK c5 \in Int : l + m = 0 + c5 * Prime
    BY <2>12 DEF Cong
  <2>18. b = 0 + (c1 + c2 - c3 - c4 + c5) * Prime
    BY <2>9, <2>10, <2>13, <2>14, <2>15, <2>16, <2>17, PrimeFacts
  <2>19. Cong(b, 0)
    BY <2>18 DEF Cong
  <2>20. b % Prime = 0 % Prime /\ 0 % Prime = 0
    BY <2>9, <2>19, ModEqual, PrimeFacts, 0 \in Int
  <2> QED
    BY <2>7, <2>20 DEF b, p, W
<1> QED
  BY <1>2, <1>3 DEF BalancedAt

\* The types of the state.
FactoredTypes ==
  /\ stiffness \in {a \in Stiffnesses : Regular(a)}
  /\ load \in Loads
  /\ solution \in [AllNodes -> Int]
  /\ old \in [AllNodes -> Int]
  /\ step \in [AllNodes -> Int]
  /\ full \in BOOLEAN
  /\ copies = [e \in Factored |-> copies[e]]
  /\ \A e \in Factored : copies[e] \in [NodesOf[e] -> Int]
  /\ iterations \in 0..MaxIterations
  /\ phase \in {"start", "iterate", "monitor"}

\* What the monitor and the next iteration find: "old_solution" is the solution of
\* the monitor call before, the reported step solves the equations assembled there,
\* and the solution has moved by all of it if the line search kept it.
FactoredInv ==
  /\ FactoredTypes
  /\ phase = "iterate" => old = solution
  /\ phase = "monitor" =>
       /\ SolvesAssembled(old, copies, step)
       /\ full => \A i \in AllNodes : solution[i] = (old[i] + step[i]) % Prime
  /\ phase = "iterate" /\ iterations > 0 /\ full => BalancedAt(solution, copies)

\* What the types give to the lemmas about the equations.
LEMMA TypesGive ==
  ASSUME FactoredTypes
  PROVE  EquationsOK /\ Ints(solution, AllNodes) /\ Ints(old, AllNodes)
         /\ Ints(step, AllNodes) /\ CopiesOK(copies)
<1>1. EquationsOK
  BY EquationsAssumption DEF FactoredTypes, EquationsOK, Matrix, Ints
<1> QED
  BY <1>1 DEF FactoredTypes, Ints, CopiesOK

\* The equations of the next state are those of this one, as long as nobody
\* changes the element equations.
LEMMA EquationsPrimed ==
  ASSUME stiffness' = stiffness, load' = load
  PROVE  /\ BalancedAt(solution, copies)' <=> BalancedAt(solution', copies')
         /\ SolvesAssembled(old, copies, step)' <=> SolvesAssembled(old', copies', step')
<1>1. BalancedAt(solution, copies)' <=> BalancedAt(solution', copies')
  BY DEF BalancedAt, Residual, ElementSolution
<1>2. SolvesAssembled(old, copies, step)' <=> SolvesAssembled(old', copies', step')
  BY DEF SolvesAssembled, AssembledJacobian, ElementJacobian, CondensedJacobian, Jacobian,
         Assembled, ElementResidual, CondensedResidual, Residual, ElementSolution
<1> QED
  BY <1>1, <1>2

\* The initial states satisfy the invariant.
LEMMA FactoredInitial == FactoredInit => FactoredInv
<1> SUFFICES ASSUME FactoredInit PROVE FactoredInv
  OBVIOUS
<1>1. PICK v \in Starts : solution = [i \in AllNodes |-> v]
  BY DEF FactoredInit
<1>2. v \in Int
  BY EquationsAssumption
<1>3. solution \in [AllNodes -> Int] /\ Zero \in [AllNodes -> Int]
  BY <1>1, <1>2 DEF Zero
<1>4. /\ copies = [e \in Factored |-> [i \in NodesOf[e] |-> 0]]
      /\ copies = [e \in Factored |-> copies[e]]
      /\ \A e \in Factored : copies[e] \in [NodesOf[e] -> Int]
  BY DEF FactoredInit, NoCopies
<1>5. 0 \in 0..MaxIterations
  BY SizesAssumption
<1> QED
  BY <1>3, <1>4, <1>5 DEF FactoredInit, FactoredInv, FactoredTypes

\* An iteration: the reported step solves the equations assembled at the solution.
LEMMA IterateKeeps ==
  ASSUME FactoredInv, NEW c \in {1, 2}, Iterate(c)
  PROVE  FactoredInv'
<1> DEFINE steps == Steps
<1>1. /\ phase = "iterate" /\ iterations < MaxIterations
      /\ Cardinality(steps) = 1 /\ step' = (CHOOSE d \in steps : TRUE)
      /\ full' = (c = 1)
      /\ solution' = [i \in AllNodes |-> (solution[i] + c * step'[i]) % Prime]
      /\ iterations' = iterations + 1 /\ phase' = "monitor"
      /\ stiffness' = stiffness /\ load' = load /\ old' = old /\ copies' = copies
  BY DEF Iterate
<1>2. FactoredTypes /\ old = solution
  BY <1>1 DEF FactoredInv
<1>3. steps # {}
  BY <1>1, FS_EmptySet
<1>4. step' \in steps
  BY <1>1, <1>3
<1>5. /\ step' \in [AllNodes -> Field]
      /\ SolvesAssembled(solution, copies, step')
  BY <1>4 DEF Steps, SolvesAssembled
<1>6. step' \in [AllNodes -> Int]
  BY <1>5, PrimeFacts DEF Field
<1>7. \A i \in AllNodes : solution[i] \in Int /\ step'[i] \in Int
  BY <1>2, <1>6 DEF FactoredTypes
<1>8. \A i \in AllNodes : (solution[i] + c * step'[i]) % Prime \in Int
  BY <1>7, PrimeFacts
<1>9. solution' \in [AllNodes -> Int]
  BY <1>1, <1>8
<1>10. iterations' \in 0..MaxIterations
  BY <1>1, <1>2, SizesAssumption DEF FactoredTypes
<1>11. FactoredTypes'
  BY <1>1, <1>2, <1>6, <1>9, <1>10 DEF FactoredTypes
<1>12. SolvesAssembled(old, copies, step)'
  BY <1>1, <1>2, <1>5, EquationsPrimed
<1>13. full' => \A i \in AllNodes : solution'[i] = (old'[i] + step'[i]) % Prime
  <2> SUFFICES ASSUME full', NEW i \in AllNodes
               PROVE  solution'[i] = (old'[i] + step'[i]) % Prime
    OBVIOUS
  <2>1. c = 1
    BY <1>1
  <2>2. c * step'[i] = step'[i]
    BY <1>7, <2>1
  <2> QED
    BY <1>1, <1>2, <2>2
<1> QED
  BY <1>1, <1>11, <1>12, <1>13 DEF FactoredInv

\* The monitor call after an iteration: the recovered copies solve the equations
\* of the void nodes, and the whole step those of the material nodes.
LEMMA MonitorKeeps ==
  ASSUME FactoredInv, Monitor
  PROVE  FactoredInv'
<1>1. /\ phase = "monitor" /\ phase' = "iterate"
      /\ copies' = [e \in Factored |-> Recovered(e, old, step, copies)]
      /\ old' = solution
      /\ stiffness' = stiffness /\ load' = load /\ solution' = solution /\ step' = step
      /\ full' = full /\ iterations' = iterations
  BY DEF Monitor
<1>2. /\ FactoredTypes
      /\ SolvesAssembled(old, copies, step)
      /\ full => \A i \in AllNodes : solution[i] = (old[i] + step[i]) % Prime
  BY <1>1 DEF FactoredInv
<1>3. EquationsOK /\ Ints(solution, AllNodes) /\ Ints(old, AllNodes)
      /\ Ints(step, AllNodes) /\ CopiesOK(copies)
  BY <1>2, TypesGive
<1>4. \A e \in Factored : Ints(Recovered(e, old, step, copies), NodesOf[e])
  BY <1>3, RecoveredFacts
<1>5. \A e \in Factored : copies'[e] = Recovered(e, old, step, copies)
  BY <1>1
<1>6. CopiesOK(copies')
  BY <1>4, <1>5 DEF CopiesOK
<1>7. \A e \in Factored :
        Recovered(e, old, step, copies)
          = [i \in NodesOf[e] |-> Recovered(e, old, step, copies)[i]]
  BY DEF Recovered
<1>8. \A e \in Factored : copies'[e] \in [NodesOf[e] -> Int]
  BY <1>4, <1>5, <1>7 DEF Ints
<1>9. FactoredTypes'
  BY <1>1, <1>2, <1>8 DEF FactoredTypes
<1>10. ASSUME full PROVE BalancedAt(solution, copies)'
  <2>1. ASSUME NEW i \in AllNodes PROVE Cong(solution[i], old[i] + step[i])
    <3>1. old[i] \in Int /\ step[i] \in Int
      BY <1>3 DEF Ints
    <3> DEFINE s == old[i] + step[i]
    <3>2. s \in Int /\ solution[i] = s % Prime
      BY <3>1, <1>2, <1>10
    <3> HIDE DEF s
    <3>3. Cong(s % Prime, s)
      BY <3>2, ModFacts
    <3> QED
      BY <3>2, <3>3 DEF s
  <2>2. BalancedAt(solution, copies')
    BY <1>2, <1>3, <1>5, <1>6, <2>1, StepBalances
  <2> QED
    BY <1>1, <2>2, EquationsPrimed
<1> QED
  BY <1>1, <1>9, <1>10 DEF FactoredInv

\* Every step of the system keeps the invariant.
LEMMA FactoredInductive == FactoredInv /\ [FactoredNext]_factoredVars => FactoredInv'
<1> SUFFICES ASSUME FactoredInv, [FactoredNext]_factoredVars PROVE FactoredInv'
  OBVIOUS
<1>1. CASE SetLevelSet
  <2>1. copies' = [e \in Factored |-> copies'[e]]
        /\ \A e \in Factored : copies'[e] \in [NodesOf[e] -> Int]
    BY <1>1 DEF SetLevelSet, NoCopies
  <2> QED
    BY <1>1, <2>1 DEF SetLevelSet, FactoredInv, FactoredTypes
<1>2. CASE MonitorFirst
  <2>1. 0 \in 0..MaxIterations
    BY SizesAssumption
  <2> QED
    BY <1>2, <2>1 DEF MonitorFirst, FactoredInv, FactoredTypes
<1>3. CASE \E c \in {1, 2} : Iterate(c)
  BY <1>3, IterateKeeps
<1>4. CASE Monitor
  BY <1>4, MonitorKeeps
<1>5. CASE \E loads \in Loads : Return(loads)
  <2>1. 0 \in 0..MaxIterations
    BY SizesAssumption
  <2> QED
    BY <1>5, <2>1 DEF Return, FactoredInv, FactoredTypes
<1>6. CASE UNCHANGED factoredVars
  <2>1. stiffness' = stiffness /\ load' = load /\ solution' = solution /\ copies' = copies
        /\ old' = old /\ step' = step
    BY <1>6 DEF factoredVars
  <2>2. /\ BalancedAt(solution, copies)' <=> BalancedAt(solution, copies)
        /\ SolvesAssembled(old, copies, step)' <=> SolvesAssembled(old, copies, step)
    BY <2>1, EquationsPrimed
  <2>3. FactoredTypes'
    BY <1>6 DEF factoredVars, FactoredInv, FactoredTypes
  <2> QED
    BY <1>6, <2>1, <2>2, <2>3 DEF factoredVars, FactoredInv
<1> QED
  BY <1>1, <1>2, <1>3, <1>4, <1>5, <1>6 DEF FactoredNext

\* Every reachable state of the iteration satisfies its inductive invariant: the
\* copies and the solution are what residual_and_jacobian assembled the step from.
THEOREM FactoredInvariant == FactoredSpec => []FactoredInv
  BY FactoredInitial, FactoredInductive, PTL DEF FactoredSpec

\* Condensing the void rows (residual_and_jacobian), solving for the step and
\* recovering the copies at the previous solution (update_void_solution) solves the
\* equations with independent copies: after a whole step and its monitor call every
\* material node is balanced, and so is every void node of every factored element.
THEOREM StepsSolveFullSystem == FactoredSpec => []StepSolvesFullSystem
<1>1. FactoredInv => StepSolvesFullSystem
  BY DEF FactoredInv, StepSolvesFullSystem, Balanced, BalancedAt
<1> QED
  BY <1>1, FactoredInvariant, PTL

\* The line search may assemble with copies that lag behind: the assembled residual
\* is that of any other copies at the void nodes of a factored element.
THEOREM TrialResidualsExact == FactoredSpec => []TrialResidualExact
<1>1. ASSUME FactoredInv PROVE TrialResidualExact
  <2> SUFFICES ASSUME NEW e \in Factored, NEW s \in [VoidRows(e) -> Field]
               PROVE  Assembled(solution, OtherCopies(e, s)) = Assembled(solution, copies)
    BY DEF TrialResidualExact
  <2> DEFINE other == OtherCopies(e, s)
             given == copies
  <2>1. EquationsOK /\ Ints(solution, AllNodes) /\ CopiesOK(copies)
    BY <1>1, TypesGive DEF FactoredInv
  <2>2. copies = [z \in Factored |-> copies[z]]
    BY <1>1 DEF FactoredInv, FactoredTypes
  <2>3. \A z \in Factored :
          other[z] = IF z = e THEN [i \in NodesOf[e] |-> IF i \in VoidNodes THEN s[i]
                                                         ELSE copies[e][i]]
                     ELSE copies[z]
    BY <2>2 DEF OtherCopies
  <2>4. \A i \in NodesOf[e] : i \in VoidNodes => s[i] \in Int
    BY PrimeFacts DEF VoidRows, Field
  <2>5. CopiesOK(other)
    BY <2>1, <2>3, <2>4 DEF CopiesOK, Ints
  <2> HIDE DEF other
  <2>6. ASSUME NEW z \in Elements
        PROVE  ElementResidual(z, solution, other) = ElementResidual(z, solution, copies)
    <3> DEFINE t == ElementSolution(z, solution, other)
               y == ElementSolution(z, solution, copies)
    <3>1. CASE z \notin Factored
      BY <3>1 DEF ElementResidual, ElementSolution
    <3>2. CASE z \in Factored
      <4>1. /\ Ints(t, NodesOf[z]) /\ Ints(y, NodesOf[z])
            /\ \A j \in MaterialRows(z) : t[j] = y[j]
        BY <2>1, <2>5, ElementSolutionFacts
      <4> HIDE DEF t, y
      <4>2. CondensedResidual(z, Residual(z, t)) = CondensedResidual(z, Residual(z, y))
        BY <2>1, <3>2, <4>1, CondensedIgnoresVoid
      <4> QED
        BY <3>2, <4>2 DEF ElementResidual, t, y
    <3> QED
      BY <3>1, <3>2
  <2>7. \A i \in AllNodes :
          [z \in With(i) |-> ElementResidual(z, solution, other)[i]]
            = [z \in With(i) |-> ElementResidual(z, solution, copies)[i]]
    BY <2>6, AllNodesFacts
  <2>8. Assembled(solution, other) = Assembled(solution, copies)
    BY <2>7 DEF Assembled
  <2> QED
    BY <2>8 DEF other
<1> QED
  BY <1>1, FactoredInvariant, PTL
=============================================================================
