------------------------ MODULE LevelSetIntersection ------------------------
(***************************************************************************)
(* MAST::LevelSetIntersection: the object that cuts one quadrilateral by   *)
(* the zero contour of a level set.  The level-set assemblies and          *)
(* LevelSetConstrainDofs keep one such object and, for every element of    *)
(* the mesh, call init, read the sub-elements and call clear.              *)
(*                                                                         *)
(* Nodes are <<"N", i>> for the corners of the element and <<"M", j>> for  *)
(* the j-th new node.  Side i joins corners i and i+1.  Points have        *)
(* integer coordinates: a cut divides a side at k/Cells of its length, and *)
(* the corners are multiples of Cells, so every position is an integer.    *)
(* Reference coordinates are scaled by Cells (the square [-Cells,Cells]^2).*)
(*                                                                         *)
(* Abstracted: the regula-falsi search on a side returns some interior     *)
(* point; phi at the corners is one of Values, phi at the other nodes of a *)
(* nine-node element (they only enter the minimum and the maximum) is the  *)
(* set `inner', phi at the centroid is `mid'.  Values that equal the       *)
(* tolerance exactly are left out: the code mixes < and <= there.          *)
(***************************************************************************)
EXTENDS Integers, Sequences, FiniteSets

CONSTANTS
    Corner,     \* [0..3 -> <<x, y>>]: the corners, counter-clockwise
    Cells,      \* number of positions a cut can take on a side, plus one
    Values,     \* values of the level set at a node
    Tol,        \* _tol: below it a node is on the level set
    MaxElems    \* _max_elem_divs

ASSUME CellsAssumption == Cells \in Nat \ {0, 1}
ASSUME ValuesAssumption == Values \subseteq Int /\ IsFiniteSet(Values) /\ Tol \in Nat \ {0}
                           /\ \A v \in Values : v # Tol /\ v # -Tol
ASSUME RoomAssumption == MaxElems \in Nat /\ MaxElems >= 4

Corners == 0..3

\* Twice the signed area of the triangle p, q, r.
Turn(p, q, r) == (q[1] - p[1]) * (r[2] - p[2]) - (q[2] - p[2]) * (r[1] - p[1])

\* A convex quadrilateral, scaled so that cuts have integer coordinates.
ASSUME CornerAssumption ==
    /\ Corner \in [Corners -> Int \X Int]
    /\ \A i \in Corners : Corner[i][1] % Cells = 0 /\ Corner[i][2] % Cells = 0
    /\ \A i \in Corners : Turn(Corner[i], Corner[(i + 1) % 4], Corner[(i + 2) % 4]) > 0

Modes == {"NO_INTERSECTION", "THROUGH_NODE", "COLINEAR_EDGE", "ADJACENT_EDGES",
          "OPPOSITE_EDGES", "OPPOSITE_NODES", "NODE_AND_EDGE",
          "NODE_AND_TWO_EDGES", "TWO_ADJACENT_EDGES"}

VARIABLES
    stage,          \* "clear", "evaluated" (within init, the node values are
                    \* known), "initialized" or "aborted" (libmesh_error, assert)
    kind,           \* "QUAD4" or "QUAD9": type of the element last given to init
    phi,            \* _node_phi_vals at the corners
    inner,          \* phi at the other nodes of the element
    mid,            \* phi at the centroid
    xi,             \* where the search found the cut, for the sides that have one
    mode,           \* _mode
    onPositive,     \* _if_elem_on_positive_phi
    onNegative,     \* _if_elem_on_negative_phi
    newNodes,       \* _new_nodes: sequence of [at, local]
    newElems,       \* number of _new_elems
    positive,       \* _positive_phi_elems, each with its _elem_sides_on_interface
    negative        \* _negative_phi_elems

element == <<kind, phi, inner, mid, xi>>
result == <<mode, onPositive, onNegative, newNodes, newElems, positive, negative>>
vars == <<stage, element, result>>

N(i) == <<"N", i % 4>>
M(j) == <<"M", j>>

\* A sub-element: its nodes, counter-clockwise, and the side on the interface.
\* NoSide is the entry -1; NoEntry means that the map has no entry.
Piece(nodes, side) == [nodes |-> nodes, side |-> side]
NoSide == -1
NoEntry == -2
Whole(side) == Piece(<<N(0), N(1), N(2), N(3)>>, side)

OnLevelSet(v) == v < Tol /\ -v < Tol
Lowest(S) == CHOOSE x \in S : \A y \in S : x <= y
Highest(S) == CHOOSE x \in S : \A y \in S : y <= x
MinValue == Lowest({phi[i] : i \in Corners} \cup inner)
MaxValue == Highest({phi[i] : i \in Corners} \cup inner)
SignChange == MinValue < -Tol /\ MaxValue > Tol
NodeCut(i) == OnLevelSet(phi[i % 4])
OppositeSigns(v, w) == (v < -Tol /\ w > Tol) \/ (v > Tol /\ w < -Tol)
SideCut(i) == OppositeSigns(phi[i % 4], phi[(i + 1) % 4])
CutNodes == {i \in Corners : NodeCut(i)}
CutSides == {i \in Corners : SideCut(i)}
ColinearSides == {i \in Corners : NodeCut(i) /\ NodeCut(i + 1)}
First(S) == CHOOSE i \in S : \A j \in S : i <= j
-----------------------------------------------------------------------------
(* Selection of the mode and of its reference side or node.               *)

Adjacent == {i \in Corners : SideCut(i) /\ SideCut(i + 1)}
Facing == {i \in Corners : SideCut(i) /\ SideCut(i + 2)}
FacingNodes == {i \in Corners : NodeCut(i) /\ NodeCut(i + 2)}

\* The side that a cut starting at node i reaches, d sides further.
NodeAndSide(d) == {i \in Corners : NodeCut(i) /\ SideCut(i + d)}
NodeAndSides == {i \in Corners : NodeCut(i) /\ SideCut(i + 1) /\ SideCut(i + 2)}

Cuts == Cardinality(CutNodes) + Cardinality(CutSides)

\* [mode, ref]: ref is ref_side, or ref_node where the mode has a node; diff
\* is ref_side - ref_node.  The loop of the code stops at the first side or
\* node that matches; NODE_AND_EDGE has a single match.
Selected ==
    CASE Cuts = 2 /\ Adjacent # {} ->
            [mode |-> "ADJACENT_EDGES", ref |-> First(Adjacent), diff |-> 0]
      [] Cuts = 2 /\ Adjacent = {} /\ Facing # {} ->
            [mode |-> "OPPOSITE_EDGES", ref |-> First(Facing), diff |-> 0]
      [] Cuts = 2 /\ FacingNodes # {} ->
            [mode |-> "OPPOSITE_NODES", ref |-> First(FacingNodes), diff |-> 0]
      [] Cuts = 2 /\ NodeAndSide(1) # {} ->
            [mode |-> "NODE_AND_EDGE", ref |-> First(NodeAndSide(1)), diff |-> 1]
      [] Cuts = 2 /\ NodeAndSide(2) # {} ->
            [mode |-> "NODE_AND_EDGE", ref |-> First(NodeAndSide(2)), diff |-> 2]
      [] Cuts = 3 /\ NodeAndSides # {} ->
            [mode |-> "NODE_AND_TWO_EDGES", ref |-> First(NodeAndSides), diff |-> 1]
      [] Cuts = 4 /\ CutSides = Corners ->
            [mode |-> "TWO_ADJACENT_EDGES",
             ref |-> IF (mid > 0 /\ phi[0] > 0) \/ (mid < 0 /\ phi[0] < 0) THEN 0 ELSE 1,
             diff |-> 0]
      [] OTHER -> [mode |-> "NO_INTERSECTION", ref |-> 0, diff |-> 0]
-----------------------------------------------------------------------------
(* Creation of the new nodes and of the sub-elements.                     *)

Reference == [i \in Corners |-> CASE i = 0 -> <<-Cells, -Cells>>
                                  [] i = 1 -> <<Cells, -Cells>>
                                  [] i = 2 -> <<Cells, Cells>>
                                  [] i = 3 -> <<-Cells, Cells>>]

\* The point at k/Cells from p towards q.
Between(p, q, k) == << p[1] + (k * (q[1] - p[1])) \div Cells,
                       p[2] + (k * (q[2] - p[2])) \div Cells >>
Along(points, s, k) == Between(points[s % 4], points[(s + 1) % 4], k)
Back(points, s, k) == Between(points[(s + 1) % 4], points[s % 4], k)

CutNode(s) == [at |-> Along(Corner, s, xi[s % 4]), local |-> Along(Reference, s, xi[s % 4])]

\* The node of ADJACENT_EDGES on the uncut side, level with the first one.
LevelNode(r) == [at |-> Back(Corner, r + 2, xi[r]), local |-> Back(Reference, r + 2, xi[r])]

NewNodes(sel) ==
    LET r == sel.ref IN
    CASE sel.mode = "OPPOSITE_EDGES"     -> <<CutNode(r), CutNode(r + 2)>>
      [] sel.mode = "ADJACENT_EDGES"     -> <<CutNode(r), CutNode(r + 1), LevelNode(r)>>
      [] sel.mode = "NODE_AND_EDGE"      -> <<CutNode(r + sel.diff)>>
      [] sel.mode = "OPPOSITE_NODES"     -> << >>
      [] sel.mode = "NODE_AND_TWO_EDGES" -> <<CutNode(r + 1), CutNode(r + 2)>>
      [] sel.mode = "TWO_ADJACENT_EDGES" ->
            <<CutNode(r), CutNode(r + 1), CutNode(r + 2), CutNode(r + 3)>>

\* Slip: the third element of ADJACENT_EDGES reaches to the corner, over the second.
AdjacentPiecesOverlap(r) ==
    [first  |-> <<Piece(<<M(0), N(r+1), M(1)>>, 2)>>,
     second |-> <<Piece(<<M(0), M(2), N(r+3), N(r)>>, NoSide),
                  Piece(<<M(1), N(r+2), N(r+3), M(0)>>, 3)>>]

\* Slip: both quadrilaterals of ADJACENT_EDGES claim their fourth side.
AdjacentPiecesSides(r) ==
    [first  |-> <<Piece(<<M(0), N(r+1), M(1)>>, 2)>>,
     second |-> <<Piece(<<M(0), M(2), N(r+3), N(r)>>, 3),
                  Piece(<<M(1), N(r+2), M(2), M(0)>>, 3)>>]

\* ADJACENT_EDGES: a triangle, and two quadrilaterals on the other side.
AdjacentPieces(r) ==
    [first  |-> <<Piece(<<M(0), N(r+1), M(1)>>, 2)>>,
     second |-> <<Piece(<<M(0), M(2), N(r+3), N(r)>>, NoSide),
                  Piece(<<M(1), N(r+2), M(2), M(0)>>, 3)>>]

\* OPPOSITE_EDGES: two quadrilaterals.
OppositeEdgePieces(r) ==
    [first  |-> <<Piece(<<M(0), N(r+1), N(r+2), M(1)>>, 3)>>,
     second |-> <<Piece(<<M(1), N(r+3), N(r), M(0)>>, 3)>>]

\* NODE_AND_EDGE: a triangle and a quadrilateral, the cut is on side r + diff.
NodeAndEdgePieces(r, diff) ==
    IF diff = 1
    THEN [first  |-> <<Piece(<<N(r), N(r+1), M(0)>>, 2)>>,
          second |-> <<Piece(<<M(0), N(r+2), N(r+3), N(r)>>, 3)>>]
    ELSE [first  |-> <<Piece(<<N(r), M(0), N(r+3)>>, 0)>>,
          second |-> <<Piece(<<N(r), N(r+1), N(r+2), M(0)>>, 3)>>]

\* OPPOSITE_NODES: the element is split along its diagonal.
OppositeNodePieces(r) ==
    [first  |-> <<Piece(<<N(r), N(r+1), N(r+2)>>, 2)>>,
     second |-> <<Piece(<<N(r+2), N(r+3), N(r)>>, 2)>>]

\* NODE_AND_TWO_EDGES: two triangles in the corners next to the node, and two
\* that share the diagonal between them.
NodeAndTwoEdgePieces(r) ==
    [first  |-> <<Piece(<<N(r), N(r+1), M(0)>>, 2), Piece(<<N(r), M(1), N(r+3)>>, 0)>>,
     second |-> <<Piece(<<N(r), M(0), N(r+2)>>, 0), Piece(<<N(r), N(r+2), M(1)>>, 2)>>]

\* TWO_ADJACENT_EDGES: two triangles cut off opposite corners, and two
\* quadrilaterals between them.
TwoAdjacentPieces(r) ==
    [first  |-> <<Piece(<<M(0), N(r+1), M(1)>>, 2), Piece(<<M(3), M(2), N(r+3)>>, 0)>>,
     second |-> <<Piece(<<N(r), M(0), M(2), M(3)>>, 2), Piece(<<M(0), M(1), N(r+2), M(2)>>, 0)>>]

\* The two groups of sub-elements, one on each side of the interface.
Pieces(sel) ==
    CASE sel.mode = "OPPOSITE_EDGES"     -> OppositeEdgePieces(sel.ref)
      [] sel.mode = "ADJACENT_EDGES"     -> AdjacentPieces(sel.ref)
      [] sel.mode = "NODE_AND_EDGE"      -> NodeAndEdgePieces(sel.ref, sel.diff)
      [] sel.mode = "OPPOSITE_NODES"     -> OppositeNodePieces(sel.ref)
      [] sel.mode = "NODE_AND_TWO_EDGES" -> NodeAndTwoEdgePieces(sel.ref)
      [] sel.mode = "TWO_ADJACENT_EDGES" -> TwoAdjacentPieces(sel.ref)

\* Slip: the group is chosen by the sign at the reference node's successor in
\* every mode, as OPPOSITE_NODES does.
FirstIsPositiveByNode(sel) == phi[(sel.ref + 1) % 4] > 0

\* Which group is pushed to _positive_phi_elems: ref_side_node0_positive is
\* the sign at the first node of ref_side (after ref_node for OPPOSITE_NODES).
FirstIsPositive(sel) ==
    LET r == sel.ref
        node0Positive == IF sel.mode = "OPPOSITE_NODES" THEN phi[r + 1] > 0
                         ELSE phi[(r + sel.diff) % 4] > 0
    IN  IF sel.mode \in {"OPPOSITE_NODES", "NODE_AND_TWO_EDGES"}
           \/ (sel.mode = "NODE_AND_EDGE" /\ sel.diff = 1)
        THEN node0Positive
        ELSE ~node0Positive
-----------------------------------------------------------------------------
(* The operations.                                                        *)

Changing(p) == {i \in Corners : OppositeSigns(p[i], p[(i + 1) % 4])}

\* init evaluates the level set at the nodes; the search on the sides that
\* change sign, and the value at the centroid when all four do, come with it.
Evaluate(k, p, others, centre, cut) ==
    /\ stage = "clear"
    /\ stage' = "evaluated"
    /\ kind' = k
    /\ phi' = p
    /\ inner' = others
    /\ mid' = centre
    /\ xi' = cut
    /\ UNCHANGED result

Uncut == MinValue > Tol \/ MaxValue < Tol
Touching == ~Uncut /\ Cardinality(CutNodes) = 1 /\ ~SignChange
Colinear == ~Uncut /\ ~Touching /\ ColinearSides # {}
Divided == ~Uncut /\ ~Touching /\ ColinearSides = {}

\* The element is taken whole, on one side of the level set.
TakeWhole(m, isPositive, side) ==
    /\ stage' = "initialized"
    /\ mode' = m
    /\ positive' = IF isPositive THEN Append(positive, Whole(side)) ELSE positive
    /\ negative' = IF isPositive THEN negative ELSE Append(negative, Whole(side))
    /\ UNCHANGED <<element, newNodes, newElems>>

InitUncut ==
    /\ stage = "evaluated" /\ Uncut
    /\ onPositive' = (MinValue > Tol)
    /\ onNegative' = (MinValue < Tol)
    /\ TakeWhole("NO_INTERSECTION", MinValue > Tol, NoEntry)

InitThroughNode ==
    /\ stage = "evaluated" /\ Touching
    /\ onPositive' = FALSE /\ onNegative' = FALSE
    /\ TakeWhole("THROUGH_NODE", MaxValue > Tol, NoEntry)

InitColinear ==
    /\ stage = "evaluated" /\ Colinear
    /\ onPositive' = FALSE /\ onNegative' = FALSE
    /\ TakeWhole("COLINEAR_EDGE", MaxValue > Tol, First(ColinearSides))

InitDivided ==
    /\ stage = "evaluated" /\ Divided /\ Selected.mode # "NO_INTERSECTION"
    /\ LET sel == Selected
           pieces == Pieces(sel)
       IN  /\ mode' = sel.mode
           /\ newNodes' = newNodes \o NewNodes(sel)
           /\ newElems' = newElems + Len(pieces.first) + Len(pieces.second)
           /\ IF FirstIsPositive(sel)
              THEN positive' = positive \o pieces.first /\ negative' = negative \o pieces.second
              ELSE positive' = positive \o pieces.second /\ negative' = negative \o pieces.first
    /\ stage' = "initialized"
    /\ onPositive' = FALSE /\ onNegative' = FALSE
    /\ UNCHANGED element

\* No mode fits the cuts: assert(false), or libmesh_error in the last switch.
InitUnhandled ==
    /\ stage = "evaluated" /\ Divided /\ Selected.mode = "NO_INTERSECTION"
    /\ stage' = "aborted"
    /\ UNCHANGED <<element, result>>

\* The code leaves the node values behind, and the next init replaces them
\* before they are read: they are dropped here, so that there is one clear state.
Clear ==
    /\ stage = "initialized"
    /\ stage' = "clear"
    /\ mode' = "NO_INTERSECTION"
    /\ onPositive' = FALSE /\ onNegative' = FALSE
    /\ newNodes' = << >> /\ newElems' = 0
    /\ positive' = << >> /\ negative' = << >>
    /\ kind' = "none" /\ phi' = [i \in Corners |-> 0] /\ inner' = {} /\ mid' = 0
    /\ xi' = << >>

Next ==
    \/ \E k \in {"QUAD4", "QUAD9"}, p \in [Corners -> Values] :
         \E others \in (IF k = "QUAD9" THEN (SUBSET Values) \ {{}} ELSE {{}}),
            centre \in (IF Changing(p) = Corners THEN Values ELSE {0}),
            cut \in [Changing(p) -> 1..(Cells - 1)] :
              Evaluate(k, p, others, centre, cut)
    \/ InitUncut
    \/ InitThroughNode
    \/ InitColinear
    \/ InitDivided
    \/ InitUnhandled
    \/ Clear

Init ==
    /\ stage = "clear"
    /\ kind = "none" /\ phi = [i \in Corners |-> 0] /\ inner = {} /\ mid = 0
    /\ xi = << >>
    /\ mode = "NO_INTERSECTION"
    /\ onPositive = FALSE /\ onNegative = FALSE
    /\ newNodes = << >> /\ newElems = 0
    /\ positive = << >> /\ negative = << >>

Spec == Init /\ [][Next]_vars
-----------------------------------------------------------------------------
(* What the users of the object ask.                                      *)

HasPositiveRegion == onPositive \/ ~onNegative
ThroughElement == mode \in Modes \ {"NO_INTERSECTION", "THROUGH_NODE", "COLINEAR_EDGE"}
HasBoundary == ThroughElement \/ mode = "COLINEAR_EDGE"

Pos(node) == IF node[1] = "N" THEN Corner[node[2]] ELSE newNodes[node[2] + 1].at
SubElems == {positive[i] : i \in 1..Len(positive)} \cup {negative[i] : i \in 1..Len(negative)}

\* Twice the area of a sub-element of three or four nodes.
Area(e) ==
    LET n == e.nodes
    IN  Turn(Pos(n[1]), Pos(n[2]), Pos(n[3]))
        + (IF Len(n) = 4 THEN Turn(Pos(n[1]), Pos(n[3]), Pos(n[4])) ELSE 0)

AreaOf(s) ==
    LET upTo[i \in 0..Len(s)] == IF i = 0 THEN 0 ELSE upTo[i - 1] + Area(s[i])
    IN  upTo[Len(s)]

\* The quadrature of a sub-element needs a positive Jacobian at every node.
Convex(e) ==
    LET n == Len(e.nodes)
        at(i) == Pos(e.nodes[((i - 1) % n) + 1])
    IN  \A i \in 1..n : Turn(at(i), at(i + 1), at(i + 2)) > 0

Side(e, i) == <<e.nodes[i + 1], e.nodes[((i + 1) % Len(e.nodes)) + 1]>>
Sides(e) == {Side(e, i) : i \in 0..(Len(e.nodes) - 1)}
Reversed(s) == <<s[2], s[1]>>
AllSides == UNION {Sides(e) : e \in SubElems}

\* The node lies on side i of the element, at one of its ends or inside.
OnSide(node, i) == Turn(Corner[i], Corner[(i + 1) % 4], Pos(node)) = 0
OnOutline(s) == \E i \in Corners : OnSide(s[1], i) /\ OnSide(s[2], i)

\* The reference coordinates of a node, mapped by the element's own shape
\* functions, give its position.
MapsTo(local, at) ==
    \A c \in 1..2 :
        4 * Cells * Cells * at[c] =
            (Cells - local[1]) * (Cells - local[2]) * Corner[0][c]
            + (Cells + local[1]) * (Cells - local[2]) * Corner[1][c]
            + (Cells + local[1]) * (Cells + local[2]) * Corner[2][c]
            + (Cells - local[1]) * (Cells + local[2]) * Corner[3][c]

\* A node where the level set is zero.  The third new node of ADJACENT_EDGES
\* only splits the region.
OnInterface(node) ==
    IF node[1] = "N" THEN NodeCut(node[2])
    ELSE ~(mode = "ADJACENT_EDGES" /\ node[2] = 2)
-----------------------------------------------------------------------------
(* Properties.                                                            *)

\* The sub-elements of an initialized object divide the element: each has
\* positive Jacobians, no two of them overlap and together they fill it (every
\* side is on the outline or is shared with exactly one sub-element of opposite
\* orientation, and the areas add up), and at most _max_elem_divs are new, so
\* that the ids given to them are distinct over the mesh. The local coordinates
\* of a new node are those of its point. init gives up only where a nine-node
\* element has a change of sign that its corners do not show.
Partition ==
    /\ stage = "aborted" => kind = "QUAD9" /\ inner # {}
    /\ stage = "initialized" =>
        /\ \A i \in 1..Len(newNodes) : MapsTo(newNodes[i].local, newNodes[i].at)
        /\ \A e \in SubElems : Convex(e)
        /\ AreaOf(positive) + AreaOf(negative) = Area(Whole(NoSide))
        /\ \A s \in AllSides : OnOutline(s) \/ Reversed(s) \in AllSides
        /\ \A e, f \in SubElems : e # f => Sides(e) \cap Sides(f) = {}
        /\ newElems <= MaxElems

\* The interface is the same seen from both sides: a side marked in
\* _elem_sides_on_interface joins two nodes where the level set is zero and, in
\* a divided element, is the marked side of a sub-element across; and every side
\* between a positive and a negative sub-element is marked.  The boundary terms
\* of the sensitivities are integrated over the marked sides.
InterfaceMatches ==
    stage = "initialized" =>
        LET Marked(S) == {Side(e, e.side) : e \in {f \in S : f.side >= 0}}
            P == {positive[i] : i \in 1..Len(positive)}
            Q == {negative[i] : i \in 1..Len(negative)}
        IN  /\ \A s \in Marked(P \cup Q) : OnInterface(s[1]) /\ OnInterface(s[2])
            /\ HasBoundary <=> Marked(P \cup Q) # {}
            /\ ThroughElement =>
                 Marked(P) = {s \in UNION {Sides(e) : e \in P} :
                                Reversed(s) \in UNION {Sides(e) : e \in Q}}
            /\ ThroughElement => {Reversed(s) : s \in Marked(P)} = Marked(Q)

CornersBothSigns == \E i, j \in Corners : OppositeSigns(phi[i], phi[j])

\* The corners do not change sign, but the level set is zero at two opposite
\* ones; or the level set changes sign and is zero along a side.
Degenerate ==
    \/ mode = "OPPOSITE_NODES" /\ ~CornersBothSigns
    \/ mode = "COLINEAR_EDGE" /\ SignChange

\* Material is where the level set is positive: no corner of a positive
\* sub-element has a negative value and no corner of a negative one a positive
\* value, the element has a positive region exactly when it has positive
\* sub-elements, and an element with a change of sign has both (degenerate
\* cuts excepted).
SignsRight ==
    stage = "initialized" =>
        /\ HasPositiveRegion <=> positive # << >>
        /\ ~Degenerate =>
            /\ CornersBothSigns => positive # << >> /\ negative # << >>
            /\ \A i \in 1..Len(positive), j \in Corners :
                 N(j) \in {positive[i].nodes[k] : k \in 1..Len(positive[i].nodes)}
                   => phi[j] > -Tol
            /\ \A i \in 1..Len(negative), j \in Corners :
                 N(j) \in {negative[i].nodes[k] : k \in 1..Len(negative[i].nodes)}
                   => phi[j] < Tol
=============================================================================
