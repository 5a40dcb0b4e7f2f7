--------------------------- MODULE MCIntersection ---------------------------
EXTENDS LevelSetIntersection

\* A quadrilateral without parallel sides, and values on both sides of the
\* tolerance.
Skewed == [i \in 0..3 |-> CASE i = 0 -> <<0, 0>> [] i = 1 -> <<8, 4>>
                            [] i = 2 -> <<4, 12>> [] i = 3 -> <<-4, 8>>]
FarAndNear == {-3, -1, 3}
=============================================================================
