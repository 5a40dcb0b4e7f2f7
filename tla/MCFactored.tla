----------------------------- MODULE MCFactored -----------------------------
EXTENDS FactoredElements

\* Two factored elements that share the void node 9 and the material node 2, the
\* first with a void node of its own, and an element of material only.
Mesh == [e \in {"a", "b", "c"} |->
            CASE e = "a" -> {1, 2, 8, 9} [] e = "b" -> {2, 3, 9} [] e = "c" -> {1, 3}]
Fractions == [e \in {"a", "b", "c"} |-> CASE e = "a" -> 2 [] e = "b" -> 1 [] e = "c" -> 1]

Matrix(e, diagonal, upper, lower) ==
    [i \in Mesh[e] |-> [j \in Mesh[e] |->
        IF i = j THEN diagonal + i ELSE IF i < j THEN upper ELSE lower]]

\* Symmetric matrices, and an unsymmetric one for the first element.
SomeStiffnesses ==
    {[e \in {"a", "b", "c"} |->
        Matrix(e, IF e = "b" THEN 3 - d ELSE d, u, IF e = "a" THEN l ELSE u)]
        : d \in 1..2, u \in {1}, l \in {2}}
SomeLoads == {[e \in {"a", "b", "c"} |-> [i \in Mesh[e] |-> (n * (i + 1)) % 3]] : n \in {1, 2}}
=============================================================================
