------------------------------ MODULE MCLevelSet ------------------------------
(* Instances of LevelSetOptimization: one function and several variables, or    *)
(* several functions and one variable. With several of both the array of the    *)
(* gradients is not filled by its rule (see the README).                        *)
EXTENDS LevelSetOptimization

OneOfBoth == {<<1, 0>>, <<2, 0>>, <<1, 1>>}
=============================================================================
