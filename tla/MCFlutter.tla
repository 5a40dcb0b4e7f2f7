------------------------------- MODULE MCFlutter -------------------------------
(***************************************************************************)
(* Values of FlutterSearch for TLC: a stable, an undamped and an unstable   *)
(* root.                                                                    *)
(***************************************************************************)
EXTENDS FlutterSearch

MCDampings == {-1, 0, 1}
=============================================================================
