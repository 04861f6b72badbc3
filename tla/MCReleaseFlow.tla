--------------------------- MODULE MCReleaseFlow ---------------------------
(***************************************************************************)
(* Model-checking instances of ReleaseFlow: commits c1 and c2 have the      *)
(* version of the tag, c3 another one.                                      *)
(***************************************************************************)
EXTENDS ReleaseFlow, TLC

CONSTANTS w1, w2, c1, c2, c3, v1, v2

MCVersionOf == c1 :> v1 @@ c2 :> v1 @@ c3 :> v2

RunSymmetry == Permutations(Runs)
=============================================================================
