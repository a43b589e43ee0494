------------------------- MODULE MCActivityRegistry -------------------------
(* ActivityRegistry on two nodes. *)
EXTENDS ActivityRegistry, TLC

CONSTANTS n1, n2

MCNodes == {n1, n2}
NodeSymmetry == Permutations(MCNodes)
=============================================================================
