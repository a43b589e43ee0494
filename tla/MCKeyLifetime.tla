---------------------------- MODULE MCKeyLifetime ----------------------------
(* KeyLifetime on two nodes.                                               *)
EXTENDS KeyLifetime, TLC

CONSTANTS n1, n2

MCNodes == {n1, n2}
=============================================================================
