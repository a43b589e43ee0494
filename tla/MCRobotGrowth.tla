---------------------------- MODULE MCRobotGrowth ----------------------------
(* RobotGrowth with two nodes and one robot.                               *)
EXTENDS RobotGrowth, TLC

CONSTANTS n1, n2, b1

MCNodes == {n1, n2}
OneRobot == {b1}
NodeSymmetry == Permutations(MCNodes)
=============================================================================
