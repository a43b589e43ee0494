------------------------ MODULE MCLeaderboardGroups ------------------------
(* LeaderboardGroups with up to three users, one of whom sends a second    *)
(* score.  There is an identifier of a group for every request.            *)
EXTENDS LeaderboardGroups, TLC

CONSTANTS n1, n2, u1, u2, u3, r1, r2, r3, r4

MCOneNode == {n1}
MCNodes == {n1, n2}
NodeSymmetry == Permutations(MCNodes)

MCUsers == {u1, u2, u3}
MCRequests == {r1, r2, r3, r4}
MCUserOf == (r1 :> u1) @@ (r2 :> u1) @@ (r3 :> u2) @@ (r4 :> u3)

TwoUsers == {u1, u2}
ThreeRequests == {r1, r2, r3}
TwoUserOf == [r \in ThreeRequests |-> MCUserOf[r]]
=============================================================================
