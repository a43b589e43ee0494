--------------------------- MODULE MCRewardClaim ---------------------------
(* RewardClaim with three claim requests of one user, one of another, and  *)
(* a status request.                                                       *)
EXTENDS RewardClaim

CONSTANTS u1, u2, r1, r2, r3, r4, q1

MCUsers == {u1, u2}
MCRequests == {r1, r2, r3, r4}
MCUserOf == [r \in MCRequests |-> IF r = r4 THEN u2 ELSE u1]
MCReaders == {q1}
MCReaderUser == [q \in MCReaders |-> u1]
=============================================================================
