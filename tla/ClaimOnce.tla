----------------------------- MODULE ClaimOnce -----------------------------
(***************************************************************************)
(* What S2SClaimReward promises to the game server, whatever stores, nodes *)
(* and caches stand behind it: of all the claim requests ever made for one *)
(* user of one leaderboard round, at most one is answered "first claim"    *)
(* (claimed = false, hand out the reward), and the user's durable claim    *)
(* record, once made, is never changed.  A request may also end in an      *)
(* error, in which case the caller cannot tell whether it was recorded.    *)
(***************************************************************************)
EXTENDS Naturals

CONSTANTS Users,      \* the users of the round
          Requests,   \* the claim requests made in one behaviour
          UserOf,     \* the user each request is made for
          NoClaim     \* the value of an empty claim record

VARIABLES holder,     \* holder[u]: the request recorded as u's claim
          answer      \* answer[r]: what the caller of r was told

vars == <<holder, answer>>

Init == /\ holder = [u \in Users |-> NoClaim]
        /\ answer = [r \in Requests |-> "pending"]

(* The request becomes the user's claim and is told so. *)
Grant(r) == /\ answer[r] = "pending"
            /\ holder[UserOf[r]] = NoClaim
            /\ holder' = [holder EXCEPT ![UserOf[r]] = r]
            /\ answer' = [answer EXCEPT ![r] = "granted"]

(* The request is told that the reward has been claimed before. *)
Refuse(r) == /\ answer[r] = "pending"
             /\ answer' = [answer EXCEPT ![r] = "refused"]
             /\ UNCHANGED holder

(* The request ends in an error, having left a record or not. *)
Fail(r) == /\ answer[r] = "pending"
           /\ answer' = [answer EXCEPT ![r] = "failed"]
           /\ \/ UNCHANGED holder
              \/ /\ holder[UserOf[r]] = NoClaim
                 /\ holder' = [holder EXCEPT ![UserOf[r]] = r]

Next == \E r \in Requests : Grant(r) \/ Refuse(r) \/ Fail(r)

Spec == Init /\ [][Next]_vars
=============================================================================
