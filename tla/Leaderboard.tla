---------------------------- MODULE Leaderboard ----------------------------
(***************************************************************************)
(* What a leaderboard promises to its players, whatever nodes, mutexes and *)
(* copies of groups stand behind it: a user plays in one group and stays   *)
(* there; a group gets its result once, and the result is exactly who has  *)
(* a score in it; when the game is over no score is taken any more.        *)
(***************************************************************************)
CONSTANTS Users,
          Groups,   \* the groups there may be
          NoResult

VARIABLES board,   \* board[g]: who has a score in group g
          result,  \* result[g]: who is in the final ranking of g, or NoResult
          over     \* GameEndTime has passed

vars == <<board, result, over>>

Init ==
    /\ board = [g \in Groups |-> {}]
    /\ result = [g \in Groups |-> NoResult]
    /\ over = FALSE

(* A score, the user's first or a better one. *)
Score(u, g) ==
    /\ ~over
    /\ result[g] = NoResult
    /\ \A h \in Groups \ {g} : u \notin board[h]
    /\ board' = [board EXCEPT ![g] = @ \cup {u}]
    /\ UNCHANGED <<result, over>>

(* The result of a group. *)
Settle(g) ==
    /\ result[g] = NoResult
    /\ result' = [result EXCEPT ![g] = board[g]]
    /\ UNCHANGED <<board, over>>

End ==
    /\ over' = TRUE
    /\ UNCHANGED <<board, result>>

Next ==
    \/ \E g \in Groups : Settle(g) \/ \E u \in Users : Score(u, g)
    \/ End

Spec == Init /\ [][Next]_vars
=============================================================================
