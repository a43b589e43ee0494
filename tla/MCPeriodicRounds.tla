-------------------------- MODULE MCPeriodicRounds --------------------------
(* PeriodicRounds on two nodes and an activity of a few short rounds, with *)
(* the budgets of the runs.                                                *)
EXTENDS PeriodicRounds, TLC

CONSTANTS n1, n2

MCNodes == {n1, n2}
NodeSymmetry == Permutations(MCNodes)

MCKinds == {"stop", "crash", "lose", "error", "outage", "edit", "score"}
Nothing == [k \in MCKinds |-> 0]
CrashLoss == [Nothing EXCEPT !["crash"] = 1, !["lose"] = 1]
StopErrorScoreEdits ==
    [Nothing EXCEPT !["stop"] = 1, !["error"] = 1, !["score"] = 1, !["edit"] = 2]
StopScoreOutage ==
    [Nothing EXCEPT !["stop"] = 1, !["score"] = 1, !["outage"] = 1]
=============================================================================
