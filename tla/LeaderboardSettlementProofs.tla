-------------------- MODULE LeaderboardSettlementProofs --------------------
(***************************************************************************)
(* Proofs about the settlement of the groups of LeaderboardGroups.  Where  *)
(* scores and settlements meet, a theorem has hypotheses: Prompt, that no  *)
(* score is under way when GameEndTime comes; without "gm", that the       *)
(* groups are settled by the ticks alone; without Faults, that nothing     *)
(* fails.  Each is needed: TLC has a counterexample without it.            *)
(***************************************************************************)
EXTENDS LeaderboardGroupsProofs

(* With Prompt no request is under way once the groups are to be settled:  *)
(* the clock waits for those that are, and none is admitted any more.      *)
NoneActive == \A r \in Requests : req[r].pc \notin Active
QuietInv == now >= SettleAt => NoneActive

(* Every step leaves it that way. *)
LEMMA QuietStep == Prompt /\ ShapeInv /\ QuietInv /\ [Next]_vars => QuietInv'
<1> SUFFICES ASSUME Prompt, ShapeInv, QuietInv, [Next]_vars, now' >= SettleAt
             PROVE  NoneActive'
  BY DEF QuietInv
<1> USE GroupConstants DEF QuietInv, NoneActive, ShapeInv
<1>1. ASSUME NEW r \in Requests, RequestStep(r) PROVE FALSE
  <2>1. req[r].pc \in Active /\ now' = now
    BY <1>1, RequestEffect DEF Moves, Active, InLock
  <2> QED
    BY <2>1
<1>2. ASSUME NEW r \in Requests, NEW n \in Nodes, Admit(r, n) PROVE FALSE
  BY <1>2 DEF Admit, TypeOK
<1>3. ASSUME NEW n \in Nodes, Crash(n) PROVE NoneActive'
  <2>1. now' = now
    BY <1>3 DEF Crash
  <2> QED
    BY <1>3, <2>1, CrashEffect DEF Active, InLock
<1>4. CASE Clock
  <2>1. now' = now + 1 /\ req' = req /\ now \in Nat
    BY <1>4 DEF Clock, TypeOK
  <2>2. CASE now + 1 = SettleAt
    BY <1>4, <2>1, <2>2 DEF Clock, Active, InLock, Ended
  <2>3. CASE now + 1 # SettleAt
    BY <2>1, <2>3
  <2> QED
    BY <2>2, <2>3
<1>5. ASSUME NEW n \in Nodes, TickSettle(n) \/ GMSettle(n) PROVE UNCHANGED <<now, req>>
  BY <1>5 DEF TickSettle, GMSettle
<1>6. ASSUME NEW s \in Settlers, SettleStep(s) PROVE UNCHANGED <<now, req>>
  BY <1>6 DEF SettleStep, LoadGroups, LockGroup, SealInstance, SaveSettled,
     SyncSettled, EndSettle
<1>7. CASE TimeIsUp \/ UNCHANGED vars
  BY <1>7 DEF TimeIsUp, vars
<1> QED
  BY <1>1, <1>2, <1>3, <1>4, <1>5, <1>6, <1>7 DEF Next

(* With Prompt no score is under way into a group that is settled.         *)
THEOREM Quiet == Prompt /\ Spec => []QuietInv
<1> SUFFICES ASSUME Prompt PROVE Spec => []QuietInv
  OBVIOUS
<1>1. Init => QuietInv
  BY GroupConstants DEF Init, QuietInv, NoneActive, Active, InLock
<1>2. ShapeInv /\ QuietInv /\ [Next]_vars => QuietInv'
  BY QuietStep
<1> QED
  BY <1>1, <1>2, Shape, PTL DEF Spec

-----------------------------------------------------------------------------
(* Refinement *)

(* Which step of Leaderboard a step of the nodes is: BatchUpsertScore is a *)
(* score, ...                                                              *)
LEMMA UpsertRefines ==
    ASSUME ShapeInv, PlaceInv, QuietInv, NEW r \in Requests, UpsertScore(r)
    PROVE  [Abstract!Next]_(Abstract!vars)
<1> DEFINE g == req[r].g
           u == User(r)
<1>1. /\ g \in GroupIds /\ u \in Users
      /\ now < SettleAt
      /\ members[u] = g
  BY GroupConstants DEF UpsertScore, ShapeInv, HasGroup, InGroup, User, QuietInv,
     NoneActive, Active, InLock, PlaceInv, InEntry, Placed, TypeOK
<1>2. CASE instance[g].state = "open"
  <2>1. instance' = [instance EXCEPT ![g].scores = @ \cup {u}] /\ now' = now
    BY <1>2 DEF UpsertScore
  <2>2. /\ instance'[g].scores = instance[g].scores \cup {u}
        /\ instance'[g].state = "open"
        /\ \A h \in GroupIds \ {g} : instance'[h] = instance[h]
    BY <1>1, <1>2, <2>1 DEF ShapeInv, TypeOK, Instance
  <2> HIDE DEF g, u
  <2>3. Board' = [Board EXCEPT ![g] = @ \cup {u}]
    BY <1>1, <2>2 DEF Board
  <2>4. Result' = Result
    BY <1>1, <1>2, <2>2 DEF Result
  <2>5. Result[g] = None
    BY <1>1, <1>2 DEF Result
  <2>6. \A h \in GroupIds \ {g} : u \notin Board[h]
    BY <1>1 DEF PlaceInv, ScoresInEntry, Board
  <2>7. ~(now >= SettleAt)
    BY <1>1, GroupConstants DEF ShapeInv, TypeOK
  <2>8. Abstract!Score(u, g)
    BY <2>1, <2>3, <2>4, <2>5, <2>6, <2>7 DEF Abstract!Score
  <2> QED
    BY <1>1, <2>8 DEF Abstract!Next
<1>3. CASE instance[g].state # "open"
  BY <1>3 DEF UpsertScore, Abstract!vars, Board, Result
<1> QED
  BY <1>2, <1>3

(* ... SettleInstance is the result of a group, ...                        *)
LEMMA SealRefines ==
    ASSUME ShapeInv, NEW s \in Settlers, SealInstance(s)
    PROVE  [Abstract!Next]_(Abstract!vars)
<1> DEFINE g == settle[s].g
           i == instance[g]
<1>1. g \in GroupIds /\ i \in Instance /\ now' = now
  BY DEF SealInstance, ShapeInv, HasCopy, TypeOK
<1>2. CASE instance' = instance
  BY <1>1, <1>2 DEF Abstract!vars, Board, Result
<1>3. CASE instance' = [instance EXCEPT ![g] = Sealed(@)]
  <2>1. instance'[g] = Sealed(i) /\ \A h \in GroupIds \ {g} : instance'[h] = instance[h]
    BY <1>1, <1>3 DEF ShapeInv, TypeOK
  <2>2. CASE i.state \in {"absent", "settled"}
    <3>1. \A h \in GroupIds : instance'[h] = instance[h]
      BY <2>1, <2>2 DEF Sealed
    <3> QED
      BY <1>1, <3>1 DEF Abstract!vars, Board, Result
  <2>3. CASE i.state \notin {"absent", "settled"}
    <3>1. /\ instance'[g].scores = i.scores
          /\ instance'[g].state = "settled"
          /\ instance'[g].snapshot = i.scores
      BY <1>1, <2>1, <2>3 DEF Sealed, Instance
    <3> HIDE DEF g
    <3>2. Board' = Board
      BY <1>1, <2>1, <3>1 DEF Board
    <3>3. Result' = [Result EXCEPT ![g] = Board[g]]
      BY <1>1, <2>1, <3>1 DEF Board, Result
    <3>4. Result[g] = None
      BY <1>1, <2>3 DEF Result
    <3>5. Abstract!Settle(g)
      BY <1>1, <3>2, <3>3, <3>4 DEF Abstract!Settle
    <3> QED
      BY <1>1, <3>5 DEF Abstract!Next
  <2> QED
    BY <2>2, <2>3
<1> QED
  BY <1>2, <1>3 DEF SealInstance

(* ... the clock may end the game, ...                                     *)
LEMMA ClockRefines ==
    ASSUME ShapeInv, Clock
    PROVE  [Abstract!Next]_(Abstract!vars)
<1>1. now' = now + 1 /\ now \in Nat /\ Board' = Board /\ Result' = Result
  BY DEF Clock, ShapeInv, TypeOK, Board, Result
<1>2. CASE now' >= SettleAt
  <2>1. Abstract!End
    BY <1>1, <1>2 DEF Abstract!End
  <2> QED
    BY <2>1 DEF Abstract!Next
<1>3. CASE ~(now' >= SettleAt)
  <2>1. (now' >= SettleAt) = (now >= SettleAt)
    BY <1>1, <1>3, GroupConstants
  <2> QED
    BY <1>1, <2>1 DEF Abstract!vars
<1> QED
  BY <1>2, <1>3

(* ... and whatever else happens does not show.                            *)
LEMMA OthersStutter ==
    ASSUME ShapeInv, [Next]_vars, ~Clock,
           ~ \E r \in Requests : UpsertScore(r),
           ~ \E s \in Settlers : SealInstance(s)
    PROVE  UNCHANGED (Abstract!vars)
<1>1. now' = now
  <2>1. ASSUME NEW r \in Requests, RequestStep(r) PROVE now' = now
    BY <2>1, RequestEffect DEF ShapeInv
  <2>2. ASSUME NEW r \in Requests, NEW n \in Nodes, Admit(r, n) PROVE now' = now
    BY <2>2 DEF Admit
  <2>3. ASSUME NEW n \in Nodes, TickSettle(n) \/ GMSettle(n) \/ Crash(n) PROVE now' = now
    BY <2>3 DEF TickSettle, GMSettle, Crash
  <2>4. ASSUME NEW s \in Settlers, SettleStep(s) PROVE now' = now
    BY <2>4 DEF SettleStep, LoadGroups, LockGroup, SealInstance, SaveSettled,
       SyncSettled, EndSettle
  <2> QED
    BY <2>1, <2>2, <2>3, <2>4 DEF Next, TimeIsUp, vars
<1>2. Board' = Board
  BY ScoresFrame DEF ShapeInv, Board
<1>3. ASSUME NEW g \in GroupIds
      PROVE  /\ (instance'[g].state = "settled") = (instance[g].state = "settled")
             /\ instance'[g].snapshot = instance[g].snapshot
  <2> USE DEF ShapeInv, TypeOK, Instance
  <2>1. ASSUME NEW r \in Requests, EnsureInstance(r)
        PROVE  /\ (instance'[g].state = "settled") = (instance[g].state = "settled")
               /\ instance'[g].snapshot = instance[g].snapshot
    <3>1. g = req[r].g \/ instance'[g] = instance[g]
      BY <2>1 DEF EnsureInstance
    <3>2. CASE g = req[r].g
      BY <2>1, <3>2 DEF EnsureInstance
    <3> QED
      BY <3>1, <3>2
  <2>2. ASSUME NEW r \in Requests, SpawnRobots(r)
        PROVE  /\ instance'[g].state = instance[g].state
               /\ instance'[g].snapshot = instance[g].snapshot
    <3>1. PICK k \in 0..Planned :
             instance' = [instance EXCEPT ![req[r].g].robots =
                            IF instance[req[r].g].state = "open" THEN @ + k ELSE @]
      BY <2>2 DEF SpawnRobots
    <3> QED
      BY <3>1
  <2>3. ASSUME NEW n \in Nodes, TickSettle(n)
        PROVE  /\ (instance'[g].state = "settled") = (instance[g].state = "settled")
               /\ instance'[g].snapshot = instance[g].snapshot
    <3>1. \/ instance'[g] = instance[g]
          \/ /\ instance[g].state = "open"
             /\ instance'[g] = [instance[g] EXCEPT !.state = "closed"]
      BY <2>3 DEF TickSettle
    <3> QED
      BY <3>1
  <2>4. ASSUME NEW r \in Requests,
               \/ Enter(r) \/ ChooseGroup(r) \/ NumberGroup(r) \/ CreateGroup(r)
               \/ CountPlayer(r) \/ SaveCount(r) \/ SetMember(r) \/ PlanRobots(r)
               \/ \E m \in Nodes : Admit(r, m)
        PROVE  instance' = instance
    BY <2>4 DEF Enter, ChooseGroup, NumberGroup, CreateGroup, CountPlayer, SaveCount,
       SetMember, PlanRobots, Admit
  <2>5. ASSUME NEW n \in Nodes, GMSettle(n) \/ Crash(n) PROVE instance' = instance
    BY <2>5 DEF GMSettle, Crash
  <2>6. ASSUME NEW s \in Settlers,
               LoadGroups(s) \/ LockGroup(s) \/ SaveSettled(s) \/ SyncSettled(s) \/ EndSettle(s)
        PROVE  instance' = instance
    BY <2>6 DEF LoadGroups, LockGroup, SaveSettled, SyncSettled, EndSettle
  <2>7. ASSUME TimeIsUp \/ UNCHANGED vars PROVE instance' = instance
    BY <2>7 DEF TimeIsUp, vars
  <2> QED
    BY <2>1, <2>2, <2>3, <2>4, <2>5, <2>6, <2>7 DEF Next, RequestStep, SettleStep
<1>4. Result' = Result
  BY <1>3 DEF Result
<1> QED
  BY <1>1, <1>2, <1>4 DEF Abstract!vars

(* However many nodes fill and settle the groups, crash, fail or are told  *)
(* by the GM to settle early: together they are one Leaderboard, in which  *)
(* everybody plays once and a result is final and complete (UpsertScore    *)
(* and Settle, engine/service.go).                                         *)
THEOREM GroupsAreALeaderboard == Prompt /\ Spec => ImplementsLeaderboard
<1>1. Init => Abstract!Init
  BY GroupConstants DEF Init, Abstract!Init, Board, Result
<1>2. ShapeInv /\ PlaceInv /\ QuietInv /\ [Next]_vars
      => [Abstract!Next]_(Abstract!vars)
  BY UpsertRefines, SealRefines, ClockRefines, OthersStutter
<1> QED
  BY <1>1, <1>2, Shape, Places, Quiet, PTL
     DEF Spec, ImplementsLeaderboard, Abstract!Spec

-----------------------------------------------------------------------------
(* SettledIsFinal.  Before GameEndTime nobody settles, unless the GM does. *)
NothingSettled ==
    /\ \A s \in Settlers : settle[s].pc = "idle"
    /\ \A n \in Nodes : settledAt[n] = FALSE
    /\ \A g \in GroupIds : settleLock[g] = 0
    /\ \A g \in GroupIds : groups[g] # None => groups[g].state # "settled"
    /\ \A n \in Nodes, g \in GroupIds :
         cached[n][g] # None => cached[n][g].state # "settled"
BeforeEnd == now < SettleAt => NothingSettled

(* Every step before GameEndTime leaves it that way. *)
LEMMA BeforeEndStep ==
    "gm" \notin Faults /\ ShapeInv /\ BeforeEnd /\ [Next]_vars => BeforeEnd'
<1> SUFFICES ASSUME "gm" \notin Faults, ShapeInv, BeforeEnd, [Next]_vars, now' < SettleAt
             PROVE  NothingSettled'
  BY DEF BeforeEnd
<1> USE GroupConstants DEF NothingSettled
<1>a. TypeOK
  BY DEF ShapeInv
<1>1. ASSUME NEW r \in Requests, RequestStep(r) PROVE NothingSettled'
  <2>1. UNCHANGED <<settle, settledAt, settleLock, now>>
    BY <1>1, <1>a, RequestEffect
  <2>2. NothingSettled
    BY <2>1 DEF BeforeEnd
  <2>3. CASE ChooseGroup(r)
    BY <1>a, <2>1, <2>2, <2>3 DEF ChooseGroup, TypeOK
  <2>4. CASE CreateGroup(r)
    BY <1>a, <2>1, <2>2, <2>4 DEF CreateGroup, TypeOK
  <2>5. CASE CountPlayer(r)
    <3>1. /\ cached[Under(r)][req[r].g] \in Group
          /\ req[r].g \in GroupIds /\ Under(r) \in Nodes
      BY <2>5 DEF CountPlayer, ShapeInv, KnowsGroup, Joining, HasGroup, InGroup,
         OnNode, Active, InLock, Under
    <3>2. cached[Under(r)][req[r].g] # None
      BY <3>1, NoneIsNoGroup
    <3>3. groups' = groups
      BY <2>5 DEF CountPlayer
    <3> DEFINE k == realCount[req[r].g] + 1
    <3>4. cached' = [cached EXCEPT ![Under(r)][req[r].g].real = k]
      BY <2>5 DEF CountPlayer
    <3> HIDE DEF k
    <3>5. cached'[Under(r)][req[r].g].state = cached[Under(r)][req[r].g].state
      BY <1>a, <3>1, <3>4 DEF TypeOK, Group
    <3>6. \A n \in Nodes, g \in GroupIds :
            n # Under(r) \/ g # req[r].g => cached'[n][g] = cached[n][g]
      BY <1>a, <3>1, <3>4 DEF TypeOK
    <3> QED
      BY <2>1, <2>2, <3>1, <3>2, <3>3, <3>5, <3>6
  <2>6. CASE SaveCount(r)
    <3>1. /\ cached[Under(r)][req[r].g] \in Group
          /\ req[r].g \in GroupIds /\ Under(r) \in Nodes
      BY <2>6 DEF SaveCount, ShapeInv, KnowsGroup, Joining, HasGroup, InGroup,
         OnNode, Active, InLock, Under
    <3>2. cached[Under(r)][req[r].g] # None
      BY <3>1, NoneIsNoGroup
    <3> QED
      BY <1>a, <2>1, <2>2, <2>6, <3>1, <3>2 DEF SaveCount, CountWritten, nodeVars, TypeOK
  <2>7. CASE PlanRobots(r)
    <3> DEFINE m == Under(r)
               h == req[r].g
               first == cached[m][h].real = 1 /\ Planned > 0
               planned == IF first THEN [cached[m][h] EXCEPT !.robots = Planned]
                                   ELSE cached[m][h]
               after == IF Total(planned) >= Capacity
                        THEN [planned EXCEPT !.state = "full"] ELSE planned
    <3>1. cached[m][h] \in Group /\ h \in GroupIds /\ m \in Nodes
      BY <2>7 DEF PlanRobots, ShapeInv, KnowsGroup, Joining, HasGroup, InGroup,
         OnNode, Active, InLock, Under
    <3>2. cached[m][h].state # "settled"
      BY <2>2, <3>1, NoneIsNoGroup
    <3>3. planned \in Group /\ planned.state # "settled"
      <4>1. planned \in Group
        BY <3>1, PlannedType, GroupMoves
      <4>2. planned.state = cached[m][h].state
        BY <3>1 DEF Group
      <4> QED
        BY <3>2, <4>1, <4>2
    <3>4. after.state # "settled"
      <4> HIDE DEF planned
      <4> QED
        BY <3>3 DEF Group
    <3>5. /\ cached' = [cached EXCEPT ![m][h] = after]
          /\ groups' \in {groups, [groups EXCEPT ![h] = after]}
      BY <2>7 DEF PlanRobots
    <3> HIDE DEF after, m, h
    <3> QED
      BY <1>a, <2>1, <2>2, <3>1, <3>4, <3>5 DEF TypeOK
  <2>8. CASE \/ Enter(r) \/ NumberGroup(r) \/ SetMember(r) \/ EnsureInstance(r)
             \/ UpsertScore(r) \/ SpawnRobots(r)
    BY <2>1, <2>2, <2>8 DEF Enter, NumberGroup, SetMember, EnsureInstance,
       UpsertScore, SpawnRobots, nodeVars
  <2> QED
    BY <1>1, <2>3, <2>4, <2>5, <2>6, <2>7, <2>8 DEF RequestStep
<1>2. ASSUME NEW r \in Requests, NEW n \in Nodes, Admit(r, n) PROVE NothingSettled'
  BY <1>2 DEF Admit, BeforeEnd, nodeVars
<1>3. ASSUME NEW n \in Nodes, Crash(n) PROVE NothingSettled'
  BY <1>3, <1>a DEF Crash, BeforeEnd, Idle, TypeOK
<1>4. ASSUME NEW n \in Nodes, TickSettle(n) PROVE FALSE
  BY <1>4, <1>a DEF TickSettle, Due, TypeOK
<1>5. ASSUME NEW n \in Nodes, GMSettle(n) PROVE FALSE
  BY <1>5 DEF GMSettle, Spend
<1>6. ASSUME NEW s \in Settlers, SettleStep(s) PROVE FALSE
  <2>1. now' = now /\ settle[s].pc # "idle"
    BY <1>6 DEF SettleStep, LoadGroups, LockGroup, SealInstance, SaveSettled,
       SyncSettled, EndSettle
  <2> QED
    BY <2>1 DEF BeforeEnd
<1>7. CASE Clock
  <2>1. now < SettleAt
    BY <1>7, <1>a DEF Clock, TypeOK
  <2> QED
    BY <1>7, <2>1 DEF Clock, BeforeEnd, nodeVars
<1>8. CASE TimeIsUp \/ UNCHANGED vars
  BY <1>8 DEF TimeIsUp, vars, BeforeEnd
<1> QED
  BY <1>1, <1>2, <1>3, <1>4, <1>5, <1>6, <1>7, <1>8 DEF Next

(* Before GameEndTime no group is settled. *)
THEOREM NoEarlySettlement == "gm" \notin Faults /\ Spec => []BeforeEnd
<1> SUFFICES ASSUME "gm" \notin Faults PROVE Spec => []BeforeEnd
  OBVIOUS
<1>1. Init => BeforeEnd
  BY DEF Init, BeforeEnd, NothingSettled, Idle
<1>2. ShapeInv /\ BeforeEnd /\ [Next]_vars => BeforeEnd'
  BY BeforeEndStep
<1> QED
  BY <1>1, <1>2, Shape, PTL DEF Spec

(* A group that is settled stays settled, though every writer replaces the *)
(* whole JSON by what it knows: whoever knew less is not under way, and    *)
(* settlements write nothing but settled groups.                           *)
THEOREM SettledGroupsStaySettled ==
    Prompt /\ "gm" \notin Faults /\ Spec => SettledIsFinal
<1> SUFFICES ASSUME Prompt, "gm" \notin Faults PROVE Spec => SettledIsFinal
  OBVIOUS
<1>1. ASSUME ShapeInv, QuietInv, BeforeEnd, [Next]_vars, NEW g \in GroupIds,
             groups[g] # None, groups[g].state = "settled"
      PROVE  groups'[g].state = "settled"
  <2>1. NoneActive
    BY <1>1, GroupConstants DEF BeforeEnd, NothingSettled, QuietInv, ShapeInv, TypeOK
  <2>2. ASSUME NEW r \in Requests, RequestStep(r) PROVE FALSE
    BY <1>1, <2>1, <2>2, RequestEffect DEF NoneActive, Moves, Active, InLock, ShapeInv
  <2>3. ASSUME NEW s \in Settlers, SaveSettled(s) PROVE groups'[g].state = "settled"
    <3>1. settle[s].todo[settle[s].g] \in Group /\ settle[s].g \in GroupIds
      BY <1>1, <2>3 DEF SaveSettled, ShapeInv, HasCopy
    <3>2. Settled(s).state = "settled"
      BY <3>1 DEF Settled, Group
    <3>3. groups'[g] \in {groups[g], Settled(s)}
      BY <1>1, <2>3 DEF SaveSettled, ShapeInv, TypeOK
    <3> QED
      BY <1>1, <3>2, <3>3
  <2>4. ASSUME NEW s \in Settlers,
               \/ LoadGroups(s) \/ LockGroup(s) \/ SealInstance(s) \/ SyncSettled(s)
               \/ EndSettle(s)
        PROVE  groups' = groups
    BY <2>4 DEF LoadGroups, LockGroup, SealInstance, SyncSettled, EndSettle
  <2>5. ASSUME NEW n \in Nodes, TickSettle(n) \/ GMSettle(n) \/ Crash(n)
        PROVE  groups' = groups
    BY <2>5 DEF TickSettle, GMSettle, Crash
  <2>6. ASSUME NEW r \in Requests, NEW n \in Nodes, Admit(r, n) PROVE groups' = groups
    BY <2>6 DEF Admit
  <2>7. ASSUME Clock \/ TimeIsUp \/ UNCHANGED vars PROVE groups' = groups
    BY <2>7 DEF Clock, TimeIsUp, vars
  <2> QED
    BY <1>1, <2>2, <2>3, <2>4, <2>5, <2>6, <2>7 DEF Next, SettleStep
<1>2. ShapeInv /\ QuietInv /\ BeforeEnd /\ [Next]_vars
      => [\A g \in GroupIds : groups[g] # None /\ groups[g].state = "settled"
                              => groups'[g].state = "settled"]_vars
  BY <1>1
<1> QED
  BY <1>2, Shape, Quiet, NoEarlySettlement, PTL DEF Spec, SettledIsFinal

-----------------------------------------------------------------------------
(* EveryScoreInSnapshot.  What an instance of RankService keeps: one that  *)
(* is not there has no scores, one that is settled has them all in its     *)
(* snapshot, any other has no snapshot.                                    *)
InstanceInv ==
    \A g \in GroupIds :
        /\ instance[g].state = "absent" => instance[g].scores = {}
        /\ instance[g].snapshot = IF instance[g].state = "settled"
                                  THEN instance[g].scores ELSE {}

(* Only BatchUpsertScore and SettleInstance touch them.                    *)
LEMMA InstanceStep == ShapeInv /\ InstanceInv /\ [Next]_vars => InstanceInv'
<1> SUFFICES ASSUME ShapeInv, InstanceInv, [Next]_vars, NEW g \in GroupIds
             PROVE  /\ instance'[g].state = "absent" => instance'[g].scores = {}
                    /\ instance'[g].snapshot = IF instance'[g].state = "settled"
                                               THEN instance'[g].scores ELSE {}
  BY DEF InstanceInv
<1> USE DEF InstanceInv, ShapeInv, TypeOK, Instance
<1> DEFINE Goal == /\ instance'[g].state = "absent" => instance'[g].scores = {}
                   /\ instance'[g].snapshot = IF instance'[g].state = "settled"
                                              THEN instance'[g].scores ELSE {}
<1>1. ASSUME NEW r \in Requests, EnsureInstance(r) PROVE Goal
  BY <1>1 DEF EnsureInstance
<1>2. ASSUME NEW r \in Requests, UpsertScore(r) PROVE Goal
  BY <1>2 DEF UpsertScore
<1>3. ASSUME NEW r \in Requests, SpawnRobots(r) PROVE Goal
  <2>1. PICK k \in 0..Planned :
           instance' = [instance EXCEPT ![req[r].g].robots =
                          IF instance[req[r].g].state = "open" THEN @ + k ELSE @]
    BY <1>3 DEF SpawnRobots
  <2>2. /\ instance'[g].state = instance[g].state
        /\ instance'[g].scores = instance[g].scores
        /\ instance'[g].snapshot = instance[g].snapshot
    BY <2>1
  <2> QED
    BY <2>2
<1>4. ASSUME NEW n \in Nodes, TickSettle(n) PROVE Goal
  BY <1>4 DEF TickSettle
<1>5. ASSUME NEW s \in Settlers, SealInstance(s) PROVE Goal
  <2>1. instance'[g] \in {instance[g], Sealed(instance[g])}
    BY <1>5 DEF SealInstance
  <2>2. CASE instance'[g] = Sealed(instance[g])
    BY <2>2 DEF Sealed
  <2> QED
    BY <2>1, <2>2
<1>6. ASSUME NEW r \in Requests,
             \/ Enter(r) \/ ChooseGroup(r) \/ NumberGroup(r) \/ CreateGroup(r)
             \/ CountPlayer(r) \/ SaveCount(r) \/ SetMember(r) \/ PlanRobots(r)
             \/ \E m \in Nodes : Admit(r, m)
      PROVE  instance' = instance
  BY <1>6 DEF Enter, ChooseGroup, NumberGroup, CreateGroup, CountPlayer, SaveCount,
     SetMember, PlanRobots, Admit
<1>7. ASSUME NEW n \in Nodes, GMSettle(n) \/ Crash(n) PROVE instance' = instance
  BY <1>7 DEF GMSettle, Crash
<1>8. ASSUME NEW s \in Settlers,
             LoadGroups(s) \/ LockGroup(s) \/ SaveSettled(s) \/ SyncSettled(s) \/ EndSettle(s)
      PROVE  instance' = instance
  BY <1>8 DEF LoadGroups, LockGroup, SaveSettled, SyncSettled, EndSettle
<1>9. ASSUME Clock \/ TimeIsUp \/ UNCHANGED vars PROVE instance' = instance
  BY <1>9 DEF Clock, TimeIsUp, vars
<1> QED
  BY <1>1, <1>2, <1>3, <1>4, <1>5, <1>6, <1>7, <1>8, <1>9
     DEF Next, RequestStep, SettleStep

(* An instance keeps its scores and its snapshot is the last of them.      *)
THEOREM Instances == Spec => []InstanceInv
<1>1. Init => InstanceInv
  BY DEF Init, InstanceInv
<1> QED
  BY <1>1, InstanceStep, Shape, PTL DEF Spec

(* A group is taken care of when it is settled, when there is nothing to   *)
(* settle, or when a settlement is about to.  Whoever passes over a group  *)
(* may do so because somebody takes care of it: the group is not in his    *)
(* list, it is locked, it is settled in Redis, or he is done with it; and  *)
(* a node takes the leaderboard for settled when that is so of all groups. *)
CaredFor(g) ==
    \/ instance[g].scores = {}
    \/ instance[g].state = "settled"
    \/ \E s \in Settlers : settle[s].pc = "seal" /\ settle[s].g = g

SettleInv ==
    /\ \A s \in Settlers, g \in GroupIds :
         settle[s].pc \in {"loop", "seal", "save", "sync"} /\ settle[s].todo[g] = None
           => CaredFor(g)
    /\ \A s \in Settlers : settle[s].pc \in {"save", "sync"} => CaredFor(settle[s].g)
    /\ \A n \in Nodes, g \in GroupIds : settledAt[n] => CaredFor(g)
    /\ \A g \in GroupIds : groups[g] # None /\ groups[g].state = "settled" => CaredFor(g)
    /\ \A g \in GroupIds : settleLock[g] > now => CaredFor(g)

(* Without faults, and with no score under way, a group that is taken care *)
(* of stays so.                                                            *)
LEMMA CareKept ==
    ASSUME ShapeInv, InstanceInv, NoneActive, Faults = {}, [Next]_vars,
           NEW g \in GroupIds, CaredFor(g)
    PROVE  CaredFor(g)'
<1>a. TypeOK
  BY DEF ShapeInv
<1>b. ~ \E r \in Requests : RequestStep(r)
  BY <1>a, RequestEffect DEF NoneActive, Moves, Active, InLock
<1>c. instance'[g].scores = instance[g].scores
  BY <1>a, <1>b, ScoresFrame DEF RequestStep
<1>1. CASE instance[g].scores = {}
  BY <1>1, <1>c DEF CaredFor
<1>2. CASE \E s \in Settlers : SealInstance(s)
  <2>1. PICK s \in Settlers : SealInstance(s)
    BY <1>2
  <2>2. /\ instance' = [instance EXCEPT ![settle[s].g] = Sealed(@)]
        /\ settle' = [settle EXCEPT ![s].pc = "save"]
    BY <2>1 DEF SealInstance, Spend, SettleGoto
  <2>3. CASE settle[s].g = g
    <3>1. instance'[g] = Sealed(instance[g])
      BY <1>a, <2>2, <2>3 DEF TypeOK
    <3>2. CASE instance[g].state = "absent"
      BY <1>1, <3>2 DEF InstanceInv
    <3>3. CASE instance[g].state # "absent"
      <4>1. instance'[g].state = "settled"
        BY <1>a, <3>1, <3>3 DEF Sealed, TypeOK, Instance
      <4> QED
        BY <4>1 DEF CaredFor
    <3> QED
      BY <1>1, <3>2, <3>3 DEF InstanceInv
  <2>4. CASE settle[s].g # g
    <3>1. instance'[g] = instance[g]
      BY <1>a, <2>2, <2>4 DEF TypeOK
    <3>2. \A t \in Settlers \ {s} : settle'[t] = settle[t]
      BY <1>a, <2>2 DEF TypeOK
    <3> QED
      BY <2>4, <3>1, <3>2 DEF CaredFor
  <2> QED
    BY <2>3, <2>4
<1>3. CASE ~ \E s \in Settlers : SealInstance(s)
  <2>1. instance[g].state = "settled" => instance'[g].state = "settled"
    <3>1. ASSUME NEW n \in Nodes, TickSettle(n)
          PROVE  instance[g].state = "settled" => instance'[g].state = "settled"
      BY <3>1 DEF TickSettle
    <3>2. ASSUME NEW s \in Settlers, SettleStep(s) PROVE instance' = instance
      BY <1>3, <3>2 DEF SettleStep, LoadGroups, LockGroup, SaveSettled, SyncSettled, EndSettle
    <3>3. ASSUME NEW r \in Requests, NEW n \in Nodes, Admit(r, n) PROVE instance' = instance
      BY <3>3 DEF Admit
    <3>4. ASSUME NEW n \in Nodes, GMSettle(n) \/ Crash(n) PROVE instance' = instance
      BY <3>4 DEF GMSettle, Crash
    <3>5. ASSUME Clock \/ TimeIsUp \/ UNCHANGED vars PROVE instance' = instance
      BY <3>5 DEF Clock, TimeIsUp, vars
    <3> QED
      BY <1>b, <3>1, <3>2, <3>3, <3>4, <3>5 DEF Next
  <2>2. ASSUME NEW s \in Settlers, settle[s].pc = "seal", settle[s].g = g
        PROVE  settle'[s].pc = "seal" /\ settle'[s].g = g
    <3>1. ASSUME NEW n \in Nodes, TickSettle(n) \/ GMSettle(n) PROVE settle'[s] = settle[s]
      <4>1. PICK t \in Settlers : settle[t].pc = "idle" /\ SettleGoto(t, "load")
        BY <3>1 DEF TickSettle, GMSettle, Settlers
      <4> QED
        BY <1>a, <2>2, <4>1, SettleGotoEffect DEF SettlePc
    <3>2. ASSUME NEW t \in Settlers, LoadGroups(t) \/ LockGroup(t) \/ EndSettle(t)
          PROVE  settle'[s] = settle[s]
      <4>1. t # s
        BY <2>2, <3>2 DEF LoadGroups, LockGroup, EndSettle
      <4> QED
        BY <1>a, <3>2, <4>1 DEF LoadGroups, LockGroup, EndSettle, TypeOK
    <3>3. ASSUME NEW t \in Settlers, SaveSettled(t) \/ SyncSettled(t)
          PROVE  settle'[s] = settle[s]
      <4>1. t # s
        BY <2>2, <3>3 DEF SaveSettled, SyncSettled
      <4> QED
        BY <1>a, <3>3, <4>1 DEF SaveSettled, SyncSettled, SettleGoto, TypeOK
    <3>4. ASSUME NEW n \in Nodes, Crash(n) PROVE FALSE
      BY <3>4 DEF Crash, Spend
    <3>5. ASSUME NEW r \in Requests, NEW n \in Nodes, Admit(r, n) PROVE settle' = settle
      BY <3>5 DEF Admit
    <3>6. ASSUME Clock \/ TimeIsUp \/ UNCHANGED vars PROVE settle' = settle
      BY <3>6 DEF Clock, TimeIsUp, vars
    <3> QED
      BY <1>3, <1>b, <2>2, <3>1, <3>2, <3>3, <3>4, <3>5, <3>6 DEF Next, SettleStep
  <2> QED
    BY <1>1, <2>1, <2>2 DEF CaredFor
<1> QED
  BY <1>2, <1>3

(* Every step after GameEndTime leaves no group without care.              *)
LEMMA SettleInvStep ==
    ASSUME ShapeInv, PlaceInv, KnownInv, InstanceInv, SettleInv, NoneActive,
           Faults = {}, [Next]_vars
    PROVE  SettleInv'
<1>a. TypeOK
  BY DEF ShapeInv
<1>b. ~ \E r \in Requests : RequestStep(r)
  BY <1>a, RequestEffect DEF NoneActive, Moves, Active, InLock
<1>c. \A g \in GroupIds : CaredFor(g) => CaredFor(g)'
  BY CareKept
<1>d. \A s \in Settlers : settle[s].pc \in {"seal", "save", "sync"} => settle[s].g \in GroupIds
  BY DEF ShapeInv, HasCopy
<1>1. CASE UNCHANGED <<settle, settledAt, groups, settleLock, now>>
  BY <1>1, <1>c, <1>d DEF SettleInv
<1>2. ASSUME NEW n \in Nodes, TickSettle(n) PROVE SettleInv'
  <2>1. PICK s \in Settlers : SettleGoto(s, "load")
    BY <1>2 DEF TickSettle, Settlers
  <2>2. UNCHANGED <<settledAt, groups, settleLock, now>>
    BY <1>2 DEF TickSettle, nodeVars
  <2>3. settle'[s].pc = "load" /\ \A t \in Settlers \ {s} : settle'[t] = settle[t]
    BY <1>a, <2>1, SettleGotoEffect DEF SettlePc
  <2> QED
    BY <1>c, <1>d, <2>2, <2>3 DEF SettleInv
<1>3. ASSUME NEW s \in Settlers, LoadGroups(s) PROVE SettleInv'
  <2> DEFINE known == IF \A h \in GroupIds : groups[h] = None
                      THEN cached[s[1]] ELSE groups
             todo == [h \in GroupIds |-> IF ToSettle(known[h]) THEN known[h] ELSE None]
  <2>1. settle' = [settle EXCEPT ![s].pc = "loop", ![s].todo = todo]
    BY <1>3 DEF LoadGroups
  <2>2. UNCHANGED <<settledAt, groups, settleLock, now>>
    BY <1>3 DEF LoadGroups, nodeVars
  <2>3. ASSUME NEW g \in GroupIds, todo[g] = None PROVE CaredFor(g)
    <3>1. CASE groups[g] = None
      <4>1. ASSUME NEW u \in instance[g].scores PROVE FALSE
        <5>1. u \in Users /\ members[u] = g
          BY <1>a DEF PlaceInv, ScoresInEntry, TypeOK, Instance
        <5>2. g # None
          BY GroupConstants
        <5> QED
          BY <3>1, <5>1, <5>2 DEF KnownInv
      <4> QED
        BY <4>1 DEF CaredFor
    <3>2. CASE groups[g] # None
      <4>1. ~ToSettle(groups[g])
        BY <2>3, <3>2
      <4> QED
        BY <3>2, <4>1 DEF ToSettle, SettleInv
    <3> QED
      BY <3>1, <3>2
  <2> HIDE DEF todo
  <2>4. /\ settle'[s].pc = "loop" /\ settle'[s].todo = todo
        /\ \A t \in Settlers \ {s} : settle'[t] = settle[t]
    BY <1>a, <2>1 DEF TypeOK, SettleState
  <2> QED
    BY <1>c, <1>d, <2>2, <2>3, <2>4 DEF SettleInv
<1>4. ASSUME NEW s \in Settlers, LockGroup(s) PROVE SettleInv'
  <2>1. PICK g \in GroupIds :
           \/ /\ settleLock' = [settleLock EXCEPT ![g] = now + LockTTL]
              /\ settle' = [settle EXCEPT ![s].pc = "seal", ![s].g = g]
           \/ /\ ~SettleFree(g)
              /\ settleLock' = settleLock
              /\ settle' = [settle EXCEPT ![s].todo[g] = None]
    BY <1>4 DEF LockGroup
  <2>2. UNCHANGED <<settledAt, groups, now>> /\ settle[s].pc = "loop"
    BY <1>4 DEF LockGroup, nodeVars
  <2>3. CASE /\ settleLock' = [settleLock EXCEPT ![g] = now + LockTTL]
             /\ settle' = [settle EXCEPT ![s].pc = "seal", ![s].g = g]
    <3>1. /\ settle'[s].pc = "seal" /\ settle'[s].g = g /\ settle'[s].todo = settle[s].todo
          /\ \A t \in Settlers \ {s} : settle'[t] = settle[t]
          /\ \A h \in GroupIds \ {g} : settleLock'[h] = settleLock[h]
      BY <1>a, <2>3 DEF TypeOK, SettleState
    <3>2. CaredFor(g)'
      BY <3>1 DEF CaredFor
    <3> QED
      BY <1>c, <1>d, <2>2, <3>1, <3>2 DEF SettleInv
  <2>4. CASE /\ ~SettleFree(g)
             /\ settleLock' = settleLock
             /\ settle' = [settle EXCEPT ![s].todo[g] = None]
    <3>1. settleLock[g] > now
      BY <1>a, <2>4 DEF SettleFree, TypeOK
    <3>2. CaredFor(g)
      BY <3>1 DEF SettleInv
    <3>3. /\ settle'[s].pc = "loop"
          /\ \A h \in GroupIds : h # g => settle'[s].todo[h] = settle[s].todo[h]
          /\ \A t \in Settlers \ {s} : settle'[t] = settle[t]
      BY <1>a, <2>2, <2>4 DEF TypeOK, SettleState
    <3> QED
      BY <1>c, <1>d, <2>2, <2>4, <3>2, <3>3 DEF SettleInv
  <2> QED
    BY <2>1, <2>3, <2>4
<1>5. ASSUME NEW s \in Settlers, SealInstance(s) PROVE SettleInv'
  <2>1. SettleGoto(s, "save") /\ settle[s].pc = "seal"
    BY <1>5 DEF SealInstance, Spend
  <2>2. UNCHANGED <<settledAt, groups, settleLock, now>>
    BY <1>5 DEF SealInstance, nodeVars
  <2>3. /\ settle'[s].pc = "save" /\ settle'[s].g = settle[s].g
        /\ settle'[s].todo = settle[s].todo
        /\ \A t \in Settlers \ {s} : settle'[t] = settle[t]
    BY <1>a, <2>1, SettleGotoEffect DEF SettlePc
  <2>4. CaredFor(settle[s].g)
    BY <2>1 DEF CaredFor
  <2> QED
    BY <1>c, <1>d, <2>1, <2>2, <2>3, <2>4 DEF SettleInv
<1>6. ASSUME NEW s \in Settlers, SaveSettled(s) PROVE SettleInv'
  <2>1. SettleGoto(s, "sync") /\ settle[s].pc = "save" /\ settle[s].g \in GroupIds
    BY <1>6, <1>d DEF SaveSettled
  <2>2. UNCHANGED <<settledAt, settleLock, now>>
    BY <1>6 DEF SaveSettled, nodeVars
  <2>3. /\ settle'[s].pc = "sync" /\ settle'[s].g = settle[s].g
        /\ settle'[s].todo = settle[s].todo
        /\ \A t \in Settlers \ {s} : settle'[t] = settle[t]
    BY <1>a, <2>1, SettleGotoEffect DEF SettlePc
  <2>4. CaredFor(settle[s].g)
    BY <2>1 DEF SettleInv
  <2>5. \A h \in GroupIds : h # settle[s].g => groups'[h] = groups[h]
    BY <1>a, <1>6 DEF SaveSettled, TypeOK
  <2> QED
    BY <1>c, <1>d, <2>1, <2>2, <2>3, <2>4, <2>5 DEF SettleInv
<1>7. ASSUME NEW s \in Settlers, SyncSettled(s) PROVE SettleInv'
  <2>1. settle[s].pc = "sync" /\ settle[s].g \in GroupIds
    BY <1>7, <1>d DEF SyncSettled
  <2>2. UNCHANGED <<settledAt, groups, settleLock, now>>
    BY <1>7 DEF SyncSettled
  <2>3. /\ settle'[s].pc = "loop"
        /\ \A h \in GroupIds : h # settle[s].g => settle'[s].todo[h] = settle[s].todo[h]
        /\ \A t \in Settlers \ {s} : settle'[t] = settle[t]
    BY <1>a, <1>7, <2>1 DEF SyncSettled, TypeOK, SettleState
  <2>4. CaredFor(settle[s].g)
    BY <2>1 DEF SettleInv
  <2> QED
    BY <1>c, <1>d, <2>1, <2>2, <2>3, <2>4 DEF SettleInv
<1>8. ASSUME NEW s \in Settlers, EndSettle(s) PROVE SettleInv'
  <2>1. /\ UNCHANGED <<groups, settleLock, now>>
        /\ settle'[s] = Idle
        /\ \A t \in Settlers \ {s} : settle'[t] = settle[t]
        /\ \A n \in Nodes : n # s[1] => settledAt'[n] = settledAt[n]
    BY <1>a, <1>8 DEF EndSettle, TypeOK
  <2>2. \A g \in GroupIds : CaredFor(g)
    BY <1>8 DEF EndSettle, SettleInv
  <2> QED
    BY <1>c, <1>d, <2>1, <2>2 DEF SettleInv, Idle
<1>9. CASE Clock
  <2>1. UNCHANGED <<settle, settledAt, groups, settleLock>> /\ now' = now + 1
    BY <1>9 DEF Clock, nodeVars
  <2>2. \A g \in GroupIds : settleLock[g] > now' => settleLock[g] > now
    BY <1>a, <2>1 DEF TypeOK
  <2> QED
    BY <1>c, <1>d, <2>1, <2>2 DEF SettleInv
<1>10. ASSUME NEW n \in Nodes, GMSettle(n) \/ Crash(n) PROVE FALSE
  BY <1>10 DEF GMSettle, Crash, Spend
<1>11. ASSUME NEW r \in Requests, NEW n \in Nodes, Admit(r, n)
       PROVE  UNCHANGED <<settle, settledAt, groups, settleLock, now>>
  BY <1>11 DEF Admit, nodeVars
<1> QED
  BY <1>b, <1>1, <1>2, <1>3, <1>4, <1>5, <1>6, <1>7, <1>8, <1>9, <1>10, <1>11
     DEF Next, SettleStep, TimeIsUp, vars

(* Before GameEndTime nobody has passed over anything. *)
LEMMA NothingPassedOver ==
    ASSUME ShapeInv, BeforeEnd, now < SettleAt, Faults = {}, [Next]_vars
    PROVE  SettleInv'
<1>1. NothingSettled'
  <2>1. CASE now' < SettleAt
    BY <2>1, BeforeEndStep DEF BeforeEnd
  <2>2. CASE Clock
    BY <2>2 DEF Clock, BeforeEnd, NothingSettled, nodeVars
  <2>3. CASE ~Clock
    <3>1. now' = now
      <4>1. ASSUME NEW r \in Requests, RequestStep(r) PROVE now' = now
        BY <4>1, RequestEffect DEF ShapeInv
      <4>2. ASSUME NEW r \in Requests, NEW n \in Nodes, Admit(r, n) PROVE now' = now
        BY <4>2 DEF Admit
      <4>3. ASSUME NEW n \in Nodes, TickSettle(n) \/ GMSettle(n) \/ Crash(n)
            PROVE  now' = now
        BY <4>3 DEF TickSettle, GMSettle, Crash
      <4>4. ASSUME NEW s \in Settlers, SettleStep(s) PROVE now' = now
        BY <4>4 DEF SettleStep, LoadGroups, LockGroup, SealInstance, SaveSettled,
           SyncSettled, EndSettle
      <4> QED
        BY <2>3, <4>1, <4>2, <4>3, <4>4 DEF Next, TimeIsUp, vars
    <3> QED
      BY <2>1, <3>1
  <2> QED
    BY <2>1, <2>2, <2>3
<1>2. TypeOK'
  BY TypeStep
<1> QED
  BY <1>1, <1>2 DEF NothingSettled, SettleInv, TypeOK

(* When nothing fails nobody takes the leaderboard for settled as long as  *)
(* a group is without care, ...                                            *)
THEOREM EveryGroupCaredFor == Prompt /\ Faults = {} /\ Spec => []SettleInv
<1> SUFFICES ASSUME Prompt, Faults = {} PROVE Spec => []SettleInv
  OBVIOUS
<1>1. Init => SettleInv
  BY DEF Init, SettleInv, Idle
<1>2. ShapeInv /\ PlaceInv /\ QuietInv /\ BeforeEnd /\ KnownInv /\ InstanceInv
      /\ SettleInv /\ [Next]_vars => SettleInv'
  <2> SUFFICES ASSUME ShapeInv, PlaceInv, QuietInv, BeforeEnd, KnownInv,
                      InstanceInv, SettleInv, [Next]_vars
               PROVE  SettleInv'
    OBVIOUS
  <2>1. CASE now < SettleAt
    BY <2>1, NothingPassedOver
  <2>2. CASE ~(now < SettleAt)
    <3>1. NoneActive
      BY <2>2, GroupConstants DEF QuietInv, ShapeInv, TypeOK
    <3> QED
      BY <3>1, SettleInvStep
  <2> QED
    BY <2>1, <2>2
<1>3. Spec => []BeforeEnd
  BY NoEarlySettlement
<1> QED
  BY <1>1, <1>2, <1>3, Shape, Places, Quiet, Known, Instances, PTL DEF Spec

(* ... so when they all do, every score that was accepted is in a snapshot *)
(* and its player gets a reward (Settle and Tick, engine/service.go).      *)
THEOREM NoScoreIsLost == Prompt /\ Faults = {} /\ Spec => []EveryScoreInSnapshot
<1> SUFFICES ASSUME Prompt, Faults = {} PROVE Spec => []EveryScoreInSnapshot
  OBVIOUS
<1>1. SettleInv /\ InstanceInv => EveryScoreInSnapshot
  <2> SUFFICES ASSUME SettleInv, InstanceInv, GivenUp, NEW g \in GroupIds
               PROVE  instance[g].scores = instance[g].snapshot
    BY DEF EveryScoreInSnapshot
  <2>1. CaredFor(g)
    BY SomeNode DEF SettleInv, GivenUp
  <2>2. ~ \E s \in Settlers : settle[s].pc = "seal"
    BY DEF GivenUp
  <2> QED
    BY <2>1, <2>2 DEF CaredFor, InstanceInv
<1> QED
  BY <1>1, EveryGroupCaredFor, Instances, PTL
=============================================================================
