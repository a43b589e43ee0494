---------------------- MODULE LeaderboardGroupsProofs ----------------------
(***************************************************************************)
(* Proofs about LeaderboardGroups, for any number of nodes, users, groups  *)
(* and requests.                                                           *)
(***************************************************************************)
EXTENDS LeaderboardGroups, TLAPS

(* Where a request has a group, where it is a group that the node knows,   *)
(* and where a request is under way.                                       *)
InGroup == {"create", "count", "save", "member", "plan", "score", "upsert", "spawn"}
Joining == {"count", "save", "member", "plan"}
Active == InLock \cup {"enter", "score", "upsert", "spawn"}

(* What the steps of UpsertScore and Settle take for granted: the request  *)
(* is on a node and in a group, s.groups holds the group it is joining, a  *)
(* settlement has a copy of the group it is at; and no identifier above    *)
(* nextGroupID is in use, so ensureLoaded never has to correct it.         *)
OnNode == \A r \in Requests : req[r].pc \in Active => req[r].node \in Nodes
HasGroup == \A r \in Requests : req[r].pc \in InGroup => req[r].g \in GroupIds
KnowsGroup ==
    \A r \in Requests : req[r].pc \in Joining => cached[req[r].node][req[r].g] \in Group
HasCopy ==
    \A s \in Settlers : settle[s].pc \in {"seal", "save", "sync"} =>
        /\ settle[s].g \in GroupIds
        /\ settle[s].todo[settle[s].g] \in Group \ {None}
Numbered ==
    /\ \A g \in GroupIds : groups[g] # None => g <= nextGroup
    /\ \A g \in GroupIds, n \in Nodes : cached[n][g] # None => g <= nextGroup
    /\ \A g \in GroupIds, s \in Settlers : settle[s].todo[g] # None => g <= nextGroup
    /\ \A r \in Requests : req[r].pc \in {"create"} \cup Joining => req[r].g <= nextGroup

ShapeInv == TypeOK /\ OnNode /\ HasGroup /\ KnowsGroup /\ HasCopy /\ Numbered

ReqPc == {"new", "enter", "score", "upsert", "spawn"} \cup InLock \cup Ended
SettlePc == {"idle", "load", "loop", "seal", "save", "sync"}
Todo == [GroupIds -> Group \cup {None}]

(* A request that moves on stays a request. *)
LEMMA ReqMoves ==
    ASSUME req \in [Requests -> RequestState], NEW r \in Requests, NEW p \in ReqPc
    PROVE  /\ [req EXCEPT ![r].pc = p] \in [Requests -> RequestState]
           /\ \A n \in Nodes \cup {None} :
                [req EXCEPT ![r].pc = p, ![r].node = n] \in [Requests -> RequestState]
           /\ \A g \in GroupIds \cup {None} :
                [req EXCEPT ![r].pc = p, ![r].g = g] \in [Requests -> RequestState]
           /\ \A b \in BOOLEAN :
                [req EXCEPT ![r].pc = p, ![r].spawn = b] \in [Requests -> RequestState]
BY DEF ReqPc, RequestState

(* A settlement that moves on stays a settlement. *)
LEMMA SettleMoves ==
    ASSUME settle \in [Settlers -> SettleState], NEW s \in Settlers, NEW p \in SettlePc
    PROVE  /\ [settle EXCEPT ![s].pc = p] \in [Settlers -> SettleState]
           /\ [settle EXCEPT ![s] = Idle] \in [Settlers -> SettleState]
           /\ \A t \in Todo :
                [settle EXCEPT ![s].pc = p, ![s].todo = t] \in [Settlers -> SettleState]
           /\ \A g \in GroupIds :
                /\ [settle EXCEPT ![s].pc = p, ![s].g = g] \in [Settlers -> SettleState]
                /\ [settle EXCEPT ![s].todo[g] = None] \in [Settlers -> SettleState]
                /\ [settle EXCEPT ![s].pc = p, ![s].todo[g] = None, ![s].g = None]
                     \in [Settlers -> SettleState]
<1> USE DEF SettlePc, SettleState, Todo
<1>1. [settle EXCEPT ![s].pc = p] \in [Settlers -> SettleState]
  OBVIOUS
<1>2. [settle EXCEPT ![s] = Idle] \in [Settlers -> SettleState]
  BY DEF Idle
<1>3. ASSUME NEW t \in Todo
      PROVE  [settle EXCEPT ![s].pc = p, ![s].todo = t] \in [Settlers -> SettleState]
  OBVIOUS
<1>4. ASSUME NEW g \in GroupIds
      PROVE  [settle EXCEPT ![s].pc = p, ![s].g = g] \in [Settlers -> SettleState]
  OBVIOUS
<1>5. ASSUME NEW g \in GroupIds
      PROVE  [settle EXCEPT ![s].todo[g] = None] \in [Settlers -> SettleState]
  OBVIOUS
<1>6. ASSUME NEW g \in GroupIds
      PROVE  [settle EXCEPT ![s].pc = p, ![s].todo[g] = None, ![s].g = None]
               \in [Settlers -> SettleState]
  OBVIOUS
<1> QED
  BY <1>1, <1>2, <1>3, <1>4, <1>5, <1>6

(* A group whose count, robots or state changes stays a group, ... *)
LEMMA GroupMoves ==
    ASSUME NEW x \in Group
    PROVE  /\ \A k \in Nat : [x EXCEPT !.real = k] \in Group
           /\ \A k \in Nat : [x EXCEPT !.robots = k] \in Group
           /\ \A k \in {"open", "full", "settled"} : [x EXCEPT !.state = k] \in Group
BY DEF Group

InstanceStates == {"absent", "open", "closed", "settled"}

(* ... and an instance an instance. *)
LEMMA InstanceMoves ==
    ASSUME instance \in [GroupIds -> Instance], NEW g \in GroupIds
    PROVE  /\ \A k \in InstanceStates :
                /\ [instance[g] EXCEPT !.state = k] \in Instance
                /\ [instance EXCEPT ![g].state = k] \in [GroupIds -> Instance]
           /\ \A u \in Users :
                [instance EXCEPT ![g].scores = @ \cup {u}] \in [GroupIds -> Instance]
           /\ \A k \in Nat :
                [instance EXCEPT ![g].robots = k] \in [GroupIds -> Instance]
BY DEF Instance, InstanceStates

(* How many robots are planned is a number. *)
LEMMA PlannedType == Planned \in Nat /\ Planned <= Capacity - 1
BY GroupConstants DEF Planned, Lesser

(* The records of the model keep their fields. *)
LEMMA TypeStep == ShapeInv /\ [Next]_vars => TypeOK'
<1> SUFFICES ASSUME ShapeInv, [Next]_vars PROVE TypeOK'
  OBVIOUS
<1> USE GroupConstants DEF ShapeInv, TypeOK, ReqPc, SettlePc
<1>1. ASSUME NEW r \in Requests, NEW n \in Nodes, Admit(r, n) PROVE TypeOK'
  <2>1. req' \in [Requests -> RequestState]
    BY <1>1, ReqMoves DEF Admit
  <2> QED
    BY <1>1, <2>1 DEF Admit, metaVars, nodeVars
<1>2. ASSUME NEW r \in Requests, Enter(r) PROVE TypeOK'
  <2> DEFINE n == Under(r)
             g == IF memberGroup[n][User(r)] # None
                  THEN memberGroup[n][User(r)] ELSE members[User(r)]
             p == IF g = None THEN "choose" ELSE "score"
  <2>1. n \in Nodes /\ User(r) \in Users /\ g \in GroupIds \cup {None}
    BY <1>2 DEF Enter, OnNode, Active, Under, User
  <2>2. /\ memberGroup' = [memberGroup EXCEPT ![n][User(r)] = g]
        /\ req' = [req EXCEPT ![r].pc = p, ![r].g = g]
    BY <1>2 DEF Enter
  <2>3. p \in ReqPc
    BY DEF InLock
  <2> HIDE DEF n, g, p
  <2>4. memberGroup' \in [Nodes -> [Users -> GroupIds \cup {None}]]
    BY <2>1, <2>2
  <2>5. req' \in [Requests -> RequestState]
    BY <2>1, <2>2, <2>3, ReqMoves
  <2> QED
    BY <1>2, <2>4, <2>5 DEF Enter, metaVars
<1>3. ASSUME NEW r \in Requests, ChooseGroup(r) PROVE TypeOK'
  <2>1. \/ Goto(r, "number")
        \/ \E g \in GroupIds : req' = [req EXCEPT ![r].pc = "count", ![r].g = g]
    BY <1>3 DEF ChooseGroup
  <2>2. req' \in [Requests -> RequestState]
    <3>1. CASE Goto(r, "number")
      BY <3>1, ReqMoves DEF Goto, InLock
    <3>2. ASSUME NEW g \in GroupIds, req' = [req EXCEPT ![r].pc = "count", ![r].g = g]
          PROVE  req' \in [Requests -> RequestState]
      BY <3>2, ReqMoves DEF InLock
    <3> QED
      BY <2>1, <3>1, <3>2
  <2>3. cached' \in [Nodes -> [GroupIds -> Group \cup {None}]]
    BY <1>3 DEF ChooseGroup, Under
  <2> QED
    BY <1>3, <2>2, <2>3 DEF ChooseGroup, metaVars
<1>4. ASSUME NEW r \in Requests, NumberGroup(r) PROVE TypeOK'
  <2>1. req' \in [Requests -> RequestState]
    BY <1>4, ReqMoves DEF NumberGroup, NewNumber, InLock
  <2> QED
    BY <1>4, <2>1 DEF NumberGroup, NewNumber, nodeVars
<1>5. ASSUME NEW r \in Requests, CreateGroup(r) PROVE TypeOK'
  <2>1. req' \in [Requests -> RequestState]
    BY <1>5, ReqMoves DEF CreateGroup, Goto, InLock
  <2>2. [real |-> 0, robots |-> 0, state |-> "open"] \in Group
    BY DEF Group
  <2> QED
    BY <1>5, <2>1, <2>2 DEF CreateGroup, metaVars
<1>6. ASSUME NEW r \in Requests, CountPlayer(r) PROVE TypeOK'
  <2>1. req' \in [Requests -> RequestState]
    BY <1>6, ReqMoves DEF CountPlayer, Goto, InLock
  <2>2. /\ Under(r) \in Nodes /\ User(r) \in Users /\ req[r].g \in GroupIds
        /\ cached[Under(r)][req[r].g] \in Group
    BY <1>6 DEF CountPlayer, OnNode, HasGroup, KnowsGroup, Active, InLock,
       InGroup, Joining, Under, User
  <2>3. [cached[Under(r)][req[r].g] EXCEPT !.real = realCount[req[r].g] + 1] \in Group
    <3> DEFINE k == realCount[req[r].g]
    <3>1. k \in Nat
      BY <2>2
    <3>2. k + 1 \in Nat
      <4> HIDE DEF k
      <4> QED
        BY <3>1
    <3> QED
      BY <2>2, <3>2, GroupMoves
  <2>4. cached' \in [Nodes -> [GroupIds -> Group \cup {None}]]
    BY <1>6, <2>2, <2>3 DEF CountPlayer
  <2>5. /\ memberGroup' \in [Nodes -> [Users -> GroupIds \cup {None}]]
        /\ realCount' \in [GroupIds -> Nat]
    BY <1>6, <2>2 DEF CountPlayer
  <2> QED
    BY <1>6, <2>1, <2>4, <2>5 DEF CountPlayer
<1>7. ASSUME NEW r \in Requests, SaveCount(r) PROVE TypeOK'
  <2>1. req' \in [Requests -> RequestState]
    BY <1>7, ReqMoves DEF SaveCount, Goto, InLock
  <2>2. groups' \in [GroupIds -> Group \cup {None}]
    BY <1>7 DEF SaveCount, CountWritten, Under, KnowsGroup, Joining
  <2> QED
    BY <1>7, <2>1, <2>2 DEF SaveCount, nodeVars, metaVars
<1>8. ASSUME NEW r \in Requests, SetMember(r) PROVE TypeOK'
  <2>1. req' \in [Requests -> RequestState]
    BY <1>8, ReqMoves DEF SetMember, Goto, InLock
  <2>2. members' \in [Users -> GroupIds \cup {None}]
    BY <1>8 DEF SetMember, RecordMember, HasGroup, InGroup, User
  <2> QED
    BY <1>8, <2>1, <2>2 DEF SetMember, nodeVars, metaVars
<1>9. ASSUME NEW r \in Requests, PlanRobots(r) PROVE TypeOK'
  <2> DEFINE n == Under(r)
             g == req[r].g
             first == cached[n][g].real = 1 /\ Planned > 0
             planned == IF first THEN [cached[n][g] EXCEPT !.robots = Planned]
                                 ELSE cached[n][g]
             after == IF Total(planned) >= Capacity
                      THEN [planned EXCEPT !.state = "full"] ELSE planned
  <2>1. n \in Nodes /\ g \in GroupIds /\ cached[n][g] \in Group
    BY <1>9 DEF PlanRobots, OnNode, HasGroup, KnowsGroup, Active, InLock,
       InGroup, Joining, Under
  <2>2. first \in BOOLEAN
    OBVIOUS
  <2>3. planned \in Group
    BY <2>1, PlannedType, GroupMoves
  <2>4. /\ cached' = [cached EXCEPT ![n][g] = after]
        /\ \/ groups' = [groups EXCEPT ![g] = after]
           \/ groups' = groups
        /\ req' = [req EXCEPT ![r].pc = "score", ![r].spawn = first]
    BY <1>9 DEF PlanRobots
  <2>5. after \in Group
    <3> HIDE DEF planned
    <3> QED
      BY <2>3, GroupMoves
  <2> HIDE DEF n, g, first, after
  <2>6. req' \in [Requests -> RequestState]
    BY <2>2, <2>4, ReqMoves
  <2>7. /\ cached' \in [Nodes -> [GroupIds -> Group \cup {None}]]
        /\ groups' \in [GroupIds -> Group \cup {None}]
    BY <2>1, <2>4, <2>5
  <2> QED
    BY <1>9, <2>6, <2>7 DEF PlanRobots, metaVars
<1>10. ASSUME NEW r \in Requests, EnsureInstance(r) PROVE TypeOK'
  <2>1. req' \in [Requests -> RequestState]
    BY <1>10, ReqMoves DEF EnsureInstance, Goto
  <2>2. req[r].g \in GroupIds
    BY <1>10 DEF EnsureInstance, HasGroup, InGroup
  <2>3. instance' \in [GroupIds -> Instance]
    <3>1. instance[req[r].g].state \in InstanceStates
      BY <2>2 DEF Instance, InstanceStates
    <3> DEFINE k == IF instance[req[r].g].state = "absent"
                    THEN "open" ELSE instance[req[r].g].state
    <3>2. k \in InstanceStates
      BY <3>1 DEF InstanceStates
    <3>3. instance' = [instance EXCEPT ![req[r].g].state = k]
      BY <1>10 DEF EnsureInstance
    <3> HIDE DEF k
    <3> QED
      BY <2>2, <3>2, <3>3, InstanceMoves
  <2> QED
    BY <1>10, <2>1, <2>3 DEF EnsureInstance, nodeVars, metaVars
<1>11. ASSUME NEW r \in Requests, UpsertScore(r) PROVE TypeOK'
  <2>1. req' \in [Requests -> RequestState]
    <3>1. Goto(r, "ok") \/ Goto(r, "spawn") \/ Goto(r, "refused")
      BY <1>11 DEF UpsertScore
    <3>2. CASE Goto(r, "ok")
      BY <3>2, ReqMoves DEF Goto, Ended
    <3>3. CASE Goto(r, "spawn")
      BY <3>3, ReqMoves DEF Goto, Ended
    <3>4. CASE Goto(r, "refused")
      BY <3>4, ReqMoves DEF Goto, Ended
    <3> QED
      BY <3>1, <3>2, <3>3, <3>4
  <2>2. User(r) \in Users /\ req[r].g \in GroupIds
    BY <1>11 DEF UpsertScore, User, HasGroup, InGroup
  <2>3. instance' \in [GroupIds -> Instance]
    <3>1. \/ instance' = instance
          \/ instance' = [instance EXCEPT ![req[r].g].scores = @ \cup {User(r)}]
      BY <1>11 DEF UpsertScore
    <3>2. [instance EXCEPT ![req[r].g].scores = @ \cup {User(r)}]
            \in [GroupIds -> Instance]
      BY <2>2, InstanceMoves
    <3> QED
      BY <3>1, <3>2
  <2> QED
    BY <1>11, <2>1, <2>3 DEF UpsertScore, nodeVars, metaVars
<1>12. ASSUME NEW r \in Requests, SpawnRobots(r) PROVE TypeOK'
  <2>1. req' \in [Requests -> RequestState]
    BY <1>12, ReqMoves DEF SpawnRobots, Goto, Ended
  <2>2. PICK k \in 0..Planned :
           instance' = [instance EXCEPT ![req[r].g].robots =
                          IF instance[req[r].g].state = "open" THEN @ + k ELSE @]
    BY <1>12 DEF SpawnRobots
  <2>3. instance' \in [GroupIds -> Instance]
    <3> DEFINE g == req[r].g
               robots == IF instance[g].state = "open"
                         THEN instance[g].robots + k ELSE instance[g].robots
    <3>1. g \in GroupIds
      BY <1>12 DEF SpawnRobots, HasGroup, InGroup
    <3>2. instance[g].robots \in Nat
      BY <3>1 DEF Instance
    <3>3. robots \in Nat
      BY <3>2, PlannedType
    <3>4. instance' = [instance EXCEPT ![g].robots = robots]
      BY <2>2
    <3> HIDE DEF g, robots
    <3> QED
      BY <3>1, <3>3, <3>4, InstanceMoves
  <2> QED
    BY <1>12, <2>1, <2>3 DEF SpawnRobots, nodeVars, metaVars
<1>13. ASSUME NEW n \in Nodes, TickSettle(n) PROVE TypeOK'
  <2>1. settle' \in [Settlers -> SettleState]
    BY <1>13, SettleMoves DEF TickSettle, SettleGoto, Settlers
  <2>2. ASSUME NEW g \in GroupIds
        PROVE  [instance[g] EXCEPT !.state = "closed"] \in Instance
    BY InstanceMoves DEF InstanceStates
  <2>3. instance' \in [GroupIds -> Instance]
    BY <1>13, <2>2 DEF TickSettle
  <2> QED
    BY <1>13, <2>1, <2>3 DEF TickSettle, nodeVars, metaVars
<1>14. ASSUME NEW n \in Nodes, GMSettle(n) PROVE TypeOK'
  <2>1. settle' \in [Settlers -> SettleState]
    BY <1>14, SettleMoves DEF GMSettle, SettleGoto, Settlers
  <2> QED
    BY <1>14, <2>1 DEF GMSettle, Spend, nodeVars, metaVars
<1>15. ASSUME NEW s \in Settlers, LoadGroups(s) PROVE TypeOK'
  <2> DEFINE known == IF \A g \in GroupIds : groups[g] = None
                      THEN cached[s[1]] ELSE groups
             todo == [g \in GroupIds |-> IF ToSettle(known[g]) THEN known[g] ELSE None]
  <2>1. todo \in Todo
    BY DEF Settlers, Todo
  <2>2. settle' = [settle EXCEPT ![s].pc = "loop", ![s].todo = todo]
    BY <1>15 DEF LoadGroups
  <2> HIDE DEF todo
  <2>3. settle' \in [Settlers -> SettleState]
    BY <2>1, <2>2, SettleMoves
  <2> QED
    BY <1>15, <2>3 DEF LoadGroups, nodeVars, metaVars
<1>16. ASSUME NEW s \in Settlers, LockGroup(s) PROVE TypeOK'
  <2>1. PICK g \in GroupIds :
           \/ /\ settleLock' = [settleLock EXCEPT ![g] = now + LockTTL]
              /\ settle' = [settle EXCEPT ![s].pc = "seal", ![s].g = g]
           \/ /\ settle' = [settle EXCEPT ![s].todo[g] = None]
              /\ settleLock' = settleLock
    BY <1>16 DEF LockGroup
  <2>2. settle' \in [Settlers -> SettleState]
    <3>1. CASE settle' = [settle EXCEPT ![s].pc = "seal", ![s].g = g]
      BY <3>1, SettleMoves
    <3>2. CASE settle' = [settle EXCEPT ![s].todo[g] = None]
      <4>1. "loop" \in SettlePc
        OBVIOUS
      <4> QED
        BY <3>2, <4>1, SettleMoves
    <3> QED
      BY <2>1, <3>1, <3>2
  <2>3. settleLock' \in [GroupIds -> Nat]
    BY <2>1
  <2> QED
    BY <1>16, <2>2, <2>3 DEF LockGroup, nodeVars, metaVars
<1>17. ASSUME NEW s \in Settlers, SealInstance(s) PROVE TypeOK'
  <2>1. settle' \in [Settlers -> SettleState]
    <3>1. \/ settle' = [settle EXCEPT ![s].pc = "save"]
          \/ settle' = [settle EXCEPT ![s] = Idle]
      BY <1>17 DEF SealInstance, SettleGoto
    <3>2. CASE settle' = [settle EXCEPT ![s].pc = "save"]
      BY <3>2, SettleMoves
    <3>3. CASE settle' = [settle EXCEPT ![s] = Idle]
      <4>1. "loop" \in SettlePc
        OBVIOUS
      <4> QED
        BY <3>3, <4>1, SettleMoves
    <3> QED
      BY <3>1, <3>2, <3>3
  <2>2. ASSUME NEW i \in Instance PROVE Sealed(i) \in Instance
    BY DEF Sealed, Instance
  <2>3. instance' \in [GroupIds -> Instance]
    BY <1>17, <2>2 DEF SealInstance
  <2> QED
    BY <1>17, <2>1, <2>3 DEF SealInstance, Spend, nodeVars, metaVars
<1>18. ASSUME NEW s \in Settlers, SaveSettled(s) PROVE TypeOK'
  <2>1. settle' \in [Settlers -> SettleState]
    BY <1>18, SettleMoves DEF SaveSettled, SettleGoto
  <2>2. settle[s].g \in GroupIds /\ Settled(s) \in Group
    BY <1>18, GroupMoves DEF SaveSettled, HasCopy, Settled
  <2> QED
    BY <1>18, <2>1, <2>2 DEF SaveSettled, nodeVars, metaVars
<1>19. ASSUME NEW s \in Settlers, SyncSettled(s) PROVE TypeOK'
  <2>1. settle[s].g \in GroupIds /\ Settled(s) \in Group
    BY <1>19, GroupMoves DEF SyncSettled, HasCopy, Settled
  <2>2. settle' \in [Settlers -> SettleState]
    BY <1>19, <2>1, SettleMoves DEF SyncSettled
  <2>3. cached' \in [Nodes -> [GroupIds -> Group \cup {None}]]
    BY <1>19, <2>1 DEF SyncSettled, Settlers
  <2> QED
    BY <1>19, <2>2, <2>3 DEF SyncSettled, nodeVars, metaVars
<1>20. ASSUME NEW s \in Settlers, EndSettle(s) PROVE TypeOK'
  <2>1. settle' \in [Settlers -> SettleState]
    BY <1>20, SettleMoves DEF EndSettle
  <2> QED
    BY <1>20, <2>1 DEF EndSettle, Settlers, metaVars
<1>21. ASSUME NEW n \in Nodes, Crash(n) PROVE TypeOK'
  <2>1. ASSUME NEW r \in Requests
        PROVE  [req[r] EXCEPT !.pc = "failed"] \in RequestState
    BY DEF RequestState, Ended
  <2>2. req' \in [Requests -> RequestState]
    BY <1>21, <2>1 DEF Crash
  <2>3. settle' \in [Settlers -> SettleState]
    BY <1>21 DEF Crash, Idle, SettleState
  <2>4. nextGroup' = nextGroup
    BY <1>21 DEF Crash, Numbered
  <2>5. /\ cached' \in [Nodes -> [GroupIds -> Group \cup {None}]]
        /\ memberGroup' \in [Nodes -> [Users -> GroupIds \cup {None}]]
        /\ settledAt' \in [Nodes -> BOOLEAN]
        /\ left' \in 0..MaxFaults
    BY <1>21 DEF Crash, Spend
  <2> QED
    BY <1>21, <2>2, <2>3, <2>4, <2>5 DEF Crash
<1>22. ASSUME Clock PROVE TypeOK'
  BY <1>22 DEF Clock, nodeVars, metaVars
<1>23. ASSUME TimeIsUp \/ UNCHANGED vars PROVE TypeOK'
  BY <1>23 DEF TimeIsUp, vars
<1> QED
  BY <1>1, <1>2, <1>3, <1>4, <1>5, <1>6, <1>7, <1>8, <1>9, <1>10, <1>11, <1>12,
     <1>13, <1>14, <1>15, <1>16, <1>17, <1>18, <1>19, <1>20, <1>21, <1>22, <1>23
     DEF Next, RequestStep, SettleStep

(* The way of a request through UpsertScore. *)
Moves(p, q) ==
    \/ p = "enter" /\ q \in {"choose", "score"}
    \/ p = "choose" /\ q \in {"number", "count"}
    \/ p = "number" /\ q = "create"
    \/ p = "create" /\ q = "count"
    \/ p = "count" /\ q = "save"
    \/ p = "save" /\ q = "member"
    \/ p = "member" /\ q = "plan"
    \/ p = "plan" /\ q = "score"
    \/ p = "score" /\ q = "upsert"
    \/ p = "upsert" /\ q \in {"spawn", "ok", "refused"}
    \/ p = "spawn" /\ q = "ok"

(* A step of a request moves this request only, leaves it on its node and, *)
(* once it has one, in its group, and leaves the settlements alone.        *)
LEMMA RequestEffect ==
    ASSUME TypeOK, NEW r \in Requests, RequestStep(r)
    PROVE  /\ \A q \in Requests \ {r} : req'[q] = req[q]
           /\ Moves(req[r].pc, req'[r].pc)
           /\ req'[r].node = req[r].node
           /\ req[r].pc \notin {"enter", "choose", "number"} => req'[r].g = req[r].g
           /\ UNCHANGED <<settle, settledAt, settleLock, left, now>>
<1> USE DEF Moves, RequestState
<1> req \in [Requests -> RequestState]
  BY DEF TypeOK
<1>1. CASE Enter(r)
  BY <1>1 DEF Enter
<1>2. CASE ChooseGroup(r)
  BY <1>2 DEF ChooseGroup, Goto
<1>3. CASE NumberGroup(r)
  BY <1>3 DEF NumberGroup, nodeVars
<1>4. CASE CreateGroup(r)
  BY <1>4 DEF CreateGroup, Goto
<1>5. CASE CountPlayer(r)
  BY <1>5 DEF CountPlayer, Goto
<1>6. CASE SaveCount(r)
  BY <1>6 DEF SaveCount, Goto, nodeVars
<1>7. CASE SetMember(r)
  BY <1>7 DEF SetMember, Goto, nodeVars
<1>8. CASE PlanRobots(r)
  BY <1>8 DEF PlanRobots
<1>9. CASE EnsureInstance(r)
  BY <1>9 DEF EnsureInstance, Goto, nodeVars
<1>10. CASE UpsertScore(r)
  BY <1>10 DEF UpsertScore, Goto, nodeVars
<1>11. CASE SpawnRobots(r)
  BY <1>11 DEF SpawnRobots, Goto, nodeVars
<1> QED
  BY <1>1, <1>2, <1>3, <1>4, <1>5, <1>6, <1>7, <1>8, <1>9, <1>10, <1>11
     DEF RequestStep

(* A request is admitted on a node, ...                                    *)
LEMMA AdmitEffect ==
    ASSUME TypeOK, NEW r \in Requests, NEW n \in Nodes, Admit(r, n)
    PROVE  /\ \A q \in Requests \ {r} : req'[q] = req[q]
           /\ req[r].pc = "new" /\ req'[r].pc = "enter" /\ req'[r].node = n
BY DEF Admit, TypeOK, RequestState

(* ... and a crash fails what the node had under way.                      *)
LEMMA CrashEffect ==
    ASSUME TypeOK, NEW n \in Nodes, Crash(n), NEW r \in Requests
    PROVE  \/ req'[r] = req[r] /\ (req[r].node = n => req[r].pc \in Ended)
           \/ req'[r].pc = "failed"
BY DEF Crash, TypeOK, RequestState

(* All other steps leave the requests alone. *)
LEMMA OthersKeepRequests ==
    ASSUME [Next]_vars,
           ~ \E r \in Requests : RequestStep(r) \/ \E n \in Nodes : Admit(r, n),
           ~ \E n \in Nodes : Crash(n)
    PROVE  UNCHANGED <<req, members, memberGroup, nextGroup, realCount>>
<1>1. ASSUME NEW n \in Nodes, TickSettle(n) \/ GMSettle(n)
      PROVE  UNCHANGED <<req, members, memberGroup, nextGroup, realCount>>
  BY <1>1 DEF TickSettle, GMSettle, nodeVars, metaVars
<1>2. ASSUME NEW s \in Settlers, SettleStep(s)
      PROVE  UNCHANGED <<req, members, memberGroup, nextGroup, realCount>>
  BY <1>2 DEF SettleStep, LoadGroups, LockGroup, SealInstance, SaveSettled,
     SyncSettled, EndSettle, nodeVars, metaVars
<1>3. ASSUME Clock \/ TimeIsUp \/ UNCHANGED vars
      PROVE  UNCHANGED <<req, members, memberGroup, nextGroup, realCount>>
  BY <1>3 DEF Clock, TimeIsUp, vars, nodeVars, metaVars
<1> QED
  BY <1>1, <1>2, <1>3 DEF Next

(* Requests under way are on a node. *)
LEMMA OnNodeStep == ShapeInv /\ [Next]_vars => OnNode'
<1> SUFFICES ASSUME ShapeInv, [Next]_vars PROVE OnNode'
  OBVIOUS
<1> USE DEF ShapeInv, OnNode, Active, InLock
<1>1. ASSUME NEW r \in Requests, RequestStep(r) PROVE OnNode'
  BY <1>1, RequestEffect DEF Moves
<1>2. ASSUME NEW r \in Requests, NEW n \in Nodes, Admit(r, n) PROVE OnNode'
  BY <1>2, AdmitEffect
<1>3. ASSUME NEW n \in Nodes, Crash(n) PROVE OnNode'
  BY <1>3, CrashEffect
<1> QED
  BY <1>1, <1>2, <1>3, OthersKeepRequests

(* From "create" on they have a group. *)
LEMMA HasGroupStep == ShapeInv /\ [Next]_vars => HasGroup'
<1> SUFFICES ASSUME ShapeInv, [Next]_vars PROVE HasGroup'
  OBVIOUS
<1> USE DEF ShapeInv, HasGroup, InGroup
<1>1. ASSUME NEW r \in Requests, RequestStep(r) PROVE HasGroup'
  <2>1. CASE req[r].pc \notin {"enter", "choose", "number"}
    BY <1>1, <2>1, RequestEffect DEF Moves
  <2>2. CASE Enter(r)
    <3>1. req'[r].g # None => req'[r].g \in GroupIds
      BY <2>2, TypeStep DEF TypeOK, RequestState
    <3>2. req'[r].pc = "score" => req'[r].g # None
      BY <2>2 DEF Enter, TypeOK, RequestState
    <3>3. req'[r].pc \in {"choose", "score"}
      BY <2>2 DEF Enter, TypeOK, RequestState
    <3> QED
      BY <1>1, <3>1, <3>2, <3>3, RequestEffect
  <2>3. CASE ChooseGroup(r)
    <3>1. req'[r].pc = "number" \/ req'[r].g \in GroupIds
      <4>1. CASE Goto(r, "number")
        BY <4>1 DEF Goto, TypeOK, RequestState
      <4>2. ASSUME NEW g \in GroupIds, req' = [req EXCEPT ![r].pc = "count", ![r].g = g]
            PROVE  req'[r].g \in GroupIds
        BY <4>2 DEF TypeOK, RequestState
      <4> QED
        BY <2>3, <4>1, <4>2 DEF ChooseGroup
    <3> QED
      BY <1>1, <3>1, RequestEffect
  <2>4. CASE NumberGroup(r)
    <3>1. req'[r].g \in GroupIds
      BY <2>4 DEF NumberGroup, NewNumber, TypeOK, RequestState
    <3> QED
      BY <1>1, <3>1, RequestEffect
  <2> QED
    BY <1>1, <2>1, <2>2, <2>3, <2>4
       DEF RequestStep, CreateGroup, CountPlayer, SaveCount, SetMember, PlanRobots,
           EnsureInstance, UpsertScore, SpawnRobots
<1>2. ASSUME NEW r \in Requests, NEW n \in Nodes, Admit(r, n) PROVE HasGroup'
  BY <1>2, AdmitEffect
<1>3. ASSUME NEW n \in Nodes, Crash(n) PROVE HasGroup'
  BY <1>3, CrashEffect
<1> QED
  BY <1>1, <1>2, <1>3, OthersKeepRequests

(* A node does not forget a group, unless it crashes. *)
LEMMA CacheKeeps ==
    ASSUME ShapeInv, [Next]_vars, ~ \E n \in Nodes : Crash(n),
           NEW n \in Nodes, NEW g \in GroupIds, cached[n][g] \in Group
    PROVE  cached'[n][g] \in Group
<1> USE DEF ShapeInv, TypeOK
<1>1. ASSUME NEW r \in Requests, ChooseGroup(r) PROVE cached'[n][g] \in Group
  BY <1>1 DEF ChooseGroup
<1>2. ASSUME NEW r \in Requests, CreateGroup(r) PROVE cached'[n][g] \in Group
  <2>1. [real |-> 0, robots |-> 0, state |-> "open"] \in Group
    BY DEF Group
  <2> QED
    BY <1>2, <2>1 DEF CreateGroup
<1>3. ASSUME NEW r \in Requests, CountPlayer(r) PROVE cached'[n][g] \in Group
  <2>1. req[r].g \in GroupIds
    BY <1>3 DEF CountPlayer, HasGroup, InGroup
  <2> DEFINE k == realCount[req[r].g]
  <2>2. k \in Nat
    BY <2>1
  <2>3. k + 1 \in Nat
    <3> HIDE DEF k
    <3> QED
      BY <2>2
  <2>4. [cached[n][g] EXCEPT !.real = k + 1] \in Group
    BY <2>3, GroupMoves
  <2>5. cached' = [cached EXCEPT ![Under(r)][req[r].g].real = k + 1]
    BY <1>3 DEF CountPlayer
  <2> HIDE DEF k
  <2> QED
    BY <2>4, <2>5
<1>4. ASSUME NEW r \in Requests, PlanRobots(r) PROVE cached'[n][g] \in Group
  <2> DEFINE m == Under(r)
             h == req[r].g
             first == cached[m][h].real = 1 /\ Planned > 0
             planned == IF first THEN [cached[m][h] EXCEPT !.robots = Planned]
                                 ELSE cached[m][h]
             after == IF Total(planned) >= Capacity
                      THEN [planned EXCEPT !.state = "full"] ELSE planned
  <2>1. cached[m][h] \in Group
    BY <1>4 DEF PlanRobots, KnowsGroup, Joining, Under
  <2>2. planned \in Group
    BY <2>1, PlannedType, GroupMoves
  <2>3. after \in Group
    <3> HIDE DEF planned
    <3> QED
      BY <2>2, GroupMoves
  <2>4. cached' = [cached EXCEPT ![m][h] = after]
    BY <1>4 DEF PlanRobots
  <2> HIDE DEF after
  <2> QED
    BY <2>3, <2>4
<1>5. ASSUME NEW s \in Settlers, SyncSettled(s) PROVE cached'[n][g] \in Group
  <2>1. Settled(s) \in Group
    BY <1>5, GroupMoves DEF SyncSettled, HasCopy, Settled
  <2> QED
    BY <1>5, <2>1 DEF SyncSettled
<1>6. ASSUME NEW r \in Requests,
             \/ Enter(r) \/ NumberGroup(r) \/ SaveCount(r) \/ SetMember(r)
             \/ EnsureInstance(r) \/ UpsertScore(r) \/ SpawnRobots(r)
             \/ \E m \in Nodes : Admit(r, m)
      PROVE  cached' = cached
  BY <1>6 DEF Enter, NumberGroup, SaveCount, SetMember, EnsureInstance,
     UpsertScore, SpawnRobots, Admit, nodeVars
<1>7. ASSUME NEW m \in Nodes, TickSettle(m) \/ GMSettle(m) PROVE cached' = cached
  BY <1>7 DEF TickSettle, GMSettle, nodeVars
<1>8. ASSUME NEW s \in Settlers,
             LoadGroups(s) \/ LockGroup(s) \/ SealInstance(s) \/ SaveSettled(s)
             \/ EndSettle(s)
      PROVE  cached' = cached
  BY <1>8 DEF LoadGroups, LockGroup, SealInstance, SaveSettled, EndSettle, nodeVars
<1>9. ASSUME Clock \/ TimeIsUp \/ UNCHANGED vars PROVE cached' = cached
  BY <1>9 DEF Clock, TimeIsUp, vars, nodeVars
<1> QED
  BY <1>1, <1>2, <1>3, <1>4, <1>5, <1>6, <1>7, <1>8, <1>9
     DEF Next, RequestStep, SettleStep

(* While a request joins a group, s.groups of its node holds the group. *)
LEMMA KnowsGroupStep == ShapeInv /\ [Next]_vars => KnowsGroup'
<1> SUFFICES ASSUME ShapeInv, [Next]_vars PROVE KnowsGroup'
  OBVIOUS
<1>1. ASSUME NEW n \in Nodes, Crash(n) PROVE KnowsGroup'
  <2> SUFFICES ASSUME NEW r \in Requests, req'[r].pc \in Joining
               PROVE  cached'[req'[r].node][req'[r].g] \in Group
    BY DEF KnowsGroup
  <2>1. req'[r] = req[r] /\ req[r].node # n
    BY <1>1, CrashEffect DEF ShapeInv, Joining, Ended
  <2>2. req[r].node \in Nodes
    BY <2>1 DEF ShapeInv, OnNode, Active, InLock, Joining
  <2>3. cached'[req[r].node] = cached[req[r].node]
    BY <1>1, <2>1, <2>2 DEF Crash, ShapeInv, TypeOK
  <2> QED
    BY <2>1, <2>3 DEF ShapeInv, KnowsGroup
<1>2. ASSUME ~ \E n \in Nodes : Crash(n),
             NEW r \in Requests, req'[r].pc \in Joining
      PROVE  cached'[req'[r].node][req'[r].g] \in Group
  <2>1. CASE req'[r].pc = req[r].pc /\ req'[r].g = req[r].g /\ req'[r].node = req[r].node
    <3>1. req[r].node \in Nodes /\ req[r].g \in GroupIds
      BY <1>2, <2>1 DEF ShapeInv, OnNode, HasGroup, Active, InLock, Joining, InGroup
    <3> QED
      BY <1>2, <2>1, <3>1, CacheKeeps DEF ShapeInv, KnowsGroup
  <2>2. CASE RequestStep(r)
    <3>1. CASE req[r].pc \in Joining
      <4>1. req'[r].g = req[r].g /\ req'[r].node = req[r].node
        BY <2>2, <3>1, RequestEffect DEF ShapeInv, Joining
      <4>2. req[r].node \in Nodes /\ req[r].g \in GroupIds
        BY <3>1 DEF ShapeInv, OnNode, HasGroup, Active, InLock, Joining, InGroup
      <4> QED
        BY <1>2, <3>1, <4>1, <4>2, CacheKeeps DEF ShapeInv, KnowsGroup
    <3>2. CASE ChooseGroup(r)
      <4> DEFINE n == Under(r)
                 merged == [g \in GroupIds |-> IF groups[g] = None THEN cached[n][g]
                                                                  ELSE groups[g]]
      <4>1. req[r].node \in Nodes
        BY <3>2 DEF ChooseGroup, ShapeInv, OnNode, Active, InLock
      <4>2. cached' = [cached EXCEPT ![n] = merged]
        BY <3>2 DEF ChooseGroup
      <4>3. PICK g \in GroupIds : merged[g] # None /\ req'[r].g = g
        <5>1. CASE Goto(r, "number")
          BY <1>2, <5>1 DEF Goto, Joining, ShapeInv, TypeOK, RequestState
        <5>2. ASSUME NEW g \in GroupIds, merged[g] # None,
                     req' = [req EXCEPT ![r].pc = "count", ![r].g = g]
              PROVE  req'[r].g = g
          BY <5>2 DEF ShapeInv, TypeOK, RequestState
        <5> QED
          BY <3>2, <5>1, <5>2 DEF ChooseGroup
      <4>4. merged[g] \in Group
        BY <4>1, <4>3 DEF Under, ShapeInv, TypeOK
      <4>5. req'[r].node = req[r].node
        BY <2>2, RequestEffect DEF ShapeInv
      <4> QED
        BY <4>1, <4>2, <4>3, <4>4, <4>5 DEF Under, ShapeInv, TypeOK
    <3>3. CASE CreateGroup(r)
      <4>1. req[r].node \in Nodes /\ req[r].g \in GroupIds
        BY <3>3 DEF CreateGroup, ShapeInv, OnNode, HasGroup, Active, InLock, InGroup
      <4>2. req'[r].g = req[r].g /\ req'[r].node = req[r].node
        BY <2>2, <3>3, RequestEffect DEF CreateGroup, ShapeInv
      <4>3. [real |-> 0, robots |-> 0, state |-> "open"] \in Group
        BY DEF Group
      <4> QED
        BY <3>3, <4>1, <4>2, <4>3 DEF CreateGroup, Under, ShapeInv, TypeOK
    <3> QED
      BY <1>2, <2>2, <3>1, <3>2, <3>3, RequestEffect
         DEF RequestStep, ShapeInv, Moves, Joining, Enter, NumberGroup, SaveCount,
             SetMember, EnsureInstance, UpsertScore, SpawnRobots, CountPlayer, PlanRobots
  <2>3. CASE \E n \in Nodes : Admit(r, n)
    BY <1>2, <2>3, AdmitEffect DEF ShapeInv, Joining
  <2>4. ASSUME NEW q \in Requests \ {r}, RequestStep(q) \/ \E n \in Nodes : Admit(q, n)
        PROVE  req'[r] = req[r]
    BY <2>4, RequestEffect, AdmitEffect DEF ShapeInv
  <2> QED
    BY <1>2, <2>1, <2>2, <2>3, <2>4, OthersKeepRequests
<1> QED
  BY <1>1, <1>2 DEF KnowsGroup

(* What changes when a settlement goes on to another step. *)
LEMMA SettleGotoEffect ==
    ASSUME TypeOK, NEW s \in Settlers, NEW p \in SettlePc, SettleGoto(s, p)
    PROVE  /\ settle'[s].pc = p
           /\ settle'[s].todo = settle[s].todo
           /\ settle'[s].g = settle[s].g
           /\ \A t \in Settlers \ {s} : settle'[t] = settle[t]
BY DEF SettleGoto, TypeOK, SettleState

(* A settlement that is at a group has its copy of it. *)
LEMMA HasCopyStep == ShapeInv /\ [Next]_vars => HasCopy'
<1> SUFFICES ASSUME ShapeInv, [Next]_vars PROVE HasCopy'
  OBVIOUS
<1> USE DEF ShapeInv, TypeOK, HasCopy, SettleState
<1>1. ASSUME NEW n \in Nodes, TickSettle(n) \/ GMSettle(n) PROVE HasCopy'
  <2>1. PICK s \in Settlers : SettleGoto(s, "load")
    BY <1>1 DEF TickSettle, GMSettle, Settlers
  <2> QED
    BY <2>1, SettleGotoEffect DEF SettlePc
<1>2. ASSUME NEW s \in Settlers, LoadGroups(s) PROVE HasCopy'
  BY <1>2 DEF LoadGroups
<1>3. ASSUME NEW s \in Settlers, LockGroup(s) PROVE HasCopy'
  <2>1. PICK g \in GroupIds :
           /\ settle[s].todo[g] # None
           /\ \/ settle' = [settle EXCEPT ![s].pc = "seal", ![s].g = g]
              \/ settle' = [settle EXCEPT ![s].todo[g] = None]
    BY <1>3 DEF LockGroup
  <2>2. settle[s].todo[g] \in Group \ {None}
    BY <2>1
  <2>3. CASE settle' = [settle EXCEPT ![s].pc = "seal", ![s].g = g]
    BY <2>2, <2>3
  <2>4. CASE settle' = [settle EXCEPT ![s].todo[g] = None]
    BY <1>3, <2>4 DEF LockGroup
  <2> QED
    BY <2>1, <2>3, <2>4
<1>4. ASSUME NEW s \in Settlers, SealInstance(s) PROVE HasCopy'
  <2>1. CASE SettleGoto(s, "save")
    BY <1>4, <2>1, SettleGotoEffect DEF SealInstance, SettlePc
  <2>2. CASE settle' = [settle EXCEPT ![s] = Idle]
    BY <2>2 DEF Idle
  <2> QED
    BY <1>4, <2>1, <2>2 DEF SealInstance
<1>5. ASSUME NEW s \in Settlers, SaveSettled(s) PROVE HasCopy'
  BY <1>5 DEF SaveSettled, SettleGoto
<1>6. ASSUME NEW s \in Settlers, SyncSettled(s) PROVE HasCopy'
  <2>1. settle'[s].pc = "loop"
    BY <1>6 DEF SyncSettled
  <2>2. \A t \in Settlers \ {s} : settle'[t] = settle[t]
    BY <1>6 DEF SyncSettled
  <2> QED
    BY <2>1, <2>2
<1>7. ASSUME NEW s \in Settlers, EndSettle(s) PROVE HasCopy'
  BY <1>7 DEF EndSettle, Idle
<1>8. ASSUME NEW n \in Nodes, Crash(n) PROVE HasCopy'
  BY <1>8 DEF Crash, Idle
<1>9. ASSUME NEW r \in Requests, RequestStep(r) \/ \E n \in Nodes : Admit(r, n)
      PROVE  settle' = settle
  BY <1>9, RequestEffect DEF Admit
<1>10. ASSUME Clock \/ TimeIsUp \/ UNCHANGED vars PROVE settle' = settle
  BY <1>10 DEF Clock, TimeIsUp, vars
<1> QED
  BY <1>1, <1>2, <1>3, <1>4, <1>5, <1>6, <1>7, <1>8, <1>9, <1>10 DEF Next, SettleStep

(* No identifier above nextGroupID is in use. *)
LEMMA NumberedStep == ShapeInv /\ [Next]_vars => Numbered'
<1> SUFFICES ASSUME ShapeInv, [Next]_vars PROVE Numbered'
  OBVIOUS
<1> USE GroupConstants DEF ShapeInv, TypeOK, Numbered, Joining
<1>1. ASSUME NEW r \in Requests, RequestStep(r) PROVE Numbered'
  <2>1. /\ settle' = settle
        /\ \A q \in Requests \ {r} : req'[q] = req[q]
    BY <1>1, RequestEffect
  <2>2. CASE Enter(r)
    <3>1. req'[r].pc \in {"choose", "score"}
      BY <2>2 DEF Enter, RequestState
    <3> QED
      BY <2>1, <2>2, <3>1 DEF Enter, metaVars
  <2>3. CASE ChooseGroup(r)
    <3> DEFINE n == Under(r)
               merged == [g \in GroupIds |-> IF groups[g] = None THEN cached[n][g]
                                                                ELSE groups[g]]
    <3>1. cached' = [cached EXCEPT ![n] = merged]
      BY <2>3 DEF ChooseGroup
    <3>2. n \in Nodes
      BY <2>3 DEF ChooseGroup, OnNode, Active, InLock, Under
    <3>3. \A g \in GroupIds : merged[g] # None => g <= nextGroup
      BY <3>2
    <3>4. req'[r].pc = "number" \/ req'[r].g <= nextGroup
      <4>1. CASE Goto(r, "number")
        BY <4>1 DEF Goto, RequestState
      <4>2. ASSUME NEW g \in GroupIds, merged[g] # None,
                   req' = [req EXCEPT ![r].pc = "count", ![r].g = g]
            PROVE  req'[r].g <= nextGroup
        BY <3>3, <4>2 DEF RequestState
      <4> QED
        BY <2>3, <4>1, <4>2 DEF ChooseGroup
    <3>5. groups' = groups /\ nextGroup' = nextGroup
      BY <2>3 DEF ChooseGroup, metaVars
    <3> HIDE DEF merged, n
    <3> QED
      BY <2>1, <3>1, <3>2, <3>3, <3>4, <3>5
  <2>4. CASE NumberGroup(r)
    <3>1. /\ nextGroup' = nextGroup + 1
          /\ groups' = groups /\ cached' = cached
          /\ req'[r].g = nextGroup + 1
      BY <2>4 DEF NumberGroup, NewNumber, nodeVars, RequestState
    <3>2. \A q \in Requests : req[q].pc \in {"create"} \cup Joining => req[q].g \in Nat
      BY DEF HasGroup, InGroup
    <3> QED
      BY <2>1, <3>1, <3>2
  <2>5. CASE CreateGroup(r)
    <3>1. /\ req[r].g \in GroupIds /\ req[r].g <= nextGroup
          /\ req'[r].g = req[r].g
          /\ nextGroup' = nextGroup
      BY <1>1, <2>5, RequestEffect DEF CreateGroup, HasGroup, InGroup, metaVars
    <3>2. /\ \A g \in GroupIds : groups'[g] # groups[g] => g = req[r].g
          /\ \A n \in Nodes, g \in GroupIds : cached'[n][g] # cached[n][g] => g = req[r].g
      BY <2>5 DEF CreateGroup
    <3> QED
      BY <2>1, <3>1, <3>2
  <2>6. CASE CountPlayer(r) \/ SaveCount(r) \/ PlanRobots(r)
    <3>1. /\ req[r].g \in GroupIds /\ req[r].g <= nextGroup
          /\ req'[r].g = req[r].g
          /\ nextGroup' = nextGroup
      BY <1>1, <2>6, RequestEffect DEF CountPlayer, SaveCount, PlanRobots,
         HasGroup, InGroup, metaVars
    <3>2. /\ \A g \in GroupIds : groups'[g] # groups[g] => g = req[r].g
          /\ \A n \in Nodes, g \in GroupIds : cached'[n][g] # cached[n][g] => g = req[r].g
      <4>1. CASE CountPlayer(r)
        BY <4>1 DEF CountPlayer
      <4>2. CASE SaveCount(r)
        BY <4>2 DEF SaveCount, CountWritten, nodeVars
      <4>3. CASE PlanRobots(r)
        BY <4>3 DEF PlanRobots
      <4> QED
        BY <2>6, <4>1, <4>2, <4>3
    <3>3. req[r].pc \in Joining
      BY <2>6 DEF CountPlayer, SaveCount, PlanRobots
    <3> QED
      BY <2>1, <3>1, <3>2, <3>3
  <2>7. CASE SetMember(r) \/ EnsureInstance(r) \/ UpsertScore(r) \/ SpawnRobots(r)
    <3>1. groups' = groups /\ cached' = cached /\ nextGroup' = nextGroup
      BY <2>7 DEF SetMember, EnsureInstance, UpsertScore, SpawnRobots, nodeVars, metaVars
    <3>2. req'[r].pc \in Joining => req[r].pc \in Joining /\ req'[r].g = req[r].g
      BY <1>1, <2>7, RequestEffect DEF Moves, SetMember, EnsureInstance,
         UpsertScore, SpawnRobots
    <3>3. req'[r].pc # "create"
      BY <1>1, <2>7, RequestEffect DEF Moves, SetMember, EnsureInstance,
         UpsertScore, SpawnRobots
    <3> QED
      BY <2>1, <3>1, <3>2, <3>3
  <2> QED
    BY <1>1, <2>2, <2>3, <2>4, <2>5, <2>6, <2>7 DEF RequestStep
<1>2. ASSUME NEW r \in Requests, NEW n \in Nodes, Admit(r, n) PROVE Numbered'
  <2>1. UNCHANGED <<groups, cached, settle, nextGroup>>
    BY <1>2 DEF Admit, nodeVars, metaVars
  <2> QED
    BY <1>2, <2>1, AdmitEffect
<1>3. ASSUME NEW n \in Nodes, Crash(n) PROVE Numbered'
  <2>1. groups' = groups /\ nextGroup' = nextGroup
    BY <1>3 DEF Crash
  <2>2. \A m \in Nodes, g \in GroupIds : cached'[m][g] \in {cached[m][g], groups[g]}
    BY <1>3 DEF Crash
  <2>3. \A s \in Settlers, g \in GroupIds : settle'[s].todo[g] \in {settle[s].todo[g], None}
    BY <1>3 DEF Crash, Idle
  <2> QED
    BY <1>3, <2>1, <2>2, <2>3, CrashEffect
<1>4. ASSUME NEW n \in Nodes, TickSettle(n) \/ GMSettle(n) PROVE Numbered'
  <2>1. UNCHANGED <<groups, cached, req, nextGroup>>
    BY <1>4 DEF TickSettle, GMSettle, nodeVars, metaVars
  <2>2. \A s \in Settlers : settle'[s].todo = settle[s].todo
    <3>1. PICK s \in Settlers : SettleGoto(s, "load")
      BY <1>4 DEF TickSettle, GMSettle, Settlers
    <3> QED
      BY <3>1, SettleGotoEffect DEF SettlePc
  <2> QED
    BY <2>1, <2>2
<1>5. ASSUME NEW s \in Settlers, LoadGroups(s) PROVE Numbered'
  <2>1. UNCHANGED <<groups, cached, req, nextGroup>>
    BY <1>5 DEF LoadGroups, nodeVars, metaVars
  <2> DEFINE known == IF \A g \in GroupIds : groups[g] = None
                      THEN cached[s[1]] ELSE groups
             todo == [g \in GroupIds |-> IF ToSettle(known[g]) THEN known[g] ELSE None]
  <2>2. settle' = [settle EXCEPT ![s].pc = "loop", ![s].todo = todo]
    BY <1>5 DEF LoadGroups
  <2>3. \A g \in GroupIds : todo[g] # None => g <= nextGroup
    BY DEF Settlers
  <2> HIDE DEF todo
  <2>4. settle'[s].todo = todo /\ \A t \in Settlers \ {s} : settle'[t] = settle[t]
    BY <2>2 DEF SettleState
  <2> QED
    BY <2>1, <2>3, <2>4
<1>6. ASSUME NEW s \in Settlers, LockGroup(s) \/ SealInstance(s) \/ EndSettle(s)
      PROVE  Numbered'
  <2>1. UNCHANGED <<groups, cached, req, nextGroup>>
    BY <1>6 DEF LockGroup, SealInstance, EndSettle, nodeVars, metaVars
  <2>2. \A t \in Settlers, g \in GroupIds : settle'[t].todo[g] \in {settle[t].todo[g], None}
    <3>1. CASE LockGroup(s)
      <4>1. PICK g \in GroupIds :
               \/ settle' = [settle EXCEPT ![s].pc = "seal", ![s].g = g]
               \/ settle' = [settle EXCEPT ![s].todo[g] = None]
        BY <3>1 DEF LockGroup
      <4>2. CASE settle' = [settle EXCEPT ![s].pc = "seal", ![s].g = g]
        BY <4>2 DEF SettleState
      <4>3. CASE settle' = [settle EXCEPT ![s].todo[g] = None]
        BY <4>3 DEF SettleState
      <4> QED
        BY <4>1, <4>2, <4>3
    <3>2. CASE SealInstance(s)
      <4>1. CASE SettleGoto(s, "save")
        BY <4>1, SettleGotoEffect DEF SettlePc
      <4>2. CASE settle' = [settle EXCEPT ![s] = Idle]
        BY <4>2 DEF Idle
      <4> QED
        BY <3>2, <4>1, <4>2 DEF SealInstance
    <3>3. CASE EndSettle(s)
      BY <3>3 DEF EndSettle, Idle
    <3> QED
      BY <1>6, <3>1, <3>2, <3>3
  <2> QED
    BY <2>1, <2>2
<1>7. ASSUME NEW s \in Settlers, SaveSettled(s) PROVE Numbered'
  <2>1. UNCHANGED <<cached, req, nextGroup>>
    BY <1>7 DEF SaveSettled, nodeVars, metaVars
  <2>2. settle[s].g \in GroupIds /\ settle[s].todo[settle[s].g] # None
    BY <1>7 DEF SaveSettled, HasCopy
  <2>3. settle[s].g <= nextGroup
    BY <2>2
  <2>4. \A g \in GroupIds : groups'[g] # groups[g] => g = settle[s].g
    BY <1>7 DEF SaveSettled
  <2>5. \A t \in Settlers : settle'[t].todo = settle[t].todo
    BY <1>7 DEF SaveSettled, SettleGoto, SettleState
  <2> QED
    BY <2>1, <2>2, <2>3, <2>4, <2>5
<1>8. ASSUME NEW s \in Settlers, SyncSettled(s) PROVE Numbered'
  <2>1. UNCHANGED <<groups, req, nextGroup>>
    BY <1>8 DEF SyncSettled, metaVars
  <2>2. settle[s].g \in GroupIds /\ settle[s].todo[settle[s].g] # None
    BY <1>8 DEF SyncSettled, HasCopy
  <2>3. settle[s].g <= nextGroup
    BY <2>2
  <2>4. \A n \in Nodes, g \in GroupIds : cached'[n][g] # cached[n][g] => g = settle[s].g
    BY <1>8 DEF SyncSettled
  <2>5. \A t \in Settlers, g \in GroupIds : settle'[t].todo[g] \in {settle[t].todo[g], None}
    BY <1>8, <2>2 DEF SyncSettled, SettleState
  <2> QED
    BY <2>1, <2>2, <2>3, <2>4, <2>5
<1>9. ASSUME Clock \/ TimeIsUp \/ UNCHANGED vars PROVE Numbered'
  BY <1>9 DEF Clock, TimeIsUp, vars, nodeVars, metaVars
<1> QED
  BY <1>1, <1>2, <1>3, <1>4, <1>5, <1>6, <1>7, <1>8, <1>9 DEF Next, SettleStep

(* Everything above holds in every reachable state, ... *)
THEOREM Shape == Spec => []ShapeInv
<1>1. Init => ShapeInv
  <2> SUFFICES ASSUME Init PROVE ShapeInv
    OBVIOUS
  <2>1. TypeOK
    BY GroupConstants DEF Init, TypeOK, Instance, RequestState, SettleState, Idle
  <2> QED
    BY <2>1 DEF Init, ShapeInv, OnNode, HasGroup, KnowsGroup, HasCopy, Numbered,
       Idle, Active, InLock, InGroup, Joining
<1> QED
  BY <1>1, TypeStep, OnNodeStep, HasGroupStep, KnowsGroupStep, HasCopyStep,
     NumberedStep, PTL DEF Spec, ShapeInv

(* ... the type invariant among them: every request is at one of the steps *)
(* of UpsertScore with what that step needs, every settlement at one of    *)
(* Settle's (engine/service.go).                                           *)
THEOREM TypeCorrect == Spec => []TypeOK
BY Shape, PTL DEF ShapeInv

-----------------------------------------------------------------------------
(* One group per user.  rank:members names the group of a user once and    *)
(* for all: it has no entry while a request of the user is being given a   *)
(* group, and a user has one request at a time.  What a node remembers is  *)
(* that entry, or the group of the request that is about to write it; and  *)
(* a score is written into the group of the entry.                         *)
Unplaced == {"choose", "number", "create", "count", "save", "member"}
Placed == {"plan", "score", "upsert", "spawn"}

Alone ==
    \A r, q \in Requests :
        User(r) = User(q) /\ req[r].pc \in Active /\ req[q].pc \in Active => r = q
NoEntryYet == \A r \in Requests : req[r].pc \in Unplaced => members[User(r)] = None
InEntry == \A r \in Requests : req[r].pc \in Placed => req[r].g = members[User(r)]
Pending(n, u) ==
    {r \in Requests : /\ User(r) = u
                      /\ req[r].node = n
                      /\ req[r].pc \in {"save", "member"}
                      /\ req[r].g = memberGroup[n][u]}
MemoryRight ==
    \A n \in Nodes, u \in Users :
        memberGroup[n][u] \in {None, members[u]} \/ Pending(n, u) # {}
ScoresInEntry ==
    \A g \in GroupIds : \A u \in instance[g].scores : members[u] = g

PlaceInv == Alone /\ NoEntryYet /\ InEntry /\ MemoryRight /\ ScoresInEntry

(* Scores are added by BatchUpsertScore alone: no other step of a request, *)
LEMMA RequestScores ==
    ASSUME TypeOK, NEW r \in Requests, RequestStep(r), ~UpsertScore(r), NEW g \in GroupIds
    PROVE  instance'[g].scores = instance[g].scores
<1> USE DEF TypeOK, Instance
<1>1. CASE EnsureInstance(r)
  BY <1>1 DEF EnsureInstance
<1>2. CASE SpawnRobots(r)
  <2>1. PICK k \in 0..Planned :
           instance' = [instance EXCEPT ![req[r].g].robots =
                          IF instance[req[r].g].state = "open" THEN @ + k ELSE @]
    BY <1>2 DEF SpawnRobots
  <2> QED
    BY <2>1
<1>3. CASE \/ Enter(r) \/ ChooseGroup(r) \/ NumberGroup(r) \/ CreateGroup(r)
           \/ CountPlayer(r) \/ SaveCount(r) \/ SetMember(r) \/ PlanRobots(r)
  BY <1>3 DEF Enter, ChooseGroup, NumberGroup, CreateGroup, CountPlayer, SaveCount,
     SetMember, PlanRobots
<1> QED
  BY <1>1, <1>2, <1>3 DEF RequestStep

(* and no step of anybody else adds any. *)
LEMMA ScoresFrame ==
    ASSUME TypeOK, [Next]_vars, ~ \E r \in Requests : UpsertScore(r),
           NEW g \in GroupIds
    PROVE  instance'[g].scores = instance[g].scores
<1> USE DEF TypeOK, Instance
<1>1. ASSUME NEW r \in Requests, RequestStep(r)
      PROVE  instance'[g].scores = instance[g].scores
  BY <1>1, RequestScores
<1>2. ASSUME NEW n \in Nodes, TickSettle(n) PROVE instance'[g].scores = instance[g].scores
  BY <1>2 DEF TickSettle
<1>3. ASSUME NEW s \in Settlers, SealInstance(s)
      PROVE  instance'[g].scores = instance[g].scores
  <2>1. Sealed(instance[g]).scores = instance[g].scores
    BY DEF Sealed
  <2>2. instance'[g] \in {instance[g], Sealed(instance[g])}
    BY <1>3 DEF SealInstance
  <2> QED
    BY <2>1, <2>2
<1>4. ASSUME NEW r \in Requests, NEW n \in Nodes, Admit(r, n)
      PROVE  instance' = instance
  BY <1>4 DEF Admit
<1>5. ASSUME NEW n \in Nodes, GMSettle(n) \/ Crash(n) PROVE instance' = instance
  BY <1>5 DEF GMSettle, Crash
<1>6. ASSUME NEW s \in Settlers,
             LoadGroups(s) \/ LockGroup(s) \/ SaveSettled(s) \/ SyncSettled(s) \/ EndSettle(s)
      PROVE  instance' = instance
  BY <1>6 DEF LoadGroups, LockGroup, SaveSettled, SyncSettled, EndSettle
<1>7. ASSUME Clock \/ TimeIsUp \/ UNCHANGED vars PROVE instance' = instance
  BY <1>7 DEF Clock, TimeIsUp, vars
<1> QED
  BY <1>1, <1>2, <1>3, <1>4, <1>5, <1>6, <1>7 DEF Next, SettleStep

(* A step of a request that writes neither rank:members nor a score and    *)
(* leaves s.memberGroup alone preserves the invariant if it keeps its      *)
(* place.                                                                  *)
LEMMA PlaceKept ==
    ASSUME ShapeInv, PlaceInv, NEW r \in Requests,
           \A q \in Requests \ {r} : req'[q] = req[q],
           req'[r].node = req[r].node,
           req'[r].pc \in Active => req[r].pc \in Active,
           req'[r].pc \in Unplaced => req[r].pc \in Unplaced,
           req'[r].pc \in Placed => req[r].pc \in Placed /\ req'[r].g = req[r].g,
           req[r].pc \in {"save", "member"} =>
               req'[r].pc \in {"save", "member"} /\ req'[r].g = req[r].g,
           members' = members, memberGroup' = memberGroup,
           \A g \in GroupIds : instance'[g].scores = instance[g].scores
    PROVE  PlaceInv'
<1> USE DEF PlaceInv
<1>1. Alone'
  BY DEF Alone, User
<1>2. NoEntryYet' /\ InEntry'
  BY DEF NoEntryYet, InEntry, User
<1>3. MemoryRight'
  <2> SUFFICES ASSUME NEW n \in Nodes, NEW u \in Users,
                      memberGroup[n][u] \notin {None, members[u]}
               PROVE  Pending(n, u)' # {}
    BY DEF MemoryRight
  <2>1. PICK q \in Pending(n, u) : TRUE
    BY DEF MemoryRight
  <2>2. q \in Pending(n, u)'
    BY <2>1 DEF Pending, User
  <2> QED
    BY <2>2
<1>4. ScoresInEntry'
  BY DEF ScoresInEntry
<1> QED
  BY <1>1, <1>2, <1>3, <1>4

(* Whatever node a user's request reaches and whatever crashes, he has one *)
(* place.                                                                  *)
LEMMA PlaceStep == ShapeInv /\ PlaceInv /\ [Next]_vars => PlaceInv'
<1> SUFFICES ASSUME ShapeInv, PlaceInv, [Next]_vars PROVE PlaceInv'
  OBVIOUS
<1> USE GroupConstants DEF PlaceInv
<1>a. TypeOK
  BY DEF ShapeInv
<1>1. ASSUME NEW r \in Requests, RequestStep(r) PROVE PlaceInv'
  <2>1. /\ \A q \in Requests \ {r} : req'[q] = req[q]
        /\ Moves(req[r].pc, req'[r].pc)
        /\ req'[r].node = req[r].node
        /\ req[r].pc \notin {"enter", "choose", "number"} => req'[r].g = req[r].g
    BY <1>1, <1>a, RequestEffect
  <2>2. /\ req[r].pc \in Active
        /\ User(r) \in Users
        /\ req[r].node \in Nodes
    BY <2>1 DEF Moves, Active, InLock, User, ShapeInv, OnNode
  <2>3. \A q \in Requests \ {r} : req[q].pc \in Active => User(q) # User(r)
    BY <2>2 DEF Alone
  <2>4. Alone'
    BY <2>1, <2>2 DEF Alone, User
  <2>5. CASE Enter(r)
    <3> DEFINE n == Under(r)
               g == IF memberGroup[n][User(r)] # None
                    THEN memberGroup[n][User(r)] ELSE members[User(r)]
    <3>1. /\ memberGroup' = [memberGroup EXCEPT ![n][User(r)] = g]
          /\ members' = members
          /\ req'[r].g = g
          /\ req'[r].pc = IF g = None THEN "choose" ELSE "score"
          /\ req[r].pc = "enter"
      BY <2>5, <1>a DEF Enter, TypeOK, RequestState
    <3>2. Pending(n, User(r)) = {}
      BY <2>3, <3>1 DEF Pending, Active, InLock
    <3>3. g = members[User(r)]
      BY <2>2, <3>2 DEF MemoryRight, Under
    <3>4. NoEntryYet' /\ InEntry'
      BY <2>1, <3>1, <3>3 DEF NoEntryYet, InEntry, User, Unplaced, Placed
    <3>5. MemoryRight'
      <4> SUFFICES ASSUME NEW m \in Nodes, NEW u \in Users,
                          memberGroup'[m][u] \notin {None, members[u]}
                   PROVE  Pending(m, u)' # {}
        BY <3>1 DEF MemoryRight
      <4>1. memberGroup'[m][u] = memberGroup[m][u]
        BY <1>a, <2>2, <3>1, <3>3 DEF Under, TypeOK
      <4>2. PICK q \in Pending(m, u) : TRUE
        BY <4>1 DEF MemoryRight
      <4>3. q # r
        BY <3>1, <4>2 DEF Pending
      <4>4. q \in Pending(m, u)'
        BY <2>1, <4>1, <4>2, <4>3 DEF Pending, User
      <4> QED
        BY <4>4
    <3>6. ScoresInEntry'
      BY <2>5, <3>1 DEF Enter, ScoresInEntry
    <3> QED
      BY <2>4, <3>4, <3>5, <3>6
  <2>6. CASE CountPlayer(r)
    <3>1. /\ memberGroup' = [memberGroup EXCEPT ![Under(r)][User(r)] = req[r].g]
          /\ members' = members
          /\ req[r].pc = "count" /\ req'[r].pc = "save" /\ req'[r].g = req[r].g
      BY <2>1, <2>6 DEF CountPlayer, Moves
    <3>2. NoEntryYet' /\ InEntry'
      BY <2>1, <3>1 DEF NoEntryYet, InEntry, User, Unplaced, Placed
    <3>3. MemoryRight'
      <4> SUFFICES ASSUME NEW m \in Nodes, NEW u \in Users,
                          memberGroup'[m][u] \notin {None, members[u]}
                   PROVE  Pending(m, u)' # {}
        BY <3>1 DEF MemoryRight
      <4>1. CASE m = Under(r) /\ u = User(r)
        <5>1. memberGroup'[m][u] = req[r].g
          BY <1>a, <2>2, <3>1, <4>1 DEF TypeOK
        <5>2. r \in Pending(m, u)'
          BY <2>1, <3>1, <4>1, <5>1 DEF Pending, User, Under
        <5> QED
          BY <5>2
      <4>2. CASE ~(m = Under(r) /\ u = User(r))
        <5>1. memberGroup'[m][u] = memberGroup[m][u]
          BY <1>a, <3>1, <4>2 DEF TypeOK
        <5>2. PICK q \in Pending(m, u) : TRUE
          BY <5>1 DEF MemoryRight
        <5>3. q # r
          BY <3>1, <5>2 DEF Pending
        <5>4. q \in Pending(m, u)'
          BY <2>1, <5>1, <5>2, <5>3 DEF Pending, User
        <5> QED
          BY <5>4
      <4> QED
        BY <4>1, <4>2
    <3>4. ScoresInEntry'
      BY <2>6, <3>1 DEF CountPlayer, ScoresInEntry
    <3> QED
      BY <2>4, <3>2, <3>3, <3>4
  <2>7. CASE SetMember(r)
    <3>1. /\ members' = [members EXCEPT ![User(r)] = req[r].g]
          /\ memberGroup' = memberGroup
          /\ instance' = instance
          /\ req[r].pc = "member" /\ req'[r].pc = "plan" /\ req'[r].g = req[r].g
      BY <2>1, <2>7 DEF SetMember, RecordMember, Moves, nodeVars
    <3>2. members[User(r)] = None /\ members'[User(r)] = req[r].g
      BY <1>a, <2>2, <3>1 DEF NoEntryYet, Unplaced, TypeOK
    <3>3. \A u \in Users \ {User(r)} : members'[u] = members[u]
      BY <1>a, <3>1 DEF TypeOK
    <3>4. \A q \in Requests \ {r} : req[q].pc \in Active => members'[User(q)] = members[User(q)]
      BY <2>3, <3>3 DEF User
    <3>5. NoEntryYet' /\ InEntry'
      BY <2>1, <3>1, <3>2, <3>4 DEF NoEntryYet, InEntry, User, Unplaced, Placed,
         Active, InLock
    <3>6. MemoryRight'
      <4> SUFFICES ASSUME NEW m \in Nodes, NEW u \in Users,
                          memberGroup[m][u] \notin {None, members'[u]}
                   PROVE  Pending(m, u)' # {}
        BY <3>1 DEF MemoryRight
      <4>1. CASE u = User(r)
        <5>1. PICK q \in Pending(m, u) : TRUE
          BY <3>2, <4>1 DEF MemoryRight
        <5>2. q = r
          BY <2>3, <4>1, <5>1 DEF Pending, Active, InLock
        <5>3. req[r].g = memberGroup[m][u]
          BY <5>1, <5>2 DEF Pending
        <5> QED
          BY <3>2, <4>1, <5>3
      <4>2. CASE u # User(r)
        <5>1. PICK q \in Pending(m, u) : TRUE
          BY <3>3, <4>2 DEF MemoryRight
        <5>2. q # r
          BY <4>2, <5>1 DEF Pending
        <5>3. q \in Pending(m, u)'
          BY <2>1, <3>1, <5>1, <5>2 DEF Pending, User
        <5> QED
          BY <5>3
      <4> QED
        BY <4>1, <4>2
    <3>7. ScoresInEntry'
      <4> SUFFICES ASSUME NEW g \in GroupIds, NEW u \in instance[g].scores
                   PROVE  members'[u] = g
        BY <3>1 DEF ScoresInEntry
      <4>1. members[u] = g /\ u \in Users
        BY <1>a DEF ScoresInEntry, TypeOK, Instance
      <4> QED
        BY <3>2, <3>3, <4>1
    <3> QED
      BY <2>4, <3>5, <3>6, <3>7
  <2>8. CASE UpsertScore(r)
    <3>1. /\ members' = members /\ memberGroup' = memberGroup
          /\ req[r].pc = "upsert" /\ req'[r].g = req[r].g
          /\ req'[r].pc \in {"spawn", "ok", "refused"}
      BY <2>1, <2>8 DEF UpsertScore, Moves, nodeVars
    <3>2. NoEntryYet' /\ InEntry'
      BY <2>1, <3>1 DEF NoEntryYet, InEntry, User, Unplaced, Placed
    <3>3. MemoryRight'
      <4> SUFFICES ASSUME NEW m \in Nodes, NEW u \in Users,
                          memberGroup[m][u] \notin {None, members[u]}
                   PROVE  Pending(m, u)' # {}
        BY <3>1 DEF MemoryRight
      <4>1. PICK q \in Pending(m, u) : TRUE
        BY DEF MemoryRight
      <4>2. q # r
        BY <3>1, <4>1 DEF Pending
      <4>3. q \in Pending(m, u)'
        BY <2>1, <3>1, <4>1, <4>2 DEF Pending, User
      <4> QED
        BY <4>3
    <3>4. ScoresInEntry'
      <4> SUFFICES ASSUME NEW g \in GroupIds, NEW u \in instance'[g].scores
                   PROVE  members[u] = g
        BY <3>1 DEF ScoresInEntry
      <4>1. u \in instance[g].scores \/ (g = req[r].g /\ u = User(r))
        BY <1>a, <2>8 DEF UpsertScore, TypeOK, Instance
      <4>2. members[User(r)] = req[r].g
        BY <3>1 DEF InEntry, Placed
      <4> QED
        BY <4>1, <4>2 DEF ScoresInEntry
    <3> QED
      BY <2>4, <3>2, <3>3, <3>4
  <2>9. CASE \/ ChooseGroup(r) \/ NumberGroup(r) \/ CreateGroup(r) \/ SaveCount(r)
             \/ PlanRobots(r) \/ EnsureInstance(r) \/ SpawnRobots(r)
    <3>1. members' = members /\ memberGroup' = memberGroup
      BY <2>9 DEF ChooseGroup, NumberGroup, CreateGroup, SaveCount, PlanRobots,
         EnsureInstance, SpawnRobots, nodeVars
    <3>2. req[r].pc \notin {"enter", "count", "member", "upsert"}
      BY <2>9 DEF ChooseGroup, NumberGroup, CreateGroup, SaveCount, PlanRobots,
         EnsureInstance, SpawnRobots
    <3>3. \A g \in GroupIds : instance'[g].scores = instance[g].scores
      <4>1. ~UpsertScore(r)
        BY <3>2 DEF UpsertScore
      <4> QED
        BY <1>1, <1>a, <4>1, RequestScores
    <3>4. /\ req'[r].pc \in Unplaced => req[r].pc \in Unplaced
          /\ req'[r].pc \in Placed => req[r].pc \in Placed /\ req'[r].g = req[r].g
          /\ req[r].pc \in {"save", "member"} =>
               req'[r].pc \in {"save", "member"} /\ req'[r].g = req[r].g
      BY <2>1, <3>2 DEF Moves, Unplaced, Placed
    <3> QED
      BY <2>1, <2>2, <3>1, <3>3, <3>4, PlaceKept
  <2> QED
    BY <1>1, <2>5, <2>6, <2>7, <2>8, <2>9 DEF RequestStep
<1>2. ASSUME NEW r \in Requests, NEW n \in Nodes, Admit(r, n) PROVE PlaceInv'
  <2>1. /\ \A q \in Requests \ {r} : req'[q] = req[q]
        /\ req[r].pc = "new" /\ req'[r].pc = "enter"
        /\ \A q \in Requests \ {r} : User(q) = User(r) => req[q].pc \notin Active
        /\ UNCHANGED <<members, memberGroup, instance>>
    BY <1>2, <1>a, AdmitEffect DEF Admit, Active, InLock, Ended, nodeVars
  <2>2. Alone'
    BY <2>1 DEF Alone, User
  <2>3. NoEntryYet' /\ InEntry' /\ ScoresInEntry'
    BY <2>1 DEF NoEntryYet, InEntry, ScoresInEntry, User, Unplaced, Placed
  <2>4. MemoryRight'
    <3> SUFFICES ASSUME NEW m \in Nodes, NEW u \in Users,
                        memberGroup[m][u] \notin {None, members[u]}
                 PROVE  Pending(m, u)' # {}
      BY <2>1 DEF MemoryRight
    <3>1. PICK q \in Pending(m, u) : TRUE
      BY DEF MemoryRight
    <3>2. q \in Pending(m, u)'
      BY <2>1, <3>1 DEF Pending, User
    <3> QED
      BY <3>2
  <2> QED
    BY <2>2, <2>3, <2>4
<1>3. ASSUME NEW n \in Nodes, Crash(n) PROVE PlaceInv'
  <2>1. \A r \in Requests : \/ req'[r] = req[r] /\ (req[r].node = n => req[r].pc \in Ended)
                            \/ req'[r].pc = "failed"
    BY <1>3, <1>a, CrashEffect
  <2>2. /\ memberGroup' = [memberGroup EXCEPT ![n] = members]
        /\ UNCHANGED <<members, instance>>
    BY <1>3 DEF Crash
  <2>3. Alone' /\ NoEntryYet' /\ InEntry' /\ ScoresInEntry'
    BY <2>1, <2>2 DEF Alone, NoEntryYet, InEntry, ScoresInEntry, User, Unplaced,
       Placed, Active, InLock
  <2>4. MemoryRight'
    <3> SUFFICES ASSUME NEW m \in Nodes, NEW u \in Users,
                        memberGroup'[m][u] \notin {None, members[u]}
                 PROVE  Pending(m, u)' # {}
      BY <2>2 DEF MemoryRight
    <3>1. m # n /\ memberGroup'[m][u] = memberGroup[m][u]
      BY <1>a, <2>2 DEF TypeOK
    <3>2. PICK q \in Pending(m, u) : TRUE
      BY <3>1 DEF MemoryRight
    <3>3. req'[q] = req[q]
      BY <1>3, <1>a, <3>1, <3>2 DEF Crash, TypeOK, Pending
    <3>4. q \in Pending(m, u)'
      BY <3>1, <3>2, <3>3 DEF Pending, User
    <3> QED
      BY <3>4
  <2> QED
    BY <2>3, <2>4
<1>4. ASSUME ~ \E r \in Requests : RequestStep(r) \/ \E n \in Nodes : Admit(r, n),
             ~ \E n \in Nodes : Crash(n)
      PROVE  PlaceInv'
  <2>1. UNCHANGED <<req, members, memberGroup>>
    BY <1>4, OthersKeepRequests
  <2>2. \A g \in GroupIds : instance'[g].scores = instance[g].scores
    BY <1>4, <1>a, ScoresFrame DEF RequestStep
  <2>3. Alone' /\ NoEntryYet' /\ InEntry' /\ ScoresInEntry'
    BY <2>1, <2>2 DEF Alone, NoEntryYet, InEntry, ScoresInEntry, User
  <2>4. MemoryRight'
    BY <2>1 DEF MemoryRight, Pending, User
  <2> QED
    BY <2>3, <2>4
<1> QED
  BY <1>1, <1>2, <1>3, <1>4

(* Everybody's place, in every reachable state: the entry in rank:members, *)
(* the memory of every node and every score under way agree.               *)
THEOREM Places == Spec => []PlaceInv
<1>1. Init => PlaceInv
  BY GroupConstants DEF Init, PlaceInv, Alone, NoEntryYet, InEntry, MemoryRight,
     ScoresInEntry, Active, InLock, Unplaced, Placed
<1> QED
  BY <1>1, PlaceStep, Shape, PTL DEF Spec

(* No user ever has scores in two groups: with any number of nodes, of     *)
(* crashes, of failed settlements and of settlements by the GM, though     *)
(* each node has a memberGroup of its own (ensureGroupLocked,              *)
(* engine/service.go).                                                     *)
THEOREM NobodyPlaysTwice == Spec => []OneGroupPerUser
<1>1. PlaceInv => OneGroupPerUser
  BY DEF PlaceInv, ScoresInEntry, OneGroupPerUser
<1> QED
  BY <1>1, Places, PTL

-----------------------------------------------------------------------------
(* A group that anybody knows is in Redis, so what LoadGroups reads there  *)
(* is all there is, and so is what ensureGroupLocked takes over.           *)
KnownInv ==
    /\ \A r \in Requests : req[r].pc \in Joining => groups[req[r].g] # None
    /\ \A n \in Nodes, g \in GroupIds : cached[n][g] # None => groups[g] # None
    /\ \A s \in Settlers, g \in GroupIds : settle[s].todo[g] # None => groups[g] # None
    /\ \A u \in Users : members[u] # None => groups[members[u]] # None

(* No step deletes a group. *)
LEMMA GroupsKeep ==
    ASSUME ShapeInv, [Next]_vars, NEW g \in GroupIds, groups[g] # None
    PROVE  groups'[g] # None
<1> USE NoneIsNoGroup
<1>a. TypeOK
  BY DEF ShapeInv
<1>1. ASSUME NEW r \in Requests, CreateGroup(r) PROVE groups'[g] # None
  <2>1. [real |-> 0, robots |-> 0, state |-> "open"] \in Group
    BY DEF Group
  <2> QED
    BY <1>1, <1>a, <2>1 DEF CreateGroup, TypeOK
<1>2. ASSUME NEW r \in Requests, SaveCount(r) PROVE groups'[g] # None
  BY <1>2, <1>a DEF SaveCount, CountWritten, ShapeInv, KnowsGroup, Joining, Under, TypeOK
<1>3. ASSUME NEW r \in Requests, PlanRobots(r) PROVE groups'[g] # None
  <2> DEFINE m == Under(r)
             h == req[r].g
             first == cached[m][h].real = 1 /\ Planned > 0
             planned == IF first THEN [cached[m][h] EXCEPT !.robots = Planned]
                                 ELSE cached[m][h]
             after == IF Total(planned) >= Capacity
                      THEN [planned EXCEPT !.state = "full"] ELSE planned
  <2>1. cached[m][h] \in Group
    BY <1>3 DEF PlanRobots, ShapeInv, KnowsGroup, Joining, Under
  <2>2. planned \in Group
    BY <2>1, PlannedType, GroupMoves
  <2>3. after \in Group
    <3> HIDE DEF planned
    <3> QED
      BY <2>2, GroupMoves
  <2>4. groups' \in {groups, [groups EXCEPT ![h] = after]}
    BY <1>3 DEF PlanRobots
  <2> HIDE DEF after
  <2> QED
    BY <1>a, <2>3, <2>4 DEF TypeOK
<1>4. ASSUME NEW s \in Settlers, SaveSettled(s) PROVE groups'[g] # None
  <2>1. Settled(s) \in Group
    BY <1>4, GroupMoves DEF SaveSettled, ShapeInv, HasCopy, Settled
  <2> QED
    BY <1>4, <1>a, <2>1 DEF SaveSettled, TypeOK
<1>5. ASSUME NEW r \in Requests,
             \/ Enter(r) \/ ChooseGroup(r) \/ NumberGroup(r) \/ CountPlayer(r)
             \/ SetMember(r) \/ EnsureInstance(r) \/ UpsertScore(r) \/ SpawnRobots(r)
             \/ \E n \in Nodes : Admit(r, n)
      PROVE  groups' = groups
  BY <1>5 DEF Enter, ChooseGroup, NumberGroup, CountPlayer, SetMember, EnsureInstance,
     UpsertScore, SpawnRobots, Admit
<1>6. ASSUME NEW n \in Nodes, TickSettle(n) \/ GMSettle(n) \/ Crash(n)
      PROVE  groups' = groups
  BY <1>6 DEF TickSettle, GMSettle, Crash
<1>7. ASSUME NEW s \in Settlers,
             \/ LoadGroups(s) \/ LockGroup(s) \/ SealInstance(s) \/ SyncSettled(s)
             \/ EndSettle(s)
      PROVE  groups' = groups
  BY <1>7 DEF LoadGroups, LockGroup, SealInstance, SyncSettled, EndSettle
<1>8. ASSUME Clock \/ TimeIsUp \/ UNCHANGED vars PROVE groups' = groups
  BY <1>8 DEF Clock, TimeIsUp, vars
<1> QED
  BY <1>1, <1>2, <1>3, <1>4, <1>5, <1>6, <1>7, <1>8 DEF Next, RequestStep, SettleStep

(* What a node remembers anew, it has from Redis or puts there. *)
LEMMA CacheKnown ==
    ASSUME ShapeInv, KnownInv, [Next]_vars, NEW n \in Nodes, NEW g \in GroupIds,
           cached'[n][g] # None
    PROVE  groups'[g] # None
<1> USE NoneIsNoGroup
<1>a. TypeOK
  BY DEF ShapeInv
<1>1. CASE groups[g] # None
  BY <1>1, GroupsKeep
<1>2. CASE groups[g] = None
  <2>1. cached[n][g] = None /\ cached' # cached
    BY <1>2 DEF KnownInv
  <2>2. ASSUME NEW r \in Requests, ChooseGroup(r) PROVE FALSE
    BY <1>2, <1>a, <2>1, <2>2 DEF ChooseGroup, TypeOK
  <2>3. ASSUME NEW r \in Requests, CreateGroup(r) PROVE groups'[g] # None
    <3>1. [real |-> 0, robots |-> 0, state |-> "open"] \in Group
      BY DEF Group
    <3> QED
      BY <1>a, <2>1, <2>3, <3>1 DEF CreateGroup, TypeOK
  <2>4. ASSUME NEW r \in Requests, CountPlayer(r) \/ PlanRobots(r) PROVE FALSE
    <3>1. \A h \in GroupIds : cached'[n][h] # cached[n][h] => h = req[r].g
      <4>1. CASE CountPlayer(r)
        BY <1>a, <4>1 DEF CountPlayer, TypeOK
      <4>2. CASE PlanRobots(r)
        BY <1>a, <4>2 DEF PlanRobots, TypeOK
      <4> QED
        BY <2>4, <4>1, <4>2
    <3>2. groups[req[r].g] # None
      BY <2>4 DEF CountPlayer, PlanRobots, KnownInv, Joining
    <3> QED
      BY <1>2, <2>1, <3>1, <3>2
  <2>5. ASSUME NEW s \in Settlers, SyncSettled(s) PROVE FALSE
    <3>1. \A h \in GroupIds : cached'[n][h] # cached[n][h] => h = settle[s].g
      BY <1>a, <2>5 DEF SyncSettled, TypeOK
    <3>2. groups[settle[s].g] # None
      BY <2>5 DEF SyncSettled, KnownInv, ShapeInv, HasCopy
    <3> QED
      BY <1>2, <2>1, <3>1, <3>2
  <2>6. ASSUME NEW m \in Nodes, Crash(m) PROVE FALSE
    BY <1>2, <1>a, <2>1, <2>6 DEF Crash, TypeOK
  <2>7. ASSUME NEW r \in Requests,
               \/ Enter(r) \/ NumberGroup(r) \/ SaveCount(r) \/ SetMember(r)
               \/ EnsureInstance(r) \/ UpsertScore(r) \/ SpawnRobots(r)
               \/ \E m \in Nodes : Admit(r, m)
        PROVE  cached' = cached
    BY <2>7 DEF Enter, NumberGroup, SaveCount, SetMember, EnsureInstance,
       UpsertScore, SpawnRobots, Admit, nodeVars
  <2>8. ASSUME NEW m \in Nodes, TickSettle(m) \/ GMSettle(m) PROVE cached' = cached
    BY <2>8 DEF TickSettle, GMSettle, nodeVars
  <2>9. ASSUME NEW s \in Settlers,
               LoadGroups(s) \/ LockGroup(s) \/ SealInstance(s) \/ SaveSettled(s)
               \/ EndSettle(s)
        PROVE  cached' = cached
    BY <2>9 DEF LoadGroups, LockGroup, SealInstance, SaveSettled, EndSettle, nodeVars
  <2>10. ASSUME Clock \/ TimeIsUp \/ UNCHANGED vars PROVE cached' = cached
    BY <2>10 DEF Clock, TimeIsUp, vars, nodeVars
  <2> QED
    BY <2>1, <2>2, <2>3, <2>4, <2>5, <2>6, <2>7, <2>8, <2>9, <2>10
       DEF Next, RequestStep, SettleStep
<1> QED
  BY <1>1, <1>2

(* Likewise a settlement. *)
LEMMA TodoKnown ==
    ASSUME ShapeInv, KnownInv, [Next]_vars, NEW s \in Settlers, NEW g \in GroupIds,
           settle'[s].todo[g] # None
    PROVE  groups'[g] # None
<1>a. TypeOK
  BY DEF ShapeInv
<1>1. CASE groups[g] # None
  BY <1>1, GroupsKeep
<1>2. CASE groups[g] = None
  <2>1. settle[s].todo[g] = None /\ settle' # settle
    BY <1>2 DEF KnownInv
  <2>2. ASSUME NEW n \in Nodes, TickSettle(n) \/ GMSettle(n) PROVE FALSE
    <3>1. PICK t \in Settlers : SettleGoto(t, "load")
      BY <2>2 DEF TickSettle, GMSettle, Settlers
    <3>2. settle'[s].todo = settle[s].todo
      BY <1>a, <3>1, SettleGotoEffect DEF SettlePc
    <3> QED
      BY <2>1, <3>2
  <2>3. ASSUME NEW t \in Settlers, LoadGroups(t) PROVE FALSE
    <3> DEFINE known == IF \A h \in GroupIds : groups[h] = None
                        THEN cached[t[1]] ELSE groups
               todo == [h \in GroupIds |-> IF ToSettle(known[h]) THEN known[h] ELSE None]
    <3>1. settle' = [settle EXCEPT ![t].pc = "loop", ![t].todo = todo]
      BY <2>3 DEF LoadGroups
    <3>2. todo[g] = None
      BY <1>2 DEF KnownInv, Settlers
    <3> HIDE DEF todo
    <3>3. settle'[s].todo = todo \/ settle'[s].todo = settle[s].todo
      BY <1>a, <3>1 DEF TypeOK, SettleState
    <3> QED
      BY <2>1, <3>2, <3>3
  <2>4. ASSUME NEW t \in Settlers, LockGroup(t) PROVE FALSE
    <3>1. PICK h \in GroupIds :
             \/ settle' = [settle EXCEPT ![t].pc = "seal", ![t].g = h]
             \/ settle' = [settle EXCEPT ![t].todo[h] = None]
      BY <2>4 DEF LockGroup
    <3>2. CASE settle' = [settle EXCEPT ![t].pc = "seal", ![t].g = h]
      BY <1>a, <2>1, <3>2 DEF TypeOK, SettleState
    <3>3. CASE settle' = [settle EXCEPT ![t].todo[h] = None]
      BY <1>a, <2>1, <3>3 DEF TypeOK, SettleState
    <3> QED
      BY <3>1, <3>2, <3>3
  <2>5. ASSUME NEW t \in Settlers, SealInstance(t) \/ SaveSettled(t) PROVE FALSE
    <3>1. CASE \E p \in SettlePc : SettleGoto(t, p)
      BY <1>a, <2>1, <3>1, SettleGotoEffect
    <3>2. CASE settle' = [settle EXCEPT ![t] = Idle]
      BY <1>a, <2>1, <3>2 DEF Idle, TypeOK
    <3> QED
      BY <2>5, <3>1, <3>2 DEF SealInstance, SaveSettled, SettlePc
  <2>6. ASSUME NEW t \in Settlers, SyncSettled(t) PROVE FALSE
    <3>1. settle[t].g \in GroupIds
      BY <2>6 DEF SyncSettled, ShapeInv, HasCopy
    <3>2. settle'[s].todo[g] \in {settle[s].todo[g], None}
      BY <1>a, <2>6, <3>1 DEF SyncSettled, TypeOK, SettleState
    <3> QED
      BY <2>1, <3>2
  <2>7. ASSUME NEW t \in Settlers, EndSettle(t) PROVE FALSE
    BY <1>a, <2>1, <2>7 DEF EndSettle, Idle, TypeOK
  <2>8. ASSUME NEW n \in Nodes, Crash(n) PROVE FALSE
    BY <2>1, <2>8 DEF Crash, Idle
  <2>9. ASSUME NEW r \in Requests, RequestStep(r) \/ \E n \in Nodes : Admit(r, n)
        PROVE  settle' = settle
    BY <1>a, <2>9, RequestEffect DEF Admit
  <2>10. ASSUME Clock \/ TimeIsUp \/ UNCHANGED vars PROVE settle' = settle
    BY <2>10 DEF Clock, TimeIsUp, vars
  <2> QED
    BY <2>1, <2>2, <2>3, <2>4, <2>5, <2>6, <2>7, <2>8, <2>9, <2>10
       DEF Next, SettleStep
<1> QED
  BY <1>1, <1>2

(* Nothing is known before it is saved, and nothing is deleted.            *)
LEMMA KnownStep == ShapeInv /\ KnownInv /\ [Next]_vars => KnownInv'
<1> SUFFICES ASSUME ShapeInv, KnownInv, [Next]_vars PROVE KnownInv'
  OBVIOUS
<1>a. TypeOK
  BY DEF ShapeInv
<1>1. ASSUME NEW r \in Requests, req'[r].pc \in Joining
      PROVE  groups'[req'[r].g] # None
  <2>1. CASE req[r].pc \in Joining /\ req'[r].g = req[r].g
    <3>1. req[r].g \in GroupIds
      BY <2>1 DEF ShapeInv, HasGroup, Joining, InGroup
    <3> QED
      BY <2>1, <3>1, GroupsKeep DEF KnownInv
  <2>2. CASE ChooseGroup(r)
    <3> DEFINE n == Under(r)
               merged == [g \in GroupIds |-> IF groups[g] = None THEN cached[n][g]
                                                                ELSE groups[g]]
    <3>1. req[r].node \in Nodes
      BY <2>2 DEF ChooseGroup, ShapeInv, OnNode, Active, InLock
    <3>2. PICK g \in GroupIds : merged[g] # None /\ req'[r].g = g
      <4>1. CASE Goto(r, "number")
        BY <1>1, <1>a, <4>1 DEF Goto, Joining, TypeOK, RequestState
      <4>2. ASSUME NEW g \in GroupIds, merged[g] # None,
                   req' = [req EXCEPT ![r].pc = "count", ![r].g = g]
            PROVE  req'[r].g = g
        BY <1>a, <4>2 DEF TypeOK, RequestState
      <4> QED
        BY <2>2, <4>1, <4>2 DEF ChooseGroup
    <3>3. groups[g] # None
      BY <3>1, <3>2 DEF Under, KnownInv
    <3> QED
      BY <3>2, <3>3, GroupsKeep
  <2>3. CASE CreateGroup(r)
    <3>1. req[r].g \in GroupIds
      BY <2>3 DEF CreateGroup, ShapeInv, HasGroup, InGroup
    <3>2. [real |-> 0, robots |-> 0, state |-> "open"] \in Group
      BY DEF Group
    <3>3. req'[r].g = req[r].g
      BY <1>a, <2>3 DEF CreateGroup, Goto, TypeOK, RequestState
    <3> QED
      BY <1>a, <2>3, <3>1, <3>2, <3>3, NoneIsNoGroup DEF CreateGroup, TypeOK
  <2>4. CASE RequestStep(r) /\ ~ChooseGroup(r) /\ ~CreateGroup(r)
    <3>1. Moves(req[r].pc, req'[r].pc) /\ req[r].pc \notin {"choose", "create"}
      BY <1>a, <2>4, RequestEffect
         DEF RequestStep, Enter, NumberGroup, CountPlayer, SaveCount, SetMember,
             PlanRobots, EnsureInstance, UpsertScore, SpawnRobots
    <3>2. req[r].pc \in Joining
      BY <1>1, <3>1 DEF Moves, Joining
    <3>3. req'[r].g = req[r].g
      BY <1>a, <2>4, <3>2, RequestEffect DEF Joining
    <3> QED
      BY <2>1, <3>2, <3>3
  <2>5. CASE \E n \in Nodes : Admit(r, n)
    BY <1>1, <1>a, <2>5, AdmitEffect DEF Joining
  <2>6. ASSUME NEW q \in Requests \ {r}, RequestStep(q) \/ \E n \in Nodes : Admit(q, n)
        PROVE  req'[r] = req[r]
    BY <1>a, <2>6, RequestEffect, AdmitEffect
  <2>7. ASSUME NEW n \in Nodes, Crash(n) PROVE req'[r] = req[r]
    BY <1>1, <1>a, <2>7, CrashEffect DEF Joining
  <2> QED
    BY <1>1, <2>1, <2>2, <2>3, <2>4, <2>5, <2>6, <2>7, OthersKeepRequests
<1>2. ASSUME NEW u \in Users, members'[u] # None PROVE groups'[members'[u]] # None
  <2>1. CASE members'[u] = members[u]
    <3>1. members[u] \in GroupIds
      BY <1>2, <1>a, <2>1 DEF TypeOK
    <3> QED
      BY <1>2, <2>1, <3>1, GroupsKeep DEF KnownInv
  <2>2. ASSUME NEW r \in Requests, SetMember(r), members'[u] # members[u]
        PROVE  groups'[members'[u]] # None
    <3>1. members'[u] = req[r].g
      BY <1>a, <2>2 DEF SetMember, RecordMember, TypeOK
    <3>2. req[r].g \in GroupIds /\ groups[req[r].g] # None
      BY <2>2 DEF SetMember, KnownInv, Joining, ShapeInv, HasGroup, InGroup
    <3> QED
      BY <3>1, <3>2, GroupsKeep
  <2>3. ASSUME NEW r \in Requests,
               \/ RequestStep(r) /\ ~SetMember(r)
               \/ \E n \in Nodes : Admit(r, n)
        PROVE  members' = members
    BY <2>3 DEF RequestStep, Enter, ChooseGroup, NumberGroup, CreateGroup, CountPlayer,
       SaveCount, PlanRobots, EnsureInstance, UpsertScore, SpawnRobots, Admit
  <2>4. ASSUME NEW n \in Nodes, Crash(n) PROVE members' = members
    BY <2>4 DEF Crash
  <2> QED
    BY <2>1, <2>2, <2>3, <2>4, OthersKeepRequests
<1> QED
  BY <1>1, <1>2, CacheKnown, TodoKnown DEF KnownInv

(* Every group that is known anywhere is in Redis. *)
THEOREM Known == Spec => []KnownInv
<1>1. Init => KnownInv
  BY DEF Init, KnownInv, Joining, Idle
<1> QED
  BY <1>1, KnownStep, Shape, PTL DEF Spec
=============================================================================
