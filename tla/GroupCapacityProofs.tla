------------------------ MODULE GroupCapacityProofs ------------------------
(***************************************************************************)
(* Proofs about how full the groups of LeaderboardGroups get.  s.mu is a   *)
(* mutex of one node, and with one node a group keeps within its capacity: *)
(* its JSON never counts too few players, so it never seems to have room   *)
(* it does not have.  TLC shows that this is lost with a second node.      *)
(***************************************************************************)
EXTENDS LeaderboardGroupsProofs, FiniteSetTheorems

(* The leaderboard is served by one node. *)
OneNode == \A m, n \in Nodes : m = n

(* The number of players a group has, the robots that are there or on      *)
(* their way, and the request that brings them.                            *)
NumPlayers(g) == Cardinality(Players(g))
Brings(r, g) == req[r].spawn /\ req[r].pc \in {"score", "upsert", "spawn"} /\ req[r].g = g
RobotsDue(g) == instance[g].robots > 0 \/ \E r \in Requests : Brings(r, g)

(* The node serves one request at a time under s.mu, ...                   *)
OneHolder ==
    \A r, q \in Requests : req[r].pc \in InLock /\ req[q].pc \in InLock => r = q
(* ... the robots of a group are brought once, by the first player, ...    *)
RobotsOnce ==
    /\ \A r \in Requests : req[r].pc \in {"new", "enter"} \cup InLock => ~req[r].spawn
    /\ \A r \in Requests : req[r].pc = "spawn" => req[r].spawn
    /\ \A g \in GroupIds : instance[g].robots <= Planned
    /\ \A r \in Requests, g \in GroupIds : Brings(r, g) => instance[g].robots = 0
    /\ \A r, q \in Requests, g \in GroupIds : Brings(r, g) /\ Brings(q, g) => r = q
(* ... and no player and no robot is in a group that is still to be made.  *)
Unused(g) == NumPlayers(g) = 0 /\ ~RobotsDue(g)
Fresh ==
    /\ \A g \in GroupIds : g > nextGroup => Unused(g)
    /\ \A r \in Requests : req[r].pc = "create" => Unused(req[r].g)

(* There is room for the robots of a group besides its players, rank:meta  *)
(* counts every player, and so does the JSON of a group that is open.      *)
Fits ==
    \A g \in GroupIds :
        /\ NumPlayers(g) <= Capacity
        /\ realCount[g] >= NumPlayers(g)
        /\ RobotsDue(g) => NumPlayers(g) + Planned <= Capacity /\ realCount[g] >= 1
InJSON ==
    \A g \in GroupIds : groups[g] # None /\ groups[g].state = "open" =>
        /\ groups[g].real >= NumPlayers(g)
        /\ RobotsDue(g) => groups[g].robots = Planned

(* While a player is joining, there is room for him besides the robots, he *)
(* is counted first, and the node's copy of the group has the count and    *)
(* the robots.                                                             *)
Copy(r) == cached[req[r].node][req[r].g]
HasPlace ==
    \A r \in Requests : req[r].pc \in {"count", "save", "member"} =>
        /\ NumPlayers(req[r].g) + 1 <= Capacity
        /\ RobotsDue(req[r].g) => NumPlayers(req[r].g) + 1 + Planned <= Capacity
CopyHasRobots ==
    \A r \in Requests : req[r].pc \in Joining /\ RobotsDue(req[r].g)
                        => Copy(r).robots = Planned
Counted ==
    \A r \in Requests : req[r].pc \in {"save", "member", "plan"} =>
        /\ Copy(r).real = realCount[req[r].g]
        /\ RobotsDue(req[r].g) => realCount[req[r].g] >= 2
CountedFirst ==
    \A r \in Requests :
        /\ req[r].pc \in {"save", "member"}
               => realCount[req[r].g] >= NumPlayers(req[r].g) + 1
        /\ req[r].pc = "member" /\ groups[req[r].g] # None
           /\ groups[req[r].g].state = "open"
               => groups[req[r].g].real >= NumPlayers(req[r].g) + 1

CapacityInv ==
    /\ OneHolder /\ RobotsOnce /\ Fresh /\ Fits /\ InJSON
    /\ HasPlace /\ CopyHasRobots /\ Counted /\ CountedFirst

-----------------------------------------------------------------------------
(* How many players a group has changes with rank:members only, ...        *)
LEMMA PlayersCount == \A g \in GroupIds : NumPlayers(g) \in Nat
<1> SUFFICES ASSUME NEW g \in GroupIds PROVE NumPlayers(g) \in Nat
  OBVIOUS
<1>1. Players(g) \in SUBSET Users
  BY DEF Players
<1>2. IsFiniteSet(Players(g))
  BY <1>1, GroupConstants, FS_Subset
<1> QED
  BY <1>2, FS_CardinalityType DEF NumPlayers

(* ... stays the same without a write to it, ...                           *)
LEMMA SamePlayers ==
    ASSUME members' = members
    PROVE  \A g \in GroupIds : NumPlayers(g)' = NumPlayers(g)
BY DEF NumPlayers, Players

(* ... which gives a user who had none a group.                            *)
LEMMA OneMorePlayer ==
    ASSUME TypeOK, NEW u \in Users, NEW h \in GroupIds, members[u] = None,
           members' = [members EXCEPT ![u] = h]
    PROVE  /\ NumPlayers(h)' = NumPlayers(h) + 1
           /\ \A g \in GroupIds \ {h} : NumPlayers(g)' = NumPlayers(g)
<1> USE GroupConstants DEF TypeOK
<1>1. Players(h)' = Players(h) \cup {u} /\ u \notin Players(h)
  BY DEF Players
<1>2. \A g \in GroupIds \ {h} : Players(g)' = Players(g)
  BY DEF Players
<1>3. Players(h) \in SUBSET Users
  BY DEF Players
<1>4. IsFiniteSet(Players(h))
  BY <1>3, FS_Subset
<1>5. Cardinality(Players(h) \cup {u}) = Cardinality(Players(h)) + 1
  BY <1>1, <1>4, FS_AddElement
<1> QED
  BY <1>1, <1>2, <1>5 DEF NumPlayers

(* Robots are due as long as they are there or somebody brings them.       *)
LEMMA SameRobots ==
    ASSUME NEW g \in GroupIds,
           instance'[g].robots = instance[g].robots,
           \A r \in Requests : Brings(r, g)' => Brings(r, g)
    PROVE  RobotsDue(g)' => RobotsDue(g)
BY DEF RobotsDue

(* With one node only one request holds s.mu. *)
LEMMA OneHolderStep == OneNode /\ ShapeInv /\ OneHolder /\ [Next]_vars => OneHolder'
<1> SUFFICES ASSUME OneNode, ShapeInv, OneHolder, [Next]_vars PROVE OneHolder'
  OBVIOUS
<1> USE DEF ShapeInv, OneHolder
<1>1. ASSUME NEW r \in Requests, RequestStep(r), ~Enter(r) PROVE OneHolder'
  <2>1. /\ \A q \in Requests \ {r} : req'[q] = req[q]
        /\ Moves(req[r].pc, req'[r].pc)
    BY <1>1, RequestEffect
  <2>2. req[r].pc # "enter"
    BY <1>1 DEF RequestStep, ChooseGroup, NumberGroup, CreateGroup, CountPlayer,
       SaveCount, SetMember, PlanRobots, EnsureInstance, UpsertScore, SpawnRobots
  <2>3. req'[r].pc \in InLock => req[r].pc \in InLock
    BY <2>1, <2>2 DEF Moves, InLock
  <2> QED
    BY <2>1, <2>3
<1>2. ASSUME NEW r \in Requests, Enter(r) PROVE OneHolder'
  <2>1. \A q \in Requests \ {r} : req'[q] = req[q]
    BY <1>2, RequestEffect DEF RequestStep
  <2>2. req[r].node \in Nodes
    BY <1>2 DEF Enter, OnNode, Active
  <2>3. \A q \in Requests : req[q].node = req[r].node => req[q].pc \notin InLock
    BY <1>2 DEF Enter, MutexFree, Under
  <2>4. ASSUME NEW q \in Requests PROVE req[q].pc \notin InLock
    <3>1. req[q].pc \in InLock => req[q].node \in Nodes
      BY DEF OnNode, Active
    <3> QED
      BY <3>1, <2>2, <2>3 DEF OneNode
  <2> QED
    BY <2>1, <2>4
<1>3. ASSUME NEW r \in Requests, NEW n \in Nodes, Admit(r, n) PROVE OneHolder'
  <2>1. "enter" \notin InLock
    BY DEF InLock
  <2> QED
    BY <1>3, <2>1, AdmitEffect
<1>4. ASSUME NEW n \in Nodes, Crash(n) PROVE OneHolder'
  <2>1. "failed" \notin InLock
    BY DEF InLock
  <2> QED
    BY <1>4, <2>1, CrashEffect
<1>5. CASE req' = req
  BY <1>5
<1> QED
  BY <1>1, <1>2, <1>3, <1>4, <1>5, OthersKeepRequests

(* A step that brings no player, no robot and no group, and leaves joining *)
(* requests and what they know alone, preserves the invariant, even if it  *)
(* settles a group.                                                        *)
LEMMA CapacityKept ==
    ASSUME ShapeInv, CapacityInv, OneHolder',
           members' = members, realCount' = realCount, nextGroup' = nextGroup,
           \A g \in GroupIds : instance'[g].robots = instance[g].robots,
           \A g \in GroupIds :
             groups'[g] = groups[g] \/ groups'[g].state = "settled",
           \A r \in Requests :
             /\ req'[r].pc \in {"create"} \cup Joining
                  => /\ req'[r] = req[r]
                     /\ cached'[req[r].node][req[r].g] = Copy(r)
             /\ req'[r].pc \in {"new", "enter"} \cup InLock => ~req'[r].spawn
             /\ req'[r].pc = "spawn" => req'[r].spawn
             /\ \A g \in GroupIds : Brings(r, g)' => Brings(r, g)
    PROVE  CapacityInv'
<1> USE DEF ShapeInv, CapacityInv
<1>1. \A g \in GroupIds : NumPlayers(g)' = NumPlayers(g)
  BY SamePlayers
<1>2. \A g \in GroupIds : RobotsDue(g)' => RobotsDue(g)
  BY SameRobots
<1>3. \A r \in Requests : req'[r].pc \in {"create"} \cup Joining =>
        req'[r] = req[r] /\ req[r].g \in GroupIds /\ Copy(r)' = Copy(r)
  BY DEF Copy, HasGroup, InGroup, Joining
<1>4. RobotsOnce'
  BY DEF RobotsOnce
<1>5. Fresh'
  BY <1>1, <1>2, <1>3 DEF Fresh, Unused
<1>6. Fits'
  BY <1>1, <1>2 DEF Fits
<1>7. InJSON'
  BY <1>1, <1>2 DEF InJSON
<1>8. HasPlace' /\ CopyHasRobots' /\ Counted'
  BY <1>1, <1>2, <1>3 DEF HasPlace, CopyHasRobots, Counted, Joining
<1>9. CountedFirst'
  BY <1>1, <1>2, <1>3 DEF CountedFirst, Joining
<1> QED
  BY <1>4, <1>5, <1>6, <1>7, <1>8, <1>9

(* The steps under s.mu one by one: whoever holds it is the only one.      *)
LEMMA OnlyHolder ==
    ASSUME OneHolder, NEW r \in Requests, req[r].pc \in InLock, NEW q \in Requests \ {r}
    PROVE  req[q].pc \notin {"create"} \cup Joining
BY DEF OneHolder, InLock, Joining

(* ensureGroupLocked finds a group with room: the JSON counts all players  *)
(* and robots, so there is room indeed.                                    *)
LEMMA ChooseHasRoom ==
    ASSUME ShapeInv, KnownInv, CapacityInv, OneHolder', NEW r \in Requests,
           ChooseGroup(r)
    PROVE  CapacityInv'
<1> USE GroupConstants DEF ShapeInv, CapacityInv
<1> DEFINE n == req[r].node
<1>t. /\ req \in [Requests -> RequestState] /\ groups \in [GroupIds -> Group \cup {None}]
      /\ cached \in [Nodes -> [GroupIds -> Group \cup {None}]]
      /\ realCount \in [GroupIds -> Nat]
  BY DEF TypeOK
<1>0. req[r].pc = "choose" /\ n \in Nodes
  BY DEF ChooseGroup, OnNode, Active, InLock
<1>1. UNCHANGED <<members, realCount, nextGroup, instance, groups>>
  BY DEF ChooseGroup, metaVars
<1>2. \A q \in Requests \ {r} : req'[q] = req[q] /\ req[q].pc \notin {"create"} \cup Joining
  BY <1>0, RequestEffect, OnlyHolder DEF RequestStep, InLock
<1>3. ~req[r].spawn
  BY <1>0 DEF RobotsOnce, InLock
<1>4. CASE req' = [req EXCEPT ![r].pc = "number"]
  <2>1. req'[r].pc = "number" /\ ~req'[r].spawn
    BY <1>t, <1>3, <1>4 DEF RequestState
  <2>2. \A q \in Requests, g \in GroupIds : Brings(q, g)' => Brings(q, g)
    BY <1>2, <2>1 DEF Brings
  <2>3. \A q \in Requests : q # r =>
           /\ req'[q].pc \in {"new", "enter"} \cup InLock => ~req'[q].spawn
           /\ req'[q].pc = "spawn" => req'[q].spawn
    BY <1>2 DEF RobotsOnce
  <2> QED
    BY <1>1, <1>2, <2>1, <2>2, <2>3, CapacityKept DEF Joining
<1>5. ASSUME NEW g \in GroupIds, groups[g] # None, HasRoom(groups[g]),
             req' = [req EXCEPT ![r].pc = "count", ![r].g = g],
             cached'[n][g] = groups[g]
      PROVE  CapacityInv'
  <2>1. req'[r].pc = "count" /\ req'[r].g = g /\ req'[r].node = n /\ ~req'[r].spawn
    BY <1>t, <1>3, <1>5 DEF RequestState
  <2>2. \A q \in Requests, h \in GroupIds : Brings(q, h)' <=> Brings(q, h)
    BY <1>0, <1>2, <2>1 DEF Brings
  <2>3. \A h \in GroupIds : RobotsDue(h)' <=> RobotsDue(h)
    BY <1>1, <2>2 DEF RobotsDue
  <2>4. \A h \in GroupIds : NumPlayers(h)' = NumPlayers(h)
    BY <1>1, SamePlayers
  <2>5. /\ groups[g] \in Group /\ groups[g].state = "open"
        /\ groups[g].real + groups[g].robots < Capacity
    BY <1>t, <1>5 DEF HasRoom, Total
  <2>6. groups[g].real \in Nat /\ groups[g].robots \in Nat
    BY <2>5 DEF Group
  <2>7. /\ groups[g].real >= NumPlayers(g)
        /\ RobotsDue(g) => groups[g].robots = Planned
    BY <2>5, <1>5 DEF InJSON
  <2>8. NumPlayers(g) + 1 <= Capacity /\ (RobotsDue(g) => NumPlayers(g) + 1 + Planned <= Capacity)
    BY <2>5, <2>6, <2>7, PlayersCount, PlannedType
  <2>9. Copy(r)' = groups[g]
    BY <1>5, <2>1 DEF Copy
  <2>10. RobotsOnce'
    BY <1>1, <1>2, <2>1, <2>2 DEF RobotsOnce
  <2>11. Fresh' /\ Fits' /\ InJSON'
    BY <1>1, <1>2, <2>1, <2>3, <2>4 DEF Fresh, Unused, Fits, InJSON
  <2>12. HasPlace' /\ CopyHasRobots'
    BY <1>1, <1>2, <2>1, <2>3, <2>4, <2>7, <2>8, <2>9 DEF HasPlace, CopyHasRobots, Joining
  <2>13. Counted' /\ CountedFirst'
    BY <1>2, <2>1 DEF Counted, CountedFirst, Joining
  <2> QED
    BY <2>10, <2>11, <2>12, <2>13
<1> QED
  <2> DEFINE merged == [g \in GroupIds |-> IF groups[g] = None THEN cached[n][g]
                                                              ELSE groups[g]]
             open == {g \in GroupIds : merged[g] # None /\ HasRoom(merged[g])}
  <2>1. /\ cached' = [cached EXCEPT ![n] = merged]
        /\ \/ req' = [req EXCEPT ![r].pc = "number"]
           \/ \E g \in open : req' = [req EXCEPT ![r].pc = "count", ![r].g = g]
    BY DEF ChooseGroup, Goto, Under
  <2>2. ASSUME NEW g \in open, req' = [req EXCEPT ![r].pc = "count", ![r].g = g]
        PROVE  CapacityInv'
    <3>1. merged[g] = groups[g] /\ groups[g] # None
      BY <1>0 DEF KnownInv
    <3> QED
      BY <3>1, <2>1, <2>2, <1>5, <1>t, <1>0
  <2> QED
    BY <2>1, <2>2, <1>4

(* NextGroupID gives out an identifier that nobody has used.               *)
LEMMA NumberIsFresh ==
    ASSUME ShapeInv, CapacityInv, OneHolder', NEW r \in Requests, NumberGroup(r)
    PROVE  CapacityInv'
<1> USE DEF ShapeInv, CapacityInv
<1>t. req \in [Requests -> RequestState] /\ nextGroup \in Nat /\ GroupIds \subseteq Nat
  BY GroupConstants DEF TypeOK
<1>0. req[r].pc = "number" /\ nextGroup + 1 \in GroupIds
  BY DEF NumberGroup
<1>1. UNCHANGED <<members, realCount, instance, groups, cached>>
  BY DEF NumberGroup, nodeVars
<1>2. \A q \in Requests \ {r} : req'[q] = req[q] /\ req[q].pc \notin {"create"} \cup Joining
  BY <1>0, RequestEffect, OnlyHolder DEF RequestStep, InLock
<1>3. ~req[r].spawn
  BY <1>0 DEF RobotsOnce, InLock
<1>4. nextGroup' = nextGroup + 1 /\ req' = [req EXCEPT ![r].pc = "create", ![r].g = nextGroup + 1]
  BY DEF NumberGroup, NewNumber
<1>5. req'[r].pc = "create" /\ req'[r].g = nextGroup + 1 /\ ~req'[r].spawn
  BY <1>t, <1>3, <1>4 DEF RequestState
<1>6. \A q \in Requests, h \in GroupIds : Brings(q, h)' <=> Brings(q, h)
  BY <1>0, <1>2, <1>5 DEF Brings
<1>7. \A h \in GroupIds : RobotsDue(h)' <=> RobotsDue(h)
  BY <1>1, <1>6 DEF RobotsDue
<1>8. \A h \in GroupIds : NumPlayers(h)' = NumPlayers(h)
  BY <1>1, SamePlayers
<1>9. RobotsOnce'
  BY <1>1, <1>2, <1>5, <1>6 DEF RobotsOnce
<1>10. Fresh'
  <2>1. \A h \in GroupIds : h > nextGroup + 1 => h > nextGroup
    BY <1>t
  <2>2. nextGroup + 1 > nextGroup
    BY <1>t
  <2> QED
    BY <2>1, <2>2, <1>0, <1>2, <1>4, <1>5, <1>7, <1>8 DEF Fresh, Unused
<1>11. Fits' /\ InJSON'
  BY <1>1, <1>7, <1>8 DEF Fits, InJSON
<1>12. HasPlace' /\ CopyHasRobots' /\ Counted' /\ CountedFirst'
  BY <1>2, <1>5 DEF HasPlace, CopyHasRobots, Counted, CountedFirst, Joining
<1> QED
  BY <1>9, <1>10, <1>11, <1>12

(* A new group is empty, so it has room for the player it is made for.     *)
LEMMA CreateHasRoom ==
    ASSUME ShapeInv, CapacityInv, OneHolder', NEW r \in Requests, CreateGroup(r)
    PROVE  CapacityInv'
<1> USE DEF ShapeInv, CapacityInv
<1> DEFINE n == req[r].node
           g == req[r].g
<1>t. /\ req \in [Requests -> RequestState] /\ groups \in [GroupIds -> Group \cup {None}]
      /\ cached \in [Nodes -> [GroupIds -> Group \cup {None}]]
      /\ Capacity \in Nat \ {0}
  BY GroupConstants DEF TypeOK
<1>0. req[r].pc = "create" /\ n \in Nodes /\ g \in GroupIds
  BY DEF CreateGroup, OnNode, HasGroup, InGroup, Active, InLock
<1>1. UNCHANGED <<members, realCount, nextGroup, instance>>
  BY DEF CreateGroup, metaVars
<1>2. \A q \in Requests \ {r} : req'[q] = req[q] /\ req[q].pc \notin {"create"} \cup Joining
  BY <1>0, RequestEffect, OnlyHolder DEF RequestStep, InLock
<1>3. ~req[r].spawn
  BY <1>0 DEF RobotsOnce, InLock
<1>4. /\ req' = [req EXCEPT ![r].pc = "count"]
      /\ groups' = [groups EXCEPT ![g] = [real |-> 0, robots |-> 0, state |-> "open"]]
      /\ cached' = [cached EXCEPT ![n][g] = [real |-> 0, robots |-> 0, state |-> "open"]]
  BY DEF CreateGroup, Goto, Under
<1>5. req'[r].pc = "count" /\ req'[r].g = g /\ ~req'[r].spawn
  BY <1>t, <1>3, <1>4 DEF RequestState
<1>6. \A q \in Requests, h \in GroupIds : Brings(q, h)' <=> Brings(q, h)
  BY <1>0, <1>2, <1>5 DEF Brings
<1>7. \A h \in GroupIds : RobotsDue(h)' <=> RobotsDue(h)
  BY <1>1, <1>6 DEF RobotsDue
<1>8. \A h \in GroupIds : NumPlayers(h)' = NumPlayers(h)
  BY <1>1, SamePlayers
<1>9. NumPlayers(g) = 0 /\ ~RobotsDue(g)
  BY <1>0 DEF Fresh, Unused
<1>10. RobotsOnce'
  BY <1>1, <1>2, <1>5, <1>6 DEF RobotsOnce
<1>11. Fresh' /\ Fits'
  BY <1>1, <1>2, <1>5, <1>7, <1>8 DEF Fresh, Unused, Fits
<1>12. InJSON'
  <2>1. groups'[g].real = 0 /\ \A h \in GroupIds \ {g} : groups'[h] = groups[h]
    BY <1>t, <1>0, <1>4
  <2> QED
    BY <2>1, <1>7, <1>8, <1>9 DEF InJSON
<1>13. HasPlace' /\ CopyHasRobots'
  BY <1>t, <1>0, <1>2, <1>5, <1>7, <1>8, <1>9 DEF HasPlace, CopyHasRobots, Joining
<1>14. Counted' /\ CountedFirst'
  BY <1>2, <1>5 DEF Counted, CountedFirst, Joining
<1> QED
  BY <1>10, <1>11, <1>12, <1>13, <1>14

(* IncrRealCount counts the player before rank:members has him, ...        *)
LEMMA CountKeepsCapacity ==
    ASSUME ShapeInv, CapacityInv, OneHolder', NEW r \in Requests, CountPlayer(r)
    PROVE  CapacityInv'
<1> USE DEF ShapeInv, CapacityInv
<1> DEFINE n == req[r].node
           g == req[r].g
           k == realCount[g] + 1
<1>t. /\ req \in [Requests -> RequestState] /\ groups \in [GroupIds -> Group \cup {None}]
      /\ cached \in [Nodes -> [GroupIds -> Group \cup {None}]]
      /\ realCount \in [GroupIds -> Nat]
  BY DEF TypeOK
<1>0. req[r].pc = "count" /\ n \in Nodes /\ g \in GroupIds /\ cached[n][g] \in Group
  BY DEF CountPlayer, OnNode, HasGroup, KnowsGroup, InGroup, Active, InLock, Joining
<1>1. UNCHANGED <<members, groups, nextGroup, instance>>
  BY DEF CountPlayer
<1>2. \A q \in Requests \ {r} : req'[q] = req[q] /\ req[q].pc \notin {"create"} \cup Joining
  BY <1>0, RequestEffect, OnlyHolder DEF RequestStep, InLock
<1>3. ~req[r].spawn
  BY <1>0 DEF RobotsOnce, InLock
<1>4. /\ req' = [req EXCEPT ![r].pc = "save"]
      /\ realCount' = [realCount EXCEPT ![g] = k]
      /\ cached' = [cached EXCEPT ![n][g].real = k]
  BY DEF CountPlayer, Goto, Under
<1>k. k \in Nat /\ k = realCount[g] + 1
  BY <1>t, <1>0
<1> HIDE DEF k
<1>5. req'[r].pc = "save" /\ req'[r].g = g /\ req'[r].node = n /\ ~req'[r].spawn
  BY <1>t, <1>3, <1>4 DEF RequestState
<1>6. \A q \in Requests, h \in GroupIds : Brings(q, h)' <=> Brings(q, h)
  BY <1>0, <1>2, <1>5 DEF Brings
<1>7. \A h \in GroupIds : RobotsDue(h)' <=> RobotsDue(h)
  BY <1>1, <1>6 DEF RobotsDue
<1>8. \A h \in GroupIds : NumPlayers(h)' = NumPlayers(h)
  BY <1>1, SamePlayers
<1>9. realCount'[g] = k /\ \A h \in GroupIds \ {g} : realCount'[h] = realCount[h]
  BY <1>t, <1>0, <1>4
<1>10. Copy(r)' = [Copy(r) EXCEPT !.real = k] /\ Copy(r) \in Group
  BY <1>t, <1>0, <1>4, <1>5 DEF Copy
<1>11. Copy(r)'.real = k /\ Copy(r)'.robots = Copy(r).robots
  BY <1>10 DEF Group
<1>12. RobotsOnce'
  BY <1>1, <1>2, <1>5, <1>6 DEF RobotsOnce
<1>13. Fresh' /\ InJSON'
  BY <1>1, <1>2, <1>5, <1>7, <1>8 DEF Fresh, Unused, InJSON
<1>14. Fits'
  <2>1. k >= NumPlayers(g) /\ k >= 1
    BY <1>k, <1>0, <1>t, PlayersCount DEF Fits
  <2> QED
    BY <2>1, <1>7, <1>8, <1>9 DEF Fits
<1>15. HasPlace' /\ CopyHasRobots'
  BY <1>0, <1>2, <1>5, <1>7, <1>8, <1>11 DEF HasPlace, CopyHasRobots, Joining
<1>16. Counted'
  <2>1. RobotsDue(g) => k >= 2
    BY <1>k, <1>0, <1>t DEF Fits
  <2>2. \A q \in Requests : req'[q].pc \in {"save", "member", "plan"} => q = r
    BY <1>2 DEF Joining
  <2> QED
    BY <2>1, <2>2, <1>0, <1>5, <1>7, <1>9, <1>11 DEF Counted
<1>17. CountedFirst'
  <2>1. k >= NumPlayers(g) + 1
    BY <1>k, <1>0, <1>t, PlayersCount DEF Fits
  <2>2. \A q \in Requests : req'[q].pc \in {"save", "member"} => q = r
    BY <1>2 DEF Joining
  <2> QED
    BY <2>1, <2>2, <1>0, <1>5, <1>8, <1>9 DEF CountedFirst
<1> QED
  BY <1>12, <1>13, <1>14, <1>15, <1>16, <1>17

(* ... writes the count into the JSON of the group, over whatever a        *)
(* settlement has written there meanwhile, ...                             *)
LEMMA SaveKeepsCapacity ==
    ASSUME ShapeInv, CapacityInv, OneHolder', NEW r \in Requests, SaveCount(r)
    PROVE  CapacityInv'
<1> USE DEF ShapeInv, CapacityInv
<1> DEFINE n == req[r].node
           g == req[r].g
<1>t. /\ req \in [Requests -> RequestState] /\ groups \in [GroupIds -> Group \cup {None}]
      /\ realCount \in [GroupIds -> Nat]
  BY DEF TypeOK
<1>0. req[r].pc = "save" /\ n \in Nodes /\ g \in GroupIds /\ Copy(r) \in Group
  BY DEF SaveCount, OnNode, HasGroup, KnowsGroup, InGroup, Active, InLock, Joining, Copy
<1>1. UNCHANGED <<members, realCount, nextGroup, instance, cached>>
  BY DEF SaveCount, metaVars, nodeVars
<1>2. \A q \in Requests \ {r} : req'[q] = req[q] /\ req[q].pc \notin {"create"} \cup Joining
  BY <1>0, RequestEffect, OnlyHolder DEF RequestStep, InLock
<1>3. ~req[r].spawn
  BY <1>0 DEF RobotsOnce, InLock
<1>4. /\ req' = [req EXCEPT ![r].pc = "member"]
      /\ groups' = [groups EXCEPT ![g] = Copy(r)]
  BY DEF SaveCount, CountWritten, Goto, Under, Copy
<1>5. req'[r].pc = "member" /\ req'[r].g = g /\ req'[r].node = n /\ ~req'[r].spawn
  BY <1>t, <1>3, <1>4 DEF RequestState
<1>6. \A q \in Requests, h \in GroupIds : Brings(q, h)' <=> Brings(q, h)
  BY <1>0, <1>2, <1>5 DEF Brings
<1>7. \A h \in GroupIds : RobotsDue(h)' <=> RobotsDue(h)
  BY <1>1, <1>6 DEF RobotsDue
<1>8. \A h \in GroupIds : NumPlayers(h)' = NumPlayers(h)
  BY <1>1, SamePlayers
<1>9. groups'[g] = Copy(r) /\ \A h \in GroupIds \ {g} : groups'[h] = groups[h]
  BY <1>t, <1>0, <1>4
<1>10. Copy(r)' = Copy(r)
  BY <1>1, <1>5 DEF Copy
<1>11. /\ Copy(r).real = realCount[g] /\ realCount[g] >= NumPlayers(g) + 1
       /\ RobotsDue(g) => Copy(r).robots = Planned
  BY <1>0 DEF Counted, CountedFirst, CopyHasRobots, Joining
<1>12. Copy(r).real >= NumPlayers(g) /\ Copy(r).real >= NumPlayers(g) + 1
  BY <1>0, <1>11, <1>t, PlayersCount
<1>13. \A q \in Requests : req'[q].pc \in {"create"} \cup Joining => q = r
  BY <1>2
<1>14. RobotsOnce'
  BY <1>1, <1>2, <1>5, <1>6 DEF RobotsOnce
<1>15. Fresh' /\ Fits'
  BY <1>1, <1>2, <1>5, <1>7, <1>8 DEF Fresh, Unused, Fits
<1>16. InJSON'
  BY <1>7, <1>8, <1>9, <1>11, <1>12 DEF InJSON
<1>17. HasPlace' /\ CopyHasRobots' /\ Counted'
  BY <1>0, <1>1, <1>5, <1>7, <1>8, <1>10, <1>11, <1>13
     DEF HasPlace, CopyHasRobots, Counted, Joining
<1>18. CountedFirst'
  BY <1>0, <1>1, <1>5, <1>8, <1>9, <1>11, <1>12, <1>13 DEF CountedFirst, Joining
<1> QED
  BY <1>14, <1>15, <1>16, <1>17, <1>18

(* ... and only then SetMember makes him a player of it.                   *)
LEMMA MemberKeepsCapacity ==
    ASSUME ShapeInv, PlaceInv, CapacityInv, OneHolder', NEW r \in Requests, SetMember(r)
    PROVE  CapacityInv'
<1> USE DEF ShapeInv, CapacityInv
<1>t. /\ req \in [Requests -> RequestState] /\ groups \in [GroupIds -> Group \cup {None}]
      /\ realCount \in [GroupIds -> Nat] /\ Capacity \in Nat /\ User(r) \in Users
  BY GroupConstants DEF TypeOK, User
<1>p. req[r].pc = "member" /\ req[r].g \in GroupIds
  BY DEF SetMember, HasGroup, InGroup
<1> PICK g \in GroupIds : g = req[r].g
  BY <1>p
<1>0. req[r].pc = "member" /\ Copy(r) \in Group /\ g \in Nat /\ nextGroup \in Nat
  BY <1>p, GroupConstants DEF TypeOK, KnowsGroup, Joining, Copy
<1>1. UNCHANGED <<groups, realCount, nextGroup, instance, cached>>
  BY DEF SetMember, metaVars, nodeVars
<1>2. \A q \in Requests \ {r} : req'[q] = req[q] /\ req[q].pc \notin {"create"} \cup Joining
  BY <1>0, RequestEffect, OnlyHolder DEF RequestStep, InLock
<1>3. ~req[r].spawn
  BY <1>0 DEF RobotsOnce, InLock
<1>4. /\ req' = [req EXCEPT ![r].pc = "plan"]
      /\ members' = [members EXCEPT ![User(r)] = g]
  BY DEF SetMember, RecordMember, Goto
<1>5. req'[r].pc = "plan" /\ req'[r].g = g /\ req'[r].node = req[r].node /\ ~req'[r].spawn
  BY <1>t, <1>3, <1>4 DEF RequestState
<1>6. \A q \in Requests, h \in GroupIds : Brings(q, h)' <=> Brings(q, h)
  BY <1>0, <1>2, <1>5 DEF Brings
<1>7. \A h \in GroupIds : RobotsDue(h)' <=> RobotsDue(h)
  BY <1>1, <1>6 DEF RobotsDue
<1>8. /\ NumPlayers(g)' = NumPlayers(g) + 1
      /\ \A h \in GroupIds \ {g} : NumPlayers(h)' = NumPlayers(h)
  <2>1. members[User(r)] = None
    BY <1>0 DEF PlaceInv, NoEntryYet, Unplaced
  <2> QED
    BY <2>1, <1>t, <1>0, <1>4, OneMorePlayer
<1>9. NumPlayers(g) \in Nat /\ Planned \in Nat
  BY <1>0, PlayersCount, PlannedType
<1>10. Copy(r)' = Copy(r)
  BY <1>1, <1>5 DEF Copy
<1>11. /\ NumPlayers(g) + 1 <= Capacity /\ realCount[g] >= NumPlayers(g) + 1
       /\ RobotsDue(g) => NumPlayers(g) + 1 + Planned <= Capacity /\ realCount[g] >= 2
  BY <1>0 DEF Counted, CountedFirst, HasPlace
<1>12. groups[g] # None /\ groups[g].state = "open" => groups[g].real >= NumPlayers(g) + 1
  BY <1>0 DEF CountedFirst
<1>13. \A q \in Requests : req'[q].pc \in {"create"} \cup Joining => q = r
  BY <1>2
<1>14. RobotsOnce'
  BY <1>1, <1>2, <1>5, <1>6 DEF RobotsOnce
<1>15. Fresh'
  <2>1. ~(g > nextGroup)
    BY <1>0 DEF Numbered, Joining
  <2>2. \A q \in Requests : req'[q].pc # "create"
    BY <1>5, <1>13
  <2> QED
    BY <2>1, <2>2, <1>1, <1>7, <1>8 DEF Fresh, Unused
<1>16. Fits'
  BY <1>t, <1>0, <1>1, <1>7, <1>8, <1>9, <1>11 DEF Fits
<1>17. InJSON'
  BY <1>1, <1>7, <1>8, <1>12 DEF InJSON
<1>18. HasPlace' /\ CopyHasRobots' /\ Counted' /\ CountedFirst'
  BY <1>0, <1>1, <1>5, <1>7, <1>10, <1>13
     DEF HasPlace, CopyHasRobots, Counted, CountedFirst, Joining
<1> QED
  BY <1>14, <1>15, <1>16, <1>17, <1>18

(* The first player of a group, and nobody else, brings its robots.        *)
LEMMA PlanKeepsCapacity ==
    ASSUME ShapeInv, CapacityInv, OneHolder', NEW r \in Requests, PlanRobots(r)
    PROVE  CapacityInv'
<1> USE DEF ShapeInv, CapacityInv
<1>p. req[r].pc = "plan" /\ req[r].node \in Nodes /\ req[r].g \in GroupIds
  BY DEF PlanRobots, OnNode, HasGroup, InGroup, Active, InLock
<1> PICK g \in GroupIds : g = req[r].g
  BY <1>p
<1> DEFINE first == Copy(r).real = 1 /\ Planned > 0
           planned == IF first THEN [Copy(r) EXCEPT !.robots = Planned] ELSE Copy(r)
           after == IF Total(planned) >= Capacity
                    THEN [planned EXCEPT !.state = "full"] ELSE planned
<1>t. /\ req \in [Requests -> RequestState] /\ groups \in [GroupIds -> Group \cup {None}]
      /\ cached \in [Nodes -> [GroupIds -> Group \cup {None}]]
      /\ instance \in [GroupIds -> Instance]
      /\ realCount \in [GroupIds -> Nat] /\ Capacity \in Nat
  BY GroupConstants DEF TypeOK
<1>0. req[r].pc = "plan" /\ Copy(r) \in Group /\ g \in Nat /\ nextGroup \in Nat
  BY <1>p, GroupConstants DEF TypeOK, KnowsGroup, Joining, Copy
<1>1. UNCHANGED <<members, realCount, nextGroup, instance>>
  BY DEF PlanRobots, metaVars
<1>2. \A q \in Requests \ {r} : req'[q] = req[q] /\ req[q].pc \notin {"create"} \cup Joining
  BY <1>0, RequestEffect, OnlyHolder DEF RequestStep, InLock
<1>4. /\ req' = [req EXCEPT ![r].pc = "score", ![r].spawn = first]
      /\ \/ groups' = groups /\ ~first
         \/ groups' = [groups EXCEPT ![g] = after] /\ (first \/ after.state = "full")
  BY DEF PlanRobots, Under, Copy
<1>f. first \in BOOLEAN
  OBVIOUS
<1>9. NumPlayers(g) \in Nat /\ Planned \in Nat /\ Planned <= Capacity - 1
  BY <1>0, PlayersCount, PlannedType
<1>10. /\ Copy(r).real = realCount[g] /\ realCount[g] >= NumPlayers(g)
       /\ RobotsDue(g) => realCount[g] >= 2
  BY <1>0 DEF Counted, Fits
<1>11. first => realCount[g] = 1 /\ ~RobotsDue(g)
  BY <1>0, <1>10
<1>12. first => after.real = 1 /\ after.robots = Planned
  BY <1>0 DEF Group
<1>h. \A h \in GroupIds \ {g} : groups'[h] = groups[h]
  <2> HIDE DEF first, after
  <2> QED
    BY <1>t, <1>0, <1>4
<1>j. \/ groups'[g] = groups[g] /\ ~first
      \/ groups'[g] = after /\ (first \/ after.state = "full")
  <2> HIDE DEF first, after
  <2>1. CASE groups' = groups /\ ~first
    BY <2>1
  <2>2. CASE groups' = [groups EXCEPT ![g] = after] /\ (first \/ after.state = "full")
    <3>1. groups'[g] = after
      BY <1>t, <2>2
    <3> QED
      BY <3>1, <2>2
  <2> QED
    BY <1>4, <2>1, <2>2
<1> HIDE DEF first, planned, after
<1>5. req'[r].pc = "score" /\ req'[r].g = g /\ req'[r].spawn = first
  BY <1>t, <1>f, <1>4 DEF RequestState
<1>6. \A q \in Requests, h \in GroupIds : Brings(q, h)' <=> Brings(q, h) \/ (first /\ q = r /\ h = g)
  <2>1. ASSUME NEW q \in Requests, NEW h \in GroupIds, q # r
        PROVE  Brings(q, h)' <=> Brings(q, h)
    BY <1>2, <2>1 DEF Brings
  <2>2. ASSUME NEW h \in GroupIds PROVE Brings(r, h)' <=> first /\ h = g
    BY <1>5 DEF Brings
  <2>3. ASSUME NEW h \in GroupIds PROVE ~Brings(r, h)
    BY <1>0 DEF Brings
  <2> QED
    BY <2>1, <2>2, <2>3
<1>7. \A h \in GroupIds : RobotsDue(h)' <=> RobotsDue(h) \/ (first /\ h = g)
  BY <1>1, <1>6 DEF RobotsDue
<1>8. \A h \in GroupIds : NumPlayers(h)' = NumPlayers(h)
  BY <1>1, SamePlayers
<1>13. \A q \in Requests : req'[q].pc \notin {"create"} \cup Joining
  BY <1>2, <1>5 DEF Joining
<1>14. RobotsOnce'
  <2>1. \A q \in Requests :
           /\ req'[q].pc \in {"new", "enter"} \cup InLock => ~req'[q].spawn
           /\ req'[q].pc = "spawn" => req'[q].spawn
    BY <1>2, <1>5 DEF RobotsOnce, InLock
  <2>2. first => instance[g].robots = 0 /\ \A q \in Requests : ~Brings(q, g)
    <3>1. instance[g].robots \in Nat
      BY <1>t, <1>0 DEF Instance
    <3> QED
      BY <3>1, <1>11 DEF RobotsDue
  <2> QED
    BY <2>1, <2>2, <1>1, <1>6 DEF RobotsOnce
<1>15. Fresh'
  <2>1. ~(g > nextGroup)
    BY <1>0 DEF Numbered, Joining
  <2> QED
    BY <2>1, <1>1, <1>7, <1>8, <1>13 DEF Fresh, Unused
<1>16. Fits'
  <2>1. first => NumPlayers(g) + Planned <= Capacity /\ realCount[g] >= 1
    BY <1>9, <1>10, <1>11, <1>t
  <2> QED
    BY <2>1, <1>1, <1>7, <1>8 DEF Fits
<1>17. InJSON'
  <2>1. first => after.real >= NumPlayers(g)
    BY <1>9, <1>10, <1>11, <1>12
  <2>2. ASSUME groups'[g] # None, groups'[g].state = "open"
        PROVE  /\ groups'[g].real >= NumPlayers(g)
               /\ RobotsDue(g)' => groups'[g].robots = Planned
    <3>1. CASE first /\ groups'[g] = after
      BY <3>1, <2>1, <1>12
    <3>2. CASE groups'[g] = groups[g] /\ ~first
      BY <3>2, <2>2, <1>0, <1>7 DEF InJSON
    <3> QED
      BY <3>1, <3>2, <2>2, <1>j
  <2> QED
    BY <2>2, <1>h, <1>7, <1>8 DEF InJSON
<1>18. HasPlace' /\ CopyHasRobots' /\ Counted' /\ CountedFirst'
  BY <1>13 DEF HasPlace, CopyHasRobots, Counted, CountedFirst, Joining
<1> QED
  BY <1>14, <1>15, <1>16, <1>17, <1>18

(* Robots join once, and no more than were planned for.                    *)
LEMMA SpawnKeepsCapacity ==
    ASSUME ShapeInv, CapacityInv, OneHolder', NEW r \in Requests, SpawnRobots(r)
    PROVE  CapacityInv'
<1> USE DEF ShapeInv, CapacityInv
<1>p. req[r].pc = "spawn" /\ req[r].g \in GroupIds
  BY DEF SpawnRobots, HasGroup, InGroup
<1> PICK g \in GroupIds : g = req[r].g
  BY <1>p
<1>t. /\ req \in [Requests -> RequestState] /\ instance \in [GroupIds -> Instance]
      /\ Planned \in Nat
  BY PlannedType DEF TypeOK
<1>1. UNCHANGED <<members, realCount, nextGroup, groups, cached>>
  BY DEF SpawnRobots, metaVars, nodeVars
<1>2. \A q \in Requests \ {r} : req'[q] = req[q]
  BY RequestEffect DEF RequestStep
<1>3. PICK k \in 0..Planned :
         instance' = [instance EXCEPT ![g].robots =
                        IF instance[g].state = "open" THEN @ + k ELSE @]
  BY DEF SpawnRobots
<1>4. req'[r].pc = "ok"
  BY <1>t DEF SpawnRobots, Goto, RequestState
<1>5. /\ instance'[g].robots \in {instance[g].robots, instance[g].robots + k}
      /\ \A h \in GroupIds \ {g} : instance'[h].robots = instance[h].robots
  BY <1>t, <1>3 DEF Instance
<1>6. \A q \in Requests, h \in GroupIds : Brings(q, h)' <=> Brings(q, h) /\ q # r
  BY <1>2, <1>4 DEF Brings
<1>7. Brings(r, g)
  BY <1>p DEF Brings, RobotsOnce
<1>8. instance[g].robots = 0 /\ instance'[g].robots <= Planned
      /\ \A q \in Requests : ~Brings(q, g)'
  BY <1>t, <1>5, <1>6, <1>7 DEF RobotsOnce
<1>9. \A h \in GroupIds : RobotsDue(h)' => RobotsDue(h)
  <2>1. RobotsDue(g)
    BY <1>7 DEF RobotsDue
  <2>2. ASSUME NEW h \in GroupIds \ {g} PROVE RobotsDue(h)' => RobotsDue(h)
    BY <1>5, <1>6 DEF RobotsDue
  <2> QED
    BY <2>1, <2>2
<1>10. \A h \in GroupIds : NumPlayers(h)' = NumPlayers(h)
  BY <1>1, SamePlayers
<1>11. \A q \in Requests : req'[q].pc \in {"create", "new", "enter"} \cup InLock => q # r
  BY <1>4 DEF InLock
<1>12. RobotsOnce'
  BY <1>2, <1>4, <1>5, <1>6, <1>8, <1>11 DEF RobotsOnce
<1>13. Fresh' /\ Fits' /\ InJSON'
  <2>1. \A q \in Requests : req'[q].pc = "create" => req'[q] = req[q] /\ req[q].g \in GroupIds
    BY <1>2, <1>4 DEF HasGroup, InGroup
  <2>2. Fresh'
    BY <2>1, <1>1, <1>9, <1>10 DEF Fresh, Unused
  <2>3. Fits' /\ InJSON'
    BY <1>1, <1>9, <1>10 DEF Fits, InJSON
  <2> QED
    BY <2>2, <2>3
<1>14. \A q \in Requests : req'[q].pc \in Joining =>
         req'[q] = req[q] /\ Copy(q)' = Copy(q) /\ req[q].g \in GroupIds
  BY <1>1, <1>2, <1>4 DEF Copy, Joining, HasGroup, InGroup
<1>15. HasPlace' /\ CopyHasRobots' /\ Counted' /\ CountedFirst'
  BY <1>1, <1>9, <1>10, <1>14 DEF HasPlace, CopyHasRobots, Counted, CountedFirst, Joining
<1> QED
  BY <1>12, <1>13, <1>15

(* No other step brings players or robots or gets in the way of a request  *)
(* that is joining a group: SyncSettled waits for s.mu, ...                *)
LEMMA RequestKeepsCapacity ==
    ASSUME ShapeInv, CapacityInv, OneHolder', NEW r \in Requests,
           Enter(r) \/ EnsureInstance(r) \/ UpsertScore(r) \/ \E n \in Nodes : Admit(r, n)
    PROVE  CapacityInv'
<1>t. req \in [Requests -> RequestState] /\ instance \in [GroupIds -> Instance]
  BY DEF ShapeInv, TypeOK
<1>1. UNCHANGED <<members, realCount, nextGroup, groups, cached>>
  BY DEF Enter, EnsureInstance, UpsertScore, Admit, metaVars, nodeVars
<1>2. \A q \in Requests \ {r} : req'[q] = req[q]
  BY RequestEffect, AdmitEffect DEF RequestStep, ShapeInv
<1>3. /\ req'[r].pc \notin {"create"} \cup Joining
      /\ req'[r].spawn = req[r].spawn
      /\ req'[r].pc \in {"new", "enter"} \cup InLock => req[r].pc \in {"new", "enter"}
      /\ req'[r].pc = "spawn" => req[r].spawn
      /\ req'[r].pc \in {"score", "upsert", "spawn"} => \/ req[r].pc = "enter"
                                                        \/ /\ req[r].pc \in {"score", "upsert"}
                                                           /\ req'[r].g = req[r].g
  BY <1>t DEF Enter, EnsureInstance, UpsertScore, Admit, Goto, RequestState, Joining, InLock
<1>4. \A q \in Requests :
        /\ req'[q].pc \in {"create"} \cup Joining
             => /\ req'[q] = req[q]
                /\ cached'[req[q].node][req[q].g] = Copy(q)
        /\ req'[q].pc \in {"new", "enter"} \cup InLock => ~req'[q].spawn
        /\ req'[q].pc = "spawn" => req'[q].spawn
        /\ \A g \in GroupIds : Brings(q, g)' => Brings(q, g)
  <2>1. RobotsOnce
    BY DEF CapacityInv
  <2>2. /\ req'[r].pc \in {"new", "enter"} \cup InLock => ~req'[r].spawn
        /\ \A g \in GroupIds : Brings(r, g)' => Brings(r, g)
    BY <2>1, <1>3 DEF RobotsOnce, Brings
  <2> QED
    BY <2>1, <2>2, <1>1, <1>2, <1>3 DEF Copy, RobotsOnce, Brings
<1>5. \A g \in GroupIds : instance'[g].robots = instance[g].robots
  BY <1>t DEF Enter, EnsureInstance, UpsertScore, Admit, Instance
<1> QED
  BY <1>1, <1>4, <1>5, CapacityKept

(* ... and a crash ends the request.                                       *)
LEMMA CrashKeepsCapacity ==
    ASSUME ShapeInv, CapacityInv, OneHolder', NEW n \in Nodes, Crash(n)
    PROVE  CapacityInv'
<1>t. cached \in [Nodes -> [GroupIds -> Group \cup {None}]]
  BY DEF ShapeInv, TypeOK
<1>1. UNCHANGED <<members, realCount, groups, instance>> /\ cached' = [cached EXCEPT ![n] = groups]
  BY DEF Crash
<1>2. nextGroup' = nextGroup
  <2>1. \A g \in GroupIds : groups[g] # None => ~(g > nextGroup)
    BY GroupConstants DEF ShapeInv, TypeOK, Numbered
  <2> QED
    BY <2>1 DEF Crash
<1>3. \A q \in Requests :
        /\ req'[q].pc \in {"create"} \cup Joining
             => /\ req'[q] = req[q]
                /\ cached'[req[q].node][req[q].g] = Copy(q)
        /\ req'[q].pc \in {"new", "enter"} \cup InLock => ~req'[q].spawn
        /\ req'[q].pc = "spawn" => req'[q].spawn
        /\ \A g \in GroupIds : Brings(q, g)' => Brings(q, g)
  <2> SUFFICES ASSUME NEW q \in Requests, req'[q].pc # "failed"
               PROVE  /\ req'[q].pc \in {"create"} \cup Joining
                           => /\ req'[q] = req[q]
                              /\ cached'[req[q].node][req[q].g] = Copy(q)
                      /\ req'[q].pc \in {"new", "enter"} \cup InLock => ~req'[q].spawn
                      /\ req'[q].pc = "spawn" => req'[q].spawn
                      /\ \A g \in GroupIds : Brings(q, g)' => Brings(q, g)
    BY DEF Joining, InLock, Brings
  <2>1. req'[q] = req[q] /\ (req[q].node = n => req[q].pc \in Ended)
    BY CrashEffect DEF ShapeInv
  <2>2. RobotsOnce /\ OnNode
    BY DEF CapacityInv, ShapeInv
  <2>3. req[q].pc \in {"create"} \cup Joining => req[q].node \in Nodes \ {n}
    BY <2>1, <2>2 DEF OnNode, Active, InLock, Joining, Ended
  <2> QED
    BY <2>1, <2>2, <2>3, <1>t, <1>1 DEF RobotsOnce, Brings, Copy
<1> QED
  BY <1>1, <1>2, <1>3, CapacityKept

(* A settlement changes the JSON of a group to one that is settled.        *)
LEMMA SettleKeepsCapacity ==
    ASSUME ShapeInv, CapacityInv, OneHolder', [Next]_vars,
           ~ \E r \in Requests : RequestStep(r) \/ \E n \in Nodes : Admit(r, n),
           ~ \E n \in Nodes : Crash(n)
    PROVE  CapacityInv'
<1> USE DEF ShapeInv
<1>t. /\ cached \in [Nodes -> [GroupIds -> Group \cup {None}]]
      /\ groups \in [GroupIds -> Group \cup {None}]
      /\ instance \in [GroupIds -> Instance]
  BY DEF TypeOK
<1>1. UNCHANGED <<req, members, nextGroup, realCount>>
  BY OthersKeepRequests
<1>2. ASSUME NEW s \in Settlers, SaveSettled(s)
      PROVE  /\ instance' = instance /\ cached' = cached
             /\ \A g \in GroupIds : groups'[g] = groups[g] \/ groups'[g].state = "settled"
  <2>1. instance' = instance /\ cached' = cached
    BY <1>2 DEF SaveSettled, nodeVars
  <2>2. Settled(s).state = "settled"
    BY <1>2 DEF SaveSettled, HasCopy, Settled, Group
  <2>3. groups' = [groups EXCEPT ![settle[s].g] = Settled(s)]
    BY <1>2 DEF SaveSettled
  <2> QED
    BY <1>t, <2>1, <2>2, <2>3
<1>3. ASSUME NEW s \in Settlers, SyncSettled(s)
      PROVE  /\ instance' = instance /\ groups' = groups
             /\ \A q \in Requests : req[q].pc \in {"create"} \cup Joining =>
                    cached'[req[q].node][req[q].g] = Copy(q)
  <2>1. instance' = instance /\ groups' = groups
    BY <1>3 DEF SyncSettled
  <2>2. \A q \in Requests : req[q].pc \in {"create"} \cup Joining =>
           req[q].node \in Nodes \ {s[1]}
    BY <1>3 DEF SyncSettled, MutexFree, OnNode, Active, InLock, Joining
  <2>3. cached' = [cached EXCEPT ![s[1]][settle[s].g] = Settled(s)]
    BY <1>3 DEF SyncSettled
  <2>4. s[1] \in Nodes
    BY DEF Settlers
  <2> QED
    BY <1>t, <2>1, <2>2, <2>3, <2>4 DEF Copy
<1>4. ASSUME NEW n \in Nodes, TickSettle(n)
      PROVE  /\ groups' = groups /\ cached' = cached
             /\ \A g \in GroupIds : instance'[g].robots = instance[g].robots
  BY <1>4, <1>t DEF TickSettle, nodeVars, Instance
<1>5. ASSUME NEW s \in Settlers, SealInstance(s)
      PROVE  /\ groups' = groups /\ cached' = cached
             /\ \A g \in GroupIds : instance'[g].robots = instance[g].robots
  <2>1. groups' = groups /\ cached' = cached
    BY <1>5 DEF SealInstance, nodeVars
  <2>2. \A g \in GroupIds : Sealed(instance[g]).robots = instance[g].robots
    BY <1>t DEF Sealed, Instance
  <2>3. \A g \in GroupIds : instance'[g] \in {instance[g], Sealed(instance[g])}
    BY <1>5, <1>t DEF SealInstance
  <2> QED
    BY <2>1, <2>2, <2>3
<1>6. ASSUME \/ \E s \in Settlers : LoadGroups(s) \/ LockGroup(s) \/ EndSettle(s)
             \/ \E n \in Nodes : GMSettle(n)
             \/ Clock \/ TimeIsUp \/ UNCHANGED vars
      PROVE  groups' = groups /\ cached' = cached /\ instance' = instance
  BY <1>6 DEF LoadGroups, LockGroup, EndSettle, GMSettle, Clock, TimeIsUp, vars, nodeVars
<1>7. /\ \A g \in GroupIds : instance'[g].robots = instance[g].robots
      /\ \A g \in GroupIds : groups'[g] = groups[g] \/ groups'[g].state = "settled"
      /\ \A q \in Requests : req[q].pc \in {"create"} \cup Joining =>
             cached'[req[q].node][req[q].g] = Copy(q)
  BY <1>2, <1>3, <1>4, <1>5, <1>6 DEF Next, SettleStep, Copy
<1>8. \A q \in Requests :
        /\ req[q].pc \in {"new", "enter"} \cup InLock => ~req[q].spawn
        /\ req[q].pc = "spawn" => req[q].spawn
  BY DEF CapacityInv, RobotsOnce
<1>9. \A q \in Requests, g \in GroupIds : Brings(q, g)' => Brings(q, g)
  BY <1>1 DEF Brings
<1> QED
  BY <1>1, <1>7, <1>8, <1>9, CapacityKept

(* With one node there is always room for what joins a group, whatever is  *)
(* settled and whatever crashes in between.                                *)
THEOREM Capacities == OneNode /\ Spec => []CapacityInv
<1> SUFFICES ASSUME OneNode PROVE Spec => []CapacityInv
  OBVIOUS
<1>1. Init => CapacityInv
  <2> SUFFICES ASSUME Init PROVE CapacityInv
    OBVIOUS
  <2>1. \A r \in Requests : req[r].pc = "new" /\ ~req[r].spawn
    BY DEF Init
  <2>2. \A g \in GroupIds : NumPlayers(g) = 0
    <3>1. \A g \in GroupIds : Players(g) = {}
      BY GroupConstants DEF Init, Players
    <3> QED
      BY <3>1, FS_EmptySet DEF NumPlayers
  <2>3. \A g \in GroupIds : ~RobotsDue(g)
    BY <2>1 DEF Init, RobotsDue, Brings
  <2>4. OneHolder /\ RobotsOnce
    BY <2>1, PlannedType DEF Init, OneHolder, RobotsOnce, Brings, InLock
  <2>5. Fresh /\ Fits /\ InJSON
    BY <2>1, <2>2, <2>3, GroupConstants DEF Init, Fresh, Unused, Fits, InJSON
  <2>6. HasPlace /\ CopyHasRobots /\ Counted /\ CountedFirst
    BY <2>1 DEF HasPlace, CopyHasRobots, Counted, CountedFirst, Joining
  <2> QED
    BY <2>4, <2>5, <2>6 DEF CapacityInv
<1>2. ShapeInv /\ PlaceInv /\ KnownInv /\ CapacityInv /\ [Next]_vars => CapacityInv'
  <2> SUFFICES ASSUME ShapeInv, PlaceInv, KnownInv, CapacityInv, [Next]_vars
               PROVE  CapacityInv'
    OBVIOUS
  <2>1. OneHolder'
    BY OneHolderStep DEF CapacityInv
  <2>2. ASSUME NEW r \in Requests, RequestStep(r) PROVE CapacityInv'
    BY <2>1, <2>2, ChooseHasRoom, NumberIsFresh, CreateHasRoom, CountKeepsCapacity,
       SaveKeepsCapacity, MemberKeepsCapacity, PlanKeepsCapacity, SpawnKeepsCapacity,
       RequestKeepsCapacity DEF RequestStep
  <2>3. ASSUME NEW r \in Requests, NEW n \in Nodes, Admit(r, n) PROVE CapacityInv'
    BY <2>1, <2>3, RequestKeepsCapacity
  <2>4. ASSUME NEW n \in Nodes, Crash(n) PROVE CapacityInv'
    BY <2>1, <2>4, CrashKeepsCapacity
  <2> QED
    BY <2>1, <2>2, <2>3, <2>4, SettleKeepsCapacity
<1> QED
  BY <1>1, <1>2, Shape, Places, Known, PTL DEF Spec

(* A group served by one node never has more players and robots than its   *)
(* capacity: the count goes up before the player is entered and the robots *)
(* are planned with what is left (ensureGroupLocked, engine/service.go).   *)
THEOREM GroupsKeepWithinCapacity == OneNode /\ Spec => []WithinCapacity
<1> SUFFICES ASSUME OneNode PROVE Spec => []WithinCapacity
  OBVIOUS
<1>1. ShapeInv /\ CapacityInv => WithinCapacity
  <2> SUFFICES ASSUME ShapeInv, CapacityInv, NEW g \in GroupIds
               PROVE  Cardinality(Players(g)) + instance[g].robots <= Capacity
    BY DEF WithinCapacity
  <2>1. NumPlayers(g) \in Nat /\ Planned \in Nat /\ Capacity \in Nat
        /\ instance[g].robots \in Nat
    BY PlayersCount, PlannedType, GroupConstants DEF ShapeInv, TypeOK, Instance
  <2>2. /\ NumPlayers(g) <= Capacity
        /\ instance[g].robots <= Planned
        /\ instance[g].robots > 0 => NumPlayers(g) + Planned <= Capacity
    BY DEF CapacityInv, Fits, RobotsOnce, RobotsDue
  <2>3. NumPlayers(g) + instance[g].robots <= Capacity
    BY <2>1, <2>2
  <2> QED
    BY <2>3 DEF NumPlayers
<1> QED
  BY <1>1, Shape, Capacities, PTL

(* The JSON of an open group never counts fewer players than there are, so *)
(* no group is reopened that is full (IncrRealCount, engine/store.go).     *)
THEOREM JSONCountsEveryPlayer == OneNode /\ Spec => []CountNeverLow
<1> SUFFICES ASSUME OneNode PROVE Spec => []CountNeverLow
  OBVIOUS
<1>1. CapacityInv => CountNeverLow
  BY DEF CapacityInv, InJSON, CountNeverLow, NumPlayers
<1> QED
  BY <1>1, Capacities, PTL
=============================================================================
