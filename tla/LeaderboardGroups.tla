------------------------- MODULE LeaderboardGroups -------------------------
(***************************************************************************)
(* The groups of one leaderboard (one engine bizId) served by several      *)
(* nodes: how a score puts its user into a group, and how the groups are   *)
(* settled.  Source: UpsertScore, Tick and Settle of engine/service.go,    *)
(* engine/group.go, and the operations of engine/store.go they use.        *)
(*                                                                         *)
(* A group is a JSON value in the Redis hash rank:groups that every writer *)
(* replaces as a whole; its number of players is counted a second time, by *)
(* HINCRBY in rank:meta.  A node's mutex s.mu is held from the lookup of   *)
(* the user to the assignment, never across nodes and not while scores are *)
(* written or groups are settled.  The scores live in an instance of the   *)
(* external RankService, which refuses scores once it is closed.           *)
(*                                                                         *)
(* The unit of time is 10 minutes, the life of a settle lock.              *)
(***************************************************************************)
EXTENDS Naturals, FiniteSets

CONSTANTS Nodes,
          Users,
          Requests,  \* the score requests of a behaviour
          UserOf,    \* the user of each; a user sends one at a time
          Capacity,  \* RankPeopleNum
          Tiers,     \* the robots the configuration asks for
          GroupIds,  \* 1..k, a bound on the groups that are created
          CloseAt,   \* CloseTime: no more scores
          SettleAt,  \* GameEndTime: the groups are settled
          LockTTL,   \* life of a settle lock
          Horizon,   \* the clock stops here
          Prompt,    \* scores end before the groups are settled
          Faults,    \* which of "crash", "error", "gm" may happen
          MaxFaults, \* bound on how often, altogether
          None

ASSUME GroupConstants ==
    /\ IsFiniteSet(Users)
    /\ UserOf \in [Requests -> Users]
    /\ Capacity \in Nat \ {0}
    /\ Tiers \in Nat
    /\ GroupIds \subseteq Nat
    /\ None \notin GroupIds
    /\ CloseAt \in Nat
    /\ SettleAt \in Nat \ {0}
    /\ CloseAt <= SettleAt
    /\ LockTTL \in Nat
    /\ Horizon \in Nat
    /\ Prompt \in BOOLEAN
    /\ Faults \subseteq {"crash", "error", "gm"}
    /\ MaxFaults \in Nat

ASSUME SomeNode == Nodes # {}

VARIABLES now,         \* the clock
          groups,      \* rank:groups
          members,     \* rank:members
          nextGroup,   \* nextGroupID in rank:meta
          realCount,   \* realCount_<id> in rank:meta
          settleLock,  \* when the settle lock of a group expires
          instance,    \* the RankService instance of each group
          cached,      \* cached[n]: s.groups
          memberGroup, \* memberGroup[n]: s.memberGroup
          settledAt,   \* settledAt[n]: node n takes the leaderboard for settled
          req,         \* the score requests
          settle,      \* the goroutines that settle: tick and GM of each node
          left         \* what is left of MaxFaults

vars == <<now, groups, members, nextGroup, realCount, settleLock, instance,
          cached, memberGroup, settledAt, req, settle, left>>
metaVars == <<nextGroup, realCount>>
nodeVars == <<cached, memberGroup, settledAt>>

Group == [real : Nat, robots : Nat, state : {"open", "full", "settled"}]
Instance == [state : {"absent", "open", "closed", "settled"},
             scores : SUBSET Users, robots : Nat, snapshot : SUBSET Users]
Settlers == Nodes \X {"tick", "gm"}

ASSUME NoneIsNoGroup == None \notin Group

(* A request is past s.mu from "score" on.                                 *)
InLock == {"choose", "number", "create", "count", "save", "member", "plan"}
Ended == {"ok", "refused", "failed"}
RequestState == [pc : {"new", "enter", "score", "upsert", "spawn"} \cup InLock \cup Ended,
                 node : Nodes \cup {None}, g : GroupIds \cup {None}, spawn : BOOLEAN]
SettleState == [pc : {"idle", "load", "loop", "seal", "save", "sync"},
                todo : [GroupIds -> Group \cup {None}], g : GroupIds \cup {None}]
Idle == [pc |-> "idle", todo |-> [g \in GroupIds |-> None], g |-> None]

TypeOK ==
    /\ now \in 0..Horizon
    /\ groups \in [GroupIds -> Group \cup {None}]
    /\ members \in [Users -> GroupIds \cup {None}]
    /\ nextGroup \in Nat
    /\ realCount \in [GroupIds -> Nat]
    /\ settleLock \in [GroupIds -> Nat]
    /\ instance \in [GroupIds -> Instance]
    /\ cached \in [Nodes -> [GroupIds -> Group \cup {None}]]
    /\ memberGroup \in [Nodes -> [Users -> GroupIds \cup {None}]]
    /\ settledAt \in [Nodes -> BOOLEAN]
    /\ req \in [Requests -> RequestState]
    /\ settle \in [Settlers -> SettleState]
    /\ left \in 0..MaxFaults

Init ==
    /\ now = 0
    /\ groups = [g \in GroupIds |-> None]
    /\ members = [u \in Users |-> None]
    /\ nextGroup = 0
    /\ realCount = [g \in GroupIds |-> 0]
    /\ settleLock = [g \in GroupIds |-> 0]
    /\ instance = [g \in GroupIds |-> [state |-> "absent", scores |-> {},
                                       robots |-> 0, snapshot |-> {}]]
    /\ cached = [n \in Nodes |-> groups]
    /\ memberGroup = [n \in Nodes |-> members]
    /\ settledAt = [n \in Nodes |-> FALSE]
    /\ req = [r \in Requests |-> [pc |-> "new", node |-> None, g |-> None,
                                  spawn |-> FALSE]]
    /\ settle = [s \in Settlers |-> Idle]
    /\ left = MaxFaults

Spend(kind) == kind \in Faults /\ left > 0 /\ left' = left - 1

Total(group) == group.real + group.robots
Lesser(a, b) == IF a < b THEN a ELSE b

-----------------------------------------------------------------------------
(* UpsertScore                                                              *)

Goto(r, pc) == req' = [req EXCEPT ![r].pc = pc]
User(r) == UserOf[r]
Under(r) == req[r].node

(* Nobody holds the mutex of the node. *)
MutexFree(n) == \A r \in Requests : req[r].node = n => req[r].pc \notin InLock

(* canUpdateScore, by the time the request carries; a user sends its next  *)
(* request after the answer to the last.                                   *)
Admit(r, n) ==
    /\ req[r].pc = "new"
    /\ now < CloseAt
    /\ \A q \in Requests \ {r} : User(q) = User(r) => req[q].pc \in {"new"} \cup Ended
    /\ req' = [req EXCEPT ![r].pc = "enter", ![r].node = n]
    /\ UNCHANGED <<now, groups, members, metaVars, settleLock, instance,
                   nodeVars, settle, left>>

(* Lock s.mu.  The user has a group, in memory or in rank:members, or needs *)
(* one.                                                                    *)
Enter(r) ==
    /\ req[r].pc = "enter"
    /\ LET n == Under(r)
           g == IF memberGroup[n][User(r)] # None
                THEN memberGroup[n][User(r)] ELSE members[User(r)]
       IN  /\ MutexFree(n)
           /\ memberGroup' = [memberGroup EXCEPT ![n][User(r)] = g]
           /\ req' = [req EXCEPT ![r].pc = IF g = None THEN "choose" ELSE "score",
                                 ![r].g = g]
    /\ UNCHANGED <<now, groups, members, metaVars, settleLock, instance, cached,
                   settledAt, settle, left>>

(* Mutant: a group is filled up to its capacity and one more. *)
HasRoomAndOne(group) == group.state = "open" /\ Total(group) <= Capacity
HasRoom(group) == group.state = "open" /\ Total(group) < Capacity

(* ensureGroupLocked: take the groups in Redis over into s.groups and look *)
(* for one with room (the slice is in the order the groups were met).      *)
ChooseGroup(r) ==
    /\ req[r].pc = "choose"
    /\ LET n == Under(r)
           merged == [g \in GroupIds |-> IF groups[g] = None THEN cached[n][g]
                                                            ELSE groups[g]]
           open == {g \in GroupIds : merged[g] # None /\ HasRoom(merged[g])}
       IN  /\ cached' = [cached EXCEPT ![n] = merged]
           /\ IF open = {}
              THEN Goto(r, "number")
              ELSE \E g \in open :
                     req' = [req EXCEPT ![r].pc = "count", ![r].g = g]
    /\ UNCHANGED <<now, groups, members, metaVars, settleLock, instance,
                   memberGroup, settledAt, settle, left>>

(* Mutant: the number from before HINCRBY. *)
OldNumber == nextGroup
NewNumber == nextGroup + 1

(* NextGroupID *)
NumberGroup(r) ==
    /\ req[r].pc = "number"
    /\ nextGroup + 1 \in GroupIds
    /\ nextGroup' = nextGroup + 1
    /\ req' = [req EXCEPT ![r].pc = "create", ![r].g = NewNumber]
    /\ UNCHANGED <<now, groups, members, realCount, settleLock, instance,
                   nodeVars, settle, left>>

(* The new group is appended to s.groups and saved. *)
CreateGroup(r) ==
    /\ req[r].pc = "create"
    /\ LET new == [real |-> 0, robots |-> 0, state |-> "open"]
       IN  /\ cached' = [cached EXCEPT ![Under(r)][req[r].g] = new]
           /\ groups' = [groups EXCEPT ![req[r].g] = new]
    /\ Goto(r, "count")
    /\ UNCHANGED <<now, members, metaVars, settleLock, instance, memberGroup,
                   settledAt, settle, left>>

(* IncrRealCount, first half: count the player in rank:meta... *)
CountPlayer(r) ==
    /\ req[r].pc = "count"
    /\ LET n == Under(r)
           g == req[r].g
       IN  /\ realCount' = [realCount EXCEPT ![g] = @ + 1]
           /\ cached' = [cached EXCEPT ![n][g].real = realCount[g] + 1]
           /\ memberGroup' = [memberGroup EXCEPT ![n][User(r)] = g]
    /\ Goto(r, "save")
    /\ UNCHANGED <<now, groups, members, nextGroup, settleLock, instance,
                   settledAt, settle, left>>

(* Mutant: the number of players stays in rank:meta. *)
CountNotWritten(r) == groups
CountWritten(r) == [groups EXCEPT ![req[r].g] = cached[Under(r)][req[r].g]]

(* ... second half: write the group as this node knows it. *)
SaveCount(r) ==
    /\ req[r].pc = "save"
    /\ groups' = CountWritten(r)
    /\ Goto(r, "member")
    /\ UNCHANGED <<now, members, metaVars, settleLock, instance, nodeVars,
                   settle, left>>

(* Mutant: the user's group stays in the memory of the node. *)
KeepMember(r) == UNCHANGED members
(* SetMember *)
RecordMember(r) == members' = [members EXCEPT ![User(r)] = req[r].g]

SetMember(r) ==
    /\ req[r].pc = "member"
    /\ RecordMember(r)
    /\ Goto(r, "plan")
    /\ UNCHANGED <<now, groups, metaVars, settleLock, instance, nodeVars,
                   settle, left>>

(* buildRobotSpawnPlan: how many robots fit beside the first player. *)
Planned == Lesser(Tiers, Capacity - 1)

(* The first player of a group brings the robots; a group without room is  *)
(* full.  Both changes are saved, one after the other with nothing in      *)
(* between that another node acts upon; then s.mu is released.             *)
PlanRobots(r) ==
    /\ req[r].pc = "plan"
    /\ LET n == Under(r)
           g == req[r].g
           first == cached[n][g].real = 1 /\ Planned > 0
           planned == IF first THEN [cached[n][g] EXCEPT !.robots = Planned]
                               ELSE cached[n][g]
           after == IF Total(planned) >= Capacity
                    THEN [planned EXCEPT !.state = "full"] ELSE planned
       IN  /\ cached' = [cached EXCEPT ![n][g] = after]
           /\ groups' = IF first \/ after.state = "full"
                        THEN [groups EXCEPT ![g] = after] ELSE groups
           /\ req' = [req EXCEPT ![r].pc = "score", ![r].spawn = first]
    /\ UNCHANGED <<now, members, metaVars, settleLock, instance, memberGroup,
                   settledAt, settle, left>>

(* ensureGroupInstance *)
EnsureInstance(r) ==
    /\ req[r].pc = "score"
    /\ instance' = [instance EXCEPT ![req[r].g].state =
                       IF @ = "absent" THEN "open" ELSE @]
    /\ Goto(r, "upsert")
    /\ UNCHANGED <<now, groups, members, metaVars, settleLock, nodeVars, settle,
                   left>>

(* BatchUpsertScore with the score of the user. *)
UpsertScore(r) ==
    /\ req[r].pc = "upsert"
    /\ IF instance[req[r].g].state = "open"
       THEN /\ instance' = [instance EXCEPT ![req[r].g].scores = @ \cup {User(r)}]
            /\ Goto(r, IF req[r].spawn THEN "spawn" ELSE "ok")
       ELSE /\ Goto(r, "refused")
            /\ UNCHANGED instance
    /\ UNCHANGED <<now, groups, members, metaVars, settleLock, nodeVars, settle,
                   left>>

(* spawnRobotsForGroup: robots join those that are there already; fewer    *)
(* than planned, if it is late (LockTokenTime) or the names have run out.  *)
SpawnRobots(r) ==
    /\ req[r].pc = "spawn"
    /\ \E k \in 0..Planned :
         instance' = [instance EXCEPT ![req[r].g].robots =
                        IF instance[req[r].g].state = "open" THEN @ + k ELSE @]
    /\ Goto(r, "ok")
    /\ UNCHANGED <<now, groups, members, metaVars, settleLock, nodeVars, settle,
                   left>>

-----------------------------------------------------------------------------
(* Settling                                                                 *)

SettleGoto(s, pc) == settle' = [settle EXCEPT ![s].pc = pc]

(* Mutant: settle as soon as no more scores are taken. *)
DueAtClose == now >= CloseAt
(* effectiveSettleAt *)
Due == now >= SettleAt

(* Mutant: a group that is full is taken for one that is done with. *)
ToSettleIfOpen(group) == group # None /\ group.state = "open"
ToSettle(group) == group # None /\ group.state # "settled"

(* Tick, once the leaderboard is to be settled: close the instance of every *)
(* group that is not settled, and call Settle.                             *)
TickSettle(n) ==
    /\ settle[<<n, "tick">>].pc = "idle"
    /\ Due
    /\ ~settledAt[n]
    /\ instance' = [g \in GroupIds |->
            IF ToSettle(groups[g]) /\ instance[g].state = "open"
            THEN [instance[g] EXCEPT !.state = "closed"] ELSE instance[g]]
    /\ SettleGoto(<<n, "tick">>, "load")
    /\ UNCHANGED <<now, groups, members, metaVars, settleLock, nodeVars, req,
                   left>>

(* S2SSettle: the GM may settle at any time. *)
GMSettle(n) ==
    /\ settle[<<n, "gm">>].pc = "idle"
    /\ ~settledAt[n]
    /\ Spend("gm")
    /\ SettleGoto(<<n, "gm">>, "load")
    /\ UNCHANGED <<now, groups, members, metaVars, settleLock, instance,
                   nodeVars, req>>

(* Settle works on copies of the groups in Redis, or of the memory if Redis *)
(* has none.                                                               *)
LoadGroups(s) ==
    /\ settle[s].pc = "load"
    /\ LET known == IF \A g \in GroupIds : groups[g] = None
                    THEN cached[s[1]] ELSE groups
       IN  settle' = [settle EXCEPT ![s].pc = "loop", ![s].todo =
              [g \in GroupIds |-> IF ToSettle(known[g]) THEN known[g] ELSE None]]
    /\ UNCHANGED <<now, groups, members, metaVars, settleLock, instance,
                   nodeVars, req, left>>

SettleFree(g) == now >= settleLock[g]

(* TryLockSettle: another node settles a group that is locked. *)
LockGroup(s) ==
    /\ settle[s].pc = "loop"
    /\ \E g \in GroupIds :
         /\ settle[s].todo[g] # None
         /\ IF SettleFree(g)
            THEN /\ settleLock' = [settleLock EXCEPT ![g] = now + LockTTL]
                 /\ settle' = [settle EXCEPT ![s].pc = "seal", ![s].g = g]
            ELSE /\ settle' = [settle EXCEPT ![s].todo[g] = None]
                 /\ UNCHANGED settleLock
    /\ UNCHANGED <<now, groups, members, metaVars, instance, nodeVars, req, left>>

Sealed(i) == IF i.state \in {"absent", "settled"} THEN i
             ELSE [i EXCEPT !.state = "settled", !.snapshot = i.scores]

(* CloseInstance and SettleInstance: the scores of the instance become its *)
(* snapshot.  An instance that is not there is passed over; an error ends  *)
(* Settle.                                                                 *)
SealInstance(s) ==
    /\ settle[s].pc = "seal"
    /\ \/ /\ instance' = [instance EXCEPT ![settle[s].g] = Sealed(@)]
          /\ SettleGoto(s, "save")
          /\ UNCHANGED left
       \/ /\ Spend("error")
          /\ settle' = [settle EXCEPT ![s] = Idle]
          /\ UNCHANGED instance
    /\ UNCHANGED <<now, groups, members, metaVars, settleLock, nodeVars, req>>

Settled(s) == [settle[s].todo[settle[s].g] EXCEPT !.state = "settled"]

(* SaveGroup with the copy... *)
SaveSettled(s) ==
    /\ settle[s].pc = "save"
    /\ groups' = [groups EXCEPT ![settle[s].g] = Settled(s)]
    /\ SettleGoto(s, "sync")
    /\ UNCHANGED <<now, members, metaVars, settleLock, instance, nodeVars, req,
                   left>>

(* ... and, under s.mu, syncGroupStateLocked. *)
SyncSettled(s) ==
    /\ settle[s].pc = "sync"
    /\ MutexFree(s[1])
    /\ cached' = [cached EXCEPT ![s[1]][settle[s].g] = Settled(s)]
    /\ settle' = [settle EXCEPT ![s].pc = "loop", ![s].todo[settle[s].g] = None,
                                ![s].g = None]
    /\ UNCHANGED <<now, groups, members, metaVars, settleLock, instance,
                   memberGroup, settledAt, req, left>>

(* After the loop the node takes the leaderboard for settled, if it has    *)
(* closed to scores; it then never settles again.                          *)
EndSettle(s) ==
    /\ settle[s].pc = "loop"
    /\ \A g \in GroupIds : settle[s].todo[g] = None
    /\ settledAt' = [settledAt EXCEPT ![s[1]] = @ \/ now >= CloseAt]
    /\ settle' = [settle EXCEPT ![s] = Idle]
    /\ UNCHANGED <<now, groups, members, metaVars, settleLock, instance, cached,
                   memberGroup, req, left>>

-----------------------------------------------------------------------------
(* A node crashes and comes back; ensureLoaded reads the groups, the       *)
(* members and the highest number from Redis.                              *)
Crash(n) ==
    /\ Spend("crash")
    /\ cached' = [cached EXCEPT ![n] = groups]
    /\ memberGroup' = [memberGroup EXCEPT ![n] = members]
    /\ settledAt' = [settledAt EXCEPT ![n] = FALSE]
    /\ req' = [r \in Requests |->
                 IF req[r].node = n /\ req[r].pc \notin Ended
                 THEN [req[r] EXCEPT !.pc = "failed"] ELSE req[r]]
    /\ settle' = [s \in Settlers |-> IF s[1] = n THEN Idle ELSE settle[s]]
    /\ nextGroup' = IF \E g \in GroupIds : groups[g] # None /\ g > nextGroup
                    THEN CHOOSE g \in GroupIds :
                           /\ groups[g] # None
                           /\ \A h \in GroupIds : groups[h] # None => h <= g
                    ELSE nextGroup
    /\ UNCHANGED <<now, groups, members, realCount, settleLock, instance>>

(* The clock; with Prompt the groups are not settled while a score is on   *)
(* its way into them.                                                      *)
Clock ==
    /\ now < Horizon
    /\ Prompt /\ now + 1 = SettleAt =>
         \A r \in Requests : req[r].pc \in {"new"} \cup Ended
    /\ now' = now + 1
    /\ UNCHANGED <<groups, members, metaVars, settleLock, instance, nodeVars,
                   req, settle, left>>

(* The model ends at the horizon. *)
TimeIsUp == now = Horizon /\ UNCHANGED vars

RequestStep(r) ==
    \/ Enter(r) \/ ChooseGroup(r) \/ NumberGroup(r) \/ CreateGroup(r)
    \/ CountPlayer(r) \/ SaveCount(r) \/ SetMember(r) \/ PlanRobots(r)
    \/ EnsureInstance(r) \/ UpsertScore(r) \/ SpawnRobots(r)
SettleStep(s) ==
    \/ LoadGroups(s) \/ LockGroup(s) \/ SealInstance(s) \/ SaveSettled(s)
    \/ SyncSettled(s) \/ EndSettle(s)

Next ==
    \/ \E r \in Requests : RequestStep(r) \/ \E n \in Nodes : Admit(r, n)
    \/ \E n \in Nodes : TickSettle(n) \/ GMSettle(n) \/ Crash(n)
    \/ \E s \in Settlers : SettleStep(s)
    \/ Clock \/ TimeIsUp

Spec == Init /\ [][Next]_vars

(* A request goes on, the tick loop of every node comes round again, a     *)
(* settlement runs on and time passes.                                     *)
Fairness ==
    /\ \A r \in Requests : WF_vars(RequestStep(r))
    /\ \A n \in Nodes : WF_vars(TickSettle(n))
    /\ \A s \in Settlers : WF_vars(SettleStep(s))
    /\ WF_vars(Clock)

FairSpec == Spec /\ Fairness

-----------------------------------------------------------------------------
(* Properties *)

Players(g) == {u \in Users : members[u] = g}

(* A group never has more players and robots than its capacity             *)
(* (docs/README.md:15).                                                    *)
WithinCapacity ==
    \A g \in GroupIds :
        Cardinality(Players(g)) + instance[g].robots <= Capacity

(* No user ever has scores in two groups, so nobody is ranked and rewarded *)
(* twice, whatever nodes the requests reach and whatever crashes           *)
(* (UpsertScore, GetMember).                                               *)
OneGroupPerUser ==
    \A u \in Users, g, h \in GroupIds :
        u \in instance[g].scores /\ u \in instance[h].scores => g = h

(* The number of players in the JSON of a group, by which the group is     *)
(* taken to have room, is never below the players it has, as long as the   *)
(* group is open (IncrRealCount, store.go:228).                            *)
CountNeverLow ==
    \A g \in GroupIds :
        groups[g] # None /\ groups[g].state = "open"
            => groups[g].real >= Cardinality(Players(g))

(* A group that is settled stays settled: it is not opened to players      *)
(* again by a node that saves what it knew before (engine/types.go:16).    *)
SettledIsFinal ==
    [][\A g \in GroupIds : groups[g] # None /\ groups[g].state = "settled"
                           => groups'[g].state = "settled"]_vars

(* Nobody will settle again and nobody is at it. *)
GivenUp ==
    /\ \A n \in Nodes : settledAt[n]
    /\ \A s \in Settlers : settle[s].pc = "idle"
    /\ \A r \in Requests : req[r].pc \in {"new"} \cup Ended

(* When every node takes the leaderboard for settled, every score that was *)
(* accepted is in a snapshot: no group is left behind without rewards      *)
(* (the two conditions on settledAt, engine/service.go:822).               *)
EveryScoreInSnapshot ==
    GivenUp => \A g \in GroupIds : instance[g].scores = instance[g].snapshot

(* Whoever has a score is in the result in the end: no lock of a group, no *)
(* mutex and no node that takes the leaderboard for settled keeps a group  *)
(* from its settlement (Tick, TryLockSettle, engine/store.go:871).         *)
EveryScoreSettled ==
    \A g \in GroupIds, u \in Users :
        u \in instance[g].scores ~> u \in instance[g].snapshot

(* Refinement: the instances of RankService are the boards, the snapshot   *)
(* of one that is settled is the result.                                   *)
Board == [g \in GroupIds |-> instance[g].scores]
Result == [g \in GroupIds |-> IF instance[g].state = "settled"
                              THEN instance[g].snapshot ELSE None]

Abstract == INSTANCE Leaderboard WITH Groups <- GroupIds, NoResult <- None,
                board <- Board, result <- Result, over <- now >= SettleAt

(* Several nodes that fill and settle groups, each with its own copies and *)
(* its own mutex, are one leaderboard (engine/service.go:490 and 731).     *)
ImplementsLeaderboard == Abstract!Spec
=============================================================================
