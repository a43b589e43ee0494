----------------------------- MODULE RobotGrowth -----------------------------
(***************************************************************************)
(* The robots of one group: how they are put on the board and how their    *)
(* scores grow, once a second, on whatever node takes the second.          *)
(* Source: engine/robot.go, engine/service_robot.go, and SaveRobots,       *)
(* LoadRobots and TryLockRobotTick of engine/store.go.                     *)
(*                                                                         *)
(* A robot is on the board with its score, and in the Redis hash           *)
(* rank:robots with the state its growth depends on.  Every node keeps the *)
(* states and the best scores for two seconds in memory, and changes the   *)
(* states there in place before they are written.  The lock of a second    *)
(* keeps two nodes from growing the robots in the same second; the next    *)
(* second may go to another node, whose memory is older.                   *)
(*                                                                         *)
(* The unit of time is a second.                                           *)
(***************************************************************************)
EXTENDS Naturals, FiniteSets, FiniteSetsExt

CONSTANTS Nodes,
          Robots,        \* the robots of the tier in the group
          PlayerScores,  \* the scores the best player may have
          DefaultToken,  \* what robots may start with
          MaxToken,      \* what they never exceed
          MaxDifference, \* how far they may be ahead of the best player
          Bps,           \* the share of the first score they aim at...
          Scale,         \* ... in 1/Scale
          GrowCd,        \* time between two growths
          OvertakeTime,  \* a growth is spread over this time...
          Interval,      \* ... one part per interval
          LockTime,      \* no growth this long before the end
          GameEnd,       \* the end; settlement begins
          CacheTTL,      \* tickGroupsCacheTTL
          StepTime,      \* bound on the time a tick or a spawn takes
          MaxFaults,     \* bound on failed calls and crashes
          None

ASSUME RobotConstants ==
    /\ PlayerScores \subseteq Nat \ {0}
    /\ DefaultToken \subseteq Nat
    /\ MaxToken \in Nat /\ MaxDifference \in Nat
    /\ Bps \subseteq Nat
    /\ Scale \in Nat \ {0}
    /\ GrowCd \in Nat /\ LockTime \in Nat /\ GameEnd \in Nat \ {0}
    /\ OvertakeTime \in Nat \ {0}
    /\ Interval \in 1..OvertakeTime
    /\ CacheTTL \in Nat /\ StepTime \in Nat /\ MaxFaults \in Nat
    \* The tier has a range of tokens.
    /\ \E most \in DefaultToken : \A token \in DefaultToken : most >= token

VARIABLES now,
          best,   \* the best score of a real player on the board
          board,  \* the scores of the robots on the board
          stored, \* rank:robots
          robotsCache, \* robotsCache[n]: the states of the robots, until when
          scoreCache,  \* scoreCache[n]: the first scores, until when
          locked, \* the last second that has been taken
          tick,   \* tick[n]: the tick of node n
          spawn,  \* the spawning of the robots
          behind, \* the nodes whose states another node has grown since
          forked, \* whether one of them has grown them all the same
          left    \* what is left of MaxFaults

vars == <<now, best, board, stored, robotsCache, scoreCache, locked, tick,
          spawn, behind, forked, left>>
cacheVars == <<robotsCache, scoreCache>>
history == <<behind, forked>>

(* robotState: LastGrowAt, PendingScore, PendingStartAt, PendingPerSlice.  *)
State == [score : Nat, grown : Nat, pending : Nat, start : Nat, slice : Nat]

ASSUME NoneIsNothing == None \notin Nat /\ None \notin State

NoRobots == [r \in Robots |-> None]
Spawned(pc) == [pc |-> pc, node |-> None, at |-> 0, robots |-> NoRobots]
IdleTick == [pc |-> "idle", at |-> 0, todo |-> {}]

TypeOK ==
    /\ now \in 0..GameEnd
    /\ best \in {0} \cup PlayerScores
    /\ board \in [Robots -> Nat \cup {None}]
    /\ stored \in [Robots -> State \cup {None}]
    /\ robotsCache \in [Nodes -> [robots : [Robots -> State \cup {None}], until : Nat]]
    /\ scoreCache \in [Nodes -> [first : Nat, real : Nat, until : Nat]]
    /\ locked \in 0..GameEnd
    /\ tick \in [Nodes -> [pc : {"idle", "robots", "scores", "grow", "save"},
                           at : 0..GameEnd, todo : SUBSET Robots]]
    /\ spawn \in [pc : {"none", "write", "save", "done"}, node : Nodes \cup {None},
                  at : 0..GameEnd, robots : [Robots -> State \cup {None}]]
    /\ behind \subseteq Nodes
    /\ forked \in BOOLEAN
    /\ left \in 0..MaxFaults

(* The clock starts at 1: second 0 has not been taken.                     *)
Init ==
    /\ now = 1
    /\ best = 0
    /\ board = NoRobots
    /\ stored = NoRobots
    /\ robotsCache = [n \in Nodes |-> [robots |-> NoRobots, until |-> 0]]
    /\ scoreCache = [n \in Nodes |-> [first |-> 0, real |-> 0, until |-> 0]]
    /\ locked = 0
    /\ tick = [n \in Nodes |-> IdleTick]
    /\ spawn = Spawned("none")
    /\ behind = {}
    /\ forked = FALSE
    /\ left = MaxFaults

Lesser(a, b) == IF a < b THEN a ELSE b
Fail == left > 0 /\ left' = left - 1
Known(states) == {r \in Robots : states[r] # None}

-----------------------------------------------------------------------------
(* The growth of one robot: tickRobotScore *)

(* OvertakeTime in parts of Interval, the last may be shorter.             *)
Slices == (OvertakeTime + Interval - 1) \div Interval

(* Mutant: a part is a part, even the last. *)
ReleasedInFull(s, at) ==
    IF at < s.start + Interval THEN s
    ELSE [s EXCEPT !.score = @ + s.slice, !.pending = @ - s.slice,
                   !.start = @ + Interval]
(* calcPendingRelease: one part, and only when it is due.                  *)
Released(s, at) ==
    LET part == Lesser(s.slice, s.pending)
    IN  IF at < s.start + Interval THEN s
        ELSE [s EXCEPT !.score = @ + part, !.pending = @ - part,
                       !.start = @ + Interval]

(* Mutant: the robots are held against the first of the board, a robot.    *)
LimitByFirst(target, first, real) ==
    Lesser(MaxToken, IF first > 0 THEN Lesser(target, first + MaxDifference)
                                  ELSE target)
(* What a robot that aims at target may get to; no player, no distance.    *)
Limit(target, first, real) ==
    Lesser(MaxToken, IF real > 0 THEN Lesser(target, real + MaxDifference)
                                 ELSE target)

(* Mutant: the parts are rounded down. *)
PartDown(delta) == IF delta < Slices THEN 1 ELSE delta \div Slices
(* PendingPerSlice *)
Part(delta) == (delta + Slices - 1) \div Slices

(* The first part at once, the rest is pending.                            *)
Begun(s, delta, at) ==
    [score |-> s.score + Part(delta), grown |-> at,
     pending |-> delta - Part(delta), start |-> at, slice |-> Part(delta)]

(* One step of robot s in second at; bps is the random share.              *)
Grown(s, scores, at, bps) ==
    LET goal == Limit((scores.first * bps) \div Scale, scores.first, scores.real)
    IN  CASE GameEnd <= at + LockTime -> s
          [] GameEnd > at + LockTime /\ s.pending > 0 -> Released(s, at)
          [] GameEnd > at + LockTime /\ s.pending = 0 ->
               IF at < s.grown + GrowCd THEN s
               ELSE IF goal <= s.score THEN [s EXCEPT !.grown = at]
               ELSE Begun(s, goal - s.score, at)

-----------------------------------------------------------------------------
(* The tick of a node: tickAllRobots *)

Goto(n, pc) == tick' = [tick EXCEPT ![n].pc = pc]
EndTick(n) == tick' = [tick EXCEPT ![n] = IdleTick]

(* TryLockRobotTick: one node per second; if Redis fails, both go on.      *)
TakeSecond(n) ==
    /\ tick[n].pc = "idle"
    /\ now < GameEnd
    /\ \/ locked # now /\ UNCHANGED left
       \/ locked = now /\ Fail
    /\ locked' = now
    /\ tick' = [tick EXCEPT ![n] = [pc |-> "robots", at |-> now, todo |-> {}]]
    /\ UNCHANGED <<now, best, board, stored, cacheVars, spawn, history>>

Fresh(n) == now < robotsCache[n].until

(* tickRobots *)
GetRobots(n) ==
    /\ tick[n].pc = "robots"
    /\ LET entry == IF Fresh(n) THEN robotsCache[n]
                    ELSE [robots |-> stored, until |-> now + CacheTTL]
       IN  /\ robotsCache' = [robotsCache EXCEPT ![n] = entry]
           /\ IF Known(entry.robots) = {} THEN EndTick(n) ELSE Goto(n, "scores")
    /\ behind' = IF Fresh(n) \/ \E m \in Nodes : tick[m].pc = "save"
                 THEN behind ELSE behind \ {n}
    /\ UNCHANGED <<now, best, board, stored, scoreCache, locked, spawn, forked, left>>

(* tickGroupScores: the first of the board, and the first real player.     *)
GetScores(n) ==
    /\ tick[n].pc = "scores"
    /\ \E first \in {best} \cup {board[r] : r \in Known(board)} :
         /\ best <= first /\ \A r \in Known(board) : board[r] <= first
         /\ scoreCache' = [scoreCache EXCEPT ![n] =
               IF now < @.until THEN @
               ELSE [first |-> first, real |-> best, until |-> now + CacheTTL]]
    /\ Goto(n, "grow")
    /\ UNCHANGED <<now, best, board, stored, robotsCache, locked, spawn, history, left>>

(* If Redis does not answer the group waits for another second.            *)
ReadFails(n) ==
    /\ tick[n].pc \in {"robots", "scores"}
    /\ Fail
    /\ EndTick(n)
    /\ UNCHANGED <<now, best, board, stored, cacheVars, locked, spawn, history>>

(* tickGroupRobots: the states in memory change, and then the scores on    *)
(* the board with BatchUpsertScore, which may fail.                        *)
Grow(n) ==
    /\ tick[n].pc = "grow"
    /\ \E bps \in [Known(robotsCache[n].robots) -> Bps] :
         LET old == robotsCache[n].robots
             new == [r \in Robots |-> IF old[r] = None THEN None
                       ELSE Grown(old[r], scoreCache[n], tick[n].at, bps[r])]
             changed == {r \in Robots : new[r] # old[r]}
             moved == {r \in changed : new[r].score # old[r].score}
         IN  /\ robotsCache' = [robotsCache EXCEPT ![n].robots = new]
             /\ behind' = IF changed = {} THEN behind ELSE behind \cup (Nodes \ {n})
             /\ forked' = (forked \/ (changed # {} /\ n \in behind))
             /\ \/ /\ board' = [r \in Robots |->
                                  IF r \in moved THEN new[r].score ELSE board[r]]
                   /\ IF changed = {} THEN EndTick(n)
                      ELSE tick' = [tick EXCEPT ![n].pc = "save", ![n].todo = changed]
                   /\ UNCHANGED left
                \/ /\ moved # {}
                   /\ Fail
                   /\ EndTick(n)
                   /\ UNCHANGED board
    /\ UNCHANGED <<now, best, stored, scoreCache, locked, spawn>>

(* Mutant: the growth stays in the memory of the node. *)
SaveNothing(n) == stored
SaveRobots(n) == [r \in Robots |-> IF r \in tick[n].todo
                                   THEN robotsCache[n].robots[r] ELSE stored[r]]

(* SaveRobots, whose error nobody looks at.                                *)
SaveGrowth(n) ==
    /\ tick[n].pc = "save"
    /\ \/ stored' = SaveRobots(n) /\ UNCHANGED left
       \/ Fail /\ UNCHANGED stored
    /\ EndTick(n)
    /\ UNCHANGED <<now, best, board, cacheVars, locked, spawn, history>>

-----------------------------------------------------------------------------
(* Players and the spawning of the robots *)

(* The first player of the group is on the board: robots shall join, fewer *)
(* than the tier has if the names run out, none if the end is near.        *)
FirstPlayer(n) ==
    /\ best = 0
    /\ now < GameEnd
    /\ best' \in PlayerScores
    /\ IF GameEnd <= now + LockTime
       THEN UNCHANGED spawn
       ELSE \E some \in (SUBSET Robots) \ {{}}, token \in [Robots -> DefaultToken] :
              spawn' = [pc |-> "write", node |-> n, at |-> now, robots |->
                 [r \in Robots |-> IF r \notin some THEN None
                    ELSE [score |-> Lesser(token[r], MaxToken), grown |-> now,
                          pending |-> 0, start |-> 0, slice |-> 0]]]
    /\ UNCHANGED <<now, board, stored, cacheVars, locked, tick, history, left>>

(* A player gets better. *)
Play ==
    /\ best > 0
    /\ now < GameEnd
    /\ best' \in {s \in PlayerScores : s > best}
    /\ UNCHANGED <<now, board, stored, cacheVars, locked, tick, spawn, history, left>>

(* BatchUpsertScore of spawnRobotsForGroup: if it fails, nobody tries it   *)
(* again.                                                                  *)
SpawnOnBoard ==
    /\ spawn.pc = "write"
    /\ LET new == Known(spawn.robots)
       IN  \/ /\ board' = [r \in Robots |-> IF r \in new THEN spawn.robots[r].score
                                                        ELSE board[r]]
              /\ spawn' = [spawn EXCEPT !.pc = "save"]
              /\ UNCHANGED left
           \/ /\ Fail
              /\ spawn' = Spawned("done")
              /\ UNCHANGED board
    /\ UNCHANGED <<now, best, stored, cacheVars, locked, tick, history>>

(* SaveRobots, whose error nobody looks at, and the node forgets what it   *)
(* had in memory.                                                          *)
SpawnStored ==
    /\ spawn.pc = "save"
    /\ \/ /\ stored' = [r \in Robots |-> IF spawn.robots[r] = None THEN stored[r]
                                                                 ELSE spawn.robots[r]]
          /\ UNCHANGED left
       \/ Fail /\ UNCHANGED stored
    /\ robotsCache' = [robotsCache EXCEPT ![spawn.node].until = 0]
    /\ spawn' = Spawned("done")
    /\ UNCHANGED <<now, best, board, scoreCache, locked, tick, history>>

-----------------------------------------------------------------------------
(* A node crashes, with what it has in memory and in hand.                 *)
Crash(n) ==
    /\ Fail
    /\ robotsCache' = [robotsCache EXCEPT ![n] = [robots |-> NoRobots, until |-> 0]]
    /\ scoreCache' = [scoreCache EXCEPT ![n] = [first |-> 0, real |-> 0, until |-> 0]]
    /\ EndTick(n)
    /\ spawn' = IF spawn.node = n /\ spawn.pc \in {"write", "save"}
                THEN Spawned("done") ELSE spawn
    /\ UNCHANGED <<now, best, board, stored, locked, history>>

(* Nothing in hand is older than StepTime.                                 *)
Clock ==
    /\ now < GameEnd
    /\ \A n \in Nodes : tick[n].pc # "idle" => now < tick[n].at + StepTime
    /\ spawn.pc \in {"write", "save"} => now < spawn.at + StepTime
    /\ now' = now + 1
    /\ UNCHANGED <<best, board, stored, cacheVars, locked, tick, spawn, history, left>>

(* At the end only what is in hand goes on.                                *)
TheEnd ==
    /\ now = GameEnd
    /\ \A n \in Nodes : tick[n].pc = "idle"
    /\ UNCHANGED vars

Tick(n) == TakeSecond(n) \/ GetRobots(n) \/ GetScores(n) \/ ReadFails(n)
           \/ Grow(n) \/ SaveGrowth(n)

Next ==
    \/ \E n \in Nodes : Tick(n) \/ FirstPlayer(n) \/ Crash(n)
    \/ Play \/ SpawnOnBoard \/ SpawnStored
    \/ Clock \/ TheEnd

Spec == Init /\ [][Next]_vars

-----------------------------------------------------------------------------
(* Properties *)

Greater(a, b) == IF a > b THEN a ELSE b

(* What a robot may have, score and pending part together: it never passes *)
(* MaxToken, and growth never takes it further than MaxDifference past the *)
(* best player (Max(DefaultToken) it may have been born with).             *)
Allowed == Lesser(MaxToken, Greater(Max(DefaultToken), best + MaxDifference))

(* However old the scores are that a node grows its robots by, whatever    *)
(* part of a growth is still to come and whatever fails, no robot is or    *)
(* will be further ahead of the players than the tier allows               *)
(* (tickRobotScore, engine/robot.go:164).                                  *)
RobotsWithinLimits ==
    /\ \A r \in Known(board) : board[r] <= Allowed
    /\ \A states \in {stored} \cup {robotsCache[n].robots : n \in Nodes} :
         \A r \in Known(states) : states[r].score + states[r].pending <= Allowed

(* What is pending fits, one part per interval, into the time the tier     *)
(* gives a growth, however late the ticks are (engine/robot.go:33 and 183).*)
OvertakeFitsItsTime ==
    \A r \in Known(stored) :
        stored[r].pending > 0 =>
            LET s == stored[r]
                parts == (s.pending + s.slice - 1) \div s.slice
            IN  s.start + parts * Interval < s.grown + OvertakeTime

(* The memory of a node may be two seconds old: the node that takes the    *)
(* next second may grow the robots again from where they were.  That is    *)
(* the only way: as long as no write is lost and no node grows what        *)
(* another has grown since, a score on the board never goes back, whoever  *)
(* ticks and whenever the entries run out (engine/service_robot.go:12 and  *)
(* 219).                                                                   *)
ScoresGoBackOnlyIfForked ==
    [][\A r \in Robots : board[r] # None /\ board'[r] < board[r]
                           => forked' \/ left' < MaxFaults]_vars
=============================================================================
