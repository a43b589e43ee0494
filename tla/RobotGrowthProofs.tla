------------------------- MODULE RobotGrowthProofs -------------------------
(***************************************************************************)
(* Proofs about RobotGrowth, for any number of nodes and robots, any       *)
(* scores and any configuration of the tier.                               *)
(***************************************************************************)
EXTENDS RobotGrowth, TLAPS

(* Division that rounds up, as the code writes it.                         *)
LEMMA Ceiling ==
    ASSUME NEW a \in Nat, NEW b \in Nat \ {0}, NEW q, q = (a + b - 1) \div b
    PROVE  q \in Nat /\ a <= q * b /\ q * b < a + b
<1>1. a + b - 1 \in Nat
  OBVIOUS
<1>2. q \in Int /\ b * q <= a + b - 1 /\ a + b - 1 < b * q + b
  BY <1>1
<1>3. q >= 0
  OBVIOUS
<1> QED
  BY <1>2

(* Products grow with their factors. *)
LEMMA Products ==
    ASSUME NEW a \in Nat, NEW b \in Nat, NEW c \in Nat, a <= b
    PROVE  a * c <= b * c
OBVIOUS

(* ... and the smaller product has the smaller factor.                     *)
LEMMA Products2 ==
    ASSUME NEW a \in Nat, NEW b \in Nat, NEW c \in Nat, a * c < b * c
    PROVE  a < b
OBVIOUS

(* How far a growth goes: there is a part for every interval of            *)
(* OvertakeTime, the last interval may be cut short, ...                   *)
LEMMA SlicesFit ==
    Slices \in Nat \ {0} /\ (Slices - 1) * Interval < OvertakeTime
<1>1. OvertakeTime \in Nat \ {0} /\ Interval \in Nat \ {0} /\ Interval <= OvertakeTime
  BY RobotConstants
<1>2. Slices \in Nat /\ OvertakeTime <= Slices * Interval
      /\ Slices * Interval < OvertakeTime + Interval
  BY <1>1, Ceiling DEF Slices
<1>3. Slices # 0
  BY <1>1, <1>2
<1> DEFINE k == Slices
<1> HIDE DEF k
<1>4. k \in Nat /\ k * Interval < OvertakeTime + Interval
  BY <1>2 DEF k
<1>5. (k - 1) * Interval < OvertakeTime
  BY <1>1, <1>4
<1> QED
  BY <1>2, <1>3, <1>5 DEF k

(* ... and the parts together are no less than the whole.                  *)
LEMMA Parts ==
    ASSUME NEW delta \in Nat \ {0}
    PROVE  Part(delta) \in Nat \ {0} /\ Part(delta) <= delta /\ delta <= Part(delta) * Slices
<1> DEFINE k == Slices
           q == Part(delta)
<1>1. k \in Nat \ {0}
  BY SlicesFit
<1>2. q \in Nat /\ delta <= q * k /\ q * k < delta + k
  BY <1>1, Ceiling DEF Part
<1> HIDE DEF k, q
<1>3. q # 0
  BY <1>1, <1>2
<1>4. q <= delta
  <2>1. q * k < (delta + 1) * k
    <3>1. (delta + 1) * k = delta * k + k /\ delta <= delta * k
      BY <1>1
    <3> QED
      BY <1>1, <1>2, <3>1
  <2> QED
    BY <2>1, <1>1, <1>2, Products2
<1> QED
  BY <1>1, <1>2, <1>3, <1>4 DEF k, q

(* The most a robot may aim at is a number, not above MaxToken, and with a *)
(* player on the board not further than MaxDifference past him.            *)
LEMMA Limits ==
    ASSUME NEW target \in Nat, NEW first \in Nat, NEW real \in Nat
    PROVE  /\ Limit(target, first, real) \in Nat
           /\ Limit(target, first, real) <= MaxToken
           /\ real > 0 => Limit(target, first, real) <= real + MaxDifference
BY RobotConstants DEF Limit, Lesser

(* A part that is due moves from what is pending into the score.           *)
LEMMA ReleasedState ==
    ASSUME NEW s \in State, NEW at \in Nat
    PROVE  /\ Released(s, at) \in State
           /\ Released(s, at).score >= s.score
           /\ Released(s, at).score + Released(s, at).pending = s.score + s.pending
<1>1. s.score \in Nat /\ s.pending \in Nat /\ s.slice \in Nat /\ s.start \in Nat
  BY DEF State
<1> DEFINE part == Lesser(s.slice, s.pending)
<1>2. part \in Nat /\ part <= s.pending
  BY <1>1 DEF Lesser
<1>3. Interval \in Nat
  BY RobotConstants
<1>4. CASE at < s.start + Interval
  BY <1>1, <1>4 DEF Released
<1>5. CASE ~(at < s.start + Interval)
  <2>1. Released(s, at) = [s EXCEPT !.score = @ + part, !.pending = @ - part,
                                    !.start = @ + Interval]
    BY <1>5 DEF Released
  <2>2. s.score + part \in Nat /\ s.pending - part \in Nat /\ s.start + Interval \in Nat
        /\ s.score + part >= s.score /\ (s.score + part) + (s.pending - part) = s.score + s.pending
    BY <1>1, <1>2, <1>3
  <2> HIDE DEF part
  <2> QED
    BY <2>1, <2>2 DEF State
<1> QED
  BY <1>4, <1>5

(* A new growth comes to its goal with all of its parts.                   *)
LEMMA BegunState ==
    ASSUME NEW s \in State, NEW delta \in Nat \ {0}, NEW at \in Nat
    PROVE  /\ Begun(s, delta, at) \in State
           /\ Begun(s, delta, at).score >= s.score
           /\ Begun(s, delta, at).score + Begun(s, delta, at).pending = s.score + delta
<1>1. s.score \in Nat
  BY DEF State
<1>2. Part(delta) \in Nat /\ Part(delta) <= delta
  BY Parts
<1> DEFINE p == Part(delta)
<1>3. s.score + p \in Nat /\ delta - p \in Nat /\ s.score + p >= s.score
      /\ (s.score + p) + (delta - p) = s.score + delta
  BY <1>1, <1>2
<1>4. Begun(s, delta, at) = [score |-> s.score + p, grown |-> at, pending |-> delta - p,
                             start |-> at, slice |-> p]
  BY DEF Begun
<1> HIDE DEF p
<1>5. p \in Nat
  BY <1>2 DEF p
<1> QED
  BY <1>3, <1>4, <1>5 DEF State

Scores == [first : Nat, real : Nat, until : Nat]

(* What a tick does to a robot: the state stays one, the score never       *)
(* falls, and score and pending part together are what they were or within *)
(* the limits of the tier.                                                 *)
LEMMA GrownState ==
    ASSUME NEW s \in State, NEW c \in Scores, NEW at \in Nat, NEW bps \in Bps
    PROVE  /\ Grown(s, c, at, bps) \in State
           /\ Grown(s, c, at, bps).score >= s.score
           /\ \/ Grown(s, c, at, bps).score + Grown(s, c, at, bps).pending = s.score + s.pending
              \/ /\ Grown(s, c, at, bps).score + Grown(s, c, at, bps).pending <= MaxToken
                 /\ c.real > 0 => Grown(s, c, at, bps).score + Grown(s, c, at, bps).pending
                                    <= c.real + MaxDifference
<1>1. s.score \in Nat /\ s.pending \in Nat /\ c.first \in Nat /\ c.real \in Nat
  BY DEF State, Scores
<1> DEFINE target == (c.first * bps) \div Scale
           goal == Limit(target, c.first, c.real)
<1>2. target \in Nat
  <2>1. bps \in Nat /\ Scale \in Nat \ {0}
    BY RobotConstants
  <2>2. c.first * bps \in Nat
    BY <1>1, <2>1
  <2> QED
    BY <2>1, <2>2
<1> HIDE DEF target
<1>3. /\ goal \in Nat /\ goal <= MaxToken
      /\ c.real > 0 => goal <= c.real + MaxDifference
  BY <1>1, <1>2, Limits
<1>4. \/ Grown(s, c, at, bps) = s
      \/ Grown(s, c, at, bps) = Released(s, at)
      \/ Grown(s, c, at, bps) = [s EXCEPT !.grown = at]
      \/ /\ Grown(s, c, at, bps) = Begun(s, goal - s.score, at)
         /\ ~(goal <= s.score)
  <2>1. GameEnd \in Nat /\ LockTime \in Nat
    BY RobotConstants
  <2>2. CASE GameEnd <= at + LockTime
    BY <2>1, <2>2 DEF Grown
  <2>3. CASE GameEnd > at + LockTime /\ s.pending > 0
    BY <2>1, <2>3 DEF Grown
  <2>4. CASE GameEnd > at + LockTime /\ s.pending = 0
    BY <2>1, <2>4 DEF Grown, target
  <2> QED
    BY <1>1, <2>1, <2>2, <2>3, <2>4
<1> HIDE DEF goal
<1>5. CASE Grown(s, c, at, bps) = s
  BY <1>1, <1>5
<1>6. CASE Grown(s, c, at, bps) = Released(s, at)
  BY <1>6, ReleasedState
<1>7. CASE Grown(s, c, at, bps) = [s EXCEPT !.grown = at]
  BY <1>1, <1>7 DEF State
<1>8. CASE Grown(s, c, at, bps) = Begun(s, goal - s.score, at) /\ ~(goal <= s.score)
  <2> DEFINE delta == goal - s.score
  <2>1. delta \in Nat \ {0} /\ s.score + delta = goal
    BY <1>1, <1>3, <1>8
  <2>2. Grown(s, c, at, bps) = Begun(s, delta, at)
    BY <1>8
  <2> HIDE DEF delta
  <2>3. /\ Begun(s, delta, at) \in State
        /\ Begun(s, delta, at).score >= s.score
        /\ Begun(s, delta, at).score + Begun(s, delta, at).pending = s.score + delta
    BY <2>1, BegunState
  <2> QED
    BY <1>3, <2>1, <2>2, <2>3
<1> QED
  BY <1>4, <1>5, <1>6, <1>7, <1>8

-----------------------------------------------------------------------------
(* Type correctness *)

StateOf == [Robots -> State \cup {None}]

(* What Grow makes of the robots of a node are robots, and it makes none.  *)
LEMMA GrownRobots ==
    ASSUME TypeOK, NEW n \in Nodes,
           NEW bps \in [Known(robotsCache[n].robots) -> Bps], NEW new,
           new = [r \in Robots |-> IF robotsCache[n].robots[r] = None THEN None
                    ELSE Grown(robotsCache[n].robots[r], scoreCache[n], tick[n].at, bps[r])]
    PROVE  /\ new \in StateOf
           /\ \A r \in Robots : new[r] = None <=> robotsCache[n].robots[r] = None
           /\ \A r \in Known(robotsCache[n].robots) :
                /\ robotsCache[n].robots[r] \in State
                /\ new[r] = Grown(robotsCache[n].robots[r], scoreCache[n], tick[n].at, bps[r])
                /\ new[r] \in State
<1>1. robotsCache[n].robots \in StateOf /\ scoreCache[n] \in Scores /\ tick[n].at \in Nat
  BY RobotConstants DEF TypeOK, StateOf, Scores
<1>2. ASSUME NEW r \in Robots, robotsCache[n].robots[r] # None
      PROVE  /\ robotsCache[n].robots[r] \in State /\ bps[r] \in Bps
             /\ new[r] = Grown(robotsCache[n].robots[r], scoreCache[n], tick[n].at, bps[r])
  BY <1>1, <1>2 DEF Known, StateOf
<1>3. ASSUME NEW r \in Robots, robotsCache[n].robots[r] # None
      PROVE  new[r] \in State
  BY <1>1, <1>2, <1>3, GrownState
<1>4. ASSUME NEW r \in Robots, robotsCache[n].robots[r] = None PROVE new[r] = None
  BY <1>4
<1>5. new \in StateOf
  BY <1>3, <1>4 DEF StateOf
<1>6. \A r \in Robots : new[r] = None <=> robotsCache[n].robots[r] = None
  BY <1>3, <1>4, NoneIsNothing
<1> QED
  BY <1>2, <1>3, <1>5, <1>6 DEF Known

(* A tick that moves on stays a tick.                                      *)
TickPc == {"idle", "robots", "scores", "grow", "save"}
TickState == [pc : TickPc, at : 0..GameEnd, todo : SUBSET Robots]

(* Each move of a tick that the code makes gives such a tick.              *)
LEMMA TickMoves ==
    ASSUME tick \in [Nodes -> TickState], NEW n \in Nodes
    PROVE  /\ [tick EXCEPT ![n] = IdleTick] \in [Nodes -> TickState]
           /\ \A p \in TickPc : [tick EXCEPT ![n].pc = p] \in [Nodes -> TickState]
           /\ \A todo \in SUBSET Robots :
                [tick EXCEPT ![n].pc = "save", ![n].todo = todo] \in [Nodes -> TickState]
<1>1. IdleTick \in TickState
  BY RobotConstants DEF IdleTick, TickState, TickPc
<1>2. [tick EXCEPT ![n] = IdleTick] \in [Nodes -> TickState]
  BY <1>1
<1>3. \A p \in TickPc : [tick EXCEPT ![n].pc = p] \in [Nodes -> TickState]
  BY DEF TickState
<1>4. \A todo \in SUBSET Robots :
        [tick EXCEPT ![n].pc = "save", ![n].todo = todo] \in [Nodes -> TickState]
  BY DEF TickState, TickPc
<1> QED
  BY <1>2, <1>3, <1>4

(* The steps of a tick keep the types, ...                                 *)
LEMMA TickTypes == ASSUME TypeOK, NEW n \in Nodes, Tick(n) PROVE TypeOK'
<1>i. /\ tick \in [Nodes -> TickState]
      /\ EndTick(n) => tick' \in [Nodes -> TickState]
      /\ \A p \in TickPc : Goto(n, p) => tick' \in [Nodes -> TickState]
  <2>1. tick \in [Nodes -> TickState]
    BY DEF TypeOK, TickState, TickPc
  <2>2. /\ [tick EXCEPT ![n] = IdleTick] \in [Nodes -> TickState]
        /\ \A p \in TickPc : [tick EXCEPT ![n].pc = p] \in [Nodes -> TickState]
    BY <2>1, TickMoves
  <2> QED
    BY <2>1, <2>2 DEF EndTick, Goto
<1> USE RobotConstants DEF TypeOK
<1>1. CASE TakeSecond(n)
  <2>1. left' \in 0..MaxFaults
    BY <1>1 DEF TakeSecond, Fail
  <2>2. tick' \in [Nodes -> [pc : {"idle", "robots", "scores", "grow", "save"},
                             at : 0..GameEnd, todo : SUBSET Robots]]
    BY <1>1 DEF TakeSecond
  <2> QED
    BY <1>1, <2>1, <2>2 DEF TakeSecond, cacheVars, history
<1>2. CASE GetRobots(n)
  <2> DEFINE entry == IF Fresh(n) THEN robotsCache[n]
                      ELSE [robots |-> stored, until |-> now + CacheTTL]
  <2>1. entry \in [robots : StateOf, until : Nat]
    BY DEF StateOf
  <2>2. robotsCache' = [robotsCache EXCEPT ![n] = entry] /\ (EndTick(n) \/ Goto(n, "scores"))
    BY <1>2 DEF GetRobots
  <2> HIDE DEF entry
  <2>3. robotsCache' \in [Nodes -> [robots : StateOf, until : Nat]]
    BY <2>1, <2>2 DEF StateOf
  <2>4. tick' \in [Nodes -> [pc : {"idle", "robots", "scores", "grow", "save"},
                             at : 0..GameEnd, todo : SUBSET Robots]]
    BY <2>2, <1>i DEF TickPc, TickState
  <2>5. behind' \subseteq Nodes
    BY <1>2 DEF GetRobots
  <2> QED
    BY <1>2, <2>3, <2>4, <2>5 DEF GetRobots, StateOf
<1>3. CASE GetScores(n)
  <2>1. PICK first \in {best} \cup {board[r] : r \in Known(board)} :
          scoreCache' = [scoreCache EXCEPT ![n] =
             IF now < @.until THEN @
             ELSE [first |-> first, real |-> best, until |-> now + CacheTTL]]
    BY <1>3 DEF GetScores
  <2>2. first \in Nat /\ best \in Nat /\ now + CacheTTL \in Nat
    BY DEF Known
  <2>3. [first |-> first, real |-> best, until |-> now + CacheTTL] \in Scores
    BY <2>2 DEF Scores
  <2>4. scoreCache' \in [Nodes -> Scores]
    BY <2>1, <2>3 DEF Scores
  <2>5. tick' \in [Nodes -> [pc : {"idle", "robots", "scores", "grow", "save"},
                             at : 0..GameEnd, todo : SUBSET Robots]]
    BY <1>3, <1>i DEF GetScores, TickPc, TickState
  <2> QED
    BY <1>3, <2>4, <2>5 DEF GetScores, history, Scores
<1>4. CASE ReadFails(n)
  BY <1>4, <1>i DEF ReadFails, Fail, TickState, TickPc, cacheVars, history
<1>5. CASE Grow(n)
  <2> DEFINE old == robotsCache[n].robots
  <2>1. PICK bps \in [Known(old) -> Bps] :
         LET new == [r \in Robots |-> IF old[r] = None THEN None
                       ELSE Grown(old[r], scoreCache[n], tick[n].at, bps[r])]
             changed == {r \in Robots : new[r] # old[r]}
             moved == {r \in changed : new[r].score # old[r].score}
         IN  /\ robotsCache' = [robotsCache EXCEPT ![n].robots = new]
             /\ behind' = IF changed = {} THEN behind ELSE behind \cup (Nodes \ {n})
             /\ forked' = (forked \/ (changed # {} /\ n \in behind))
             /\ \/ /\ board' = [r \in Robots |->
                                  IF r \in moved THEN new[r].score ELSE board[r]]
                   /\ IF changed = {} THEN EndTick(n)
                      ELSE tick' = [tick EXCEPT ![n].pc = "save", ![n].todo = changed]
                   /\ UNCHANGED left
                \/ /\ moved # {}
                   /\ Fail
                   /\ EndTick(n)
                   /\ UNCHANGED board
    BY <1>5 DEF Grow
  <2> DEFINE new == [r \in Robots |-> IF old[r] = None THEN None
                       ELSE Grown(old[r], scoreCache[n], tick[n].at, bps[r])]
             changed == {r \in Robots : new[r] # old[r]}
             moved == {r \in changed : new[r].score # old[r].score}
  <2>2. /\ new \in StateOf
        /\ \A r \in Robots : new[r] = None <=> old[r] = None
        /\ \A r \in Known(old) : new[r] \in State
    <3> HIDE DEF TypeOK
    <3> QED
      BY GrownRobots
  <2>3. changed \subseteq Robots /\ moved \subseteq changed
    OBVIOUS
  <2>4. \A r \in moved : new[r] \in State
    <3> SUFFICES ASSUME NEW r \in moved PROVE new[r] \in State
      OBVIOUS
    <3>1. r \in Robots /\ new[r] # old[r]
      OBVIOUS
    <3> HIDE DEF new, old
    <3> QED
      BY <2>2, <3>1 DEF Known
  <2> HIDE DEF new, changed, moved
  <2>5. /\ robotsCache' = [robotsCache EXCEPT ![n].robots = new]
        /\ behind' \in {behind, behind \cup (Nodes \ {n})}
        /\ forked' \in BOOLEAN
        /\ \/ /\ board' = [r \in Robots |-> IF r \in moved THEN new[r].score ELSE board[r]]
              /\ EndTick(n) \/ tick' = [tick EXCEPT ![n].pc = "save", ![n].todo = changed]
              /\ left' = left
           \/ Fail /\ EndTick(n) /\ board' = board
    BY <2>1 DEF new, changed, moved
  <2>6. robotsCache' \in [Nodes -> [robots : StateOf, until : Nat]]
    BY <2>2, <2>5 DEF StateOf
  <2>7. board' \in [Robots -> Nat \cup {None}]
    <3>1. \A r \in moved : new[r].score \in Nat
      BY <2>4 DEF State
    <3>2. board \in [Robots -> Nat \cup {None}]
      OBVIOUS
    <3>3. [r \in Robots |-> IF r \in moved THEN new[r].score ELSE board[r]]
            \in [Robots -> Nat \cup {None}]
      <4> HIDE DEF TypeOK
      <4> QED
        BY <3>1, <3>2
    <3> QED
      BY <2>5, <3>2, <3>3
  <2>8. tick' \in [Nodes -> [pc : {"idle", "robots", "scores", "grow", "save"},
                             at : 0..GameEnd, todo : SUBSET Robots]]
    <3>1. changed \in SUBSET Robots
      BY <2>3
    <3>2. tick' \in [Nodes -> TickState]
      <4> HIDE DEF TypeOK
      <4>1. [tick EXCEPT ![n].pc = "save", ![n].todo = changed] \in [Nodes -> TickState]
        BY <3>1, <1>i, TickMoves
      <4> QED
        BY <2>5, <4>1, <1>i
    <3> QED
      BY <3>2 DEF TickState, TickPc
  <2>9. left' \in 0..MaxFaults /\ behind' \subseteq Nodes
    BY <2>5 DEF Fail
  <2> QED
    BY <1>5, <2>5, <2>6, <2>7, <2>8, <2>9 DEF Grow, StateOf
<1>6. CASE SaveGrowth(n)
  <2>1. SaveRobots(n) \in StateOf
    BY DEF SaveRobots, StateOf
  <2>2. stored' \in StateOf /\ left' \in 0..MaxFaults
    BY <1>6, <2>1 DEF SaveGrowth, Fail, StateOf
  <2>3. tick' \in [Nodes -> [pc : {"idle", "robots", "scores", "grow", "save"},
                             at : 0..GameEnd, todo : SUBSET Robots]]
    BY <1>6, <1>i DEF SaveGrowth, TickState, TickPc
  <2> QED
    BY <1>6, <2>2, <2>3 DEF SaveGrowth, StateOf, cacheVars, history
<1> QED
  BY <1>1, <1>2, <1>3, <1>4, <1>5, <1>6 DEF Tick

(* ... and so do the players, the spawning, a crash and the clock.         *)
SpawnState == [pc : {"none", "write", "save", "done"}, node : Nodes \cup {None},
               at : 0..GameEnd, robots : StateOf]

(* The spawns that begin and end the creation are well typed.              *)
LEMMA SpawnTypes ==
    /\ NoRobots \in StateOf
    /\ Spawned("none") \in SpawnState /\ Spawned("done") \in SpawnState
BY RobotConstants DEF NoRobots, StateOf, Spawned, SpawnState

(* The first player's request, which draws the robots, keeps the types.    *)
LEMMA FirstPlayerTypes == ASSUME TypeOK, NEW n \in Nodes, FirstPlayer(n) PROVE TypeOK'
<1>1. spawn \in SpawnState /\ now \in 0..GameEnd
  BY DEF TypeOK, SpawnState, StateOf
<1>2. spawn' \in SpawnState
  <2>1. ASSUME NEW some \in SUBSET Robots, NEW token \in [Robots -> DefaultToken],
               spawn' = [pc |-> "write", node |-> n, at |-> now, robots |->
                 [r \in Robots |-> IF r \notin some THEN None
                    ELSE [score |-> Lesser(token[r], MaxToken), grown |-> now,
                          pending |-> 0, start |-> 0, slice |-> 0]]]
        PROVE  spawn' \in SpawnState
    <3>1. \A r \in Robots : Lesser(token[r], MaxToken) \in Nat
      BY RobotConstants DEF Lesser
    <3>2. \A r \in Robots : [score |-> Lesser(token[r], MaxToken), grown |-> now,
                             pending |-> 0, start |-> 0, slice |-> 0] \in State
      BY <3>1, <1>1, RobotConstants DEF State
    <3>3. [r \in Robots |-> IF r \notin some THEN None
             ELSE [score |-> Lesser(token[r], MaxToken), grown |-> now,
                   pending |-> 0, start |-> 0, slice |-> 0]] \in StateOf
      BY <3>2 DEF StateOf
    <3> QED
      BY <2>1, <3>3, <1>1 DEF SpawnState
  <2> QED
    BY <1>1, <2>1 DEF FirstPlayer
<1>3. best' \in {0} \cup PlayerScores
  BY DEF FirstPlayer
<1> QED
  BY <1>2, <1>3 DEF FirstPlayer, TypeOK, SpawnState, StateOf, cacheVars, history

(* Writing the robots to the board keeps the types.                        *)
LEMMA SpawnOnBoardTypes == ASSUME TypeOK, SpawnOnBoard PROVE TypeOK'
<1>1. /\ spawn \in SpawnState /\ board \in [Robots -> Nat \cup {None}]
      /\ left \in 0..MaxFaults /\ MaxFaults \in Nat
  BY RobotConstants DEF TypeOK, SpawnState, StateOf
<1>2. \A r \in Known(spawn.robots) : spawn.robots[r].score \in Nat
  BY <1>1 DEF Known, SpawnState, StateOf, State
<1>3. [r \in Robots |-> IF r \in Known(spawn.robots) THEN spawn.robots[r].score
                                                     ELSE board[r]]
        \in [Robots -> Nat \cup {None}]
  BY <1>1, <1>2
<1>4. board' \in [Robots -> Nat \cup {None}] /\ left' \in 0..MaxFaults
  BY <1>1, <1>3 DEF SpawnOnBoard, Fail
<1>5. [spawn EXCEPT !.pc = "save"] \in SpawnState
  BY <1>1 DEF SpawnState
<1>6. spawn' \in SpawnState
  BY <1>5, SpawnTypes DEF SpawnOnBoard
<1> QED
  BY <1>4, <1>6 DEF SpawnOnBoard, TypeOK, SpawnState, StateOf, cacheVars, history

(* Saving the robots' states keeps the types.                              *)
LEMMA SpawnStoredTypes == ASSUME TypeOK, SpawnStored PROVE TypeOK'
<1>1. /\ spawn \in SpawnState /\ stored \in StateOf
      /\ robotsCache \in [Nodes -> [robots : StateOf, until : Nat]]
      /\ left \in 0..MaxFaults /\ MaxFaults \in Nat
  BY RobotConstants DEF TypeOK, SpawnState, StateOf
<1>2. [r \in Robots |-> IF spawn.robots[r] = None THEN stored[r]
                                                  ELSE spawn.robots[r]] \in StateOf
  BY <1>1 DEF StateOf, SpawnState
<1>3. stored' \in StateOf /\ left' \in 0..MaxFaults
  BY <1>1, <1>2 DEF SpawnStored, Fail
<1>4. robotsCache' \in [Nodes -> [robots : StateOf, until : Nat]]
  BY <1>1 DEF SpawnStored
<1>5. spawn' \in SpawnState
  BY SpawnTypes DEF SpawnStored
<1> QED
  BY <1>3, <1>4, <1>5 DEF SpawnStored, TypeOK, SpawnState, StateOf, history

(* A crash, which empties the caches and ends the tick, keeps the types.   *)
LEMMA CrashTypes == ASSUME TypeOK, NEW n \in Nodes, Crash(n) PROVE TypeOK'
<1>1. /\ spawn \in SpawnState /\ tick \in [Nodes -> TickState]
      /\ robotsCache \in [Nodes -> [robots : StateOf, until : Nat]]
      /\ scoreCache \in [Nodes -> Scores]
      /\ left \in 0..MaxFaults /\ MaxFaults \in Nat
  BY RobotConstants DEF TypeOK, SpawnState, StateOf, TickState, TickPc, Scores
<1>2. robotsCache' \in [Nodes -> [robots : StateOf, until : Nat]]
  BY <1>1, SpawnTypes DEF Crash
<1>3. scoreCache' \in [Nodes -> Scores] /\ left' \in 0..MaxFaults
  BY <1>1 DEF Crash, Scores, Fail
<1>4. tick' \in [Nodes -> TickState]
  BY <1>1, TickMoves DEF Crash, EndTick
<1>5. spawn' \in SpawnState
  BY <1>1, SpawnTypes DEF Crash
<1> QED
  BY <1>2, <1>3, <1>4, <1>5 DEF Crash, TypeOK, SpawnState, StateOf, TickState, TickPc,
     Scores, history

(* Every step keeps the types.                                             *)
LEMMA TypeStep == TypeOK /\ [Next]_vars => TypeOK'
<1> SUFFICES ASSUME TypeOK, [Next]_vars PROVE TypeOK'
  OBVIOUS
<1>1. CASE Play
  <2>1. best' \in {0} \cup PlayerScores
    BY <1>1 DEF Play
  <2> QED
    BY <1>1, <2>1 DEF Play, TypeOK, cacheVars, history
<1>2. CASE Clock
  <2>1. now' \in 0..GameEnd
    BY <1>2, RobotConstants DEF Clock, TypeOK
  <2> QED
    BY <1>2, <2>1 DEF Clock, TypeOK, cacheVars, history
<1>3. CASE TheEnd \/ UNCHANGED vars
  BY <1>3 DEF TheEnd, TypeOK, vars
<1> QED
  BY <1>1, <1>2, <1>3, TickTypes, FirstPlayerTypes, SpawnOnBoardTypes, SpawnStoredTypes,
     CrashTypes DEF Next

(* The records of the model keep their types; in particular no score is    *)
(* ever negative, whatever a growth subtracts.                             *)
THEOREM TypeCorrect == Spec => []TypeOK
<1>1. Init => TypeOK
  <2> SUFFICES ASSUME Init PROVE TypeOK
    OBVIOUS
  <2>1. now \in 0..GameEnd /\ 0 \in 0..GameEnd /\ left \in 0..MaxFaults
    BY RobotConstants DEF Init
  <2>2. IdleTick \in TickState
    BY <2>1 DEF IdleTick, TickState, TickPc
  <2> QED
    BY <2>1, <2>2, SpawnTypes
       DEF Init, TypeOK, StateOf, SpawnState, NoRobots, TickState, TickPc
<1> QED
  BY <1>1, TypeStep, PTL DEF Spec

-----------------------------------------------------------------------------
(* What a growth does: robots stay robots and each grows by itself, the    *)
(* board changes for those that have grown only, and a node that has grown *)
(* any saves them, unless the board has failed.                            *)
LEMMA GrowEffect ==
    ASSUME TypeOK, NEW n \in Nodes, Grow(n)
    PROVE  \E new \in StateOf :
        LET old == robotsCache[n].robots
        IN  /\ robotsCache' = [robotsCache EXCEPT ![n].robots = new]
            /\ \A r \in Robots : new[r] = None <=> old[r] = None
            /\ \A r \in Known(old) : \E bps \in Bps :
                 new[r] = Grown(old[r], scoreCache[n], tick[n].at, bps)
            /\ \A r \in Robots : \/ board'[r] = board[r]
                                 \/ r \in Known(old) /\ board'[r] = new[r].score
            /\ left' = left => \A r \in Known(old) :
                 \/ new[r].score = old[r].score /\ board'[r] = board[r]
                 \/ new[r].score # old[r].score /\ board'[r] = new[r].score
            /\ \/ /\ new = old
                  /\ behind' = behind /\ forked' = forked
                  /\ tick'[n].pc = "idle"
               \/ /\ new # old
                  /\ behind' = behind \cup (Nodes \ {n})
                  /\ n \in behind => forked'
                  /\ n \notin behind => forked' = forked
                  /\ \/ tick'[n].pc = "idle" /\ left' = left - 1
                     \/ /\ tick'[n].pc = "save"
                        /\ tick'[n].todo = {r \in Robots : new[r] # old[r]}
            /\ \A m \in Nodes \ {n} : tick'[m] = tick[m]
<1> DEFINE old == robotsCache[n].robots
<1>1. PICK bps \in [Known(old) -> Bps] :
         LET new == [r \in Robots |-> IF old[r] = None THEN None
                       ELSE Grown(old[r], scoreCache[n], tick[n].at, bps[r])]
             changed == {r \in Robots : new[r] # old[r]}
             moved == {r \in changed : new[r].score # old[r].score}
         IN  /\ robotsCache' = [robotsCache EXCEPT ![n].robots = new]
             /\ behind' = IF changed = {} THEN behind ELSE behind \cup (Nodes \ {n})
             /\ forked' = (forked \/ (changed # {} /\ n \in behind))
             /\ \/ /\ board' = [r \in Robots |->
                                  IF r \in moved THEN new[r].score ELSE board[r]]
                   /\ IF changed = {} THEN EndTick(n)
                      ELSE tick' = [tick EXCEPT ![n].pc = "save", ![n].todo = changed]
                   /\ UNCHANGED left
                \/ /\ moved # {}
                   /\ Fail
                   /\ EndTick(n)
                   /\ UNCHANGED board
  BY DEF Grow
<1> DEFINE new == [r \in Robots |-> IF old[r] = None THEN None
                     ELSE Grown(old[r], scoreCache[n], tick[n].at, bps[r])]
           changed == {r \in Robots : new[r] # old[r]}
           moved == {r \in changed : new[r].score # old[r].score}
<1>2. /\ new \in StateOf
      /\ \A r \in Robots : new[r] = None <=> old[r] = None
      /\ \A r \in Known(old) : new[r] = Grown(old[r], scoreCache[n], tick[n].at, bps[r])
  BY GrownRobots
<1>3. \A r \in changed : r \in Robots /\ new[r] # old[r]
  OBVIOUS
<1>4. \A r \in Robots : r \in moved <=> r \in changed /\ new[r].score # old[r].score
  OBVIOUS
<1>5. /\ robotsCache' = [robotsCache EXCEPT ![n].robots = new]
      /\ \/ changed = {} /\ behind' = behind /\ forked' = forked
         \/ changed # {} /\ behind' = behind \cup (Nodes \ {n})
            /\ (n \in behind => forked') /\ (n \notin behind => forked' = forked)
      /\ \/ /\ board' = [r \in Robots |-> IF r \in moved THEN new[r].score ELSE board[r]]
            /\ changed = {} => tick' = [tick EXCEPT ![n] = IdleTick]
            /\ changed # {} => tick' = [tick EXCEPT ![n].pc = "save", ![n].todo = changed]
            /\ left' = left
         \/ /\ moved # {} /\ left' = left - 1 /\ left > 0
            /\ tick' = [tick EXCEPT ![n] = IdleTick] /\ board' = board
  <2> HIDE DEF old
  <2> QED
    BY <1>1 DEF EndTick, Fail, TypeOK
<1>6. changed = {r \in Robots : new[r] # old[r]}
  OBVIOUS
<1>7. changed = {} => new = old
  <2>1. old \in StateOf
    BY DEF TypeOK, StateOf
  <2> SUFFICES ASSUME changed = {} PROVE new = old
    OBVIOUS
  <2>2. \A r \in Robots : new[r] = old[r]
    BY <1>6
  <2> HIDE DEF new, old
  <2> QED
    BY <1>2, <2>1, <2>2 DEF StateOf
<1>t. /\ \A m \in Nodes \ {n} : tick'[m] = tick[m]
      /\ \/ changed = {} /\ tick'[n].pc = "idle"
         \/ changed # {} /\ tick'[n].pc = "idle" /\ left' = left - 1
         \/ changed # {} /\ tick'[n].pc = "save" /\ tick'[n].todo = changed
  <2> HIDE DEF changed, moved, new
  <2>1. tick \in [Nodes -> TickState] /\ IdleTick.pc = "idle"
    BY DEF TypeOK, TickState, TickPc, IdleTick
  <2>2. [tick EXCEPT ![n] = IdleTick][n].pc = "idle"
        /\ \A m \in Nodes \ {n} : [tick EXCEPT ![n] = IdleTick][m] = tick[m]
    BY <2>1
  <2> DEFINE s == [tick EXCEPT ![n].pc = "save", ![n].todo = changed]
  <2>3. s[n].pc = "save" /\ s[n].todo = changed /\ \A m \in Nodes \ {n} : s[m] = tick[m]
    BY <2>1 DEF TickState
  <2> HIDE DEF s
  <2>4. changed = {} \/ changed # {}
    OBVIOUS
  <2>5. \/ tick' = [tick EXCEPT ![n] = IdleTick] /\ (changed # {} => left' = left - 1)
        \/ tick' = s /\ changed # {}
    BY <1>5 DEF s
  <2> QED
    BY <2>2, <2>3, <2>5
<1>b. /\ \A r \in Robots : board'[r] = board[r] \/ (r \in Known(old) /\ board'[r] = new[r].score)
      /\ left' = left => \A r \in Known(old) :
           \/ new[r].score = old[r].score /\ board'[r] = board[r]
           \/ new[r].score # old[r].score /\ board'[r] = new[r].score
  <2>1. \A r \in moved : r \in Known(old)
    <3> HIDE DEF new, old
    <3> QED
      BY <1>2 DEF Known
  <2> HIDE DEF changed, moved, new, old
  <2>2. left \in Nat /\ board \in [Robots -> Nat \cup {None}]
    BY RobotConstants DEF TypeOK
  <2>3. CASE /\ board' = [r \in Robots |-> IF r \in moved THEN new[r].score ELSE board[r]]
             /\ left' = left
    <3>1. \A r \in Robots : /\ r \in moved => board'[r] = new[r].score
                            /\ r \notin moved => board'[r] = board[r]
      BY <2>3
    <3>2. \A r \in Robots : r \notin moved => new[r].score = old[r].score
      BY <1>4, <1>6
    <3>3. \A r \in Known(old) : r \in Robots
      BY DEF Known
    <3>4. ASSUME NEW r \in Robots
          PROVE  board'[r] = board[r] \/ (r \in Known(old) /\ board'[r] = new[r].score)
      BY <2>1, <3>1
    <3>5. ASSUME NEW r \in Known(old)
          PROVE  \/ new[r].score = old[r].score /\ board'[r] = board[r]
                 \/ new[r].score # old[r].score /\ board'[r] = new[r].score
      BY <1>4, <3>1, <3>2, <3>3
    <3> QED
      BY <3>4, <3>5
  <2>4. CASE board' = board /\ left' = left - 1
    <3>1. left' # left
      BY <2>2, <2>4
    <3> QED
      BY <2>4, <3>1
  <2> QED
    BY <1>5, <2>3, <2>4
<1>k. \A r \in Known(old) : \E b \in Bps :
         new[r] = Grown(old[r], scoreCache[n], tick[n].at, b)
  <2> HIDE DEF new, old
  <2> QED
    BY <1>1, <1>2
<1> new \in StateOf
  BY <1>2
<1> WITNESS new \in StateOf
<1> HIDE DEF new, changed, moved
<1> QED
  BY <1>2, <1>5, <1>6, <1>7, <1>t, <1>b, <1>k

-----------------------------------------------------------------------------
(* States in a set *)

(* All that is known of the robots, wherever it is kept, is in a set.      *)
Within(good) ==
    /\ stored \in [Robots -> good \cup {None}]
    /\ spawn.robots \in [Robots -> good \cup {None}]
    /\ \A n \in Nodes : robotsCache[n].robots \in [Robots -> good \cup {None}]

Born(token) == [score |-> Lesser(token, MaxToken), grown |-> now,
                pending |-> 0, start |-> 0, slice |-> 0]

(* If growth takes a robot from one set to another, and robots are born    *)
(* there, then a step takes all of them there, and the scores that come to *)
(* the board are from there.                                               *)
LEMMA WithinStep ==
    ASSUME TypeOK, [Next]_vars, NEW good \in SUBSET State, NEW next \in SUBSET State,
           good \subseteq next, Within(good),
           \A token \in DefaultToken : Born(token) \in next,
           \A n \in Nodes : tick[n].pc = "grow" =>
               \A s \in good : \A bps \in Bps : Grown(s, scoreCache[n], tick[n].at, bps) \in next
    PROVE  /\ Within(next)'
           /\ \A r \in Robots : board'[r] = board[r] \/ \E s \in next : board'[r] = s.score
<1> DEFINE Old == [Robots -> good \cup {None}]
           New == [Robots -> next \cup {None}]
           Keeps == \A r \in Robots : board'[r] = board[r] \/ \E s \in next : board'[r] = s.score
<1>o. /\ stored \in New /\ spawn.robots \in New
      /\ \A n \in Nodes : robotsCache[n].robots \in New
  BY DEF Within
<1>t. /\ spawn \in SpawnState
      /\ robotsCache \in [Nodes -> [robots : StateOf, until : Nat]]
      /\ NoRobots \in New /\ Spawned("done").robots = NoRobots
  BY DEF TypeOK, SpawnState, StateOf, NoRobots, Spawned
<1>w. ASSUME stored' \in New, spawn'.robots \in New,
             \A n \in Nodes : robotsCache'[n].robots \in New
      PROVE  Within(next)'
  BY <1>w DEF Within
<1> HIDE DEF New, Keeps
<1>s. UNCHANGED <<stored, spawn, robotsCache, board>> => Within(next)' /\ Keeps
  BY <1>o, <1>w DEF Keeps
<1>1. ASSUME NEW n \in Nodes, TakeSecond(n) \/ GetScores(n) \/ ReadFails(n)
      PROVE  Within(next)' /\ Keeps
  BY <1>1, <1>s DEF TakeSecond, GetScores, ReadFails, cacheVars
<1>2. ASSUME NEW n \in Nodes, GetRobots(n) PROVE Within(next)' /\ Keeps
  <2> DEFINE entry == IF Fresh(n) THEN robotsCache[n]
                      ELSE [robots |-> stored, until |-> now + CacheTTL]
  <2>1. entry.robots \in New
    BY <1>o
  <2>2. robotsCache' = [robotsCache EXCEPT ![n] = entry]
        /\ UNCHANGED <<stored, spawn, board>>
    BY <1>2 DEF GetRobots
  <2> HIDE DEF entry
  <2>3. \A m \in Nodes : robotsCache'[m].robots \in New
    BY <2>1, <2>2, <1>o, <1>t
  <2> QED
    BY <2>2, <2>3, <1>o, <1>w DEF Keeps
<1>3. ASSUME NEW n \in Nodes, Grow(n) PROVE Within(next)' /\ Keeps
  <2> DEFINE old == robotsCache[n].robots
  <2>0. old \in Old /\ tick[n].pc = "grow"
    BY <1>3 DEF Within, Grow
  <2> HIDE DEF old
  <2>1. PICK new \in StateOf :
          /\ robotsCache' = [robotsCache EXCEPT ![n].robots = new]
          /\ \A r \in Robots : new[r] = None <=> old[r] = None
          /\ \A r \in Known(old) : \E bps \in Bps :
               new[r] = Grown(old[r], scoreCache[n], tick[n].at, bps)
          /\ \A r \in Robots : \/ board'[r] = board[r]
                               \/ r \in Known(old) /\ board'[r] = new[r].score
    BY <1>3, GrowEffect DEF old
  <2>2. \A r \in Known(old) : new[r] \in next
    <3> SUFFICES ASSUME NEW r \in Known(old) PROVE new[r] \in next
      OBVIOUS
    <3>1. old[r] \in good
      BY <2>0 DEF Known
    <3>2. PICK bps \in Bps : new[r] = Grown(old[r], scoreCache[n], tick[n].at, bps)
      BY <2>1
    <3> QED
      BY <2>0, <3>1, <3>2
  <2>3. new \in New
    <3>1. \A r \in Robots : new[r] \in next \cup {None}
      BY <2>1, <2>2 DEF Known
    <3> QED
      BY <2>1, <3>1 DEF StateOf, New
  <2>4. \A m \in Nodes : robotsCache'[m].robots \in New
    BY <2>1, <2>3, <1>o, <1>t
  <2>5. Keeps
    BY <2>1, <2>2 DEF Keeps
  <2>6. UNCHANGED <<stored, spawn>>
    BY <1>3 DEF Grow
  <2> QED
    BY <2>4, <2>5, <2>6, <1>o, <1>w
<1>4. ASSUME NEW n \in Nodes, SaveGrowth(n) PROVE Within(next)' /\ Keeps
  <2>1. SaveRobots(n) \in New
    BY <1>o DEF SaveRobots, New
  <2>2. stored' \in New /\ UNCHANGED <<board, robotsCache, spawn>>
    BY <1>4, <2>1, <1>o DEF SaveGrowth, cacheVars
  <2> QED
    BY <2>2, <1>o, <1>w DEF Keeps
<1>5. ASSUME NEW n \in Nodes, FirstPlayer(n) PROVE Within(next)' /\ Keeps
  <2>1. ASSUME NEW some \in SUBSET Robots, NEW token \in [Robots -> DefaultToken],
               spawn' = [pc |-> "write", node |-> n, at |-> now, robots |->
                 [r \in Robots |-> IF r \notin some THEN None
                    ELSE [score |-> Lesser(token[r], MaxToken), grown |-> now,
                          pending |-> 0, start |-> 0, slice |-> 0]]]
        PROVE  spawn'.robots \in New
    <3>1. \A r \in Robots : [score |-> Lesser(token[r], MaxToken), grown |-> now,
                             pending |-> 0, start |-> 0, slice |-> 0] \in next
      BY DEF Born
    <3>2. [r \in Robots |-> IF r \notin some THEN None
             ELSE [score |-> Lesser(token[r], MaxToken), grown |-> now,
                   pending |-> 0, start |-> 0, slice |-> 0]] \in New
      BY <3>1 DEF New
    <3> QED
      BY <2>1, <3>2
  <2>2. spawn'.robots \in New
    BY <1>5, <2>1, <1>o DEF FirstPlayer
  <2>3. UNCHANGED <<board, stored, robotsCache>>
    BY <1>5 DEF FirstPlayer, cacheVars
  <2> QED
    BY <2>2, <2>3, <1>o, <1>w DEF Keeps
<1>6. ASSUME SpawnOnBoard PROVE Within(next)' /\ Keeps
  <2>1. spawn'.robots \in New
    BY <1>6, <1>o, <1>t DEF SpawnOnBoard, SpawnState
  <2>2. Keeps
    <3>1. \A r \in Known(spawn.robots) : spawn.robots[r] \in next
      BY <1>o DEF Known, New
    <3>2. \/ board' = [r \in Robots |-> IF r \in Known(spawn.robots) THEN spawn.robots[r].score
                                                                     ELSE board[r]]
          \/ board' = board
      BY <1>6 DEF SpawnOnBoard
    <3> QED
      BY <3>1, <3>2 DEF Keeps
  <2>3. stored' \in New /\ \A n \in Nodes : robotsCache'[n].robots \in New
    BY <1>6, <1>o DEF SpawnOnBoard, cacheVars
  <2>4. Within(next)'
    BY <2>1, <2>3, <1>w
  <2> QED
    BY <2>2, <2>4
<1>7. ASSUME SpawnStored PROVE Within(next)' /\ Keeps
  <2>1. [r \in Robots |-> IF spawn.robots[r] = None THEN stored[r] ELSE spawn.robots[r]] \in New
    BY <1>o DEF New
  <2>2. stored' \in New /\ spawn'.robots \in New /\ board' = board
    BY <1>7, <2>1, <1>o, <1>t DEF SpawnStored
  <2>3. \A m \in Nodes : robotsCache'[m].robots = robotsCache[m].robots
    BY <1>7, <1>t DEF SpawnStored
  <2> QED
    BY <2>2, <2>3, <1>o, <1>w DEF Keeps
<1>8. ASSUME NEW n \in Nodes, Crash(n) PROVE Within(next)' /\ Keeps
  <2>1. \A m \in Nodes : robotsCache'[m].robots \in New
    BY <1>8, <1>o, <1>t DEF Crash
  <2>2. spawn'.robots \in New /\ UNCHANGED <<stored, board>>
    BY <1>8, <1>o, <1>t DEF Crash
  <2> QED
    BY <2>1, <2>2, <1>o, <1>w DEF Keeps
<1>9. ASSUME Play \/ Clock \/ TheEnd \/ UNCHANGED vars PROVE Within(next)' /\ Keeps
  BY <1>9, <1>s DEF Play, Clock, TheEnd, vars, cacheVars
<1>n. Within(next)' /\ Keeps
  <2>1. ASSUME NEW n \in Nodes, Tick(n) PROVE Within(next)' /\ Keeps
    BY <2>1, <1>1, <1>2, <1>3, <1>4 DEF Tick
  <2> QED
    BY <2>1, <1>5, <1>6, <1>7, <1>8, <1>9 DEF Next
<1> QED
  BY <1>n DEF Keeps

-----------------------------------------------------------------------------
(* Limits of the robots *)

(* What a growth is measured against is the best player as a node          *)
(* remembers him: no better than he is now, for players never get worse,   *)
(* and never nobody, for robots come after a player.                       *)
PlayedInv ==
    /\ best = 0 => /\ Known(stored) = {} /\ Known(spawn.robots) = {}
                   /\ \A n \in Nodes : Known(robotsCache[n].robots) = {}
    /\ \A n \in Nodes :
         /\ scoreCache[n].real <= best
         /\ now < scoreCache[n].until => scoreCache[n].real > 0
         /\ tick[n].pc \in {"scores", "grow"} => best > 0
         /\ tick[n].pc = "grow" => scoreCache[n].real > 0

(* The best score never falls.                                             *)
LEMMA BestGrows == TypeOK /\ [Next]_vars => best' >= best /\ best \in Nat /\ best' \in Nat
<1> SUFFICES ASSUME TypeOK, [Next]_vars PROVE best' >= best /\ best \in Nat /\ best' \in Nat
  OBVIOUS
<1>1. best \in Nat /\ PlayerScores \subseteq Nat
  BY RobotConstants DEF TypeOK
<1>2. best' = best \/ (best = 0 /\ best' \in PlayerScores)
      \/ (best' \in PlayerScores /\ best' > best)
  BY DEF Next, Tick, TakeSecond, GetRobots, GetScores, ReadFails, Grow, SaveGrowth,
     FirstPlayer, Play, SpawnOnBoard, SpawnStored, Crash, Clock, TheEnd, vars
<1>3. best' \in Nat
  BY <1>1, <1>2
<1>4. best' >= best
  BY <1>1, <1>2, <1>3
<1> QED
  BY <1>1, <1>3, <1>4

(* Before the first player there are no robots, and a step that does not   *)
(* bring him brings none.                                                  *)
LEMMA NoRobotsBefore ==
    ASSUME TypeOK, [Next]_vars, best' = 0, PlayedInv
    PROVE  /\ Known(stored)' = {} /\ Known(spawn.robots)' = {}
           /\ \A n \in Nodes : Known(robotsCache'[n].robots) = {}
<1>1. best = 0
  BY BestGrows
<1>2. /\ stored = NoRobots /\ spawn.robots = NoRobots
      /\ \A n \in Nodes : robotsCache[n].robots = NoRobots
      /\ \A n \in Nodes : tick[n].pc # "grow"
  BY <1>1 DEF PlayedInv, Known, NoRobots, TypeOK
<1>3. \A n \in Nodes : ~FirstPlayer(n)
  BY RobotConstants DEF FirstPlayer
<1>t. /\ spawn \in SpawnState
      /\ robotsCache \in [Nodes -> [robots : StateOf, until : Nat]]
      /\ Spawned("done").robots = NoRobots
  BY DEF TypeOK, SpawnState, StateOf, NoRobots, Spawned
<1>4. /\ stored' = NoRobots /\ spawn'.robots = NoRobots
      /\ \A n \in Nodes : robotsCache'[n].robots = NoRobots
  <2> DEFINE P == /\ stored' = NoRobots /\ spawn'.robots = NoRobots
                  /\ \A n \in Nodes : robotsCache'[n].robots = NoRobots
  <2>1. ASSUME NEW n \in Nodes, Tick(n) PROVE P
    <3>1. ~Grow(n)
      BY <1>2 DEF Grow
    <3>2. SaveRobots(n) = NoRobots
      BY <1>2 DEF SaveRobots, NoRobots
    <3>3. stored' = NoRobots /\ spawn' = spawn
      BY <2>1, <3>1, <3>2, <1>2 DEF Tick, TakeSecond, GetRobots, GetScores, ReadFails, SaveGrowth
    <3>4. \A m \in Nodes : robotsCache'[m].robots = NoRobots
      <4> DEFINE entry == IF Fresh(n) THEN robotsCache[n]
                          ELSE [robots |-> stored, until |-> now + CacheTTL]
      <4>1. entry.robots = NoRobots
        BY <1>2
      <4>2. robotsCache' = robotsCache \/ robotsCache' = [robotsCache EXCEPT ![n] = entry]
        BY <2>1, <3>1 DEF Tick, TakeSecond, GetRobots, GetScores, ReadFails, SaveGrowth, cacheVars
      <4> HIDE DEF entry
      <4> QED
        BY <4>1, <4>2, <1>2, <1>t
    <3> QED
      BY <3>3, <3>4, <1>2
  <2>2. ASSUME SpawnOnBoard PROVE P
    BY <2>2, <1>2, <1>t DEF SpawnOnBoard, SpawnState, cacheVars
  <2>3. ASSUME SpawnStored PROVE P
    <3>1. stored' = NoRobots
      BY <2>3, <1>2 DEF SpawnStored, NoRobots
    <3> QED
      BY <2>3, <3>1, <1>2, <1>t DEF SpawnStored
  <2>4. ASSUME NEW n \in Nodes, Crash(n) PROVE P
    BY <2>4, <1>2, <1>t DEF Crash
  <2>5. ASSUME Play \/ Clock \/ TheEnd \/ UNCHANGED vars PROVE P
    BY <2>5, <1>2 DEF Play, Clock, TheEnd, vars, cacheVars
  <2> HIDE DEF P
  <2>6. P
    BY <1>3, <2>1, <2>2, <2>3, <2>4, <2>5 DEF Next
  <2> QED
    BY <2>6 DEF P
<1> QED
  BY <1>4 DEF Known, NoRobots

(* A player is known wherever robots are grown, and none is remembered     *)
(* better than he is.                                                      *)
LEMMA PlayedStep == TypeOK /\ PlayedInv /\ [Next]_vars => PlayedInv'
<1> SUFFICES ASSUME TypeOK, PlayedInv, [Next]_vars PROVE PlayedInv'
  OBVIOUS
<1>1. best' = 0 => /\ Known(stored)' = {} /\ Known(spawn.robots)' = {}
                   /\ \A n \in Nodes : Known(robotsCache'[n].robots) = {}
  BY NoRobotsBefore
<1>b. best' >= best /\ best \in Nat /\ best' \in Nat
  BY BestGrows
<1>t. /\ tick \in [Nodes -> TickState]
      /\ scoreCache \in [Nodes -> Scores]
      /\ now \in Nat /\ now' \in Nat /\ now <= now'
      /\ IdleTick.pc = "idle"
  <2>1. now' = now \/ now' = now + 1
    BY DEF Next, Tick, TakeSecond, GetRobots, GetScores, ReadFails, Grow, SaveGrowth,
       FirstPlayer, Play, SpawnOnBoard, SpawnStored, Crash, Clock, TheEnd, vars
  <2>2. now \in Nat
    BY DEF TypeOK
  <2> QED
    BY <2>1, <2>2 DEF TypeOK, TickState, TickPc, Scores, IdleTick
<1>p. \A n \in Nodes :
         /\ scoreCache[n].real <= best
         /\ now < scoreCache[n].until => scoreCache[n].real > 0
         /\ tick[n].pc \in {"scores", "grow"} => best > 0
         /\ tick[n].pc = "grow" => scoreCache[n].real > 0
         /\ scoreCache[n].real \in Nat /\ scoreCache[n].until \in Nat
  BY <1>t DEF PlayedInv, Scores
<1> DEFINE Good(n) ==
         /\ scoreCache'[n].real <= best'
         /\ now' < scoreCache'[n].until => scoreCache'[n].real > 0
         /\ tick'[n].pc \in {"scores", "grow"} => best' > 0
         /\ tick'[n].pc = "grow" => scoreCache'[n].real > 0
<1>s. ASSUME NEW n \in Nodes, scoreCache'[n] = scoreCache[n],
             tick'[n] = tick[n] \/ tick'[n].pc \notin {"scores", "grow"}
      PROVE  Good(n)
  BY <1>s, <1>p, <1>b, <1>t
<1>2. ASSUME NEW n \in Nodes, Tick(n) PROVE \A m \in Nodes : Good(m)
  <2>1. CASE TakeSecond(n) \/ ReadFails(n) \/ SaveGrowth(n)
    <3>1. scoreCache' = scoreCache
          /\ \A m \in Nodes : tick'[m] = tick[m] \/ tick'[m].pc \notin {"scores", "grow"}
      BY <2>1, <1>t DEF TakeSecond, ReadFails, SaveGrowth, EndTick, cacheVars
    <3> HIDE DEF Good
    <3> QED
      BY <3>1, <1>s
  <2>2. CASE GetRobots(n)
    <3>1. scoreCache' = scoreCache /\ best' = best /\ now' = now
      BY <2>2 DEF GetRobots
    <3> DEFINE entry == IF Fresh(n) THEN robotsCache[n]
                        ELSE [robots |-> stored, until |-> now + CacheTTL]
    <3>2. Known(entry.robots) # {} => best # 0
      BY DEF PlayedInv
    <3>3. EndTick(n) \/ (Known(entry.robots) # {} /\ Goto(n, "scores"))
      BY <2>2 DEF GetRobots
    <3> HIDE DEF entry
    <3>4. \A m \in Nodes : tick'[m] = tick[m] \/ tick'[m].pc = "idle"
                           \/ (m = n /\ tick'[n].pc = "scores" /\ best # 0)
      BY <3>2, <3>3, <1>t DEF EndTick, Goto, TickState
    <3> QED
      BY <3>1, <3>4, <1>p, <1>b
  <2>3. CASE GetScores(n)
    <3>1. best' = best /\ now' = now /\ Goto(n, "grow") /\ tick[n].pc = "scores"
      BY <2>3 DEF GetScores
    <3>2. \A m \in Nodes \ {n} : tick'[m] = tick[m]
      BY <3>1, <1>t DEF Goto
    <3>3. best > 0
      BY <3>1, <1>p
    <3>4. PICK first \in {best} \cup {board[r] : r \in Known(board)} :
             scoreCache' = [scoreCache EXCEPT ![n] =
               IF now < @.until THEN @
               ELSE [first |-> first, real |-> best, until |-> now + CacheTTL]]
      BY <2>3 DEF GetScores
    <3>5. \A m \in Nodes \ {n} : scoreCache'[m] = scoreCache[m]
      BY <3>4, <1>t
    <3>6. scoreCache'[n].real <= best /\ scoreCache'[n].real > 0
      <4>1. CASE now < scoreCache[n].until
        BY <4>1, <3>4, <1>p, <1>t
      <4>2. CASE ~(now < scoreCache[n].until)
        BY <4>2, <3>3, <3>4, <1>b, <1>t
      <4> QED
        BY <4>1, <4>2
    <3>7. Good(n)
      BY <3>1, <3>3, <3>6
    <3>8. ASSUME NEW m \in Nodes \ {n} PROVE Good(m)
      BY <3>2, <3>5, <1>s
    <3> HIDE DEF Good
    <3> QED
      BY <3>7, <3>8
  <2>4. CASE Grow(n)
    <3>1. scoreCache' = scoreCache
      BY <2>4 DEF Grow
    <3>2. \A m \in Nodes : tick'[m] = tick[m] \/ tick'[m].pc \in {"idle", "save"}
      BY <2>4, GrowEffect
    <3> HIDE DEF Good
    <3> QED
      BY <3>1, <3>2, <1>s
  <2> HIDE DEF Good
  <2> QED
    BY <1>2, <2>1, <2>2, <2>3, <2>4 DEF Tick
<1>3. ASSUME NEW n \in Nodes, FirstPlayer(n) PROVE \A m \in Nodes : Good(m)
  BY <1>3, <1>s DEF FirstPlayer, cacheVars
<1>4. ASSUME Play \/ SpawnOnBoard \/ SpawnStored \/ Clock \/ TheEnd \/ UNCHANGED vars
      PROVE  \A m \in Nodes : Good(m)
  BY <1>4, <1>s DEF Play, SpawnOnBoard, SpawnStored, Clock, TheEnd, vars, cacheVars
<1>5. ASSUME NEW n \in Nodes, Crash(n) PROVE \A m \in Nodes : Good(m)
  <2>1. \A m \in Nodes \ {n} : scoreCache'[m] = scoreCache[m] /\ tick'[m] = tick[m]
    BY <1>5, <1>t DEF Crash, EndTick
  <2>2. tick'[n].pc = "idle" /\ scoreCache'[n].real = 0 /\ scoreCache'[n].until = 0
    BY <1>5, <1>t DEF Crash, EndTick
  <2>3. Good(n)
    BY <2>2, <1>b, <1>t
  <2>4. ASSUME NEW m \in Nodes \ {n} PROVE Good(m)
    BY <2>1, <1>s
  <2> HIDE DEF Good
  <2> QED
    BY <2>3, <2>4
<1> HIDE DEF Good
<1>6. \A m \in Nodes : Good(m)
  BY <1>2, <1>3, <1>4, <1>5 DEF Next
<1> QED
  BY <1>1, <1>6 DEF PlayedInv, Good

(* No robot is, or is going to be, past a limit.                           *)
UpTo(limit) == {s \in State : s.score + s.pending <= limit}
LimitsInv ==
    /\ Within(UpTo(Allowed))
    /\ \A r \in Known(board) : board[r] <= Allowed

(* The limit is a number, it holds what robots are born with, and only     *)
(* rises.                                                                  *)
LEMMA AllowedType ==
    ASSUME best \in Nat
    PROVE  /\ Allowed \in Nat
           /\ \A token \in DefaultToken : Lesser(token, MaxToken) <= Allowed
           /\ \A n \in Nat : n <= MaxToken /\ n <= best + MaxDifference => n <= Allowed
<1> DEFINE most == Max(DefaultToken)
<1>1. most \in DefaultToken /\ \A token \in DefaultToken : most >= token
  BY RobotConstants DEF Max
<1> HIDE DEF most
<1>2. most \in Nat /\ MaxToken \in Nat /\ MaxDifference \in Nat /\ DefaultToken \subseteq Nat
  BY <1>1, RobotConstants
<1>3. Allowed = Lesser(MaxToken, Greater(most, best + MaxDifference))
  BY DEF Allowed, most
<1> QED
  BY <1>1, <1>2, <1>3 DEF Lesser, Greater

(* A higher bound inside makes no lower bound. *)
LEMMA LimitGrows ==
    ASSUME NEW most \in Nat, NEW token \in Nat, NEW more \in Nat,
           NEW a \in Nat, NEW b \in Nat, a <= b
    PROVE  /\ Lesser(token, Greater(most, a + more)) <= Lesser(token, Greater(most, b + more))
           /\ Lesser(token, Greater(most, b + more)) \in Nat
BY DEF Lesser, Greater

(* What the best player's score allows a robot never shrinks.              *)
LEMMA AllowedGrows == TypeOK /\ [Next]_vars => Allowed <= Allowed' /\ Allowed' \in Nat
<1> SUFFICES ASSUME TypeOK, [Next]_vars PROVE Allowed <= Allowed' /\ Allowed' \in Nat
  OBVIOUS
<1> DEFINE most == Max(DefaultToken)
<1>1. most \in DefaultToken
  BY RobotConstants DEF Max
<1> HIDE DEF most
<1>2. most \in Nat /\ MaxToken \in Nat /\ MaxDifference \in Nat
  BY <1>1, RobotConstants
<1>3. /\ Allowed = Lesser(MaxToken, Greater(most, best + MaxDifference))
      /\ Allowed' = Lesser(MaxToken, Greater(most, best' + MaxDifference))
  BY DEF Allowed, most, Lesser, Greater
<1>4. best' >= best /\ best \in Nat /\ best' \in Nat
  BY BestGrows
<1>5. PICK next \in Nat : next = best'
  BY <1>4
<1> HIDE DEF Allowed
<1>6. Allowed' = Lesser(MaxToken, Greater(most, next + MaxDifference))
  BY <1>3, <1>5
<1>7. best \in Nat /\ best <= next
  BY <1>4, <1>5
<1>8. Lesser(MaxToken, Greater(most, best + MaxDifference))
        <= Lesser(MaxToken, Greater(most, next + MaxDifference))
      /\ Lesser(MaxToken, Greater(most, next + MaxDifference)) \in Nat
  BY <1>2, <1>7, LimitGrows
<1> QED
  BY <1>3, <1>6, <1>8

(* Every step keeps every copy of a robot within what is allowed.          *)
LEMMA LimitsStep == TypeOK /\ PlayedInv /\ LimitsInv /\ [Next]_vars => LimitsInv'
<1> SUFFICES ASSUME TypeOK, PlayedInv, LimitsInv, [Next]_vars PROVE LimitsInv'
  OBVIOUS
<1>b. best \in Nat /\ board \in [Robots -> Nat \cup {None}]
  BY BestGrows DEF TypeOK
<1>1. PICK a \in Nat : a = Allowed
  BY <1>b, AllowedType
<1>2. PICK b \in Nat : b = Allowed' /\ a <= b
  BY <1>1, AllowedGrows
<1> DEFINE good == UpTo(a)
           next == UpTo(b)
<1>3. good \in SUBSET State /\ next \in SUBSET State /\ good \subseteq next
  <2>1. \A s \in State : s.score + s.pending \in Nat
    BY DEF State
  <2> QED
    BY <2>1, <1>2 DEF UpTo
<1>4. Within(good)
  BY <1>1 DEF LimitsInv
<1>5. \A token \in DefaultToken : Born(token) \in next
  <2> SUFFICES ASSUME NEW token \in DefaultToken PROVE Born(token) \in next
    OBVIOUS
  <2>1. Lesser(token, MaxToken) \in Nat /\ now \in Nat
    BY RobotConstants DEF Lesser, TypeOK
  <2>2. Lesser(token, MaxToken) <= b
    <3>1. Lesser(token, MaxToken) <= a
      BY <1>1, <1>b, AllowedType
    <3> QED
      BY <3>1, <2>1, <1>2
  <2> QED
    BY <2>1, <2>2 DEF Born, UpTo, State
<1>6. \A n \in Nodes : tick[n].pc = "grow" =>
         \A s \in good : \A bps \in Bps : Grown(s, scoreCache[n], tick[n].at, bps) \in next
  <2> SUFFICES ASSUME NEW n \in Nodes, tick[n].pc = "grow", NEW s \in good, NEW bps \in Bps
               PROVE  Grown(s, scoreCache[n], tick[n].at, bps) \in next
    OBVIOUS
  <2> DEFINE t == Grown(s, scoreCache[n], tick[n].at, bps)
  <2>1. scoreCache[n] \in Scores /\ tick[n].at \in Nat
    BY DEF TypeOK, Scores
  <2>2. scoreCache[n].real > 0 /\ scoreCache[n].real <= best /\ scoreCache[n].real \in Nat
    BY <2>1 DEF PlayedInv, Scores
  <2>3. s \in State /\ s.score + s.pending <= a
    BY DEF UpTo
  <2>4. /\ t \in State
        /\ \/ t.score + t.pending = s.score + s.pending
           \/ /\ t.score + t.pending <= MaxToken
              /\ t.score + t.pending <= scoreCache[n].real + MaxDifference
    BY <2>1, <2>2, <2>3, GrownState
  <2> HIDE DEF t
  <2>5. t.score + t.pending \in Nat /\ MaxToken \in Nat /\ MaxDifference \in Nat
    BY <2>4, RobotConstants DEF State
  <2>6. t.score + t.pending <= a
    <3>1. CASE t.score + t.pending = s.score + s.pending
      BY <3>1, <2>3
    <3>2. CASE /\ t.score + t.pending <= MaxToken
               /\ t.score + t.pending <= scoreCache[n].real + MaxDifference
      <4>1. t.score + t.pending <= best + MaxDifference
        BY <3>2, <2>2, <2>5, <1>b
      <4> QED
        BY <3>2, <4>1, <2>5, <1>1, <1>b, AllowedType
    <3> QED
      BY <2>4, <3>1, <3>2
  <2>7. t.score + t.pending <= b
    BY <2>5, <2>6, <1>2
  <2> QED
    BY <2>4, <2>7 DEF t, UpTo
<1> HIDE DEF good, next
<1>7. /\ Within(next)'
      /\ \A r \in Robots : board'[r] = board[r] \/ \E s \in next : board'[r] = s.score
  BY <1>3, <1>4, <1>5, <1>6, WithinStep
<1>8. Within(UpTo(Allowed))'
  BY <1>2, <1>7 DEF Within, UpTo, next
<1>9. ASSUME NEW r \in Robots, board'[r] # None PROVE board'[r] <= b
  <2>1. CASE board'[r] = board[r]
    <3>1. board[r] <= a /\ board[r] \in Nat
      BY <1>1, <1>9, <2>1, <1>b DEF LimitsInv, Known
    <3> QED
      BY <2>1, <3>1, <1>2
  <2>2. ASSUME NEW s \in next, board'[r] = s.score PROVE board'[r] <= b
    BY <2>2 DEF next, UpTo, State
  <2> QED
    BY <1>7, <2>1, <2>2
<1> QED
  BY <1>2, <1>8, <1>9 DEF LimitsInv, Known

(* No copy of a robot, on the board, in the store, in a cache or in a      *)
(* tick, passes what growRobots and the spawning allow.                    *)
THEOREM Limited == Spec => [](TypeOK /\ PlayedInv /\ LimitsInv)
<1>1. Init => PlayedInv /\ LimitsInv
  <2> SUFFICES ASSUME Init PROVE PlayedInv /\ LimitsInv
    OBVIOUS
  <2>1. PlayedInv
    BY DEF Init, PlayedInv, Known, NoRobots, Spawned, IdleTick
  <2>2. LimitsInv
    BY DEF Init, LimitsInv, Within, Known, NoRobots, Spawned
  <2> QED
    BY <2>1, <2>2
<1> QED
  BY <1>1, TypeCorrect, PlayedStep, LimitsStep, PTL DEF Spec

(* However old the scores are that a node grows its robots by, whatever    *)
(* part of a growth is still to come and whatever fails: no robot is, or   *)
(* is going to be, further ahead of the players than its tier allows       *)
(* (tickRobotScore, engine/robot.go:164).                                  *)
THEOREM LimitsHold == Spec => []RobotsWithinLimits
<1>1. TypeOK /\ LimitsInv => RobotsWithinLimits
  <2> SUFFICES ASSUME TypeOK, LimitsInv PROVE RobotsWithinLimits
    OBVIOUS
  <2>1. ASSUME NEW states \in {stored} \cup {robotsCache[n].robots : n \in Nodes},
               NEW r \in Known(states)
        PROVE  states[r].score + states[r].pending <= Allowed
    <3>1. states \in [Robots -> UpTo(Allowed) \cup {None}]
      BY DEF LimitsInv, Within
    <3> QED
      BY <3>1 DEF Known, UpTo
  <2> QED
    BY <2>1 DEF RobotsWithinLimits, LimitsInv
<1> QED
  BY <1>1, Limited, PTL

-----------------------------------------------------------------------------
(* Time of a growth *)

(* There are parts left for all that is pending, and time for them.        *)
EnoughParts(s, k) == s.pending <= k * s.slice
EnoughTime(s, k) == s.start + k * Interval < s.grown + OvertakeTime
InTime == {s \in State : s.pending > 0 => \E k \in Nat : EnoughParts(s, k) /\ EnoughTime(s, k)}

(* A part that is released takes one interval and leaves one part less.    *)
LEMMA ReleasedInTime ==
    ASSUME NEW s \in InTime, NEW at \in Nat
    PROVE  Released(s, at) \in InTime
<1>1. s \in State /\ s.score \in Nat /\ s.pending \in Nat /\ s.slice \in Nat
      /\ s.start \in Nat /\ s.grown \in Nat /\ Interval \in Nat \ {0} /\ OvertakeTime \in Nat
  BY RobotConstants DEF State, InTime
<1>2. CASE at < s.start + Interval \/ s.pending <= s.slice
  <2>1. CASE at < s.start + Interval
    BY <2>1, <1>1 DEF Released
  <2>2. CASE ~(at < s.start + Interval) /\ s.pending <= s.slice
    <3>1. Lesser(s.slice, s.pending) = s.pending
      BY <2>2, <1>1 DEF Lesser
    <3>2. Released(s, at) \in State
      BY <1>1, ReleasedState
    <3>3. Released(s, at) = [s EXCEPT !.score = @ + s.pending, !.pending = @ - s.pending,
                                      !.start = @ + Interval]
      BY <2>2, <3>1 DEF Released
    <3>4. Released(s, at).pending = 0
      BY <1>1, <3>3 DEF State
    <3> QED
      BY <3>2, <3>4 DEF InTime
  <2> QED
    BY <1>2, <2>1, <2>2, <1>1
<1>3. CASE ~(at < s.start + Interval) /\ ~(s.pending <= s.slice)
  <2>1. Lesser(s.slice, s.pending) = s.slice
    BY <1>3, <1>1 DEF Lesser
  <2>2. Released(s, at) = [s EXCEPT !.score = @ + s.slice, !.pending = @ - s.slice,
                                    !.start = @ + Interval]
    BY <1>3, <2>1 DEF Released
  <2>3. PICK k \in Nat : EnoughParts(s, k) /\ EnoughTime(s, k)
    BY <1>1, <1>3 DEF InTime
  <2>4. k # 0
    BY <1>1, <1>3, <2>3 DEF EnoughParts
  <2>5. PICK j \in Nat : k = j + 1
    <3>1. k - 1 \in Nat /\ k = (k - 1) + 1
      BY <2>4
    <3> QED
      BY <3>1
  <2> DEFINE t == Released(s, at)
  <2>6. t \in State /\ t.pending = s.pending - s.slice /\ t.slice = s.slice
        /\ t.start = s.start + Interval /\ t.grown = s.grown
    BY <1>1, <2>2, ReleasedState DEF State
  <2> HIDE DEF t
  <2>7. k * s.slice = j * s.slice + s.slice /\ k * Interval = j * Interval + Interval
    BY <1>1, <2>5
  <2>8. s.pending - s.slice <= j * s.slice
    BY <1>1, <2>3, <2>7 DEF EnoughParts
  <2>9. (s.start + Interval) + j * Interval < s.grown + OvertakeTime
    BY <1>1, <2>3, <2>7 DEF EnoughTime
  <2>10. EnoughParts(t, j) /\ EnoughTime(t, j)
    BY <2>6, <2>8, <2>9 DEF EnoughParts, EnoughTime
  <2>11. t \in InTime
    BY <2>6, <2>10 DEF InTime
  <2> QED
    BY <2>11 DEF t
<1> QED
  BY <1>2, <1>3

(* A growth begins with a part for every interval, the first released.     *)
LEMMA BegunInTime ==
    ASSUME NEW s \in State, NEW delta \in Nat \ {0}, NEW at \in Nat
    PROVE  Begun(s, delta, at) \in InTime
<1> DEFINE p == Part(delta)
           k == Slices - 1
           t == Begun(s, delta, at)
<1>1. p \in Nat \ {0} /\ p <= delta /\ delta <= p * Slices
  BY Parts
<1>2. Slices \in Nat \ {0} /\ k \in Nat /\ k * Interval < OvertakeTime /\ Interval \in Nat
      /\ Slices = k + 1
  BY SlicesFit, RobotConstants
<1>3. t \in State
  BY BegunState
<1>4. t.pending = delta - p /\ t.slice = p /\ t.start = at /\ t.grown = at
  BY DEF Begun
<1> HIDE DEF p, k, t
<1>5. p * Slices = k * p + p
  BY <1>1, <1>2
<1>6. delta - p <= k * p
  BY <1>1, <1>2, <1>5
<1>7. at + k * Interval < at + OvertakeTime
  <2>1. k * Interval \in Nat /\ OvertakeTime \in Nat
    BY <1>2, RobotConstants
  <2> QED
    BY <2>1, <1>2
<1>8. EnoughParts(t, k) /\ EnoughTime(t, k)
  BY <1>4, <1>6, <1>7 DEF EnoughParts, EnoughTime
<1>9. t \in InTime
  BY <1>2, <1>3, <1>8 DEF InTime
<1> QED
  BY <1>9 DEF t

(* One step of a robot.                                                    *)
LEMMA GrownInTime ==
    ASSUME NEW s \in InTime, NEW c \in Scores, NEW at \in Nat, NEW bps \in Bps
    PROVE  Grown(s, c, at, bps) \in InTime
<1>1. s \in State /\ s.score \in Nat /\ s.pending \in Nat /\ s.grown \in Nat
      /\ c.first \in Nat /\ c.real \in Nat
  BY DEF State, Scores, InTime
<1> DEFINE target == (c.first * bps) \div Scale
           goal == Limit(target, c.first, c.real)
<1>2. goal \in Nat
  <2>1. bps \in Nat /\ Scale \in Nat \ {0}
    BY RobotConstants
  <2>2. c.first * bps \in Nat
    BY <1>1, <2>1
  <2>3. target \in Nat
    BY <2>1, <2>2
  <2> HIDE DEF target
  <2> QED
    BY <1>1, <2>3, Limits
<1>3. /\ GameEnd \in Nat /\ LockTime \in Nat /\ GrowCd \in Nat
  BY RobotConstants
<1>4. CASE GameEnd <= at + LockTime
  BY <1>3, <1>4 DEF Grown
<1>5. CASE GameEnd > at + LockTime /\ s.pending > 0
  <2>1. Grown(s, c, at, bps) = Released(s, at)
    BY <1>3, <1>5 DEF Grown
  <2> QED
    BY <2>1, ReleasedInTime
<1>6. CASE GameEnd > at + LockTime /\ s.pending = 0
  <2>1. \/ Grown(s, c, at, bps) = s
        \/ Grown(s, c, at, bps) = [s EXCEPT !.grown = at]
        \/ Grown(s, c, at, bps) = Begun(s, goal - s.score, at) /\ ~(goal <= s.score)
    BY <1>3, <1>6 DEF Grown
  <2> HIDE DEF goal
  <2>2. [s EXCEPT !.grown = at] \in State /\ [s EXCEPT !.grown = at].pending = 0
    BY <1>1, <1>6 DEF State
  <2>3. \A t \in State : t.pending = 0 => t \in InTime
    BY DEF InTime
  <2>4. ~(goal <= s.score) => goal - s.score \in Nat \ {0}
    BY <1>1, <1>2
  <2>5. ~(goal <= s.score) => Begun(s, goal - s.score, at) \in InTime
    BY <1>1, <2>4, BegunInTime
  <2> QED
    BY <2>1, <2>2, <2>3, <2>5
<1> QED
  BY <1>1, <1>3, <1>4, <1>5, <1>6

(* Every step keeps the growths in their time.                             *)
LEMMA InTimeStep == TypeOK /\ Within(InTime) /\ [Next]_vars => Within(InTime)'
<1> SUFFICES ASSUME TypeOK, Within(InTime), [Next]_vars PROVE Within(InTime)'
  OBVIOUS
<1>1. InTime \in SUBSET State
  BY DEF InTime
<1>2. \A token \in DefaultToken : Born(token) \in InTime
  <2> SUFFICES ASSUME NEW token \in DefaultToken PROVE Born(token) \in InTime
    OBVIOUS
  <2>1. Lesser(token, MaxToken) \in Nat /\ now \in Nat
    BY RobotConstants DEF Lesser, TypeOK
  <2>2. Born(token) \in State /\ Born(token).pending = 0
    BY <2>1 DEF Born, State
  <2> QED
    BY <2>2 DEF InTime
<1>3. \A n \in Nodes : tick[n].pc = "grow" =>
         \A s \in InTime : \A bps \in Bps : Grown(s, scoreCache[n], tick[n].at, bps) \in InTime
  <2>1. \A n \in Nodes : scoreCache[n] \in Scores /\ tick[n].at \in Nat
    BY DEF TypeOK, Scores
  <2> QED
    BY <2>1, GrownInTime
<1>4. PICK good \in SUBSET State : good = InTime
  BY <1>1
<1>5. Within(good)'
  <2>1. /\ Within(good) /\ good \subseteq good
        /\ \A token \in DefaultToken : Born(token) \in good
        /\ \A n \in Nodes : tick[n].pc = "grow" =>
             \A s \in good : \A bps \in Bps : Grown(s, scoreCache[n], tick[n].at, bps) \in good
    BY <1>2, <1>3, <1>4
  <2> QED
    BY <2>1, WithinStep
<1> QED
  BY <1>4, <1>5 DEF Within, InTime, EnoughParts, EnoughTime

(* Parts enough for the pending score are no fewer than it takes.          *)
LEMMA FewestParts ==
    ASSUME NEW pending \in Nat, NEW slice \in Nat \ {0}, NEW k \in Nat,
           pending <= k * slice, NEW parts, parts = (pending + slice - 1) \div slice
    PROVE  parts \in Nat /\ parts <= k
<1>1. parts \in Nat /\ parts * slice < pending + slice
  BY Ceiling
<1>2. parts * slice < (k + 1) * slice
  <2>1. (k + 1) * slice = k * slice + slice
    OBVIOUS
  <2> QED
    BY <1>1, <2>1
<1>3. parts < k + 1
  <2> DEFINE m == k + 1
  <2>1. m \in Nat
    OBVIOUS
  <2> HIDE DEF m
  <2>2. parts * slice < m * slice
    BY <1>2 DEF m
  <2>3. parts < m
    BY <1>1, <2>1, <2>2, Products2
  <2> QED
    BY <2>3 DEF m
<1> QED
  BY <1>1, <1>3

(* However late the ticks are, and whoever ticks: what is pending fits,    *)
(* one part per interval, into the time that the tier gives a growth       *)
(* (engine/robot.go:33 and 183).                                           *)
THEOREM GrowthFitsItsTime == Spec => []OvertakeFitsItsTime
<1>1. Init => Within(InTime)
  BY DEF Init, Within, NoRobots, Spawned
<1>2. Within(InTime) => OvertakeFitsItsTime
  <2> SUFFICES ASSUME Within(InTime), NEW r \in Known(stored), stored[r].pending > 0
               PROVE  stored[r].start + ((stored[r].pending + stored[r].slice - 1)
                        \div stored[r].slice) * Interval < stored[r].grown + OvertakeTime
    BY DEF OvertakeFitsItsTime
  <2>1. stored[r] \in InTime
    BY DEF Within, Known
  <2>2. PICK s \in InTime : s = stored[r]
    BY <2>1
  <2>3. s.pending \in Nat /\ s.slice \in Nat /\ s.start \in Nat /\ s.grown \in Nat
        /\ Interval \in Nat /\ OvertakeTime \in Nat
    BY RobotConstants DEF InTime, State
  <2>4. PICK k \in Nat : EnoughParts(s, k) /\ EnoughTime(s, k)
    BY <2>2 DEF InTime
  <2>5. s.slice # 0
    BY <2>2, <2>3, <2>4 DEF EnoughParts
  <2>6. PICK parts \in Nat : parts = (s.pending + s.slice - 1) \div s.slice /\ parts <= k
    BY <2>3, <2>4, <2>5, FewestParts DEF EnoughParts
  <2>7. parts * Interval <= k * Interval /\ parts * Interval \in Nat /\ k * Interval \in Nat
    BY <2>3, <2>6, Products
  <2>8. s.start + parts * Interval < s.grown + OvertakeTime
    BY <2>3, <2>4, <2>7 DEF EnoughTime
  <2> QED
    BY <2>2, <2>6, <2>8
<1> QED
  BY <1>1, <1>2, TypeCorrect, InTimeStep, PTL DEF Spec

-----------------------------------------------------------------------------
(* Scores that never go back *)

(* As long as nothing is lost and no node has grown robots from a state    *)
(* that another has grown since, ...                                       *)
Sound == ~forked /\ left = MaxFaults
Saving(n) == tick[n].pc = "save"

(* ... the robots come to the board first, to rank:robots after that and   *)
(* to the memory of the nodes last, ...                                    *)
SpawnInOrder ==
    /\ spawn.pc \in {"none", "write"} => Known(board) = {}
    /\ spawn.pc # "done" => /\ Known(stored) = {}
                            /\ \A n \in Nodes : Known(robotsCache[n].robots) = {} /\ ~Saving(n)
    /\ spawn.pc = "save" => \A r \in Known(board) :
                               spawn.robots[r] # None /\ board[r] <= spawn.robots[r].score
    /\ spawn.pc = "save" => \A r \in Known(spawn.robots) : board[r] # None

(* ... a node that is not behind knows every robot with at least the score *)
(* it has on the board, ...                                                *)
CachesCurrent ==
    \A n \in Nodes : \A r \in Known(robotsCache[n].robots) :
        board[r] # None /\ (n \notin behind => board[r] <= robotsCache[n].robots[r].score)

(* ... and so does rank:robots, but for the robots that are being saved;   *)
StoreCurrent ==
    \A r \in Known(stored) :
        /\ board[r] # None
        /\ \/ board[r] <= stored[r].score
           \/ \E n \in Nodes : Saving(n) /\ r \in tick[n].todo

(* the one node that is saving is not behind, and all others are.          *)
OneSaver ==
    \A n \in Nodes : Saving(n) => /\ n \notin behind
                                  /\ Nodes \ {n} \subseteq behind
                                  /\ tick[n].todo \subseteq Known(robotsCache[n].robots)

Current == SpawnInOrder /\ CachesCurrent /\ StoreCurrent /\ OneSaver
CurrentInv ==
    /\ best = 0 => spawn.pc = "none"
    /\ Sound => Current

(* What has been lost or forked stays so.                                  *)
LEMMA SoundBefore ==
    ASSUME TypeOK, [Next]_vars, Sound'
    PROVE  Sound /\ left' = left /\ \A n \in Nodes : ~Crash(n) /\ ~ReadFails(n)
<1>1. left \in Nat /\ left <= MaxFaults /\ MaxFaults \in Nat /\ left' = MaxFaults /\ ~forked'
      /\ forked \in BOOLEAN
  BY RobotConstants DEF TypeOK, Sound
<1>2. ~Fail
  BY <1>1 DEF Fail
<1>3. \A n \in Nodes : ~Crash(n) /\ ~ReadFails(n)
  BY <1>2 DEF Crash, ReadFails
<1>4. left' = left
  <2>1. ASSUME NEW n \in Nodes, Tick(n) PROVE left' = left
    BY <2>1, <1>2, <1>3 DEF Tick, TakeSecond, GetRobots, GetScores, Grow, SaveGrowth
  <2>2. ASSUME NEW n \in Nodes, FirstPlayer(n) PROVE left' = left
    BY <2>2 DEF FirstPlayer
  <2>3. SpawnOnBoard \/ SpawnStored => left' = left
    BY <1>2 DEF SpawnOnBoard, SpawnStored
  <2>4. Play \/ Clock \/ TheEnd \/ UNCHANGED vars => left' = left
    BY DEF Play, Clock, TheEnd, vars
  <2> QED
    BY <1>3, <2>1, <2>2, <2>3, <2>4 DEF Next
<1>5. ~forked
  <2>1. ASSUME NEW n \in Nodes, Grow(n) PROVE ~forked
    BY <2>1, <1>1 DEF Grow
  <2>2. ASSUME NEW n \in Nodes, Tick(n) PROVE ~forked
    BY <2>1, <2>2, <1>1, <1>3 DEF Tick, TakeSecond, GetRobots, GetScores, SaveGrowth, history
  <2>3. ASSUME NEW n \in Nodes, FirstPlayer(n) PROVE ~forked
    BY <2>3, <1>1 DEF FirstPlayer, history
  <2>4. SpawnOnBoard \/ SpawnStored \/ Play \/ Clock \/ TheEnd \/ UNCHANGED vars => ~forked
    BY <1>1 DEF SpawnOnBoard, SpawnStored, Play, Clock, TheEnd, vars, history
  <2> QED
    BY <1>3, <2>2, <2>3, <2>4 DEF Next
<1> QED
  BY <1>1, <1>3, <1>4, <1>5 DEF Sound

(* A growth of a node that is not behind: no score falls, and the board    *)
(* has the scores that have grown.                                         *)
LEMMA SoundGrowth ==
    ASSUME TypeOK, NEW n \in Nodes, Grow(n), Sound, Sound'
    PROVE  \E new \in StateOf :
        LET old == robotsCache[n].robots
        IN  /\ robotsCache' = [robotsCache EXCEPT ![n].robots = new]
            /\ \A r \in Robots : new[r] = None <=> old[r] = None
            /\ \A r \in Known(old) : /\ old[r] \in State /\ new[r] \in State
                                     /\ new[r].score >= old[r].score
                                     /\ \/ /\ new[r].score = old[r].score
                                           /\ board'[r] = board[r]
                                        \/ board'[r] = new[r].score /\ new[r] # old[r]
            /\ \A r \in Robots \ Known(old) : board'[r] = board[r]
            /\ \/ /\ new = old
                  /\ behind' = behind
                  /\ tick'[n].pc = "idle"
               \/ /\ new # old
                  /\ n \notin behind
                  /\ behind' = behind \cup (Nodes \ {n})
                  /\ tick'[n].pc = "save"
                  /\ tick'[n].todo = {r \in Robots : new[r] # old[r]}
            /\ \A m \in Nodes \ {n} : tick'[m] = tick[m]
<1> DEFINE old == robotsCache[n].robots
<1>1. PICK new \in StateOf :
         /\ robotsCache' = [robotsCache EXCEPT ![n].robots = new]
         /\ \A r \in Robots : new[r] = None <=> old[r] = None
         /\ \A r \in Known(old) : \E bps \in Bps :
              new[r] = Grown(old[r], scoreCache[n], tick[n].at, bps)
         /\ \A r \in Robots : \/ board'[r] = board[r]
                              \/ r \in Known(old) /\ board'[r] = new[r].score
         /\ left' = left => \A r \in Known(old) :
              \/ new[r].score = old[r].score /\ board'[r] = board[r]
              \/ new[r].score # old[r].score /\ board'[r] = new[r].score
         /\ \/ /\ new = old
               /\ behind' = behind /\ forked' = forked
               /\ tick'[n].pc = "idle"
            \/ /\ new # old
               /\ behind' = behind \cup (Nodes \ {n})
               /\ n \in behind => forked'
               /\ n \notin behind => forked' = forked
               /\ \/ tick'[n].pc = "idle" /\ left' = left - 1
                  \/ /\ tick'[n].pc = "save"
                     /\ tick'[n].todo = {r \in Robots : new[r] # old[r]}
         /\ \A m \in Nodes \ {n} : tick'[m] = tick[m]
  BY GrowEffect
<1>2. left' = left /\ left' # left - 1 /\ ~forked'
  BY RobotConstants DEF Sound, TypeOK
<1>3. old \in StateOf /\ scoreCache[n] \in Scores /\ tick[n].at \in Nat
  BY DEF TypeOK, StateOf, Scores
<1> HIDE DEF old
<1>4. ASSUME NEW r \in Known(old)
      PROVE  /\ old[r] \in State /\ new[r] \in State
             /\ new[r].score >= old[r].score
             /\ \/ new[r].score = old[r].score /\ board'[r] = board[r]
                \/ board'[r] = new[r].score /\ new[r] # old[r]
  <2>1. old[r] \in State
    BY <1>3 DEF Known, StateOf
  <2>2. PICK bps \in Bps : new[r] = Grown(old[r], scoreCache[n], tick[n].at, bps)
    BY <1>1
  <2>3. new[r] \in State /\ new[r].score >= old[r].score
    BY <1>3, <2>1, <2>2, GrownState
  <2>4. \/ new[r].score = old[r].score /\ board'[r] = board[r]
        \/ new[r].score # old[r].score /\ board'[r] = new[r].score
    BY <1>1, <1>2
  <2> QED
    BY <2>1, <2>3, <2>4
<1>5. \A r \in Robots \ Known(old) : board'[r] = board[r]
  BY <1>1
<1>6. \/ /\ new = old
         /\ behind' = behind
         /\ tick'[n].pc = "idle"
      \/ /\ new # old
         /\ n \notin behind
         /\ behind' = behind \cup (Nodes \ {n})
         /\ tick'[n].pc = "save"
         /\ tick'[n].todo = {r \in Robots : new[r] # old[r]}
  BY <1>1, <1>2
<1> new \in StateOf
  OBVIOUS
<1> WITNESS new \in StateOf
<1> QED
  BY <1>1, <1>4, <1>5, <1>6 DEF old

(* A node reads the robots: what rank:robots has is current unless someone *)
(* is saving, and then the node stays behind.                              *)
LEMMA ReadCurrent ==
    ASSUME TypeOK, Current, NEW n \in Nodes, GetRobots(n)
    PROVE  Current'
<1> DEFINE entry == IF Fresh(n) THEN robotsCache[n]
                    ELSE [robots |-> stored, until |-> now + CacheTTL]
<1>1. /\ robotsCache' = [robotsCache EXCEPT ![n] = entry]
      /\ tick[n].pc = "robots"
      /\ UNCHANGED <<board, stored, spawn>>
      /\ behind' = IF Fresh(n) \/ \E m \in Nodes : tick[m].pc = "save"
                   THEN behind ELSE behind \ {n}
  BY DEF GetRobots
<1>2. tick \in [Nodes -> TickState]
      /\ robotsCache \in [Nodes -> [robots : StateOf, until : Nat]]
  BY DEF TypeOK, TickState, TickPc, StateOf
<1>3. /\ \A m \in Nodes \ {n} : tick'[m] = tick[m] /\ robotsCache'[m] = robotsCache[m]
      /\ robotsCache'[n] = entry
      /\ tick'[n].pc # "save"
      /\ tick[n].pc # "save"
  <2>1. EndTick(n) \/ Goto(n, "scores")
    BY DEF GetRobots
  <2> HIDE DEF entry
  <2>2. /\ \A m \in Nodes \ {n} : tick'[m] = tick[m]
        /\ tick'[n].pc # "save"
    BY <2>1, <1>2 DEF EndTick, Goto, IdleTick, TickState
  <2> QED
    BY <2>2, <1>1, <1>2
<1>4. \/ robotsCache'[n].robots = robotsCache[n].robots /\ behind' = behind
      \/ robotsCache'[n].robots = stored
         /\ \/ \E m \in Nodes : Saving(m) /\ behind' = behind
            \/ (\A m \in Nodes : ~Saving(m)) /\ behind' = behind \ {n}
  BY <1>1, <1>3 DEF Saving
<1> HIDE DEF entry
<1>5. \A m \in Nodes : /\ Saving(m)' <=> Saving(m)
                       /\ Saving(m) => m # n
                       /\ tick'[m].todo = tick[m].todo \/ ~Saving(m)
  BY <1>3 DEF Saving
<1>6. SpawnInOrder'
  <2>1. spawn.pc # "done" => Known(robotsCache'[n].robots) = {}
    BY <1>4 DEF Current, SpawnInOrder
  <2>2. \A m \in Nodes \ {n} : spawn.pc # "done" => Known(robotsCache'[m].robots) = {}
    BY <1>3 DEF Current, SpawnInOrder
  <2> QED
    BY <2>1, <2>2, <1>1, <1>5 DEF Current, SpawnInOrder, Known
<1>7. CachesCurrent'
  <2>1. ASSUME NEW r \in Known(robotsCache'[n].robots)
        PROVE  board[r] # None /\ (n \notin behind' => board[r] <= robotsCache'[n].robots[r].score)
    <3>1. CASE robotsCache'[n].robots = robotsCache[n].robots /\ behind' = behind
      BY <2>1, <3>1 DEF Current, CachesCurrent
    <3>2. ASSUME robotsCache'[n].robots = stored, NEW m \in Nodes, Saving(m), behind' = behind
          PROVE  board[r] # None /\ n \in behind'
      BY <2>1, <3>2, <1>5 DEF Current, StoreCurrent, OneSaver
    <3>3. CASE robotsCache'[n].robots = stored /\ \A m \in Nodes : ~Saving(m)
      BY <2>1, <3>3 DEF Current, StoreCurrent
    <3> QED
      BY <1>4, <3>1, <3>2, <3>3
  <2>2. ASSUME NEW m \in Nodes \ {n}, NEW r \in Known(robotsCache'[m].robots)
        PROVE  board[r] # None /\ (m \notin behind' => board[r] <= robotsCache'[m].robots[r].score)
    <3>1. m \notin behind' => m \notin behind
      BY <1>1
    <3>2. robotsCache'[m].robots = robotsCache[m].robots
      BY <1>3
    <3> QED
      BY <3>1, <3>2, <2>2 DEF Current, CachesCurrent
  <2> QED
    BY <2>1, <2>2, <1>1 DEF CachesCurrent, Known
<1>8. StoreCurrent'
  BY <1>1, <1>5 DEF Current, StoreCurrent, Known
<1>9. OneSaver'
  <2> SUFFICES ASSUME NEW m \in Nodes, Saving(m)
               PROVE  /\ m \notin behind'
                      /\ Nodes \ {m} \subseteq behind'
                      /\ tick'[m].todo \subseteq Known(robotsCache'[m].robots)
    BY <1>5 DEF OneSaver, Known
  <2>1. behind' = behind
    BY <1>4
  <2>2. m # n /\ tick'[m].todo = tick[m].todo /\ robotsCache'[m] = robotsCache[m]
    BY <1>3, <1>5
  <2> QED
    BY <2>1, <2>2 DEF Current, OneSaver
<1> QED
  BY <1>6, <1>7, <1>8, <1>9 DEF Current

(* A node that is not behind grows the robots: all others are behind now.  *)
LEMMA GrowthCurrent ==
    ASSUME TypeOK, Current, NEW n \in Nodes, Grow(n), Sound, Sound'
    PROVE  Current'
<1> DEFINE old == robotsCache[n].robots
<1>1. PICK new \in StateOf :
         /\ robotsCache' = [robotsCache EXCEPT ![n].robots = new]
         /\ \A r \in Robots : new[r] = None <=> old[r] = None
         /\ \A r \in Known(old) : /\ old[r] \in State /\ new[r] \in State
                                  /\ new[r].score >= old[r].score
                                  /\ \/ /\ new[r].score = old[r].score
                                        /\ board'[r] = board[r]
                                     \/ board'[r] = new[r].score /\ new[r] # old[r]
         /\ \A r \in Robots \ Known(old) : board'[r] = board[r]
         /\ \/ /\ new = old
               /\ behind' = behind
               /\ tick'[n].pc = "idle"
            \/ /\ new # old
               /\ n \notin behind
               /\ behind' = behind \cup (Nodes \ {n})
               /\ tick'[n].pc = "save"
               /\ tick'[n].todo = {r \in Robots : new[r] # old[r]}
         /\ \A m \in Nodes \ {n} : tick'[m] = tick[m]
  BY SoundGrowth
<1>2. UNCHANGED <<stored, spawn>> /\ tick[n].pc = "grow"
  BY DEF Grow
<1>3. /\ robotsCache \in [Nodes -> [robots : StateOf, until : Nat]]
      /\ board \in [Robots -> Nat \cup {None}]
      /\ old \in StateOf
      /\ \A s \in State : s.score \in Nat
  BY DEF TypeOK, StateOf, State
<1>4. /\ robotsCache'[n].robots = new
      /\ \A m \in Nodes \ {n} : robotsCache'[m] = robotsCache[m]
  BY <1>1, <1>3
<1> HIDE DEF old
<1>5. Known(new) = Known(old) /\ Known(new) \subseteq Robots
  BY <1>1 DEF Known
<1>6. \A r \in Robots : board[r] # None => board'[r] # None
  BY <1>1, <1>3, NoneIsNothing
<1>o. old = robotsCache[n].robots
  BY DEF old
<1>7. CASE new = old
  <2>1. \A r \in Robots : board'[r] = board[r]
    BY <1>1, <1>7
  <2>2. behind' = behind
    BY <1>1, <1>7
  <2>3. \A m \in Nodes : Known(robotsCache'[m].robots) = Known(robotsCache[m].robots)
                         /\ robotsCache'[m].robots = robotsCache[m].robots
    BY <1>4, <1>7, <1>o
  <2>4. \A m \in Nodes : (Saving(m)' <=> Saving(m)) /\ (Saving(m) => tick'[m] = tick[m])
    BY <1>1, <1>2, <1>7 DEF Saving
  <2>5. Known(board)' = Known(board)
    BY <2>1 DEF Known
  <2>6. SpawnInOrder'
    BY <1>2, <2>1, <2>3, <2>4, <2>5 DEF Current, SpawnInOrder, Known
  <2>7. CachesCurrent'
    BY <2>1, <2>2, <2>3 DEF Current, CachesCurrent, Known
  <2>8. StoreCurrent'
    BY <1>2, <2>1, <2>4 DEF Current, StoreCurrent, Known
  <2>9. OneSaver'
    BY <2>2, <2>3, <2>4 DEF Current, OneSaver, Known
  <2> QED
    BY <2>6, <2>7, <2>8, <2>9 DEF Current
<1>8. CASE new # old
  <2>1. /\ n \notin behind
        /\ behind' = behind \cup (Nodes \ {n})
        /\ tick'[n].pc = "save"
        /\ tick'[n].todo = {r \in Robots : new[r] # old[r]}
    BY <1>1, <1>8
  <2>2. \A m \in Nodes : ~Saving(m)
    BY <1>2, <2>1 DEF Current, OneSaver, Saving
  <2>3. \A m \in Nodes \ {n} : ~Saving(m)'
    BY <1>1, <2>2 DEF Saving
  <2>4. Known(old) # {}
    <3>1. ASSUME Known(old) = {} PROVE FALSE
      <4>1. \A r \in Robots : new[r] = old[r]
        BY <3>1, <1>1 DEF Known
      <4> QED
        BY <4>1, <1>1, <1>3, <1>8 DEF StateOf
    <3> QED
      BY <3>1
  <2>5. spawn.pc = "done"
    BY <2>4, <1>o DEF Current, SpawnInOrder
  <2>6. SpawnInOrder'
    BY <1>2, <2>5 DEF SpawnInOrder
  <2>7. \A r \in Known(old) : board[r] # None /\ board[r] <= old[r].score
    BY <2>1, <1>o DEF Current, CachesCurrent
  <2>8. CachesCurrent'
    <3>1. ASSUME NEW r \in Known(new) PROVE board'[r] # None /\ board'[r] <= new[r].score
      <4>1. /\ old[r] \in State /\ new[r] \in State
            /\ new[r].score >= old[r].score
            /\ \/ new[r].score = old[r].score /\ board'[r] = board[r]
               \/ board'[r] = new[r].score
            /\ board[r] # None /\ board[r] <= old[r].score
        BY <1>1, <1>5, <2>7
      <4>2. new[r].score \in Nat
        BY <4>1, <1>3
      <4> QED
        BY <4>1, <4>2, <1>5, <1>6
    <3>2. ASSUME NEW m \in Nodes \ {n}, NEW r \in Known(robotsCache[m].robots)
          PROVE  board'[r] # None /\ m \in behind'
      BY <2>1, <1>6 DEF Current, CachesCurrent, Known
    <3>3. \A m \in Nodes : \A r \in Known(robotsCache'[m].robots) :
             board'[r] # None
             /\ (m \notin behind' => board'[r] <= robotsCache'[m].robots[r].score)
      BY <1>4, <3>1, <3>2
    <3> QED
      BY <3>3 DEF CachesCurrent, Known
  <2>9. StoreCurrent'
    <3>1. ASSUME NEW r \in Known(stored)
          PROVE  board'[r] # None /\ (board'[r] <= stored[r].score \/ r \in tick'[n].todo)
      <4>1. r \in Robots /\ board[r] # None /\ board[r] <= stored[r].score
        BY <2>2 DEF Current, StoreCurrent, Known
      <4>2. r \in tick'[n].todo \/ board'[r] = board[r]
        <5>1. CASE r \in Known(old)
          BY <5>1, <4>1, <2>1, <1>1
        <5>2. CASE r \notin Known(old)
          BY <5>2, <4>1, <1>1
        <5> QED
          BY <5>1, <5>2
      <4> QED
        BY <4>1, <4>2, <1>6
    <3> QED
      BY <3>1, <2>1, <1>2 DEF StoreCurrent, Known, Saving
  <2>10. OneSaver'
    <3>1. tick'[n].todo \subseteq Known(robotsCache'[n].robots)
      BY <2>1, <1>1, <1>4 DEF Known
    <3>2. n \notin behind' /\ Nodes \ {n} \subseteq behind'
      BY <2>1
    <3> QED
      BY <3>1, <3>2, <2>3 DEF OneSaver, Known
  <2> QED
    BY <2>6, <2>8, <2>9, <2>10 DEF Current
<1> QED
  BY <1>7, <1>8

(* The node that is saving, the only one, knows what it saves.             *)
LEMMA SaveCurrent ==
    ASSUME TypeOK, Current, NEW n \in Nodes, SaveGrowth(n), left' = left
    PROVE  Current'
<1>1. /\ stored' = SaveRobots(n)
      /\ tick' = [tick EXCEPT ![n] = IdleTick]
      /\ UNCHANGED <<board, robotsCache, spawn, behind>>
      /\ Saving(n)
  <2>1. ~Fail
    BY RobotConstants DEF Fail, TypeOK
  <2> QED
    BY <2>1 DEF SaveGrowth, EndTick, cacheVars, history, Saving
<1>2. tick \in [Nodes -> TickState] /\ IdleTick.pc = "idle"
  BY DEF TypeOK, TickState, TickPc, IdleTick
<1>3. \A m \in Nodes \ {n} : ~Saving(m)
  BY <1>1 DEF Current, OneSaver
<1>4. \A m \in Nodes : ~Saving(m)'
  BY <1>1, <1>2, <1>3 DEF Saving
<1>5. spawn.pc = "done"
  BY <1>1 DEF Current, SpawnInOrder
<1>6. SpawnInOrder' /\ OneSaver'
  BY <1>1, <1>4, <1>5 DEF SpawnInOrder, OneSaver
<1>7. CachesCurrent'
  BY <1>1 DEF Current, CachesCurrent, Known
<1>8. StoreCurrent'
  <2>1. ASSUME NEW r \in Robots, stored'[r] # None
        PROVE  board[r] # None /\ board[r] <= stored'[r].score
    <3>1. CASE r \in tick[n].todo
      <4>1. r \in Known(robotsCache[n].robots) /\ n \notin behind
        BY <3>1, <1>1 DEF Current, OneSaver
      <4>2. stored'[r] = robotsCache[n].robots[r]
        BY <3>1, <1>1 DEF SaveRobots
      <4> QED
        BY <4>1, <4>2 DEF Current, CachesCurrent
    <3>2. CASE r \notin tick[n].todo
      <4>1. stored'[r] = stored[r]
        BY <3>2, <1>1 DEF SaveRobots
      <4> QED
        BY <4>1, <3>2, <2>1, <1>3 DEF Current, StoreCurrent, Known
    <3> QED
      BY <3>1, <3>2
  <2> QED
    BY <2>1, <1>1 DEF StoreCurrent, Known
<1> QED
  BY <1>6, <1>7, <1>8 DEF Current

(* Robots come to the board, and then to rank:robots.                      *)
LEMMA SpawnCurrent ==
    ASSUME TypeOK, Current, left' = left, SpawnOnBoard \/ SpawnStored
    PROVE  Current'
<1>1. ~Fail /\ spawn \in SpawnState /\ Spawned("done").pc = "done"
      /\ spawn.pc \in {"write", "save"}
  BY RobotConstants DEF Fail, TypeOK, SpawnState, StateOf, Spawned, SpawnOnBoard, SpawnStored
<1>2. /\ Known(stored) = {}
      /\ \A n \in Nodes : Known(robotsCache[n].robots) = {} /\ ~Saving(n)
  BY <1>1 DEF Current, SpawnInOrder
<1>3. /\ \A n \in Nodes : robotsCache'[n].robots = robotsCache[n].robots
      /\ UNCHANGED <<tick, behind>>
  <2>1. robotsCache \in [Nodes -> [robots : StateOf, until : Nat]]
    BY DEF TypeOK, StateOf
  <2> QED
    BY <2>1 DEF SpawnOnBoard, SpawnStored, cacheVars, history
<1>4. CachesCurrent' /\ OneSaver'
  BY <1>2, <1>3 DEF CachesCurrent, OneSaver, Saving, Known
<1>5. CASE SpawnOnBoard
  <2>1. /\ spawn.pc = "write" /\ spawn' = [spawn EXCEPT !.pc = "save"]
        /\ board' = [r \in Robots |-> IF r \in Known(spawn.robots) THEN spawn.robots[r].score
                                                                   ELSE board[r]]
        /\ stored' = stored
    BY <1>1, <1>5 DEF SpawnOnBoard
  <2>2. spawn'.pc = "save" /\ spawn'.robots = spawn.robots
    BY <1>1, <2>1 DEF SpawnState
  <2>3. Known(board) = {}
    BY <2>1 DEF Current, SpawnInOrder
  <2>4. \A r \in Known(spawn.robots) : spawn.robots[r].score \in Nat /\ r \in Robots
    BY <1>1 DEF SpawnState, StateOf, Known, State
  <2>5. \A r \in Robots : /\ r \in Known(spawn.robots) => board'[r] = spawn.robots[r].score
                          /\ r \notin Known(spawn.robots) => board'[r] = None
    BY <2>1, <2>3 DEF Known
  <2>6. \A r \in Known(board') : spawn.robots[r] # None /\ board'[r] <= spawn.robots[r].score
    BY <2>4, <2>5 DEF Known
  <2>7. \A r \in Known(spawn.robots) : board'[r] # None
    BY <2>4, <2>5, NoneIsNothing
  <2>8. SpawnInOrder'
    BY <2>1, <2>2, <2>6, <2>7, <1>2, <1>3 DEF SpawnInOrder, Known, Saving
  <2>9. StoreCurrent'
    BY <2>1, <1>2 DEF StoreCurrent, Known
  <2> QED
    BY <1>4, <2>8, <2>9 DEF Current
<1>6. CASE SpawnStored
  <2>1. /\ spawn.pc = "save" /\ spawn' = Spawned("done")
        /\ stored' = [r \in Robots |-> IF spawn.robots[r] = None THEN stored[r]
                                                                 ELSE spawn.robots[r]]
        /\ board' = board
    BY <1>1, <1>6 DEF SpawnStored
  <2>2. SpawnInOrder'
    BY <2>1, <1>1 DEF SpawnInOrder
  <2>3. ASSUME NEW r \in Robots, stored'[r] # None
        PROVE  board[r] # None /\ board[r] <= stored'[r].score
    <3>1. stored[r] = None
      BY <1>2 DEF Known
    <3>2. stored'[r] = spawn.robots[r] /\ spawn.robots[r] # None
      BY <2>1, <2>3, <3>1
    <3> QED
      BY <3>2, <2>1 DEF Current, SpawnInOrder, Known
  <2>4. StoreCurrent'
    BY <2>1, <2>3 DEF StoreCurrent, Known
  <2> QED
    BY <1>4, <2>2, <2>4 DEF Current
<1> QED
  BY <1>5, <1>6

(* Every step keeps the copies current, as long as nothing has forked.     *)
LEMMA CurrentStep == TypeOK /\ CurrentInv /\ [Next]_vars => CurrentInv'
<1> SUFFICES ASSUME TypeOK, CurrentInv, [Next]_vars PROVE CurrentInv'
  OBVIOUS
<1>1. best' = 0 => spawn'.pc = "none"
  <2> SUFFICES ASSUME best' = 0 PROVE spawn'.pc = "none"
    OBVIOUS
  <2>1. best = 0
    BY BestGrows
  <2>2. spawn.pc = "none"
    BY <2>1 DEF CurrentInv
  <2>3. \A n \in Nodes : ~FirstPlayer(n)
    BY RobotConstants DEF FirstPlayer
  <2>4. spawn' = spawn
    BY <2>2, <2>3 DEF Next, Tick, TakeSecond, GetRobots, GetScores, ReadFails, Grow,
       SaveGrowth, Play, SpawnOnBoard, SpawnStored, Crash, Clock, TheEnd, vars
  <2> QED
    BY <2>2, <2>4
<1>2. ASSUME Sound' PROVE Current'
  <2>1. Sound /\ left' = left /\ \A n \in Nodes : ~Crash(n) /\ ~ReadFails(n)
    BY <1>2, SoundBefore
  <2>2. Current
    BY <2>1 DEF CurrentInv
  <2>3. tick \in [Nodes -> TickState]
    BY DEF TypeOK, TickState, TickPc
  <2>4. ASSUME UNCHANGED <<board, stored, robotsCache, spawn, behind>>,
               \A n \in Nodes : tick'[n] = tick[n] \/ (~Saving(n) /\ ~Saving(n)')
        PROVE  Current'
    <3>1. \A n \in Nodes : (Saving(n)' <=> Saving(n)) /\ (Saving(n) => tick'[n] = tick[n])
      BY <2>4 DEF Saving
    <3>2. SpawnInOrder' /\ CachesCurrent'
      BY <2>2, <2>4, <3>1 DEF Current, SpawnInOrder, CachesCurrent, Known
    <3>3. StoreCurrent' /\ OneSaver'
      BY <2>2, <2>4, <3>1 DEF Current, StoreCurrent, OneSaver, Known
    <3> QED
      BY <3>2, <3>3 DEF Current
  <2>5. ASSUME NEW n \in Nodes, TakeSecond(n) \/ GetScores(n) PROVE Current'
    <3>1. \A m \in Nodes : tick'[m] = tick[m] \/ (~Saving(m) /\ ~Saving(m)')
      <4>1. CASE TakeSecond(n)
        BY <2>3, <4>1 DEF TakeSecond, Saving
      <4>2. CASE GetScores(n)
        BY <2>3, <4>2 DEF GetScores, Goto, Saving, TickState
      <4> QED
        BY <2>5, <4>1, <4>2
    <3>2. UNCHANGED <<board, stored, robotsCache, spawn, behind>>
      BY <2>5 DEF TakeSecond, GetScores, cacheVars, history
    <3> QED
      BY <2>4, <3>1, <3>2
  <2>6. ASSUME NEW n \in Nodes, Tick(n) PROVE Current'
    BY <1>2, <2>1, <2>2, <2>5, <2>6, ReadCurrent, GrowthCurrent, SaveCurrent DEF Tick
  <2>7. ASSUME NEW n \in Nodes, FirstPlayer(n) PROVE Current'
    <3>1. spawn.pc = "none"
      BY <2>7 DEF FirstPlayer, CurrentInv
    <3>2. /\ spawn' = spawn \/ spawn'.pc = "write"
          /\ UNCHANGED <<board, stored, robotsCache, tick, behind>>
      BY <2>7 DEF FirstPlayer, cacheVars, history
    <3>3. SpawnInOrder'
      BY <2>2, <3>1, <3>2 DEF Current, SpawnInOrder, Known, Saving
    <3>4. CachesCurrent' /\ StoreCurrent' /\ OneSaver'
      BY <2>2, <3>2 DEF Current, CachesCurrent, StoreCurrent, OneSaver, Known, Saving
    <3> QED
      BY <3>3, <3>4 DEF Current
  <2>8. ASSUME Play \/ Clock \/ TheEnd \/ UNCHANGED vars PROVE Current'
    <3>1. UNCHANGED <<board, stored, robotsCache, spawn, behind, tick>>
      BY <2>8 DEF Play, Clock, TheEnd, vars, cacheVars, history
    <3>2. \A n \in Nodes : tick'[n] = tick[n] \/ (~Saving(n) /\ ~Saving(n)')
      BY <3>1
    <3> QED
      BY <2>4, <3>1, <3>2
  <2> QED
    BY <2>1, <2>2, <2>6, <2>7, <2>8, SpawnCurrent DEF Next
<1> QED
  BY <1>1, <1>2 DEF CurrentInv

(* The memory of a node may be two seconds old, and then it may grow the   *)
(* robots again from where they were.  That is the only way: as long as no *)
(* write is lost and no node grows what another has grown since, a score   *)
(* on the board never goes back, whoever ticks and whenever the entries    *)
(* run out (engine/service_robot.go:12 and 219).                           *)
THEOREM OnlyForksGoBack == Spec => ScoresGoBackOnlyIfForked
<1>1. Init => CurrentInv
  BY DEF Init, CurrentInv, Current, SpawnInOrder, CachesCurrent, StoreCurrent, OneSaver,
     Saving, Known, NoRobots, Spawned, IdleTick
<1>2. ASSUME TypeOK, CurrentInv, [Next]_vars, NEW r \in Robots,
             board[r] # None, board'[r] < board[r]
      PROVE  forked' \/ left' < MaxFaults
  <2> SUFFICES ASSUME ~forked', ~(left' < MaxFaults) PROVE FALSE
    OBVIOUS
  <2>1. TypeOK'
    BY <1>2, TypeStep
  <2>2. Sound'
    BY <2>1, RobotConstants DEF Sound, TypeOK
  <2>3. Sound /\ left' = left /\ \A n \in Nodes : ~Crash(n) /\ ~ReadFails(n)
    BY <1>2, <2>2, SoundBefore
  <2>4. Current
    BY <1>2, <2>3 DEF CurrentInv
  <2>5. board[r] \in Nat /\ ~(board[r] < board[r])
    BY <1>2 DEF TypeOK
  <2>6. board'[r] # board[r]
    BY <1>2, <2>5
  <2>7. SpawnOnBoard \/ \E n \in Nodes : Grow(n)
    BY <1>2, <2>3, <2>6 DEF Next, Tick, TakeSecond, GetRobots, GetScores, SaveGrowth,
       FirstPlayer, Play, SpawnStored, Clock, TheEnd, vars
  <2>8. ~SpawnOnBoard
    BY <1>2, <2>4 DEF SpawnOnBoard, Current, SpawnInOrder, Known
  <2>9. ASSUME NEW n \in Nodes, Grow(n) PROVE FALSE
    <3> DEFINE old == robotsCache[n].robots
    <3>1. PICK new \in StateOf :
             /\ \A s \in Known(old) : /\ old[s] \in State /\ new[s] \in State
                                      /\ new[s].score >= old[s].score
                                      /\ \/ /\ new[s].score = old[s].score
                                            /\ board'[s] = board[s]
                                         \/ board'[s] = new[s].score /\ new[s] # old[s]
             /\ \A s \in Robots \ Known(old) : board'[s] = board[s]
             /\ new = old \/ n \notin behind
      BY <1>2, <2>2, <2>3, <2>9, SoundGrowth
    <3>2. r \in Known(old)
      BY <2>6, <3>1
    <3>3. board'[r] = new[r].score /\ new # old
      BY <2>6, <3>1, <3>2
    <3>4. board[r] <= old[r].score
      BY <2>4, <3>1, <3>2, <3>3 DEF Current, CachesCurrent
    <3>5. old[r].score \in Nat /\ new[r].score \in Nat /\ new[r].score >= old[r].score
      BY <3>1, <3>2 DEF State
    <3> QED
      BY <1>2, <2>5, <3>3, <3>4, <3>5
  <2> QED
    BY <2>7, <2>8, <2>9
<1>3. TypeOK /\ CurrentInv /\ [Next]_vars =>
        [\A r \in Robots : board[r] # None /\ board'[r] < board[r]
                             => forked' \/ left' < MaxFaults]_vars
  BY <1>2
<1> QED
  BY <1>1, <1>3, TypeCorrect, CurrentStep, PTL DEF Spec, ScoresGoBackOnlyIfForked
=============================================================================
