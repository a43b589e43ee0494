------------------------- MODULE PeriodicRoundsProofs -------------------------
(***************************************************************************)
(* Proofs about PeriodicRounds, for any number of nodes, any length of the *)
(* activity and of a cycle, any times of registration, any life of the     *)
(* advance lock, and any number of crashes, stops, lost saves, failed      *)
(* settlements and scores - and however long ticks, syncs and saves take,  *)
(* and in whatever order they come.                                        *)
(*                                                                         *)
(* Two things are excluded: an edit of the cycle (OneCycle), after which a *)
(* round has no window that all nodes would compute, and a recovery from   *)
(* Redis alone (NoOutage), which takes the window from older metadata.     *)
(*                                                                         *)
(* The second half needs more.  That one node advances at a time, that     *)
(* only closed rounds are settled and that rounds never go back holds when *)
(* ticks, syncs and saves take less than a unit of time, the lock lives    *)
(* for two, and no save is lost; that no round with a score is skipped, if *)
(* besides no node crashes.                                                *)
(***************************************************************************)
EXTENDS PeriodicRounds, FiniteSetTheorems, SequenceTheorems, TLAPS

OneCycle == Cycles = {FirstCycle}
NoOutage == Budget["outage"] = 0

(* The windows as they would be on one grid, which every node computes in  *)
(* its own way.                                                            *)
Begin(r) == TotalOpen + (r - 1) * FirstCycle
Grid(r) == CutWindow(Begin(r), FirstCycle)
Proper == {r \in Nat \ {0} : Begin(r) < TotalClose}

(* The state of a round, the state in the middle of an advance (the window *)
(* first), and the service of a round.                                     *)
Between(r, k) == [cycle |-> FirstCycle, base |-> FirstCycle, cur |-> r,
                  open |-> Grid(k).open, close |-> Grid(k).close]
RoundState(r) == Between(r, r)
GridService(r) == ServiceFor(r, Grid(r))

(* A round is entered when it has begun; the first one is registered       *)
(* before.                                                                 *)
BegunAt(r, t) == r = 1 \/ Begin(r) <= t
Begun == {r \in Proper : BegunAt(r, now)}

RoundStates == {RoundState(r) : r \in Begun}
GridServices == {GridService(r) : r \in Begun}

(* What is saved, served and sent is of the grid.                          *)
SavedOnGrid ==
    /\ doc \in RoundStates
    /\ queue \in [Nodes -> Seq(RoundStates)]
    /\ redisCur \in Begun
ServedOnGrid ==
    /\ served \subseteq GridServices
    /\ svc \in [Nodes -> GridServices \cup {None}]
    /\ \A n \in Nodes : svc[n] # None => svc[n] \in served

(* A sync has read a state of the grid.                                    *)
SyncAt(n) ==
    /\ sync[n].pc # "redis"
    /\ sync[n].pc # "idle" => sync[n].doc \in RoundStates
    /\ state[n] = None => svc[n] = None /\ sync[n].pc # "service"
SyncOnGrid == \A n \in Nodes : SyncAt(n)

(* The steps of an advance: the round is over, the next one has begun, and *)
(* the window is written before the number.                                *)
TickAt(n) ==
    \/ tick[n] = TickIdle
    \/ /\ tick[n].pc \in {"lock", "settle"}
       /\ tick[n].pc = "settle" => tick[n].svc # None
       /\ tick[n].p \in RoundStates
       /\ tick[n].t <= now /\ tick[n].t >= tick[n].p.close
    \/ /\ tick[n].pc \in {"replace", "window"}
       /\ tick[n].p \in RoundStates
       /\ tick[n].next \in Begun /\ tick[n].next > tick[n].p.cur
    \/ /\ tick[n].pc = "number"
       /\ tick[n].next \in Begun
       /\ \E r \in Begun : r < tick[n].next /\ tick[n].p = Between(r, tick[n].next)
    \/ /\ tick[n].pc = "publish"
       /\ tick[n].next \in Begun /\ tick[n].p = RoundState(tick[n].next)
TickOnGrid == \A n \in Nodes : TickAt(n)

(* A node's state is the one its tick writes into, or one of the grid, and *)
(* there is one during an advance.                                         *)
StateAt(n) ==
    /\ IF tick[n].live THEN tick[n].pc # "idle" /\ state[n] = tick[n].p
                       ELSE state[n] \in RoundStates \cup {None}
    /\ tick[n].pc # "idle" => state[n] # None
StateOnGrid == \A n \in Nodes : StateAt(n)

(* A score goes to a round that has begun when it was sent.                *)
ScoreOnGrid ==
    /\ rpc # None => rpc.ts <= now /\ BegunAt(rpc.round, rpc.ts)
    /\ ScoresNeverFiledBack

GridInv ==
    /\ left["outage"] = 0
    /\ SavedOnGrid /\ ServedOnGrid /\ SyncOnGrid /\ TickOnGrid /\ StateOnGrid /\ ScoreOnGrid

-----------------------------------------------------------------------------
(* Windows *)

(* The numbers among the constants.                                        *)
LEMMA Numbers ==
    /\ TotalOpen \in Nat \ {0} /\ TotalClose \in Nat /\ TotalOpen < TotalClose
    /\ FirstCycle \in Nat \ {0} /\ Horizon \in Nat /\ LockTTL \in Nat
    /\ RegisterAt \subseteq 0..Horizon /\ FirstCycle \in Cycles /\ Cycles \subseteq Nat \ {0}
BY PeriodicConstants, ActivitySpan

(* A factor is no greater than its product with a positive one, ...        *)
LEMMA Products ==
    ASSUME NEW a \in Nat, NEW c \in Nat \ {0} PROVE a * c \in Nat /\ a * c >= a
<1>1. a * c = a * (c - 1) + a
  OBVIOUS
<1>2. a * (c - 1) \in Nat
  OBVIOUS
<1> QED
  BY <1>1, <1>2

(* ... and the greater of two factors has the greater product.             *)
LEMMA MoreProducts ==
    ASSUME NEW a \in Nat, NEW b \in Nat, NEW c \in Nat \ {0}, a < b
    PROVE  a * c + c <= b * c
<1>1. (b - a - 1) * c \in Nat
  BY Products
<1>2. b * c = (b - a - 1) * c + (a * c + c)
  OBVIOUS
<1>3. a * c \in Nat /\ b * c \in Nat
  BY Products
<1> QED
  BY <1>1, <1>2, <1>3

(* The rounds of the grid follow one another, a cycle apart.               *)
LEMMA BeginOrder ==
    ASSUME NEW r \in Nat \ {0}
    PROVE  /\ Begin(r) \in Nat \ {0} /\ Begin(r) >= TotalOpen + (r - 1)
           /\ Begin(r + 1) = Begin(r) + FirstCycle
           /\ \A k \in Nat : r < k => Begin(r) + FirstCycle <= Begin(k)
<1>1. (r - 1) * FirstCycle \in Nat /\ (r - 1) * FirstCycle >= r - 1
  BY Numbers, Products
<1>2. ((r + 1) - 1) * FirstCycle = (r - 1) * FirstCycle + FirstCycle
  BY Numbers
<1>3. ASSUME NEW k \in Nat, r < k PROVE (r - 1) * FirstCycle + FirstCycle <= (k - 1) * FirstCycle
  BY <1>3, Numbers, MoreProducts
<1>4. ASSUME NEW k \in Nat, r < k PROVE (k - 1) * FirstCycle \in Nat
  BY <1>4, Numbers, Products
<1> QED
  BY <1>1, <1>2, <1>3, <1>4, Numbers DEF Begin

(* The rounds of the activity are among Rounds.                            *)
LEMMA ProperRounds ==
    ASSUME OneCycle PROVE Proper \subseteq Rounds /\ MaxRounds \in Nat
<1>1. Cardinality(Cycles) = 1
  BY FS_Singleton DEF OneCycle
<1>2. MaxRounds \in Nat /\ MaxRounds >= TotalClose - TotalOpen
  BY <1>1, Numbers DEF MaxRounds
<1>3. ASSUME NEW r \in Proper PROVE r \in Rounds
  BY <1>2, BeginOrder, Numbers DEF Proper, Rounds
<1> QED
  BY <1>2, <1>3

(* A window of the grid.                                                   *)
LEMMA GridWindow ==
    ASSUME NEW r \in Proper
    PROVE  /\ Grid(r) = [open |-> Grid(r).open, close |-> Grid(r).close]
           /\ Grid(r).open = Begin(r) /\ Grid(r).close \in Nat
           /\ Grid(r).open < Grid(r).close
           /\ Grid(r).close <= Begin(r + 1) /\ Grid(r).close <= TotalClose
           /\ Begin(r + 1) <= TotalClose => Grid(r).close = Begin(r + 1)
           /\ TotalClose <= Begin(r + 1) => Grid(r).close = TotalClose
           /\ r \in Nat \ {0}
<1>1. Begin(r) \in Nat \ {0} /\ Begin(r + 1) = Begin(r) + FirstCycle /\ Begin(r) < TotalClose
  BY BeginOrder DEF Proper
<1> QED
  BY <1>1, Numbers DEF Proper, Grid, CutWindow

(* From whatever state a node computes the window of a later round: where  *)
(* it lies in the activity, it is that of the grid (computeRoundWindow).   *)
LEMMA LaterWindow ==
    ASSUME NEW r \in Proper, NEW k \in Nat, r < k
    PROVE  LET w == Window(RoundState(r), k)
           IN  /\ w.open \in Nat
               /\ w.open < TotalClose => k \in Proper
               /\ k \in Proper => w = Grid(k)
<1>1. /\ Begin(r) \in Nat \ {0} /\ Begin(r + 1) = Begin(r) + FirstCycle
      /\ Begin(r + 1) <= Begin(k) /\ Begin(k) \in Nat \ {0}
      /\ r \in Nat \ {0} /\ k \in Nat \ {0} /\ FirstCycle \in Nat \ {0}
  <2>1. r \in Nat \ {0} /\ k \in Nat \ {0}
    BY DEF Proper
  <2>2. /\ Begin(r) \in Nat \ {0} /\ Begin(r + 1) = Begin(r) + FirstCycle
        /\ Begin(r) + FirstCycle <= Begin(k)
    BY <2>1, BeginOrder
  <2>3. Begin(k) \in Nat \ {0}
    BY <2>1, BeginOrder
  <2> QED
    BY <2>1, <2>2, <2>3, Numbers
<1>2. /\ RoundState(r).cur = r /\ RoundState(r).cycle = FirstCycle
      /\ RoundState(r).close = Grid(r).close /\ Grid(r).close \in Nat \ {0}
  BY GridWindow, <1>1 DEF RoundState, Between
<1>3. Window(RoundState(r), k)
        = CutWindow(Grid(r).close + (k - r - 1) * FirstCycle, FirstCycle)
  BY <1>1, <1>2 DEF Window
<1>4. (k - r - 1) * FirstCycle \in Nat
  BY <1>1, Products
<1>5. Begin(k) = Begin(r + 1) + (k - r - 1) * FirstCycle
  BY <1>1, Numbers DEF Begin
<1>6. CASE Begin(r + 1) <= TotalClose
  <2>1. Window(RoundState(r), k) = Grid(k)
    BY <1>3, <1>5, <1>6, GridWindow DEF Grid
  <2>2. Grid(k).open = Begin(k)
    BY DEF Grid, CutWindow
  <2> QED
    BY <2>1, <2>2, <1>1 DEF Proper
<1>7. CASE Begin(r + 1) > TotalClose
  <2>1. Grid(r).close = TotalClose
    BY <1>1, <1>7, GridWindow, Numbers
  <2>2. Window(RoundState(r), k).open = TotalClose + (k - r - 1) * FirstCycle
    BY <1>3, <2>1 DEF CutWindow
  <2> QED
    BY <2>2, <1>1, <1>4, <1>7, Numbers DEF Proper
<1> QED
  BY <1>1, <1>6, <1>7, Numbers

(* The windows of earlier rounds, and of the round itself.                 *)
LEMMA EarlierWindow ==
    ASSUME NEW r \in Proper, NEW j \in Proper, NEW k \in Proper, k < r
    PROVE  Window(Between(r, j), k) = Grid(k)
<1>1. r \in Nat /\ k \in Nat
  BY DEF Proper
<1> QED
  BY <1>1 DEF Window, Between, Grid, Begin

(* The round of the clock has begun (computeRoundAt), ...                  *)
LEMMA ClockRound ==
    ASSUME NEW t \in Nat
    PROVE  /\ RoundAt(FirstCycle, t) \in Proper
           /\ BegunAt(RoundAt(FirstCycle, t), t)
<1> DEFINE d == (t - TotalOpen) \div FirstCycle
           top == (TotalClose - TotalOpen - 1) \div FirstCycle
<1>n. /\ FirstCycle \in Nat \ {0} /\ TotalOpen \in Nat \ {0} /\ TotalClose \in Nat
      /\ TotalOpen < TotalClose
  BY Numbers
<1>1. ASSUME NEW a \in Nat
      PROVE  /\ a \div FirstCycle \in Nat
             /\ (a \div FirstCycle) * FirstCycle <= a
  BY <1>n
<1>2. top \in Nat /\ top * FirstCycle <= TotalClose - TotalOpen - 1
  BY <1>1, <1>n
<1>3. MaxRound(FirstCycle) = top + 1 /\ top + 1 \in Proper
  <2>1. MaxRound(FirstCycle) = top + 1
    BY DEF MaxRound
  <2>2. ((top + 1) - 1) * FirstCycle = top * FirstCycle
    BY <1>2, <1>n
  <2>3. top * FirstCycle \in Nat
    BY <1>2, <1>n, Products
  <2> HIDE DEF top
  <2>4. TotalOpen + ((top + 1) - 1) * FirstCycle < TotalClose
    BY <1>2, <1>n, <2>2, <2>3
  <2> QED
    BY <2>1, <2>4, <1>2 DEF Proper, Begin
<1> HIDE DEF top
<1>4. CASE t <= TotalOpen
  <2>1. Begin(1) = TotalOpen
    BY <1>n DEF Begin
  <2> QED
    BY <1>4, <2>1, <1>n DEF RoundAt, Proper, BegunAt
<1>5. CASE t > TotalOpen
  <2>1. d \in Nat /\ d * FirstCycle <= t - TotalOpen
    BY <1>1, <1>5, <1>n
  <2>2. RoundAt(FirstCycle, t) = IF d + 1 > top + 1 THEN top + 1 ELSE d + 1
    BY <1>3, <1>5, <1>n DEF RoundAt
  <2> HIDE DEF d
  <2>3. Begin(d + 1) <= t /\ Begin(d + 1) \in Nat
    <3>1. ((d + 1) - 1) * FirstCycle = d * FirstCycle /\ d * FirstCycle \in Nat
      BY <2>1, <1>n, Products
    <3> QED
      BY <3>1, <2>1, <1>n DEF Begin
  <2>4. Begin(top + 1) \in Nat /\ Begin(top + 1) < TotalClose
    BY <1>2, <1>3, BeginOrder DEF Proper
  <2>5. CASE d > top
    <3>1. Begin(top + 1) <= Begin(d + 1)
      BY <2>1, <2>5, <1>2, BeginOrder, <2>3, <2>4, <1>n
    <3> QED
      BY <2>2, <2>3, <2>4, <2>5, <3>1, <1>2, <1>3, <2>1 DEF BegunAt
  <2>6. CASE d <= top
    <3>1. Begin(d + 1) <= Begin(top + 1)
      <4>1. CASE d = top
        BY <4>1, <2>3
      <4>2. CASE d < top
        BY <4>2, <2>1, <1>2, BeginOrder, <2>3, <2>4, <1>n
      <4> QED
        BY <4>1, <4>2, <2>6, <2>1, <1>2
    <3>2. d + 1 \in Proper
      BY <3>1, <2>1, <2>3, <2>4, <1>n DEF Proper
    <3> QED
      BY <2>2, <2>3, <2>6, <3>2, <1>2, <2>1 DEF BegunAt
  <2> QED
    BY <2>5, <2>6, <2>1, <1>2
<1> QED
  BY <1>4, <1>5, <1>n

(* ... and so has the round that an advance goes to, when the present one  *)
(* is over (nextAdvanceRound).                                             *)
LEMMA NextHasBegun ==
    ASSUME NEW r \in Proper, NEW t \in Nat, t >= Grid(r).close,
           Window(RoundState(r), NextAdvanceRound(RoundState(r), t)).open < TotalClose
    PROVE  LET next == NextAdvanceRound(RoundState(r), t)
           IN  /\ next \in Proper /\ next > r /\ BegunAt(next, t)
               /\ Window(RoundState(r), next) = Grid(next)
<1> DEFINE at == RoundAt(FirstCycle, t)
           next == NextAdvanceRound(RoundState(r), t)
<1>1. next = IF at <= r THEN r + 1 ELSE at
  BY DEF NextAdvanceRound, RoundState, Between
<1>2. at \in Proper /\ BegunAt(at, t) /\ r \in Nat \ {0} /\ at \in Nat \ {0}
  BY ClockRound DEF Proper
<1>3. next \in Nat /\ next > r
  BY <1>1, <1>2
<1> HIDE DEF next
<1>4. next \in Proper /\ Window(RoundState(r), next) = Grid(next)
  BY <1>3, LaterWindow DEF next
<1>5. BegunAt(next, t)
  <2>1. CASE next = at
    BY <2>1, <1>2
  <2>2. CASE next = r + 1
    <3>1. Begin(r + 1) < TotalClose
      BY <1>4, <2>2 DEF Proper
    <3>2. Grid(r).close = Begin(r + 1) /\ Begin(r + 1) \in Nat
      BY <3>1, <1>2, GridWindow, BeginOrder, Numbers
    <3> QED
      BY <3>2, <2>2 DEF BegunAt
  <2> QED
    BY <1>1, <2>1, <2>2
<1> QED
  BY <1>3, <1>4, <1>5 DEF next

-----------------------------------------------------------------------------
(* What is on the grid *)

(* The states of the grid are states of the leaderboard, with the services *)
(* of the grid.                                                            *)
LEMMA StateFacts ==
    ASSUME OneCycle, NEW p \in RoundStates
    PROVE  /\ p.cur \in Begun /\ p.cur \in Proper /\ p.cur \in Rounds
           /\ p = RoundState(p.cur) /\ p \in PeriodicState /\ p # None
           /\ p.cycle = FirstCycle
           /\ p.open = Grid(p.cur).open /\ p.close = Grid(p.cur).close
           /\ CurrentService(p) = GridService(p.cur)
           /\ CurrentService(p) \in GridServices
<1>1. PICK r \in Begun : p = RoundState(r)
  BY DEF RoundStates
<1>2. p.cur = r /\ r \in Proper /\ r \in Rounds
  BY <1>1, ProperRounds DEF RoundState, Between, Begun
<1>3. p \in PeriodicState
  BY <1>1, <1>2, GridWindow, BeginOrder, Numbers
  DEF RoundState, Between, PeriodicState, Proper
<1> QED
  BY <1>1, <1>2, <1>3, NoneIsNothing
  DEF RoundState, Between, CurrentService, GridService, ServiceFor, GridServices

(* The state in the middle of an advance is one too.                       *)
LEMMA BetweenFacts ==
    ASSUME OneCycle, NEW r \in Begun, NEW k \in Begun
    PROVE  /\ Between(r, k) \in PeriodicState /\ Between(r, k) # None
           /\ r \in Rounds /\ Between(r, k).cur = r
<1>1. r \in Proper /\ k \in Proper /\ r \in Rounds
  BY ProperRounds DEF Begun
<1>2. Between(r, k) \in PeriodicState
  BY <1>1, GridWindow, BeginOrder, Numbers DEF Between, PeriodicState, Proper
<1> QED
  BY <1>1, <1>2, NoneIsNothing DEF Between

(* The services of the grid.                                               *)
LEMMA ServiceFacts ==
    ASSUME OneCycle, NEW s \in GridServices
    PROVE  /\ s.round \in Begun /\ s.round \in Proper /\ s.round \in Rounds
           /\ s = GridService(s.round) /\ s \in Service /\ s # None
           /\ s.open = Grid(s.round).open /\ s.close = Grid(s.round).close
<1>1. PICK r \in Begun : s = GridService(r)
  BY DEF GridServices
<1>2. s.round = r /\ r \in Proper /\ r \in Rounds
  BY <1>1, ProperRounds DEF GridService, ServiceFor, Begun
<1>3. s \in Service
  BY <1>1, <1>2, GridWindow, BeginOrder, Numbers DEF GridService, ServiceFor, Service, Proper
<1> QED
  BY <1>1, <1>2, <1>3, NoneIsNothing DEF GridService, ServiceFor

(* As the clock goes on, more rounds have begun.                           *)
LEMMA Growing ==
    ASSUME now \in Nat, now' \in Nat, now' >= now
    PROVE  /\ Begun \subseteq Begun' /\ RoundStates \subseteq RoundStates'
           /\ GridServices \subseteq GridServices'
<1>1. Begun \subseteq Begun'
  <2> SUFFICES ASSUME NEW r \in Begun PROVE r \in Begun'
    OBVIOUS
  <2>1. r \in Nat \ {0} /\ Begin(r) \in Nat
    BY BeginOrder DEF Begun, Proper
  <2> QED
    BY <2>1 DEF Begun, BegunAt
<1> QED
  BY <1>1 DEF RoundStates, GridServices

(* What does not change stays on the grid.                                 *)
LEMMA Unmoved ==
    ASSUME now \in Nat, now' \in Nat, now' >= now,
           NEW n \in Nodes, tick'[n] = tick[n]
    PROVE  /\ tick[n].t \in Nat /\ TickAt(n) => TickAt(n)'
           /\ StateAt(n) /\ state'[n] = state[n] => StateAt(n)'
<1>1. /\ Begun \subseteq Begun' /\ RoundStates \subseteq RoundStates'
      /\ GridServices \subseteq GridServices'
  BY Growing
<1>2. ASSUME tick[n].t \in Nat, TickAt(n) PROVE TickAt(n)'
  BY <1>1, <1>2 DEF TickAt
<1>3. ASSUME StateAt(n), state'[n] = state[n] PROVE StateAt(n)'
  BY <1>1, <1>3 DEF StateAt
<1> QED
  BY <1>2, <1>3

-----------------------------------------------------------------------------
(* The invariant *)

IInv == TypeOK /\ GridInv

(* Whenever the leaderboard is registered, its state is of the grid        *)
(* (newPeriodicState).                                                     *)
LEMMA FirstState ==
    ASSUME NEW t \in Nat
    PROVE  LET p == NewState(FirstCycle, t)
           IN  p.cur \in Proper /\ BegunAt(p.cur, t) /\ p = RoundState(p.cur)
<1> DEFINE r == RoundAt(FirstCycle, t)
           blank == [cycle |-> FirstCycle, base |-> FirstCycle, cur |-> r,
                     open |-> 0, close |-> 0]
<1>1. r \in Proper /\ BegunAt(r, t)
  BY ClockRound
<1>2. NewState(FirstCycle, t) = [blank EXCEPT !.open = Window(blank, r).open,
                                              !.close = Window(blank, r).close]
  BY DEF NewState, WithWindowOf
<1> HIDE DEF r
<1>3. r \in Nat \ {0}
  BY <1>1 DEF Proper
<1>4. Window(blank, r) = Grid(r)
  BY <1>3 DEF Window, Grid, Begin
<1>5. NewState(FirstCycle, t) = RoundState(r)
  BY <1>2, <1>4 DEF RoundState, Between
<1> QED
  BY <1>1, <1>5 DEF RoundState, Between

(* At the start. *)
LEMMA InitGrid ==
    ASSUME OneCycle, NoOutage, Init PROVE IInv
<1>1. PICK t \in RegisterAt :
         LET p == NewState(FirstCycle, t)
         IN  /\ now = t
             /\ state = [n \in Nodes |-> p]
             /\ svc = [n \in Nodes |-> CurrentService(p)]
             /\ served = {CurrentService(p)}
             /\ redisCur = p.cur
             /\ redisMeta = Meta(p)
             /\ doc = p
  BY DEF Init
<1> DEFINE p == NewState(FirstCycle, t)
<1>2. now = t /\ now \in 0..Horizon /\ now \in Nat
  BY <1>1, Numbers
<1>3. p \in RoundStates
  BY <1>2, FirstState DEF RoundStates, Begun
<1> HIDE DEF p
<1>4. /\ p.cur \in Begun /\ p.cur \in Rounds /\ p \in PeriodicState /\ p # None
      /\ CurrentService(p) \in GridServices
  BY <1>3, StateFacts
<1>5. CurrentService(p) \in Service /\ CurrentService(p) # None
  BY <1>4, ServiceFacts
<1>6. /\ state = [n \in Nodes |-> p] /\ svc = [n \in Nodes |-> CurrentService(p)]
      /\ served = {CurrentService(p)} /\ redisCur = p.cur /\ redisMeta = Meta(p)
      /\ doc = p
  BY <1>1 DEF p
<1>7. TypeOK
  <2>1. redisMeta \in [cycle : Nat, base : Nat, open : Nat, close : Nat]
    BY <1>4, <1>6 DEF Meta, PeriodicState
  <2>2. /\ tick \in [Nodes -> [pc : {"idle", "lock", "settle", "replace",
                                 "window", "number", "publish"},
                           p : PeriodicState \cup {None}, live : BOOLEAN,
                           svc : Service \cup {None}, t : Nat, next : Nat]]
        /\ sync \in [Nodes -> [pc : {"idle", "decide", "state", "service", "redis"},
                           doc : PeriodicState \cup {None},
                           old : Service \cup {None}]]
    BY DEF Init, TickIdle, SyncIdle
  <2>3. left \in [Kinds -> Nat] /\ queue \in [Nodes -> Seq(PeriodicState)]
    BY PeriodicConstants DEF Init
  <2> QED
    BY <1>2, <1>4, <1>5, <1>6, <2>1, <2>2, <2>3, Numbers DEF TypeOK, Init
<1>8. GridInv
  <2>1. SavedOnGrid
    BY <1>3, <1>4, <1>6 DEF SavedOnGrid, Init
  <2>2. ServedOnGrid
    BY <1>4, <1>6 DEF ServedOnGrid
  <2>3. SyncOnGrid /\ TickOnGrid /\ StateOnGrid
    BY <1>3, <1>4, <1>6
    DEF SyncOnGrid, SyncAt, TickOnGrid, TickAt, StateOnGrid, StateAt, Init,
        TickIdle, SyncIdle
  <2>4. ScoreOnGrid
    BY DEF ScoreOnGrid, ScoresNeverFiledBack, Init
  <2> QED
    BY <2>1, <2>2, <2>3, <2>4 DEF GridInv, Init, NoOutage
<1> QED
  BY <1>7, <1>8 DEF IInv

(* What an action leaves alone stays on the grid.                          *)
LEMMA Kept ==
    ASSUME IInv, now' \in Nat, now' >= now
    PROVE  /\ UNCHANGED <<doc, queue, redisCur>> => SavedOnGrid'
           /\ UNCHANGED <<svc, served>> => ServedOnGrid'
           /\ UNCHANGED <<sync, svc, state>> => SyncOnGrid'
           /\ UNCHANGED tick => TickOnGrid'
           /\ UNCHANGED <<tick, state>> => StateOnGrid'
           /\ UNCHANGED <<rpc, filed>> => ScoreOnGrid'
<1>1. /\ Begun \subseteq Begun' /\ RoundStates \subseteq RoundStates'
      /\ GridServices \subseteq GridServices'
  BY Growing DEF IInv, TypeOK
<1>2. GridInv /\ now \in Nat
  BY DEF IInv, TypeOK
<1>3. ASSUME UNCHANGED <<doc, queue, redisCur>> PROVE SavedOnGrid'
  BY <1>1, <1>2, <1>3 DEF GridInv, SavedOnGrid
<1>4. ASSUME UNCHANGED <<svc, served>> PROVE ServedOnGrid'
  BY <1>1, <1>2, <1>4 DEF GridInv, ServedOnGrid
<1>5. ASSUME UNCHANGED <<sync, svc, state>> PROVE SyncOnGrid'
  BY <1>1, <1>2, <1>5 DEF GridInv, SyncOnGrid, SyncAt
<1>6. ASSUME UNCHANGED tick PROVE TickOnGrid'
  BY <1>2, <1>6, Unmoved DEF GridInv, TickOnGrid, IInv, TypeOK
<1>7. ASSUME UNCHANGED <<tick, state>> PROVE StateOnGrid'
  BY <1>2, <1>7, Unmoved DEF GridInv, StateOnGrid, IInv, TypeOK
<1>8. ASSUME UNCHANGED <<rpc, filed>> PROVE ScoreOnGrid'
  <2>1. rpc # None => rpc.ts \in Nat
    BY DEF IInv, TypeOK
  <2> QED
    BY <1>2, <1>8, <2>1 DEF GridInv, ScoreOnGrid, ScoresNeverFiledBack, BegunAt
<1> QED
  BY <1>3, <1>4, <1>5, <1>6, <1>7, <1>8

(* A node's tick goroutine moves, the others' do not.                      *)
LEMMA TickMoves ==
    ASSUME IInv, now' = now, NEW n \in Nodes,
           \A m \in Nodes \ {n} : tick'[m] = tick[m] /\ state'[m] = state[m],
           TickAt(n)', StateAt(n)'
    PROVE  TickOnGrid' /\ StateOnGrid'
<1>1. ASSUME NEW m \in Nodes \ {n} PROVE TickAt(m)' /\ StateAt(m)'
  BY <1>1, Unmoved DEF IInv, TypeOK, GridInv, TickOnGrid, StateOnGrid
<1> QED
  BY <1>1 DEF TickOnGrid, StateOnGrid

(* Settling changes no more than the set of settled rounds and the budget. *)
LEMMA Settles ==
    ASSUME TypeOK, NEW s \in Service, Settle(s)
    PROVE  /\ settled' \subseteq Rounds /\ left' \in [Kinds -> Nat]
           /\ left'["outage"] = left["outage"] /\ left'["lose"] = left["lose"]
           /\ left'["crash"] = left["crash"]
           /\ settled' \subseteq settled \cup {s.round}
<1>1. /\ {"error", "outage", "lose", "crash"} \subseteq Kinds /\ left \in [Kinds -> Nat]
      /\ settled \subseteq Rounds /\ s.round \in Rounds
  BY PeriodicConstants DEF TypeOK, Service
<1> QED
  BY <1>1 DEF Settle, EitherWay, Spend

(* The tick goroutine as TypeOK has it.                                    *)
TickType == [pc : {"idle", "lock", "settle", "replace", "window", "number", "publish"},
             p : PeriodicState \cup {None}, live : BOOLEAN,
             svc : Service \cup {None}, t : Nat, next : Nat]

(* A tick begins. *)
LEMMA BeginTickGrid ==
    ASSUME OneCycle, IInv, NEW n \in Nodes, BeginTick(n) PROVE IInv'
<1>1. /\ tick[n].pc = "idle" /\ svc[n] # None
      /\ svc[n] \in GridServices /\ svc[n] \in Service
      /\ tick[n] = TickIdle /\ TickIdle.live = FALSE
      /\ state[n] \in RoundStates
      /\ now \in Nat /\ now' = now
  <2>1. TickAt(n) /\ tick[n].pc = "idle" /\ svc[n] # None /\ svc[n] \in GridServices
    BY DEF BeginTick, Started, IInv, GridInv, TickOnGrid, ServedOnGrid
  <2>2. tick[n] = TickIdle
    BY <2>1 DEF TickAt
  <2>3. state[n] \in RoundStates
    BY <2>1, <2>2 DEF IInv, GridInv, StateOnGrid, StateAt, TickIdle, SyncOnGrid, SyncAt
  <2> QED
    BY <2>1, <2>2, <2>3, ServiceFacts DEF BeginTick, clockVars, IInv, TypeOK, TickIdle
<1>2. state[n] \in PeriodicState /\ state[n] # None
  BY <1>1, StateFacts
<1>3. /\ settled' \subseteq Rounds /\ left' \in [Kinds -> Nat]
      /\ left'["outage"] = left["outage"]
  BY <1>1, Settles DEF BeginTick, SettleIfOver, IInv, TypeOK
<1> DEFINE new == [TickIdle EXCEPT !.pc = "lock", !.p = state[n], !.live = TRUE,
                                   !.t = now]
<1>4. \/ tick' = tick
      \/ Expired(state[n], now) /\ tick' = [tick EXCEPT ![n] = new]
  BY DEF BeginTick
<1>5. /\ new.pc = "lock" /\ new.p = state[n] /\ new.live /\ new.t = now
      /\ new \in TickType
  BY <1>1, <1>2 DEF TickIdle, TickType
<1> HIDE DEF new
<1>6. TypeOK'
  <2>1. tick' \in [Nodes -> TickType]
    BY <1>4, <1>5 DEF IInv, TypeOK, TickType
  <2>2. timely' \in [ticked : SUBSET Nodes, synced : SUBSET Nodes]
    BY DEF BeginTick, Ticked, IInv, TypeOK
  <2> QED
    BY <1>3, <2>1, <2>2 DEF IInv, TypeOK, BeginTick, clockVars, redisVars, TickType
<1>7. TickOnGrid' /\ StateOnGrid'
  <2>1. CASE tick' = tick
    BY <2>1, <1>1, Kept DEF BeginTick
  <2>2. CASE Expired(state[n], now) /\ tick' = [tick EXCEPT ![n] = new]
    <3>1. tick'[n] = new /\ \A m \in Nodes \ {n} : tick'[m] = tick[m]
      BY <2>2 DEF IInv, TypeOK
    <3>2. RoundStates' = RoundStates
      BY <1>1 DEF RoundStates, Begun, BegunAt
    <3>3. TickAt(n)' /\ StateAt(n)'
      BY <3>1, <3>2, <2>2, <1>1, <1>2, <1>5 DEF TickAt, StateAt, Expired, BeginTick
    <3> QED
      BY <3>1, <3>3, <1>1, TickMoves DEF BeginTick
  <2> QED
    BY <1>4, <2>1, <2>2
<1>8. GridInv'
  BY <1>1, <1>3, <1>7, Kept DEF BeginTick, redisVars, IInv, GridInv
<1> QED
  BY <1>6, <1>8 DEF IInv

(* An advance is given up, or takes its next step.                         *)
LEMMA Idle == TickIdle \in TickType /\ TickIdle.live = FALSE /\ TickIdle.pc = "idle"
BY DEF TickIdle, TickType

(* What is known of an advance that is under way.                          *)
LEMMA Advance ==
    ASSUME OneCycle, IInv, NEW n \in Nodes
    PROVE  /\ tick[n] \in TickType /\ tick \in [Nodes -> TickType]
           /\ TickAt(n) /\ StateAt(n) /\ now \in Nat /\ svc[n] \in Service \cup {None}
           /\ tick[n].pc = "idle" => tick[n] = TickIdle
           /\ tick[n].pc \in {"lock", "settle", "replace", "window"} =>
                tick[n].p \in RoundStates /\ tick[n].p \in PeriodicState
<1>1. /\ tick[n] \in TickType /\ tick \in [Nodes -> TickType]
      /\ TickAt(n) /\ StateAt(n) /\ now \in Nat /\ svc[n] \in Service \cup {None}
  BY DEF IInv, TypeOK, GridInv, TickType, TickOnGrid, StateOnGrid
<1>2. tick[n].pc = "idle" => tick[n] = TickIdle
  BY <1>1 DEF TickAt
<1>3. tick[n].pc \in {"lock", "settle", "replace", "window"} => tick[n].p \in RoundStates
  BY <1>1, Idle DEF TickAt
<1> QED
  BY <1>1, <1>2, <1>3, StateFacts

(* The lock of the round. *)
LEMMA TakeLockGrid ==
    ASSUME OneCycle, IInv, NEW n \in Nodes, TakeLock(n) PROVE IInv'
<1>1. /\ tick[n].pc = "lock" /\ tick[n] \in TickType /\ tick[n] # TickIdle
      /\ tick \in [Nodes -> TickType] /\ TickAt(n) /\ StateAt(n)
      /\ tick[n].p \in RoundStates /\ tick[n].p.cur \in Rounds
      /\ svc[n] \in Service \cup {None} /\ now \in Nat /\ now' = now
  BY Advance, StateFacts, Idle DEF TakeLock, clockVars
<1> DEFINE new == [tick[n] EXCEPT !.pc = "settle", !.svc = svc[n]]
<1>2. \/ tick' = [tick EXCEPT ![n] = TickIdle]
      \/ svc[n] # None /\ tick' = [tick EXCEPT ![n] = new]
  BY <1>1 DEF TakeLock
<1>3. /\ new.pc = "settle" /\ new.p = tick[n].p /\ new.live = tick[n].live
      /\ new.svc = svc[n] /\ new.t = tick[n].t /\ new \in TickType
  BY <1>1 DEF TickType
<1> HIDE DEF new
<1>4. TypeOK'
  <2>1. tick' \in [Nodes -> TickType]
    BY <1>1, <1>2, <1>3, Idle
  <2>2. lock' \in [Rounds -> Nat]
    <3>1. now + LockTTL \in Nat
      BY <1>1, Numbers
    <3>2. \/ lock' = [lock EXCEPT ![tick[n].p.cur] = now + LockTTL]
          \/ lock' = lock
      BY DEF TakeLock
    <3> QED
      BY <3>1, <3>2 DEF IInv, TypeOK
  <2> QED
    BY <2>1, <2>2 DEF IInv, TypeOK, TakeLock, clockVars, outVars, TickType
<1>5. RoundStates' = RoundStates
  BY <1>1 DEF RoundStates, Begun, BegunAt
<1>6. TickAt(n)' /\ StateAt(n)'
  <2>1. CASE tick' = [tick EXCEPT ![n] = TickIdle]
    <3>1. tick'[n] = TickIdle
      BY <2>1, <1>1
    <3>2. state[n] \in RoundStates \cup {None}
      BY <1>1 DEF StateAt
    <3> QED
      BY <3>1, <3>2, <1>5, Idle DEF TickAt, StateAt, TakeLock
  <2>2. CASE svc[n] # None /\ tick' = [tick EXCEPT ![n] = new]
    <3>1. tick'[n] = new
      BY <2>2, <1>1
    <3>2. tick[n].t <= now /\ tick[n].t >= tick[n].p.close
      BY <1>1 DEF TickAt
    <3>3. TickAt(n)'
      BY <3>1, <3>2, <2>2, <1>1, <1>3, <1>5 DEF TickAt
    <3>4. StateAt(n)'
      BY <3>1, <1>1, <1>3, <1>5 DEF StateAt, TakeLock
    <3> QED
      BY <3>3, <3>4
  <2> QED
    BY <1>2, <2>1, <2>2
<1>7. \A m \in Nodes \ {n} : tick'[m] = tick[m] /\ state'[m] = state[m]
  BY <1>1, <1>2 DEF TakeLock
<1>8. TickOnGrid' /\ StateOnGrid'
  BY <1>1, <1>6, <1>7, TickMoves
<1>9. GridInv'
  BY <1>1, <1>8, Kept DEF TakeLock, outVars, IInv, GridInv
<1> QED
  BY <1>4, <1>9 DEF IInv

(* Without an edit of the cycle, planning an advance finds the round to go *)
(* to, or gives up, and does no more.                                      *)
LEMMA Planned ==
    ASSUME OneCycle, IInv, NEW n \in Nodes, SettleAndPlan(n)
    PROVE  LET next == NextAdvanceRound(tick[n].p, tick[n].t)
               new == [tick[n] EXCEPT !.pc = "replace", !.p = tick[n].p, !.next = next]
           IN  /\ \/ tick' = [tick EXCEPT ![n] = TickIdle]
                  \/ /\ Window(tick[n].p, next).open < TotalClose
                     /\ ~Finished(tick[n].t)
                     /\ tick' = [tick EXCEPT ![n] = new]
               /\ state' = state
               /\ UNCHANGED <<queue, redisMeta>>
<1> DEFINE p == [tick[n].p EXCEPT !.cycle = fileCycle]
           next == NextAdvanceRound(tick[n].p, tick[n].t)
           new == [tick[n] EXCEPT !.pc = "replace", !.p = tick[n].p, !.next = next]
<1>1. /\ tick[n].pc = "settle" /\ tick[n] \in TickType /\ tick[n] # TickIdle
      /\ tick \in [Nodes -> TickType] /\ TickAt(n) /\ StateAt(n)
      /\ tick[n].p \in RoundStates /\ tick[n].p \in PeriodicState
      /\ now \in Nat /\ now' = now
  BY Advance, Idle DEF SettleAndPlan, clockVars
<1>2. /\ tick[n].svc \in Service /\ tick[n].t \in Nat
      /\ tick[n].t <= now /\ tick[n].t >= tick[n].p.close
  BY <1>1 DEF TickAt, TickType
<1>3. fileCycle = FirstCycle /\ tick[n].p.cycle = FirstCycle
  BY <1>1, StateFacts DEF OneCycle, IInv, TypeOK
<1>4. p = tick[n].p
  BY <1>1, <1>3 DEF PeriodicState
<1>5. /\ \/ tick' = [tick EXCEPT ![n] = TickIdle]
         \/ /\ Window(tick[n].p, next).open < TotalClose
            /\ ~Finished(tick[n].t)
            /\ tick' = [tick EXCEPT ![n] = new]
      /\ state' = state \/ WriteState(n, tick[n].p)
      /\ UNCHANGED <<queue, redisMeta>>
  <2>1. Window(tick[n].p, next).open \in Nat
    <3>1. tick[n].p.cur \in Proper /\ tick[n].p = RoundState(tick[n].p.cur)
      BY <1>1, StateFacts
    <3>2. RoundAt(FirstCycle, tick[n].t) \in Proper
      BY <1>2, ClockRound
    <3>3. next \in Nat /\ next > tick[n].p.cur
      BY <3>1, <3>2, <1>3 DEF NextAdvanceRound, Proper
    <3> QED
      BY <3>1, <3>3, LaterWindow
  <2>2. PlanNext(n)
    BY DEF SettleAndPlan
  <2>3. CASE Finished(tick[n].t)
    BY <2>2, <2>3 DEF PlanNext
  <2>4. CASE ~Finished(tick[n].t)
    <3>1. WriteState(n, p) /\ UNCHANGED <<queue, redisMeta>>
      BY <2>2, <2>4, <1>3 DEF PlanNext
    <3>2. tick' = [tick EXCEPT ![n] =
                     IF Window(p, NextAdvanceRound(p, tick[n].t)).open >= TotalClose
                     THEN TickIdle
                     ELSE [tick[n] EXCEPT !.pc = "replace", !.p = p,
                              !.next = NextAdvanceRound(p, tick[n].t)]]
      BY <2>2, <2>4, <1>3 DEF PlanNext
    <3> HIDE DEF p
    <3>3. WriteState(n, tick[n].p)
      BY <1>4, <3>1
    <3>4. tick' = [tick EXCEPT ![n] =
                     IF Window(tick[n].p, next).open >= TotalClose THEN TickIdle
                     ELSE new]
      BY <1>4, <3>2
    <3> HIDE DEF next, new
    <3>5. TotalClose \in Nat
      BY Numbers
    <3>6. \/ tick' = [tick EXCEPT ![n] = TickIdle]
          \/ Window(tick[n].p, next).open < TotalClose /\ tick' = [tick EXCEPT ![n] = new]
      <4>1. CASE Window(tick[n].p, next).open >= TotalClose
        BY <3>4, <4>1
      <4>2. CASE ~(Window(tick[n].p, next).open >= TotalClose)
        <5>1. tick' = [tick EXCEPT ![n] = new]
          BY <3>4, <4>2
        <5>2. Window(tick[n].p, next).open < TotalClose
          BY <2>1, <3>5, <4>2
        <5> QED
          BY <5>1, <5>2
      <4> QED
        BY <4>1, <4>2
    <3> QED
      BY <3>1, <3>3, <3>6, <2>4
  <2> QED
    BY <2>3, <2>4
<1> HIDE DEF p, next, new
<1>6. WriteState(n, tick[n].p) => state' = state
  BY <1>1 DEF WriteState, StateAt, IInv, TypeOK
<1> QED
  BY <1>5, <1>6 DEF next, new

(* The next round is planned (advanceRound).                               *)
LEMMA SettleAndPlanGrid ==
    ASSUME OneCycle, IInv, NEW n \in Nodes, SettleAndPlan(n) PROVE IInv'
<1> DEFINE next == NextAdvanceRound(tick[n].p, tick[n].t)
           new == [tick[n] EXCEPT !.pc = "replace", !.p = tick[n].p, !.next = next]
<1>1. /\ tick[n].pc = "settle" /\ tick[n] \in TickType /\ tick[n] # TickIdle
      /\ tick \in [Nodes -> TickType] /\ TickAt(n) /\ StateAt(n)
      /\ tick[n].p \in RoundStates /\ tick[n].p \in PeriodicState
      /\ now \in Nat /\ now' = now
  BY Advance, Idle DEF SettleAndPlan, clockVars
<1>2. /\ tick[n].svc \in Service /\ tick[n].t \in Nat
      /\ tick[n].t <= now /\ tick[n].t >= tick[n].p.close
  BY <1>1 DEF TickAt, TickType
<1>3. fileCycle = FirstCycle /\ tick[n].p.cycle = FirstCycle
  BY <1>1, StateFacts DEF OneCycle, IInv, TypeOK
<1>5. /\ \/ tick' = [tick EXCEPT ![n] = TickIdle]
         \/ Window(tick[n].p, next).open < TotalClose /\ tick' = [tick EXCEPT ![n] = new]
      /\ state' = state
      /\ UNCHANGED <<queue, redisMeta>>
  BY Planned
<1>6. /\ settled' \subseteq Rounds /\ left' \in [Kinds -> Nat]
      /\ left'["outage"] = left["outage"]
  BY <1>2, Settles DEF SettleAndPlan, IInv
<1>7. next \in Nat /\ next > tick[n].p.cur
  <2>1. tick[n].p.cur \in Nat /\ RoundAt(FirstCycle, tick[n].t) \in Nat
    BY <1>1, <1>2, ClockRound DEF PeriodicState, Proper
  <2> QED
    BY <2>1, <1>3 DEF NextAdvanceRound
<1>8. Window(tick[n].p, next).open < TotalClose => next \in Begun
  <2> SUFFICES ASSUME Window(tick[n].p, next).open < TotalClose PROVE next \in Begun
    OBVIOUS
  <2>1. /\ tick[n].p.cur \in Proper /\ tick[n].p = RoundState(tick[n].p.cur)
        /\ tick[n].p.close = Grid(tick[n].p.cur).close
    BY <1>1, StateFacts
  <2>2. next \in Proper /\ BegunAt(next, tick[n].t)
    BY <2>1, <1>2, NextHasBegun
  <2>3. Begin(next) \in Nat
    BY <2>2, BeginOrder DEF Proper
  <2> HIDE DEF next
  <2> QED
    BY <2>2, <2>3, <1>1, <1>2 DEF Begun, BegunAt
<1>9. /\ new.pc = "replace" /\ new.p = tick[n].p /\ new.live = tick[n].live
      /\ new.next = next /\ new \in TickType
  BY <1>1, <1>7 DEF TickType
<1> HIDE DEF next, new
<1>10. /\ \A m \in Nodes \ {n} : tick'[m] = tick[m] /\ state'[m] = state[m]
       /\ state' \in [Nodes -> PeriodicState \cup {None}]
       /\ tick[n].live => state'[n] = tick[n].p
       /\ ~tick[n].live => state'[n] = state[n]
  BY <1>1, <1>5 DEF StateAt, IInv, TypeOK
<1>11. TypeOK'
  <2>1. tick' \in [Nodes -> TickType]
    BY <1>1, <1>5, <1>9, Idle
  <2> QED
    BY <2>1, <1>5, <1>6, <1>10 DEF IInv, TypeOK, SettleAndPlan, clockVars, TickType
<1>12. RoundStates' = RoundStates /\ Begun' = Begun
  BY <1>1 DEF RoundStates, Begun, BegunAt
<1>13. TickAt(n)' /\ StateAt(n)'
  <2>1. CASE tick' = [tick EXCEPT ![n] = TickIdle]
    <3>1. tick'[n] = TickIdle
      BY <2>1, <1>1
    <3>2. state'[n] \in RoundStates \cup {None}
      BY <1>1, <1>10 DEF StateAt
    <3> QED
      BY <3>1, <3>2, <1>12, Idle DEF TickAt, StateAt
  <2>2. CASE Window(tick[n].p, next).open < TotalClose /\ tick' = [tick EXCEPT ![n] = new]
    <3>1. tick'[n] = new /\ next \in Begun
      BY <2>2, <1>1, <1>8
    <3>2. TickAt(n)'
      BY <3>1, <1>1, <1>7, <1>9, <1>12 DEF TickAt
    <3>3. StateAt(n)'
      BY <3>1, <1>1, <1>9, <1>10, <1>12 DEF StateAt
    <3> QED
      BY <3>2, <3>3
  <2> QED
    BY <1>5, <2>1, <2>2
<1>14. TickOnGrid' /\ StateOnGrid'
  <2>1. \A m \in Nodes \ {n} : tick'[m] = tick[m]
    BY <1>5, <1>1
  <2> QED
    BY <2>1, <1>1, <1>10, <1>13, TickMoves
<1>15. SyncOnGrid'
  <2>1. \A m \in Nodes : state'[m] = None => state[m] = None
    BY <1>1, <1>10, StateFacts DEF StateAt
  <2> QED
    BY <2>1, <1>12 DEF SettleAndPlan, IInv, GridInv, SyncOnGrid, SyncAt
<1>16. GridInv'
  BY <1>1, <1>5, <1>6, <1>14, <1>15, Kept DEF SettleAndPlan, IInv, GridInv
<1> QED
  BY <1>11, <1>16 DEF IInv

(* Requests reach the new round, in the window that the grid has for it    *)
(* (ReplaceRoundService).                                                  *)
LEMMA ReplaceRoundGrid ==
    ASSUME OneCycle, IInv, NEW n \in Nodes, ReplaceRound(n) PROVE IInv'
<1> DEFINE s == ServiceFor(tick[n].next, Window(tick[n].p, tick[n].next))
           k == [tick[n] EXCEPT !.pc = "window"]
<1>1. /\ tick[n].pc = "replace" /\ tick[n] \in TickType /\ tick[n] # TickIdle
      /\ tick \in [Nodes -> TickType] /\ TickAt(n) /\ StateAt(n)
      /\ tick[n].p \in RoundStates /\ now \in Nat /\ now' = now
  BY Advance, Idle DEF ReplaceRound, clockVars
<1>2. tick[n].next \in Begun /\ tick[n].next > tick[n].p.cur
  BY <1>1 DEF TickAt
<1>3. s \in GridServices /\ s \in Service /\ s # None
  <2>1. /\ tick[n].p.cur \in Proper /\ tick[n].p = RoundState(tick[n].p.cur)
        /\ tick[n].next \in Proper /\ tick[n].next \in Nat
    BY <1>1, <1>2, StateFacts DEF Begun, Proper
  <2>2. tick[n].p.cur < tick[n].next
    BY <2>1, <1>2 DEF Proper
  <2>3. Window(tick[n].p, tick[n].next) = Grid(tick[n].next)
    BY <2>1, <2>2, LaterWindow
  <2>4. s = GridService(tick[n].next)
    BY <2>3 DEF GridService
  <2>5. s \in GridServices
    BY <2>4, <1>2 DEF GridServices
  <2> QED
    BY <2>5, ServiceFacts
<1>4. /\ k.pc = "window" /\ k.p = tick[n].p /\ k.live = tick[n].live
      /\ k.next = tick[n].next /\ k \in TickType
  BY <1>1 DEF TickType
<1> HIDE DEF s, k
<1>5. \/ /\ svc' = [svc EXCEPT ![n] = s] /\ served' = served \cup {s}
         /\ tick' = [tick EXCEPT ![n] = k]
         /\ UNCHANGED left
      \/ /\ tick' = [tick EXCEPT ![n] = TickIdle]
         /\ UNCHANGED <<svc, served>>
         /\ Spend("error")
  BY DEF ReplaceRound, EitherWay, s, k
<1>6. left' \in [Kinds -> Nat] /\ left'["outage"] = left["outage"]
  <2>1. "error" \in Kinds /\ "outage" \in Kinds /\ left \in [Kinds -> Nat]
    BY PeriodicConstants DEF IInv, TypeOK
  <2> QED
    BY <1>5, <2>1 DEF Spend
<1>7. GridServices' = GridServices /\ RoundStates' = RoundStates /\ Begun' = Begun
  BY <1>1 DEF RoundStates, Begun, BegunAt, GridServices
<1>8. ServedOnGrid'
  BY <1>3, <1>5, <1>7 DEF IInv, GridInv, ServedOnGrid
<1>9. TypeOK'
  <2>1. tick' \in [Nodes -> TickType]
    BY <1>1, <1>4, <1>5, Idle
  <2>2. svc' \in [Nodes -> Service \cup {None}] /\ served' \subseteq Service
    <3>1. svc \in [Nodes -> Service \cup {None}] /\ served \subseteq Service
      BY DEF IInv, TypeOK
    <3> QED
      BY <3>1, <1>3, <1>5
  <2> QED
    BY <2>1, <2>2, <1>6 DEF IInv, TypeOK, ReplaceRound, clockVars, redisVars, TickType
<1>10. TickAt(n)' /\ StateAt(n)'
  <2>1. CASE tick' = [tick EXCEPT ![n] = TickIdle]
    <3>1. tick'[n] = TickIdle
      BY <2>1, <1>1
    <3>2. state'[n] \in RoundStates \cup {None}
      BY <1>1 DEF StateAt, ReplaceRound
    <3> QED
      BY <3>1, <3>2, <1>7, Idle DEF TickAt, StateAt
  <2>2. CASE tick' = [tick EXCEPT ![n] = k]
    <3>1. tick'[n] = k
      BY <2>2, <1>1
    <3>2. TickAt(n)'
      BY <3>1, <1>1, <1>2, <1>4, <1>7 DEF TickAt
    <3>3. StateAt(n)'
      BY <3>1, <1>1, <1>4, <1>7 DEF StateAt, ReplaceRound
    <3> QED
      BY <3>2, <3>3
  <2> QED
    BY <1>5, <2>1, <2>2
<1>11. TickOnGrid' /\ StateOnGrid'
  <2>1. \A m \in Nodes \ {n} : tick'[m] = tick[m] /\ state'[m] = state[m]
    BY <1>5, <1>1 DEF ReplaceRound
  <2> QED
    BY <2>1, <1>1, <1>10, TickMoves
<1>12. SyncOnGrid'
  <2>1. state[n] # None
    BY <1>1 DEF StateAt
  <2> QED
    <3>1. \A m \in Nodes : m = n \/ svc'[m] = svc[m]
      BY <1>5 DEF IInv, TypeOK
    <3> QED
      BY <2>1, <3>1, <1>7 DEF ReplaceRound, IInv, GridInv, SyncOnGrid, SyncAt
<1>13. GridInv'
  BY <1>1, <1>6, <1>8, <1>11, <1>12, Kept DEF ReplaceRound, redisVars, IInv, GridInv
<1> QED
  BY <1>9, <1>13 DEF IInv

(* Writing into the state that the tick goroutine holds.                   *)
LEMMA Writes ==
    ASSUME IInv, NEW n \in Nodes, NEW p \in PeriodicState, WriteState(n, p)
    PROVE  /\ state' \in [Nodes -> PeriodicState \cup {None}]
           /\ \A m \in Nodes \ {n} : state'[m] = state[m]
           /\ tick[n].live => state'[n] = p
           /\ ~tick[n].live => state'[n] = state[n]
           /\ \A m \in Nodes : state'[m] = None => state[m] = None
BY NoneIsNothing DEF WriteState, IInv, TypeOK

(* The window of the new round is written (advanceToRound).                *)
LEMMA WriteWindowGrid ==
    ASSUME OneCycle, IInv, NEW n \in Nodes, WriteWindow(n) PROVE IInv'
<1> DEFINE r == tick[n].p.cur
           p == Between(r, tick[n].next)
           k == [tick[n] EXCEPT !.pc = "number", !.p = p]
<1>1. /\ tick[n].pc = "window" /\ tick[n] \in TickType /\ tick[n] # TickIdle
      /\ tick \in [Nodes -> TickType] /\ TickAt(n) /\ StateAt(n)
      /\ tick[n].p \in RoundStates /\ now \in Nat /\ now' = now
  BY Advance, Idle DEF WriteWindow, clockVars
<1>2. /\ tick[n].next \in Begun /\ tick[n].next \in Proper /\ tick[n].next > r
      /\ r \in Begun /\ r \in Proper /\ tick[n].p = RoundState(r)
      /\ r \in Nat /\ tick[n].next \in Nat
  <2>1. tick[n].next \in Begun /\ tick[n].next > r
    BY <1>1 DEF TickAt
  <2> QED
    BY <2>1, <1>1, StateFacts DEF Begun, Proper
<1>3. Window(tick[n].p, tick[n].next) = Grid(tick[n].next)
  BY <1>2, LaterWindow
<1>4. CanAdvanceTo(tick[n].p, tick[n].next)
  BY <1>2, <1>3, GridWindow DEF CanAdvanceTo, Proper
<1>5. WithWindowOf(tick[n].p, tick[n].next) = p
  <2> DEFINE o == Grid(tick[n].next).open
             c == Grid(tick[n].next).close
  <2>1. /\ tick[n].p \in PeriodicState /\ p \in PeriodicState
        /\ tick[n].p.cycle = FirstCycle /\ tick[n].p.base = FirstCycle
    BY <1>1, <1>2, StateFacts, BetweenFacts DEF RoundState, Between
  <2>2. p.cycle = FirstCycle /\ p.base = FirstCycle /\ p.cur = r /\ p.open = o /\ p.close = c
    BY DEF Between
  <2>3. o \in Nat /\ c \in Nat
    BY <2>1, <2>2 DEF PeriodicState
  <2>4. WithWindowOf(tick[n].p, tick[n].next) = [tick[n].p EXCEPT !.open = o, !.close = c]
    BY <1>3 DEF WithWindowOf
  <2> HIDE DEF o, c, p
  <2>5. [tick[n].p EXCEPT !.open = o, !.close = c] = p
    BY <2>1, <2>2, <2>3 DEF PeriodicState
  <2> QED
    BY <2>4, <2>5
<1>6. p \in PeriodicState
  BY <1>2, BetweenFacts
<1>7. /\ k.pc = "number" /\ k.p = p /\ k.live = tick[n].live
      /\ k.next = tick[n].next /\ k \in TickType
  BY <1>1, <1>6 DEF TickType
<1>8. tick' = [tick EXCEPT ![n] = k] /\ WriteState(n, p)
  <2> HIDE DEF p, r
  <2> QED
    BY <1>4, <1>5 DEF WriteWindow
<1> HIDE DEF p, k
<1>9. tick'[n] = k /\ \A m \in Nodes \ {n} : tick'[m] = tick[m]
  BY <1>8, <1>1
<1>10. RoundStates' = RoundStates /\ Begun' = Begun
  BY <1>1 DEF RoundStates, Begun, BegunAt
<1>11. TickAt(n)' /\ StateAt(n)'
  <2>1. k.p = Between(r, k.next)
    BY <1>7 DEF p
  <2>2. TickAt(n)'
    BY <2>1, <1>2, <1>7, <1>9, <1>10 DEF TickAt
  <2>3. state'[n] # None /\ k.live => state'[n] = k.p
    BY <1>1, <1>6, <1>7, <1>8, Writes DEF StateAt
  <2>4. ~k.live => state'[n] \in RoundStates \cup {None}
    BY <1>1, <1>6, <1>7, <1>8, Writes DEF StateAt
  <2>5. state'[n] # None
    BY <1>1, <1>6, <1>8, Writes DEF StateAt
  <2> QED
    BY <2>2, <2>3, <2>4, <2>5, <1>7, <1>9, <1>10 DEF StateAt
<1>12. TypeOK'
  <2>1. tick' \in [Nodes -> TickType] /\ state' \in [Nodes -> PeriodicState \cup {None}]
    BY <1>1, <1>6, <1>7, <1>8, Writes
  <2> QED
    BY <2>1 DEF IInv, TypeOK, WriteWindow, clockVars, redisVars, outVars, TickType
<1>13. TickOnGrid' /\ StateOnGrid'
  BY <1>1, <1>6, <1>8, <1>9, <1>11, Writes, TickMoves
<1>14. SyncOnGrid'
  BY <1>6, <1>8, <1>10, Writes DEF WriteWindow, IInv, GridInv, SyncOnGrid, SyncAt
<1>15. GridInv'
  BY <1>1, <1>13, <1>14, Kept DEF WriteWindow, redisVars, outVars, IInv, GridInv
<1> QED
  BY <1>12, <1>15 DEF IInv

(* Then its number is (advanceToRound).                                    *)
LEMMA WriteNumberGrid ==
    ASSUME OneCycle, IInv, NEW n \in Nodes, WriteNumber(n) PROVE IInv'
<1> DEFINE p == [tick[n].p EXCEPT !.cur = tick[n].next]
           k == [tick[n] EXCEPT !.pc = "publish", !.p = p]
<1>1. /\ tick[n].pc = "number" /\ tick[n] \in TickType /\ tick[n] # TickIdle
      /\ tick \in [Nodes -> TickType] /\ TickAt(n) /\ StateAt(n)
      /\ now \in Nat /\ now' = now
  BY Advance, Idle DEF WriteNumber, clockVars
<1>2. /\ tick[n].next \in Begun
      /\ \E r \in Begun : r < tick[n].next /\ tick[n].p = Between(r, tick[n].next)
  BY <1>1 DEF TickAt
<1>3. p = RoundState(tick[n].next) /\ p \in RoundStates /\ p \in PeriodicState
  <2>1. p = RoundState(tick[n].next)
    BY <1>2 DEF Between, RoundState
  <2> QED
    BY <2>1, <1>2, StateFacts DEF RoundStates
<1>4. /\ k.pc = "publish" /\ k.p = p /\ k.live = tick[n].live
      /\ k.next = tick[n].next /\ k \in TickType
  BY <1>1, <1>3 DEF TickType
<1>5. tick' = [tick EXCEPT ![n] = k] /\ WriteState(n, p)
  BY DEF WriteNumber
<1> HIDE DEF p, k
<1>6. tick'[n] = k /\ \A m \in Nodes \ {n} : tick'[m] = tick[m]
  BY <1>5, <1>1
<1>7. RoundStates' = RoundStates /\ Begun' = Begun
  BY <1>1 DEF RoundStates, Begun, BegunAt
<1>8. TickAt(n)' /\ StateAt(n)'
  <2>1. TickAt(n)'
    BY <1>2, <1>3, <1>4, <1>6, <1>7 DEF TickAt
  <2>2. k.live => state'[n] = k.p
    BY <1>3, <1>4, <1>5, Writes
  <2>3. ~k.live => state'[n] \in RoundStates \cup {None}
    BY <1>1, <1>3, <1>4, <1>5, Writes DEF StateAt
  <2>4. state'[n] # None
    BY <1>1, <1>3, <1>5, Writes DEF StateAt
  <2> QED
    BY <2>1, <2>2, <2>3, <2>4, <1>4, <1>6, <1>7 DEF StateAt
<1>9. TypeOK'
  <2>1. tick' \in [Nodes -> TickType] /\ state' \in [Nodes -> PeriodicState \cup {None}]
    BY <1>1, <1>3, <1>4, <1>5, Writes
  <2> QED
    BY <2>1 DEF IInv, TypeOK, WriteNumber, clockVars, redisVars, outVars, TickType
<1>10. TickOnGrid' /\ StateOnGrid'
  BY <1>1, <1>3, <1>5, <1>6, <1>8, Writes, TickMoves
<1>11. SyncOnGrid'
  BY <1>3, <1>5, <1>7, Writes DEF WriteNumber, IInv, GridInv, SyncOnGrid, SyncAt
<1>12. GridInv'
  BY <1>1, <1>10, <1>11, Kept DEF WriteNumber, redisVars, outVars, IInv, GridInv
<1> QED
  BY <1>9, <1>12 DEF IInv

(* The new round is published. *)
LEMMA PublishGrid ==
    ASSUME OneCycle, IInv, NEW n \in Nodes, Publish(n) PROVE IInv'
<1>1. /\ tick[n].pc = "publish" /\ tick[n] \in TickType /\ tick[n] # TickIdle
      /\ tick \in [Nodes -> TickType] /\ TickAt(n) /\ StateAt(n)
      /\ now \in Nat /\ now' = now
  BY Advance, Idle DEF Publish, clockVars
<1>2. /\ tick[n].next \in Begun /\ tick[n].next \in Rounds
      /\ tick[n].p \in RoundStates /\ tick[n].p \in PeriodicState
  <2>1. tick[n].next \in Begun /\ tick[n].p = RoundState(tick[n].next)
    BY <1>1 DEF TickAt
  <2> QED
    BY <2>1, ProperRounds, StateFacts DEF RoundStates, Begun
<1>3. /\ tick'[n] = TickIdle /\ \A m \in Nodes \ {n} : tick'[m] = tick[m]
      /\ tick' \in [Nodes -> TickType]
  BY <1>1, Idle DEF Publish
<1>4. RoundStates' = RoundStates /\ Begun' = Begun
  BY <1>1 DEF RoundStates, Begun, BegunAt
<1>5. SavedOnGrid'
  <2>1. queue' \in [Nodes -> Seq(RoundStates)]
    BY <1>2 DEF Publish, IInv, GridInv, SavedOnGrid
  <2> QED
    BY <2>1, <1>2, <1>4 DEF Publish, IInv, GridInv, SavedOnGrid
<1>6. TickAt(n)' /\ StateAt(n)'
  <2>1. state[n] \in RoundStates \cup {None}
    BY <1>1, <1>2 DEF StateAt
  <2> QED
    BY <2>1, <1>3, <1>4, Idle DEF TickAt, StateAt, Publish
<1>7. TypeOK'
  <2>1. queue' \in [Nodes -> Seq(PeriodicState)]
    BY <1>2 DEF Publish, IInv, TypeOK
  <2> QED
    BY <2>1, <1>2, <1>3 DEF IInv, TypeOK, Publish, clockVars, outVars, TickType
<1>8. TickOnGrid' /\ StateOnGrid'
  BY <1>1, <1>3, <1>6, TickMoves DEF Publish
<1>9. GridInv'
  BY <1>1, <1>5, <1>8, Kept DEF Publish, outVars, IInv, GridInv
<1> QED
  BY <1>7, <1>9 DEF IInv

(* The sync goroutine as TypeOK has it.                                    *)
SyncType == [pc : {"idle", "decide", "state", "service", "redis"},
             doc : PeriodicState \cup {None}, old : Service \cup {None}]

(* What is known of a sync that is under way.                              *)
LEMMA Sync ==
    ASSUME OneCycle, IInv, NEW n \in Nodes
    PROVE  /\ sync[n] \in SyncType /\ sync \in [Nodes -> SyncType]
           /\ SyncAt(n) /\ svc[n] \in Service \cup {None} /\ now \in Nat
           /\ sync[n].pc # "redis"
           /\ sync[n].pc # "idle" =>
                sync[n].doc \in RoundStates /\ sync[n].doc \in PeriodicState
           /\ doc \in RoundStates /\ doc \in PeriodicState
<1>1. /\ sync[n] \in SyncType /\ sync \in [Nodes -> SyncType]
      /\ SyncAt(n) /\ svc[n] \in Service \cup {None} /\ now \in Nat
      /\ doc \in RoundStates
  BY DEF IInv, TypeOK, GridInv, SyncType, SyncOnGrid, SavedOnGrid
<1>2. sync[n].pc # "redis" /\ (sync[n].pc # "idle" => sync[n].doc \in RoundStates)
  BY <1>1 DEF SyncAt
<1> QED
  BY <1>1, <1>2, StateFacts

(* A node's sync goroutine moves, the others' do not.                      *)
LEMMA SyncMoves ==
    ASSUME IInv, now' = now, NEW n \in Nodes,
           \A m \in Nodes \ {n} :
               sync'[m] = sync[m] /\ state'[m] = state[m] /\ svc'[m] = svc[m],
           SyncAt(n)'
    PROVE  SyncOnGrid'
<1>1. RoundStates' = RoundStates
  BY DEF RoundStates, Begun, BegunAt
<1> QED
  BY <1>1 DEF IInv, GridInv, SyncOnGrid, SyncAt

(* The document is read, never Redis. *)
LEMMA SyncReadGrid ==
    ASSUME OneCycle, IInv, NEW n \in Nodes, SyncRead(n) PROVE IInv'
<1>1. /\ sync[n] \in SyncType /\ sync \in [Nodes -> SyncType] /\ SyncAt(n)
      /\ now \in Nat /\ now' = now
      /\ doc \in RoundStates /\ doc \in PeriodicState
  BY Sync DEF SyncRead, clockVars
<1> DEFINE k == [pc |-> "decide", doc |-> doc, old |-> None]
<1>2. sync' = [sync EXCEPT ![n] = k] /\ UNCHANGED left
  <2>1. ~Spend("outage")
    BY DEF Spend, IInv, GridInv
  <2> QED
    BY <2>1 DEF SyncRead
<1>3. k.pc = "decide" /\ k.doc = doc /\ k \in SyncType
  BY <1>1 DEF SyncType
<1> HIDE DEF k
<1>4. sync'[n] = k /\ sync' \in [Nodes -> SyncType]
      /\ \A m \in Nodes \ {n} : sync'[m] = sync[m]
  BY <1>1, <1>2, <1>3
<1>5. TypeOK'
  BY <1>2, <1>4 DEF SyncRead, IInv, TypeOK, clockVars, redisVars, outVars, SyncType
<1>6. RoundStates' = RoundStates
  BY <1>1 DEF RoundStates, Begun, BegunAt
<1>7. SyncAt(n)'
  BY <1>1, <1>3, <1>4, <1>6 DEF SyncAt, SyncRead
<1>8. SyncOnGrid'
  BY <1>1, <1>4, <1>7, SyncMoves DEF SyncRead
<1>9. GridInv'
  BY <1>1, <1>2, <1>8, Kept DEF SyncRead, redisVars, outVars, IInv, GridInv
<1> QED
  BY <1>5, <1>9 DEF IInv

(* The sync decides whether the state is behind. *)
LEMMA SyncDecideGrid ==
    ASSUME OneCycle, IInv, NEW n \in Nodes, SyncDecide(n) PROVE IInv'
<1>1. /\ sync[n] \in SyncType /\ sync \in [Nodes -> SyncType] /\ SyncAt(n)
      /\ svc[n] \in Service \cup {None} /\ now \in Nat /\ now' = now
      /\ sync[n].pc = "decide"
  BY Sync DEF SyncDecide, clockVars
<1> DEFINE k == [sync[n] EXCEPT !.old = svc[n],
                                !.pc = IF Behind(n) THEN "state" ELSE "service"]
<1>2. sync' = [sync EXCEPT ![n] = k]
  BY DEF SyncDecide
<1>3. /\ k.pc = (IF Behind(n) THEN "state" ELSE "service")
      /\ k.doc = sync[n].doc /\ k \in SyncType
  BY <1>1 DEF SyncType
<1> HIDE DEF k
<1>4. sync'[n] = k /\ sync' \in [Nodes -> SyncType]
      /\ \A m \in Nodes \ {n} : sync'[m] = sync[m]
  BY <1>1, <1>2, <1>3
<1>5. TypeOK'
  BY <1>4 DEF SyncDecide, IInv, TypeOK, clockVars, redisVars, outVars, SyncType
<1>6. RoundStates' = RoundStates
  BY <1>1 DEF RoundStates, Begun, BegunAt
<1>7. SyncAt(n)'
  BY <1>1, <1>3, <1>4, <1>6 DEF SyncAt, SyncDecide, Behind
<1>8. SyncOnGrid'
  BY <1>1, <1>4, <1>7, SyncMoves DEF SyncDecide
<1>9. GridInv'
  BY <1>1, <1>8, Kept DEF SyncDecide, redisVars, outVars, IInv, GridInv
<1> QED
  BY <1>5, <1>9 DEF IInv

(* The state of the document takes the place of the node's own, and the    *)
(* tick goroutine is left with an object nobody else reads.                *)
LEMMA SyncStateGrid ==
    ASSUME OneCycle, IInv, NEW n \in Nodes, SyncState(n) PROVE IInv'
<1>1. /\ sync[n] \in SyncType /\ sync \in [Nodes -> SyncType] /\ SyncAt(n)
      /\ now \in Nat /\ now' = now /\ sync[n].pc = "state"
      /\ sync[n].doc \in RoundStates /\ sync[n].doc \in PeriodicState
      /\ sync[n].doc # None
  BY Sync, StateFacts DEF SyncState, clockVars
<1>2. /\ tick[n] \in TickType /\ tick \in [Nodes -> TickType] /\ TickAt(n)
      /\ tick[n].pc = "idle" => tick[n] = TickIdle
  BY Advance
<1> DEFINE k == [sync[n] EXCEPT !.pc = "service"]
           j == [tick[n] EXCEPT !.live = FALSE]
<1>3. /\ state' = [state EXCEPT ![n] = sync[n].doc]
      /\ tick' = [tick EXCEPT ![n] = j]
      /\ sync' = [sync EXCEPT ![n] = k]
  BY DEF SyncState
<1>4. k.pc = "service" /\ k.doc = sync[n].doc /\ k \in SyncType
  BY <1>1 DEF SyncType
<1>5. /\ j.pc = tick[n].pc /\ j.p = tick[n].p /\ j.t = tick[n].t
      /\ j.next = tick[n].next /\ j.svc = tick[n].svc /\ j.live = FALSE
      /\ j \in TickType
  BY <1>2 DEF TickType
<1>6. tick[n].pc = "idle" => j = TickIdle
  BY <1>2, <1>5, Idle DEF TickIdle
<1> HIDE DEF k, j
<1>7. /\ sync'[n] = k /\ tick'[n] = j /\ state'[n] = sync[n].doc
      /\ sync' \in [Nodes -> SyncType] /\ tick' \in [Nodes -> TickType]
      /\ state' \in [Nodes -> PeriodicState \cup {None}]
      /\ \A m \in Nodes \ {n} :
           sync'[m] = sync[m] /\ tick'[m] = tick[m] /\ state'[m] = state[m]
  BY <1>1, <1>2, <1>3, <1>4, <1>5 DEF IInv, TypeOK
<1>8. TypeOK'
  BY <1>7 DEF SyncState, IInv, TypeOK, clockVars, redisVars, outVars, SyncType, TickType
<1>9. RoundStates' = RoundStates /\ Begun' = Begun
  BY <1>1 DEF RoundStates, Begun, BegunAt
<1>10. SyncAt(n)'
  BY <1>1, <1>4, <1>7, <1>9 DEF SyncAt
<1>11. TickAt(n)'
  <2>1. CASE tick[n].pc = "idle"
    BY <2>1, <1>6, <1>7 DEF TickAt
  <2>2. CASE tick[n].pc # "idle"
    BY <2>2, <1>1, <1>2, <1>5, <1>7, <1>9, Idle DEF TickAt
  <2> QED
    BY <2>1, <2>2
<1>12. StateAt(n)'
  BY <1>1, <1>5, <1>7, <1>9 DEF StateAt
<1>13. SyncOnGrid'
  BY <1>1, <1>7, <1>10, SyncMoves DEF SyncState
<1>14. TickOnGrid' /\ StateOnGrid'
  BY <1>1, <1>7, <1>11, <1>12, TickMoves
<1>15. GridInv'
  BY <1>1, <1>13, <1>14, Kept DEF SyncState, redisVars, outVars, IInv, GridInv
<1> QED
  BY <1>8, <1>15 DEF IInv

(* The service of the document's round takes the place of an older one.    *)
LEMMA SyncServiceGrid ==
    ASSUME OneCycle, IInv, NEW n \in Nodes, SyncService(n) PROVE IInv'
<1> DEFINE s == CurrentService(sync[n].doc)
<1>1. /\ sync[n] \in SyncType /\ sync \in [Nodes -> SyncType] /\ SyncAt(n)
      /\ now \in Nat /\ now' = now /\ sync[n].pc = "service"
      /\ s \in GridServices /\ s \in Service /\ s # None /\ state[n] # None
  <2>1. /\ sync[n] \in SyncType /\ sync \in [Nodes -> SyncType] /\ SyncAt(n)
        /\ now \in Nat /\ now' = now /\ sync[n].pc = "service"
        /\ sync[n].doc \in RoundStates
    BY Sync DEF SyncService, clockVars
  <2>2. s \in GridServices
    BY <2>1, StateFacts
  <2> QED
    BY <2>1, <2>2, ServiceFacts DEF SyncAt
<1> HIDE DEF s
<1>2. \/ svc' = [svc EXCEPT ![n] = s] /\ served' = served \cup {s}
      \/ UNCHANGED <<svc, served>>
  BY DEF SyncService, s
<1>3. SyncIdle.pc = "idle" /\ SyncIdle \in SyncType
  BY DEF SyncIdle, SyncType
<1>4. /\ sync'[n] = SyncIdle /\ sync' \in [Nodes -> SyncType]
      /\ \A m \in Nodes \ {n} : sync'[m] = sync[m]
  BY <1>1, <1>3 DEF SyncService
<1>5. /\ svc' \in [Nodes -> Service \cup {None}] /\ served' \subseteq Service
      /\ \A m \in Nodes \ {n} : svc'[m] = svc[m]
  <2>1. svc \in [Nodes -> Service \cup {None}] /\ served \subseteq Service
    BY DEF IInv, TypeOK
  <2> QED
    BY <2>1, <1>1, <1>2
<1>6. TypeOK'
  <2>1. timely' \in [ticked : SUBSET Nodes, synced : SUBSET Nodes]
    BY DEF SyncService, Synced, IInv, TypeOK
  <2> QED
    BY <2>1, <1>4, <1>5 DEF SyncService, IInv, TypeOK, clockVars, redisVars, SyncType
<1>7. GridServices' = GridServices /\ RoundStates' = RoundStates
  BY <1>1 DEF RoundStates, Begun, BegunAt, GridServices
<1>8. ServedOnGrid'
  BY <1>1, <1>2, <1>7 DEF IInv, GridInv, ServedOnGrid
<1>9. SyncAt(n)'
  BY <1>1, <1>3, <1>4, <1>7 DEF SyncAt, SyncService
<1>10. SyncOnGrid'
  BY <1>1, <1>4, <1>5, <1>9, SyncMoves DEF SyncService
<1>11. GridInv'
  BY <1>1, <1>8, <1>10, Kept DEF SyncService, redisVars, IInv, GridInv
<1> QED
  BY <1>6, <1>11 DEF IInv

(* The state of a node has the number of a round and the window of that    *)
(* round or, in an advance, of a later one.                                *)
LEMMA NodeState ==
    ASSUME OneCycle, IInv, NEW n \in Nodes, state[n] # None
    PROVE  \E r, k \in Begun : r <= k /\ state[n] = Between(r, k)
<1>1. StateAt(n) /\ TickAt(n) /\ Begun \subseteq Nat
  BY Advance DEF Begun, Proper
<1>2. ASSUME NEW p \in RoundStates
      PROVE  \E r, k \in Begun : r <= k /\ p = Between(r, k)
  BY <1>1, <1>2 DEF RoundStates, RoundState
<1>3. CASE ~tick[n].live
  BY <1>1, <1>2, <1>3 DEF StateAt
<1>4. CASE tick[n].live
  <2>1. state[n] = tick[n].p /\ tick[n].pc # "idle"
    BY <1>1, <1>4 DEF StateAt
  <2>2. CASE tick[n].p \in RoundStates
    BY <2>1, <2>2, <1>2
  <2>3. CASE tick[n].p \notin RoundStates
    <3>1. \/ tick[n].pc = "number"
          \/ tick[n].next \in Begun /\ tick[n].p = RoundState(tick[n].next)
      BY <1>1, <2>1, <2>3, Idle DEF TickAt
    <3>2. tick[n].pc = "number"
      BY <3>1, <2>3 DEF RoundStates
    <3> QED
      <4>1. /\ tick[n].next \in Begun
            /\ \E r \in Begun : r < tick[n].next /\ tick[n].p = Between(r, tick[n].next)
        BY <3>2, <1>1, Idle DEF TickAt
      <4>2. PICK r \in Begun : r < tick[n].next /\ tick[n].p = Between(r, tick[n].next)
        BY <4>1
      <4>3. r \in Nat /\ tick[n].next \in Nat
        BY <4>1, <1>1
      <4>4. r <= tick[n].next
        BY <4>2, <4>3
      <4> QED
        BY <4>1, <4>2, <4>4, <2>1
  <2> QED
    BY <2>2, <2>3
<1> QED
  BY <1>3, <1>4

(* What reaches the document is of the grid. *)
LEMMA FlushGrid ==
    ASSUME OneCycle, IInv, NEW n \in Nodes, Flush(n) PROVE IInv'
<1>1. /\ queue \in [Nodes -> Seq(RoundStates)] /\ queue \in [Nodes -> Seq(PeriodicState)]
      /\ doc \in RoundStates /\ doc \in PeriodicState /\ queue[n] # <<>>
      /\ now \in Nat /\ now' = now
  BY Sync DEF Flush, clockVars, IInv, TypeOK, GridInv, SavedOnGrid
<1>2. doc' \in RoundStates /\ doc' \in PeriodicState
  <2>1. Head(queue[n]) \in RoundStates
    BY <1>1
  <2> QED
    BY <2>1, <1>1, StateFacts DEF Flush
<1>3. queue' \in [Nodes -> Seq(RoundStates)] /\ queue' \in [Nodes -> Seq(PeriodicState)]
  BY <1>1 DEF Flush
<1>4. left' \in [Kinds -> Nat] /\ left'["outage"] = left["outage"]
  <2>1. "lose" \in Kinds /\ "outage" \in Kinds /\ left \in [Kinds -> Nat]
    BY PeriodicConstants DEF IInv, TypeOK
  <2> QED
    BY <2>1 DEF Flush, Spend
<1>5. RoundStates' = RoundStates /\ Begun' = Begun
  BY <1>1 DEF RoundStates, Begun, BegunAt
<1>6. SavedOnGrid'
  BY <1>2, <1>3, <1>5 DEF Flush, redisVars, IInv, GridInv, SavedOnGrid
<1>7. TypeOK'
  BY <1>2, <1>3, <1>4 DEF Flush, IInv, TypeOK, clockVars, redisVars, outVars
<1>8. GridInv'
  BY <1>1, <1>4, <1>6, Kept DEF Flush, outVars, IInv, GridInv
<1> QED
  BY <1>7, <1>8 DEF IInv

(* A score names a round that has begun (handleUpsertScore).               *)
LEMMA CheckRoundGrid ==
    ASSUME OneCycle, IInv, NEW n \in Nodes, CheckRound(n) PROVE IInv'
<1>1. now \in Nat /\ now' = now /\ state[n] # None
  BY Sync DEF CheckRound, clockVars, Started, SyncAt
<1>2. state[n].cur \in Begun /\ state[n].cur \in Rounds
  <2>1. PICK r \in Begun, k \in Begun : state[n] = Between(r, k)
    BY <1>1, NodeState
  <2> QED
    BY <2>1, BetweenFacts
<1>3. rpc' = [node |-> n, round |-> state[n].cur, ts |-> now]
  BY DEF CheckRound
<1>4. left' \in [Kinds -> Nat] /\ left'["outage"] = left["outage"]
  <2>1. "score" \in Kinds /\ "outage" \in Kinds /\ left \in [Kinds -> Nat]
    BY PeriodicConstants DEF IInv, TypeOK
  <2> QED
    BY <2>1 DEF CheckRound, Spend
<1>5. TypeOK'
  BY <1>1, <1>2, <1>3, <1>4 DEF CheckRound, IInv, TypeOK, clockVars, redisVars, outVars
<1>6. ScoreOnGrid'
  BY <1>1, <1>2, <1>3
  DEF CheckRound, outVars, IInv, GridInv, ScoreOnGrid, ScoresNeverFiledBack, BegunAt, Begun
<1>7. GridInv'
  BY <1>1, <1>4, <1>6, Kept DEF CheckRound, redisVars, outVars, IInv, GridInv
<1> QED
  BY <1>5, <1>7 DEF IInv

(* A service of an earlier round had closed when the score was sent.       *)
LEMMA FileScoreGrid ==
    ASSUME OneCycle, IInv, FileScore PROVE IInv'
<1> DEFINE s == svc[rpc.node]
<1>1. /\ now \in Nat /\ now' = now /\ rpc # None
      /\ rpc \in [node : Nodes, round : Rounds, ts : Nat]
      /\ BegunAt(rpc.round, rpc.ts)
  BY DEF FileScore, clockVars, IInv, TypeOK, GridInv, ScoreOnGrid
<1>2. rpc.round \in Nat \ {0} /\ rpc.ts \in Nat /\ rpc.round \in Rounds
  <2>1. Rounds \subseteq Nat \ {0}
    BY ProperRounds DEF Rounds
  <2> QED
    BY <2>1, <1>1
<1>3. ASSUME Accepts(s, rpc.ts) PROVE s.round \in Rounds /\ rpc.round <= s.round
  <2>1. s \in GridServices /\ rpc.ts < s.close
    BY <1>1, <1>3 DEF Accepts, IInv, GridInv, ServedOnGrid
  <2>2. s.round \in Rounds /\ s.round \in Proper /\ s.close = Grid(s.round).close
    BY <2>1, ServiceFacts
  <2> HIDE DEF s
  <2>3. /\ s.round \in Nat \ {0} /\ Grid(s.round).close <= Begin(s.round + 1)
        /\ Grid(s.round).close \in Nat
        /\ Begin(s.round + 1) = Begin(s.round) + FirstCycle
        /\ Begin(s.round) \in Nat
    BY <2>2, GridWindow, BeginOrder
  <2>4. s.round < rpc.round => Begin(s.round) + FirstCycle <= Begin(rpc.round)
    BY <2>3, <1>2, BeginOrder
  <2>5. Begin(rpc.round) \in Nat
    BY <1>2, BeginOrder
  <2>6. s.round < rpc.round => Begin(rpc.round) <= rpc.ts
    BY <1>1, <1>2, <2>3 DEF BegunAt
  <2> QED
    BY <2>1, <2>2, <2>3, <2>4, <2>5, <2>6, <1>2, Numbers
<1> HIDE DEF s
<1>4. \/ filed' = filed
      \/ Accepts(s, rpc.ts) /\ filed' = filed \cup {<<rpc.round, s.round>>}
  BY DEF FileScore, s
<1>5. filed' \subseteq Rounds \X Rounds
  <2>1. filed \subseteq Rounds \X Rounds
    BY DEF IInv, TypeOK
  <2> QED
    BY <2>1, <1>2, <1>3, <1>4
<1>6. ScoresNeverFiledBack'
  <2>1. ScoresNeverFiledBack
    BY DEF IInv, GridInv, ScoreOnGrid
  <2> QED
    BY <2>1, <1>3, <1>4 DEF ScoresNeverFiledBack
<1>7. TypeOK'
  BY <1>5 DEF FileScore, IInv, TypeOK, clockVars, redisVars
<1>8. ScoreOnGrid'
  BY <1>6 DEF FileScore, ScoreOnGrid
<1>9. GridInv'
  BY <1>1, <1>8, Kept DEF FileScore, redisVars, IInv, GridInv
<1> QED
  BY <1>7, <1>9 DEF IInv

(* A node that goes down forgets what it has not saved.                    *)
LEMMA GoDownGrid ==
    ASSUME OneCycle, IInv, NEW n \in Nodes, GoDown(n),
           NEW kind \in {"stop", "crash"}, Spend(kind)
    PROVE  IInv'
<1>1. /\ now \in Nat /\ now' = now
      /\ tick \in [Nodes -> TickType] /\ sync \in [Nodes -> SyncType]
      /\ state \in [Nodes -> PeriodicState \cup {None}]
      /\ svc \in [Nodes -> Service \cup {None}]
  BY Advance, Sync DEF GoDown, clockVars, IInv, TypeOK
<1>2. /\ SyncIdle.pc = "idle" /\ SyncIdle \in SyncType /\ TickIdle \in TickType
      /\ TickIdle.live = FALSE
  BY Idle DEF SyncIdle, SyncType
<1>3. /\ tick' \in [Nodes -> TickType] /\ sync' \in [Nodes -> SyncType]
      /\ state' \in [Nodes -> PeriodicState \cup {None}]
      /\ svc' \in [Nodes -> Service \cup {None}]
      /\ tick'[n] = TickIdle /\ sync'[n] = SyncIdle /\ state'[n] = None /\ svc'[n] = None
      /\ \A m \in Nodes \ {n} : /\ tick'[m] = tick[m] /\ sync'[m] = sync[m]
                                /\ state'[m] = state[m] /\ svc'[m] = svc[m]
  BY <1>1, <1>2 DEF GoDown
<1>4. left' \in [Kinds -> Nat] /\ left'["outage"] = left["outage"]
  <2>1. kind \in Kinds /\ "outage" \in Kinds /\ left \in [Kinds -> Nat] /\ kind # "outage"
    BY PeriodicConstants DEF IInv, TypeOK
  <2> QED
    BY <2>1 DEF Spend
<1>5. /\ queue' \in [Nodes -> Seq(PeriodicState)] /\ queue' \in [Nodes -> Seq(RoundStates)]
      /\ rpc' \in {rpc, None}
  <2>1. queue \in [Nodes -> Seq(PeriodicState)] /\ queue \in [Nodes -> Seq(RoundStates)]
    BY DEF IInv, TypeOK, GridInv, SavedOnGrid
  <2> QED
    BY <2>1 DEF GoDown
<1>6. RoundStates' = RoundStates /\ Begun' = Begun /\ GridServices' = GridServices
  BY <1>1 DEF RoundStates, Begun, BegunAt, GridServices
<1>7. TypeOK'
  BY <1>3, <1>4, <1>5
  DEF GoDown, IInv, TypeOK, clockVars, redisVars, outVars, TickType, SyncType
<1>8. TickAt(n)' /\ StateAt(n)' /\ SyncAt(n)'
  BY <1>2, <1>3, Idle DEF TickAt, StateAt, SyncAt
<1>9. TickOnGrid' /\ StateOnGrid' /\ SyncOnGrid'
  BY <1>1, <1>3, <1>8, TickMoves, SyncMoves
<1>10. SavedOnGrid'
  BY <1>5, <1>6 DEF GoDown, redisVars, IInv, GridInv, SavedOnGrid
<1>11. ServedOnGrid'
  <2>1. svc' = [svc EXCEPT ![n] = None] /\ served' = served
    BY DEF GoDown, outVars
  <2> QED
    BY <2>1, <1>6 DEF IInv, GridInv, ServedOnGrid
<1>12. ScoreOnGrid'
  BY <1>1, <1>5 DEF GoDown, outVars, IInv, GridInv, ScoreOnGrid, ScoresNeverFiledBack
<1>13. GridInv'
  BY <1>4, <1>9, <1>10, <1>11, <1>12 DEF IInv, GridInv
<1> QED
  BY <1>7, <1>13 DEF IInv

(* The clock goes on. *)
LEMMA ClockGrid ==
    ASSUME IInv, Clock PROVE IInv'
<1>1. now \in Nat /\ now' \in Nat /\ now' >= now /\ now' \in 0..Horizon
  BY Numbers DEF Clock, IInv, TypeOK
<1>2. TypeOK'
  BY <1>1 DEF Clock, IInv, TypeOK, nodeVars, redisVars, outVars
<1>3. GridInv'
  BY <1>1, Kept DEF Clock, nodeVars, redisVars, outVars, IInv, GridInv
<1> QED
  BY <1>2, <1>3 DEF IInv

(* Everything is and stays on the grid.                                    *)
LEMMA Invariance == OneCycle /\ NoOutage /\ Spec => []IInv
<1> SUFFICES ASSUME OneCycle, NoOutage PROVE Spec => []IInv
  OBVIOUS
<1>1. Init => IInv
  BY InitGrid
<1>2. ASSUME IInv, [Next]_vars PROVE IInv'
  <2>1. ASSUME NEW n \in Nodes, TickStep(n) PROVE IInv'
    BY <1>2, <2>1, BeginTickGrid, TakeLockGrid, SettleAndPlanGrid, ReplaceRoundGrid,
       WriteWindowGrid, WriteNumberGrid, PublishGrid DEF TickStep
  <2>2. ASSUME NEW n \in Nodes, SyncStep(n) PROVE IInv'
    <3>1. ~RecoverFromRedis(n)
      BY <1>2, Sync DEF RecoverFromRedis
    <3> QED
      BY <1>2, <2>2, <3>1, SyncReadGrid, SyncDecideGrid, SyncStateGrid, SyncServiceGrid
      DEF SyncStep
  <2>3. ASSUME NEW n \in Nodes, Flush(n) PROVE IInv'
    BY <1>2, <2>3, FlushGrid
  <2>4. ASSUME NEW n \in Nodes, CheckRound(n) PROVE IInv'
    BY <1>2, <2>4, CheckRoundGrid
  <2>5. ASSUME NEW n \in Nodes, Stop(n) PROVE IInv'
    BY <1>2, <2>5, GoDownGrid DEF Stop
  <2>6. ASSUME NEW n \in Nodes, Crash(n) PROVE IInv'
    BY <1>2, <2>6, GoDownGrid DEF Crash
  <2>7. ASSUME FileScore PROVE IInv'
    BY <1>2, <2>7, FileScoreGrid
  <2>8. ASSUME Clock PROVE IInv'
    BY <1>2, <2>8, ClockGrid
  <2>9. ~EditCycle
    BY <1>2 DEF EditCycle, OneCycle, IInv, TypeOK
  <2>10. ASSUME UNCHANGED vars PROVE IInv'
    <3>1. TypeOK'
      BY <1>2, <2>10 DEF IInv, TypeOK, vars
    <3>2. now \in Nat /\ now' = now
      BY <1>2, <2>10 DEF IInv, TypeOK, vars
    <3>3. GridInv'
      BY <1>2, <2>10, <3>2, Kept DEF vars, IInv, GridInv
    <3> QED
      BY <3>1, <3>3 DEF IInv
  <2> QED
    BY <1>2, <2>1, <2>2, <2>3, <2>4, <2>5, <2>6, <2>7, <2>8, <2>9, <2>10
    DEF Next, TimeIsUp
<1> QED
  BY <1>1, <1>2, PTL DEF Spec

-----------------------------------------------------------------------------
(* Theorems *)

(* Type correctness: in every interleaving of ticks, syncs, saves, crashes *)
(* and scores the state keeps its types; the next round an advance plans   *)
(* stays within the rounds of the activity (handler.go, state.go).         *)
THEOREM TypeCorrect == OneCycle /\ NoOutage /\ Spec => []TypeOK
<1>1. IInv => TypeOK
  BY DEF IInv
<1> QED
  BY <1>1, Invariance, PTL

(* However old the states are from which the nodes derive the window of a  *)
(* round, they derive the same one, and the windows of two rounds do not   *)
(* overlap: no score can count in both (computeRoundWindow).               *)
THEOREM OneWindow == OneCycle /\ NoOutage /\ Spec => []OneWindowPerRound
<1> SUFFICES ASSUME OneCycle, NoOutage PROVE Spec => []OneWindowPerRound
  OBVIOUS
<1>1. ASSUME IInv, NEW a \in served, NEW b \in served
      PROVE  /\ a.round = b.round => a = b
             /\ a.round < b.round => a.close <= b.open
  <2>1. a \in GridServices /\ b \in GridServices
    BY <1>1 DEF IInv, GridInv, ServedOnGrid
  <2>2. /\ a = GridService(a.round) /\ a.round \in Proper /\ a.close = Grid(a.round).close
        /\ b = GridService(b.round) /\ b.round \in Proper /\ b.open = Grid(b.round).open
    BY <1>1, <2>1, ServiceFacts
  <2>3. /\ a.round \in Nat \ {0} /\ b.round \in Nat \ {0}
        /\ a.close <= Begin(a.round + 1) /\ a.close \in Nat
        /\ Begin(a.round + 1) = Begin(a.round) + FirstCycle
        /\ b.open = Begin(b.round) /\ Begin(b.round) \in Nat
        /\ Begin(a.round) \in Nat
    BY <2>2, GridWindow, BeginOrder
  <2>4. a.round < b.round => Begin(a.round) + FirstCycle <= Begin(b.round)
    BY <2>3, BeginOrder
  <2>5. a.round < b.round => a.close <= b.open
    BY <2>3, <2>4, Numbers
  <2> QED
    BY <2>2, <2>5
<1>2. IInv => OneWindowPerRound
  BY <1>1 DEF OneWindowPerRound
<1> QED
  BY <1>2, Invariance, PTL

(* The windows of past rounds, computed anew from any state that a node    *)
(* may have - also in the middle of an advance - are those the rounds were *)
(* served with (GetRoundInfos).                                            *)
THEOREM HistoryKept == OneCycle /\ NoOutage /\ Spec => []HistoryAsServed
<1> SUFFICES ASSUME OneCycle, NoOutage PROVE Spec => []HistoryAsServed
  OBVIOUS
<1>1. ASSUME IInv, NEW n \in Nodes, NEW s \in served,
             state[n] # None, s.round < state[n].cur
      PROVE  ServiceFor(s.round, Window(state[n], s.round)) = s
  <2>1. s = GridService(s.round) /\ s.round \in Proper
    BY <1>1, ServiceFacts DEF IInv, GridInv, ServedOnGrid
  <2>2. PICK r \in Begun, k \in Begun : state[n] = Between(r, k)
    BY <1>1, NodeState
  <2>3. r \in Proper /\ k \in Proper /\ s.round < r
    BY <1>1, <2>2, BetweenFacts DEF Begun
  <2>4. Window(state[n], s.round) = Grid(s.round)
    BY <2>1, <2>2, <2>3, EarlierWindow
  <2> QED
    BY <2>1, <2>4 DEF GridService
<1>2. IInv => HistoryAsServed
  BY <1>1 DEF HistoryAsServed
<1> QED
  BY <1>2, Invariance, PTL

(* Whoever reads the number of a round reads a window at least as new      *)
(* (advanceToRound).                                                       *)
THEOREM WindowReady == OneCycle /\ NoOutage /\ Spec => []WindowReadyWithNumber
<1> SUFFICES ASSUME OneCycle, NoOutage PROVE Spec => []WindowReadyWithNumber
  OBVIOUS
<1>1. ASSUME IInv, NEW n \in Nodes, NEW s \in served,
             state[n] # None, s.round = state[n].cur
      PROVE  state[n].open >= s.open
  <2>1. s.round \in Proper /\ s.open = Grid(s.round).open
    BY <1>1, ServiceFacts DEF IInv, GridInv, ServedOnGrid
  <2>2. PICK r \in Begun, k \in Begun : r <= k /\ state[n] = Between(r, k)
    BY <1>1, NodeState
  <2>3. /\ s.round = r /\ state[n].open = Grid(k).open
        /\ r \in Proper /\ k \in Proper
    BY <1>1, <2>2 DEF Between, Begun
  <2>4. /\ r \in Nat \ {0} /\ k \in Nat \ {0}
        /\ Grid(r).open = Begin(r) /\ Grid(k).open = Begin(k)
        /\ Begin(r) \in Nat /\ Begin(k) \in Nat
    BY <2>3, GridWindow, BeginOrder
  <2>5. r < k => Begin(r) + FirstCycle <= Begin(k)
    BY <2>4, BeginOrder
  <2>6. Begin(r) <= Begin(k)
    BY <2>2, <2>4, <2>5, Numbers
  <2> QED
    BY <2>1, <2>3, <2>4, <2>6
<1>2. IInv => WindowReadyWithNumber
  BY <1>1 DEF WindowReadyWithNumber
<1> QED
  BY <1>2, Invariance, PTL

(* A score is never filed in an earlier round than the one it was sent     *)
(* for, although the number is checked against the state and the time,     *)
(* later, against a service that a sync may have replaced                  *)
(* (handleUpsertScore).                                                    *)
THEOREM NoScoreGoesBack == OneCycle /\ NoOutage /\ Spec => []ScoresNeverFiledBack
<1>1. IInv => ScoresNeverFiledBack
  BY DEF IInv, GridInv, ScoreOnGrid
<1> QED
  BY <1>1, Invariance, PTL

(* When the activity is registered no earlier than it opens, a round that  *)
(* is served has begun (nextAdvanceRound); registered before, the first    *)
(* round is served early.                                                  *)
THEOREM ServedHasBegun ==
    /\ OneCycle /\ NoOutage /\ \A t \in RegisterAt : t >= TotalOpen
    /\ Spec
    => []ServedRoundHasBegun
<1> SUFFICES ASSUME OneCycle, NoOutage, \A t \in RegisterAt : t >= TotalOpen
             PROVE  Spec => []ServedRoundHasBegun
  OBVIOUS
<1> DEFINE Open == now \in Nat /\ now >= TotalOpen
<1>1. Init => Open
  BY Numbers DEF Init
<1>2. Open /\ [Next]_vars => Open'
  <2> SUFFICES ASSUME Open, [Next]_vars PROVE Open'
    OBVIOUS
  <2>1. now' = now \/ now' = now + 1
    BY DEF Next, TickStep, BeginTick, TakeLock, SettleAndPlan, ReplaceRound, WriteWindow,
           WriteNumber, Publish, SyncStep, SyncRead, SyncDecide, SyncState, SyncService,
           RecoverFromRedis, Flush, CheckRound, Stop, Crash, GoDown, FileScore, Clock,
           TimeIsUp, EditCycle, clockVars, vars
  <2> QED
    BY <2>1, Numbers
<1>3. ASSUME IInv, Open, NEW n \in Nodes, svc[n] # None
      PROVE  svc[n].open <= now
  <2>1. svc[n].round \in Begun /\ svc[n].round \in Proper
        /\ svc[n].open = Grid(svc[n].round).open
    BY <1>3, ServiceFacts DEF IInv, GridInv, ServedOnGrid
  <2>2. svc[n].open = Begin(svc[n].round)
    BY <2>1, GridWindow
  <2>3. Begin(1) = TotalOpen
    BY Numbers DEF Begin
  <2> QED
    BY <1>3, <2>1, <2>2, <2>3 DEF Begun, BegunAt
<1>4. IInv /\ Open => ServedRoundHasBegun
  BY <1>3 DEF ServedRoundHasBegun
<1> QED
  BY <1>1, <1>2, <1>4, Invariance, PTL DEF Spec

(* The lock is held as long as the advance from its round goes on, if the  *)
(* advance ends before the clock moves.                                    *)
Advancing(n, round) ==
    /\ tick[n].pc \in {"settle", "replace", "window", "number"}
    /\ tick[n].p.cur = round
LockHeld == \A n \in Nodes, r \in Rounds : Advancing(n, r) => lock[r] > now
OneHolder == \A m, n \in Nodes, r \in Rounds : Advancing(m, r) /\ Advancing(n, r) => m = n

(* Two nodes never advance from the same round at once, whatever states    *)
(* they start from and whatever fails, when an advance takes less than a   *)
(* unit of time (the SETNX at the start of advanceRound).  With a lock     *)
(* that expires in the meantime they do.                                   *)
THEOREM OneNodeAdvances ==
    OneCycle /\ NoOutage /\ Timely /\ LockTTL > 0 /\ Spec => []OneHolder
<1> SUFFICES ASSUME OneCycle, NoOutage, Timely, LockTTL > 0 PROVE Spec => []OneHolder
  OBVIOUS
<1>1. Init => LockHeld /\ OneHolder
  BY DEF Init, LockHeld, OneHolder, Advancing, TickIdle
<1>2. ASSUME IInv, LockHeld, OneHolder, [Next]_vars PROVE LockHeld' /\ OneHolder'
  <2> DEFINE Same == /\ UNCHANGED <<now, lock>>
                     /\ \A n \in Nodes, r \in Rounds : Advancing(n, r)' => Advancing(n, r)
  <2>1. Same => LockHeld' /\ OneHolder'
    BY <1>2 DEF LockHeld, OneHolder
  <2> HIDE DEF Same
  <2>2. ASSUME NEW n \in Nodes, TakeLock(n) PROVE LockHeld' /\ OneHolder'
    <3>1. /\ tick[n].pc = "lock" /\ tick \in [Nodes -> TickType] /\ tick[n] \in TickType
          /\ tick[n].p.cur \in Rounds /\ now \in Nat /\ now' = now
          /\ lock \in [Rounds -> Nat]
      BY <1>2, <2>2, Advance, StateFacts DEF TakeLock, clockVars, IInv, TypeOK
    <3>2. CASE LockFree(tick[n].p.cur)
      <4>1. /\ lock' = [lock EXCEPT ![tick[n].p.cur] = now + LockTTL]
            /\ \/ tick' = [tick EXCEPT ![n] = TickIdle]
               \/ tick' = [tick EXCEPT ![n] = [tick[n] EXCEPT !.pc = "settle", !.svc = svc[n]]]
        BY <2>2, <3>2 DEF TakeLock
      <4>2. \A m \in Nodes, r \in Rounds :
               Advancing(m, r)' => Advancing(m, r) \/ (m = n /\ r = tick[n].p.cur)
        <5>1. \A m \in Nodes : m # n => tick'[m] = tick[m]
          BY <3>1, <4>1
        <5>2. tick'[n].pc = "idle" \/ tick'[n].p = tick[n].p
          BY <3>1, <4>1, Idle DEF TickType
        <5> SUFFICES ASSUME NEW m \in Nodes, NEW r \in Rounds, Advancing(m, r)'
                     PROVE  Advancing(m, r) \/ (m = n /\ r = tick[n].p.cur)
          OBVIOUS
        <5>3. CASE m = n
          <6>1. tick'[n].pc # "idle" /\ tick'[n].p.cur = r
            BY <5>3 DEF Advancing
          <6> QED
            BY <6>1, <5>2, <5>3
        <5>4. CASE m # n
          <6>1. tick'[m] = tick[m]
            BY <5>1, <5>4
          <6> QED
            BY <6>1 DEF Advancing
        <5> QED
          BY <5>3, <5>4
      <4>3. \A m \in Nodes : ~Advancing(m, tick[n].p.cur)
        BY <1>2, <3>1, <3>2 DEF LockHeld, LockFree
      <4>4. /\ \A r \in Rounds : r # tick[n].p.cur => lock'[r] = lock[r]
            /\ lock'[tick[n].p.cur] > now
        BY <3>1, <4>1, Numbers
      <4>5. LockHeld'
        BY <1>2, <3>1, <4>2, <4>3, <4>4 DEF LockHeld
      <4>6. OneHolder'
        BY <1>2, <4>2, <4>3 DEF OneHolder
      <4> QED
        BY <4>5, <4>6
    <3>3. CASE ~LockFree(tick[n].p.cur)
      <4>1. tick' = [tick EXCEPT ![n] = TickIdle] /\ UNCHANGED lock
        BY <2>2, <3>3 DEF TakeLock
      <4>2. Same
        BY <3>1, <4>1, Idle DEF Same, Advancing
      <4> QED
        BY <4>2, <2>1
    <3> QED
      BY <3>2, <3>3
  <2>3. ASSUME Clock PROVE LockHeld' /\ OneHolder'
    <3>1. ASSUME NEW n \in Nodes PROVE tick[n].pc = "idle"
      <4>1. Down(n) \/ KeptUp(n)
        BY <2>3 DEF Clock
      <4>2. StateAt(n)
        BY <1>2, Advance
      <4> QED
        BY <4>1, <4>2 DEF Down, KeptUp, Quiet, StateAt
    <3> QED
      BY <3>1, <2>3 DEF Clock, nodeVars, LockHeld, OneHolder, Advancing
  <2>4. ASSUME NEW n \in Nodes, TickStep(n), ~TakeLock(n) PROVE Same
    <3>1. /\ tick \in [Nodes -> TickType] /\ tick[n] \in TickType /\ TickAt(n)
          /\ fileCycle = FirstCycle
      BY <1>2, Advance DEF IInv, TypeOK, OneCycle
    <3>2. CASE BeginTick(n)
      BY <3>1, <3>2, Idle DEF BeginTick, Same, Advancing, clockVars, redisVars, TickIdle
    <3>3. CASE SettleAndPlan(n)
      <4>1. /\ tick[n].pc = "settle" /\ tick[n].p \in PeriodicState
            /\ UNCHANGED <<now, lock>>
        BY <1>2, <3>3, Advance DEF SettleAndPlan, clockVars
      <4> DEFINE p == [tick[n].p EXCEPT !.cycle = fileCycle]
      <4>2. p.cur = tick[n].p.cur
        BY <4>1 DEF PeriodicState
      <4> HIDE DEF p
      <4>3. \E next : tick' = [tick EXCEPT ![n] = TickIdle]
                \/ tick' = [tick EXCEPT ![n] =
                              [tick[n] EXCEPT !.pc = "replace", !.p = p, !.next = next]]
        BY <3>3 DEF SettleAndPlan, PlanNext, p
      <4>4. tick'[n].pc = "idle" \/ tick'[n].p = p
        BY <3>1, <4>3, Idle DEF TickType
      <4>5. \A m \in Nodes : m # n => tick'[m] = tick[m]
        BY <3>1, <4>3
      <4> QED
        BY <4>1, <4>2, <4>4, <4>5 DEF Same, Advancing
    <3>4. CASE ReplaceRound(n)
      BY <3>1, <3>4, Idle
      DEF ReplaceRound, EitherWay, Same, Advancing, clockVars, redisVars, TickType
    <3>5. CASE WriteWindow(n)
      <4>1. /\ tick[n].pc = "window" /\ tick[n].p \in PeriodicState
            /\ UNCHANGED <<now, lock>>
        BY <1>2, <3>5, Advance DEF WriteWindow, clockVars, redisVars
      <4> DEFINE p == WithWindowOf(tick[n].p, tick[n].next)
      <4>2. p.cur = tick[n].p.cur
        BY <4>1 DEF WithWindowOf, PeriodicState
      <4> HIDE DEF p
      <4>3. \/ tick' = [tick EXCEPT ![n] = [tick[n] EXCEPT !.pc = "number", !.p = p]]
            \/ tick' = [tick EXCEPT ![n] = [tick[n] EXCEPT !.pc = "publish"]]
        BY <3>5 DEF WriteWindow, p
      <4>4. tick'[n].pc = "publish" \/ tick'[n].p = p
        BY <3>1, <4>3 DEF TickType
      <4>5. \A m \in Nodes : m # n => tick'[m] = tick[m]
        BY <3>1, <4>3
      <4> QED
        BY <4>1, <4>2, <4>4, <4>5 DEF Same, Advancing
    <3>6. CASE WriteNumber(n)
      BY <3>1, <3>6 DEF WriteNumber, Same, Advancing, clockVars, redisVars, TickType
    <3>7. CASE Publish(n)
      BY <3>1, <3>7, Idle DEF Publish, Same, Advancing, clockVars
    <3> QED
      BY <2>4, <3>2, <3>3, <3>4, <3>5, <3>6, <3>7 DEF TickStep
  <2>5. ASSUME NEW n \in Nodes, SyncStep(n) PROVE Same
    <3>1. tick \in [Nodes -> TickType]
      BY <1>2, Advance
    <3>2. /\ UNCHANGED <<now, lock>>
          /\ tick' = tick \/ tick' = [tick EXCEPT ![n].live = FALSE]
      BY <2>5 DEF SyncStep, SyncRead, SyncDecide, SyncState, SyncService,
         RecoverFromRedis, clockVars, redisVars
    <3> QED
      BY <3>1, <3>2 DEF Same, Advancing, TickType
  <2>6. ASSUME NEW n \in Nodes, Stop(n) \/ Crash(n) PROVE Same
    BY <1>2, <2>6, Advance, Idle
    DEF Stop, Crash, GoDown, Same, Advancing, clockVars, redisVars, TickType
  <2>7. ASSUME NEW n \in Nodes, Flush(n) \/ CheckRound(n) PROVE Same
    BY <2>7 DEF Flush, CheckRound, Same, Advancing, clockVars, redisVars
  <2>8. ASSUME FileScore \/ EditCycle \/ UNCHANGED vars PROVE Same
    BY <2>8 DEF FileScore, EditCycle, vars, Same, Advancing, clockVars, redisVars, nodeVars
  <2> QED
    BY <1>2, <2>1, <2>2, <2>3, <2>4, <2>5, <2>6, <2>7, <2>8 DEF Next, TimeIsUp
<1> QED
  BY <1>1, <1>2, Invariance, PTL DEF Spec

-----------------------------------------------------------------------------
(* Nodes in step.  When ticks, syncs and saves take less than a unit of    *)
(* time (Timely), no save is lost and the advance lock lives for two       *)
(* units, the document is the measure of all nodes: a node is at its       *)
(* round, or is the one that is about to save the next, or is behind and   *)
(* finds the lock of its round taken until it has synced.                  *)
NoLoss == Budget["lose"] = 0
NoCrash == Budget["crash"] = 0
InTime == Timely /\ LockTTL >= 2

Here == doc.cur
Target == RoundAt(FirstCycle, now)
TakenNow(r) == lock[r] >= now + 2
PastLock(n) == tick[n].pc \in {"settle", "replace", "window", "number", "publish"}
Installing(n) == tick[n].pc \in {"window", "number", "publish"} \/ queue[n] # <<>>

(* A node is busy from the lock until its save is done.                    *)
Busy(n) == PastLock(n) \/ queue[n] # <<>>
OneBusy == \A m, n \in Nodes : Busy(m) /\ Busy(n) => m = n

(* An advance goes from the round of the document to that of the clock.    *)
TickInStep(n) ==
    /\ tick[n].pc # "idle" => tick[n].t = now
    /\ tick[n].pc = "lock" =>
         \/ tick[n].p.cur = Here
         \/ tick[n].p.cur < Here /\ lock[tick[n].p.cur] > now
    /\ PastLock(n) => TakenNow(Here) /\ queue[n] = <<>>
    /\ PastLock(n) /\ tick[n].pc # "publish" => tick[n].p.cur = Here
    /\ tick[n].pc = "settle" => tick[n].svc \in GridServices /\ tick[n].svc.close <= now
    /\ PastLock(n) /\ tick[n].pc # "settle" =>
         tick[n].next = Target /\ Here < Target /\ now < TotalClose

(* So does a save. *)
QueueInStep(n) ==
    /\ state[n] = None => queue[n] = <<>>
    /\ queue[n] # <<>> =>
         /\ queue[n] = <<RoundState(Target)>>
         /\ Here < Target /\ now < TotalClose /\ TakenNow(Here)

(* A sync that will bring the node forward is still to come.               *)
SyncPending(n) ==
    \/ sync[n].pc = "idle" /\ n \notin timely.synced
    \/ sync[n].pc \in {"decide", "state"} /\ state[n].cur < sync[n].doc.cur

StateInStep(n) == state[n] # None =>
    \/ state[n].cur = Here
    \/ /\ state[n].cur = Target /\ Here < Target /\ now < TotalClose
       /\ tick[n].pc = "publish" \/ queue[n] # <<>>
    \/ /\ state[n].cur < Here /\ lock[state[n].cur] > now
       /\ TakenNow(state[n].cur) \/ SyncPending(n)

SyncInStep(n) ==
    /\ sync[n].pc # "idle" =>
         \/ sync[n].doc.cur = Here
         \/ sync[n].doc.cur < Here /\ TakenNow(sync[n].doc.cur)
    /\ sync[n].pc = "state" /\ state[n] # None => state[n].cur < sync[n].doc.cur

ServiceInStep(n) == svc[n] # None => svc[n].round <= Here \/ Installing(n)

NodeInStep(n) ==
    TickInStep(n) /\ QueueInStep(n) /\ StateInStep(n) /\ SyncInStep(n) /\ ServiceInStep(n)

OnlyOverSettled == \A r \in settled : r \in Proper /\ Grid(r).close <= now

InStep ==
    /\ left["lose"] = 0
    /\ \A n \in Nodes : NodeInStep(n)
    /\ OneBusy
    /\ OnlyOverSettled

(* A score is in a round up to that of the document, or in the one that is *)
(* about to be.                                                            *)
ScoresInStep ==
    /\ left["crash"] = 0
    /\ \A f \in filed : f[2] <= Here \/ (f[2] <= Target /\ \E n \in Nodes : Installing(n))

(* No round after that of the clock has begun, ...                         *)
LEMMA BegunUpTo ==
    ASSUME NEW r \in Proper, NEW t \in Nat, BegunAt(r, t)
    PROVE  r <= RoundAt(FirstCycle, t)
<1> DEFINE a == t - TotalOpen
           d == a \div FirstCycle
           b == TotalClose - TotalOpen - 1
           top == b \div FirstCycle
<1>n. /\ FirstCycle \in Nat \ {0} /\ TotalOpen \in Nat \ {0} /\ TotalClose \in Nat
      /\ TotalOpen < TotalClose /\ r \in Nat \ {0} /\ Begin(r) < TotalClose
      /\ Begin(r) \in Nat
  BY Numbers, BeginOrder DEF Proper
<1>1. ASSUME NEW x \in Nat, NEW k \in Nat, k * FirstCycle <= x
      PROVE  k <= x \div FirstCycle
  <2>1. /\ x \div FirstCycle \in Nat
        /\ x < (x \div FirstCycle) * FirstCycle + FirstCycle
    BY <1>n
  <2>2. CASE x \div FirstCycle < k
    <3>1. (x \div FirstCycle) * FirstCycle + FirstCycle <= k * FirstCycle
      BY <2>1, <2>2, <1>n, MoreProducts
    <3>2. (x \div FirstCycle) * FirstCycle \in Nat /\ k * FirstCycle \in Nat
      BY <2>1, <1>n, Products
    <3> QED
      BY <1>1, <2>1, <3>1, <3>2, <1>n
  <2> QED
    BY <2>1, <2>2
<1>2. Begin(r) = TotalOpen + (r - 1) * FirstCycle /\ (r - 1) * FirstCycle \in Nat
  BY <1>n, Products DEF Begin
<1>3. r - 1 <= top /\ top \in Int
  <2>1. b \in Nat /\ (r - 1) * FirstCycle <= b
    BY <1>2, <1>n
  <2> HIDE DEF b
  <2>2. r - 1 <= top
    BY <1>1, <2>1, <1>n
  <2> QED
    BY <2>1, <2>2, <1>n
<1>4. MaxRound(FirstCycle) = top + 1
  BY DEF MaxRound
<1> HIDE DEF top
<1>5. CASE t <= TotalOpen
  <2>1. r = 1
    <3>1. r # 1 => (r - 1) * FirstCycle >= r - 1
      BY <1>n, Products
    <3> QED
      BY <1>5, <1>2, <1>n, <3>1 DEF BegunAt
  <2> QED
    BY <1>5, <2>1 DEF RoundAt
<1>6. CASE t > TotalOpen
  <2>1. r - 1 <= d /\ d \in Int
    <3>1. a \in Nat /\ a \div FirstCycle \in Nat
      BY <1>6, <1>n
    <3>2. (r - 1) * FirstCycle <= a
      <4>1. CASE r = 1
        BY <4>1, <3>1, <1>n
      <4>2. CASE r # 1
        BY <4>2, <1>2, <1>n DEF BegunAt
      <4> QED
        BY <4>1, <4>2
    <3> HIDE DEF a
    <3>3. r - 1 <= a \div FirstCycle
      BY <3>1, <3>2, <1>1, <1>n
    <3> QED
      BY <3>1, <3>3
  <2>2. RoundAt(FirstCycle, t) = IF d + 1 > top + 1 THEN top + 1 ELSE d + 1
    BY <1>4, <1>6, <1>n DEF RoundAt
  <2> HIDE DEF d
  <2> QED
    BY <2>1, <2>2, <1>3, <1>n
<1> QED
  BY <1>5, <1>6, <1>n

(* ... and every earlier round is over.                                    *)
LEMMA EarlierIsOver ==
    ASSUME NEW r \in Proper, NEW k \in Proper, r <= k, NEW t \in Nat, t >= Grid(k).close
    PROVE  t >= Grid(r).close
<1>1. /\ r \in Nat \ {0} /\ k \in Nat \ {0} /\ Grid(r).close <= Begin(r + 1)
      /\ Begin(r + 1) = Begin(r) + FirstCycle
      /\ Grid(k).open = Begin(k) /\ Grid(k).open < Grid(k).close
      /\ Grid(k).close \in Nat /\ Grid(r).close \in Nat
  BY GridWindow, BeginOrder
<1>2. Begin(k) \in Nat /\ Begin(r) \in Nat
  BY <1>1, BeginOrder
<1>3. r < k => Begin(r) + FirstCycle <= Begin(k)
  BY <1>1, BeginOrder
<1> QED
  BY <1>1, <1>2, <1>3, Numbers

(* As long as the activity goes on an advance goes to the round of the     *)
(* clock, and to no other (nextAdvanceRound), ...                          *)
LEMMA NextIsTarget ==
    ASSUME NEW r \in Proper, NEW t \in Nat, t >= Grid(r).close, t < TotalClose
    PROVE  /\ NextAdvanceRound(RoundState(r), t) = RoundAt(FirstCycle, t)
           /\ r < RoundAt(FirstCycle, t)
<1>1. /\ r \in Nat \ {0} /\ Begin(r + 1) = Begin(r) + FirstCycle
      /\ Begin(r) \in Nat /\ Begin(r + 1) \in Nat
  BY BeginOrder DEF Proper
<1>2. Begin(r + 1) <= t
  BY <1>1, GridWindow, Numbers
<1>3. r + 1 \in Proper /\ BegunAt(r + 1, t)
  BY <1>1, <1>2, Numbers DEF Proper, BegunAt
<1>4. r + 1 <= RoundAt(FirstCycle, t) /\ RoundAt(FirstCycle, t) \in Nat
  BY <1>3, BegunUpTo, ClockRound DEF Proper
<1> QED
  BY <1>1, <1>4 DEF NextAdvanceRound, RoundState, Between

(* ... and that round is not over. *)
LEMMA TargetIsOpen ==
    ASSUME NEW t \in Nat, t < TotalClose
    PROVE  Grid(RoundAt(FirstCycle, t)).close > t
<1> DEFINE k == RoundAt(FirstCycle, t)
<1>1. k \in Proper /\ Grid(k).close \in Nat
  BY ClockRound, GridWindow
<1>2. CASE Grid(k).close <= t
  <2>1. k < k
    BY <1>1, <1>2, NextIsTarget
  <2> QED
    BY <2>1, <1>1 DEF Proper
<1> QED
  BY <1>1, <1>2

(* Where things stand: the rounds, and the times of the locks.             *)
LEMMA Standing ==
    ASSUME OneCycle, IInv
    PROVE  /\ now \in Nat /\ LockTTL \in Nat /\ TotalClose \in Nat
           /\ Here \in Begun /\ Target \in Proper /\ Target \in Nat
           /\ \A r \in Begun : r \in Nat /\ r \in Proper /\ r \in Rounds /\ r <= Target
           /\ lock \in [Rounds -> Nat]
<1>1. doc \in RoundStates /\ now \in Nat /\ lock \in [Rounds -> Nat]
  BY DEF IInv, GridInv, SavedOnGrid, TypeOK
<1>2. Here \in Begun
  BY <1>1, StateFacts DEF Here
<1>3. Target \in Proper /\ Target \in Nat
  BY <1>1, ClockRound DEF Target, Proper
<1>4. ASSUME NEW r \in Begun PROVE r \in Nat /\ r \in Proper /\ r \in Rounds /\ r <= Target
  BY <1>1, BegunUpTo, ProperRounds DEF Begun, Proper, Target
<1> QED
  BY <1>1, <1>2, <1>3, <1>4, Numbers

(* Where a node stands: all it knows of are rounds that have begun.        *)
LEMMA NodeStanding ==
    ASSUME OneCycle, IInv, NEW n \in Nodes
    PROVE  /\ state[n] # None => state[n].cur \in Begun
           /\ svc[n] # None => /\ svc[n] \in GridServices /\ svc[n].round \in Begun
                               /\ svc[n].close = Grid(svc[n].round).close
           /\ sync[n].pc # "idle" => sync[n].doc.cur \in Begun
           /\ tick[n].pc # "idle" => tick[n].p.cur \in Begun /\ state[n] # None
           /\ state[n] = None => tick[n] = TickIdle /\ svc[n] = None
<1>1. ASSUME state[n] # None PROVE state[n].cur \in Begun
  <2>1. PICK r \in Begun, k \in Begun : state[n] = Between(r, k)
    BY <1>1, NodeState
  <2> QED
    BY <2>1 DEF Between
<1>2. ASSUME svc[n] # None
      PROVE  /\ svc[n] \in GridServices /\ svc[n].round \in Begun
             /\ svc[n].close = Grid(svc[n].round).close
  <2>1. svc[n] \in GridServices
    BY <1>2 DEF IInv, GridInv, ServedOnGrid
  <2> QED
    BY <2>1, ServiceFacts
<1>3. ASSUME sync[n].pc # "idle" PROVE sync[n].doc.cur \in Begun
  BY <1>3, Sync, StateFacts
<1>4. ASSUME tick[n].pc # "idle" PROVE tick[n].p.cur \in Begun /\ state[n] # None
  <2>1. TickAt(n) /\ StateAt(n) /\ tick[n] # TickIdle /\ tick[n] \in TickType
    BY <1>4, Advance, Idle
  <2>2. CASE tick[n].p \in RoundStates
    BY <2>1, <2>2, <1>4, StateFacts DEF StateAt
  <2>3. CASE tick[n].pc = "number"
    <3>1. PICK r \in Begun : tick[n].p = Between(r, tick[n].next)
      BY <2>1, <2>3 DEF TickAt
    <3> QED
      BY <2>1, <3>1, <1>4 DEF StateAt, Between
  <2>4. CASE tick[n].pc = "publish"
    BY <2>1, <2>4, <1>4 DEF TickAt, StateAt, RoundState, Between
  <2> QED
    BY <2>1, <2>2, <2>3, <2>4 DEF TickAt
<1>5. ASSUME state[n] = None PROVE tick[n] = TickIdle /\ svc[n] = None
  <2>1. tick[n] = TickIdle
    BY <1>4, <1>5, Advance
  <2> QED
    BY <2>1, <1>5, Sync DEF SyncAt
<1> QED
  BY <1>1, <1>2, <1>3, <1>4, <1>5

(* An advance lock is only ever prolonged. *)
LocksProlonged == \A r \in Rounds : lock'[r] \in Nat /\ lock'[r] >= lock[r]

(* What another node's step leaves alone of this one.                      *)
LeftAlone(m) ==
    /\ tick'[m] = tick[m] /\ state'[m] = state[m] /\ queue'[m] = queue[m]
    /\ sync'[m] = sync[m] /\ svc'[m] = svc[m]
    /\ m \in timely'.synced => m \in timely.synced

(* A node that is left alone stays in step. *)
LEMMA StaysInStep ==
    ASSUME OneCycle, IInv, InStep, now' = now, doc' = doc, LocksProlonged,
           NEW m \in Nodes, LeftAlone(m)
    PROVE  NodeInStep(m)'
<1>1. /\ GridServices' = GridServices /\ Here' = Here /\ Target' = Target
      /\ Here \in Rounds /\ lock'[Here] \in Nat /\ lock'[Here] >= lock[Here]
      /\ lock \in [Rounds -> Nat] /\ now \in Nat
  BY Standing DEF GridServices, Begun, BegunAt, Here, Target, LocksProlonged
<1>2. NodeInStep(m)
  BY DEF InStep
<1>3. /\ tick[m].pc # "idle" => tick[m].p.cur \in Rounds
      /\ state[m] # None => state[m].cur \in Rounds
      /\ sync[m].pc # "idle" => sync[m].doc.cur \in Rounds
  BY NodeStanding, Standing
<1>4. /\ tick[m].pc # "idle" => lock'[tick[m].p.cur] >= lock[tick[m].p.cur]
                                /\ lock'[tick[m].p.cur] \in Nat
      /\ state[m] # None => lock'[state[m].cur] >= lock[state[m].cur]
                            /\ lock'[state[m].cur] \in Nat
      /\ sync[m].pc # "idle" => lock'[sync[m].doc.cur] >= lock[sync[m].doc.cur]
                                /\ lock'[sync[m].doc.cur] \in Nat
  BY <1>3 DEF LocksProlonged
<1>5. TickInStep(m)'
  BY <1>1, <1>2, <1>3, <1>4 DEF LeftAlone, NodeInStep, TickInStep, PastLock, TakenNow
<1>6. QueueInStep(m)'
  BY <1>1, <1>2 DEF LeftAlone, NodeInStep, QueueInStep, TakenNow
<1>7. StateInStep(m)'
  BY <1>1, <1>2, <1>3, <1>4
  DEF LeftAlone, NodeInStep, StateInStep, SyncPending, TakenNow
<1>8. SyncInStep(m)'
  BY <1>1, <1>2, <1>3, <1>4 DEF LeftAlone, NodeInStep, SyncInStep, TakenNow
<1>9. ServiceInStep(m)'
  BY <1>1, <1>2 DEF LeftAlone, NodeInStep, ServiceInStep, Installing
<1> QED
  BY <1>5, <1>6, <1>7, <1>8, <1>9 DEF NodeInStep

(* A step of one node that does not make it busy.                          *)
LEMMA NodeSteps ==
    ASSUME OneCycle, IInv, InStep, now' = now, doc' = doc, LocksProlonged,
           NEW n \in Nodes, \A m \in Nodes \ {n} : LeftAlone(m),
           NodeInStep(n)', Busy(n)' => Busy(n), OnlyOverSettled',
           left'["lose"] = left["lose"]
    PROVE  InStep'
<1>1. \A m \in Nodes : NodeInStep(m)'
  BY StaysInStep
<1>2. \A m \in Nodes : Busy(m)' => Busy(m)
  BY DEF LeftAlone, Busy, PastLock
<1>3. OneBusy'
  BY <1>2 DEF OneBusy, InStep
<1> QED
  BY <1>1, <1>3 DEF InStep

(* What is settled stays over. *)
LEMMA StillOver ==
    ASSUME InStep, now \in Nat, now' \in Nat, now' >= now, UNCHANGED settled
    PROVE  OnlyOverSettled'
<1>1. ASSUME NEW r \in settled PROVE r \in Proper /\ Grid(r).close <= now'
  BY <1>1, GridWindow DEF InStep, OnlyOverSettled
<1> QED
  BY <1>1 DEF OnlyOverSettled

(* A round is looked at as over where it is: at the document's round, or   *)
(* behind it, where the lock is still taken.                               *)
LEMMA BeginTickInStep ==
    ASSUME OneCycle, IInv, InStep, NEW n \in Nodes, BeginTick(n) PROVE InStep'
<1>1. /\ tick[n].pc = "idle" /\ tick[n] = TickIdle /\ tick \in [Nodes -> TickType]
      /\ now \in Nat /\ now' = now /\ doc' = doc /\ lock' = lock /\ svc[n] # None
      /\ UNCHANGED <<state, svc, sync, queue>> /\ timely'.synced = timely.synced
  BY Advance DEF BeginTick, clockVars, redisVars, Started, Ticked, IInv, TypeOK
<1>2. NodeInStep(n) /\ LocksProlonged
  BY <1>1, Standing DEF InStep, LocksProlonged
<1>3. /\ svc[n] \in Service /\ svc[n].round \in Proper
      /\ svc[n].close = Grid(svc[n].round).close
  BY <1>1, NodeStanding, ServiceFacts
<1>4. OnlyOverSettled' /\ left'["lose"] = left["lose"]
  <2>1. CASE now >= svc[n].close
    <3>1. left'["lose"] = left["lose"] /\ settled' \subseteq settled \cup {svc[n].round}
      BY <2>1, <1>3, Settles DEF BeginTick, SettleIfOver, IInv
    <3>2. Grid(svc[n].round).close <= now
      BY <2>1, <1>3, <1>1, GridWindow
    <3> QED
      BY <3>1, <3>2, <1>1, <1>3 DEF InStep, OnlyOverSettled
  <2>2. CASE ~(now >= svc[n].close)
    BY <2>2, <1>1, StillOver DEF BeginTick, SettleIfOver
  <2> QED
    BY <2>1, <2>2
<1>5. \A m \in Nodes \ {n} : LeftAlone(m)
  BY <1>1 DEF BeginTick, LeftAlone
<1>6. CASE tick' = tick
  <2>1. LeftAlone(n)
    BY <1>1, <1>6 DEF LeftAlone
  <2>2. NodeInStep(n)'
    BY <1>1, <1>2, <2>1, StaysInStep
  <2>3. Busy(n)' => Busy(n)
    BY <1>1, <1>6 DEF Busy, PastLock
  <2> QED
    BY <1>1, <1>2, <1>4, <1>5, <2>2, <2>3, NodeSteps
<1>7. CASE tick' # tick
  <2> DEFINE new == [TickIdle EXCEPT !.pc = "lock", !.p = state[n], !.live = TRUE,
                                     !.t = now]
  <2>1. state[n] # None /\ Expired(state[n], now) /\ tick' = [tick EXCEPT ![n] = new]
    BY <1>7 DEF BeginTick
  <2>2. new.pc = "lock" /\ new.p = state[n] /\ new.t = now
    BY DEF TickIdle
  <2> HIDE DEF new
  <2>3. tick'[n] = new
    BY <2>1, <1>1
  <2>4. /\ state[n] \in RoundStates /\ state[n].cur \in Begun
        /\ state[n].close = Grid(state[n].cur).close
    <3>1. state[n] \in RoundStates
      BY <1>1, <2>1, Advance, Idle DEF StateAt
    <3> QED
      BY <3>1, StateFacts
  <2>5. \/ state[n].cur = Here
        \/ state[n].cur < Here /\ lock[state[n].cur] > now
    <3>1. ~(state[n].cur = Target /\ now < TotalClose)
      <4>1. Grid(Target).close \in Nat
        BY Standing, GridWindow
      <4> QED
        BY <4>1, <1>1, <2>1, <2>4, TargetIsOpen DEF Expired, Target
    <3> QED
      BY <3>1, <2>1, <1>2 DEF NodeInStep, StateInStep
  <2>6. TickInStep(n)'
    BY <1>1, <2>2, <2>3, <2>5 DEF TickInStep, PastLock, Here
  <2>7. QueueInStep(n)' /\ StateInStep(n)' /\ SyncInStep(n)' /\ ServiceInStep(n)'
    BY <1>1, <1>2, <2>2, <2>3
    DEF NodeInStep, QueueInStep, StateInStep, SyncInStep, ServiceInStep,
        Here, Target, TakenNow, SyncPending, Installing
  <2>8. Busy(n)' => Busy(n)
    BY <1>1, <2>2, <2>3 DEF Busy, PastLock
  <2>9. NodeInStep(n)'
    BY <2>6, <2>7 DEF NodeInStep
  <2> QED
    BY <1>1, <1>2, <1>4, <1>5, <2>8, <2>9, NodeSteps
<1> QED
  BY <1>6, <1>7

(* The lock is taken only at the round of the document, and by nobody else *)
(* while an advance from it or its save is under way.                      *)
LEMMA TakeLockInStep ==
    ASSUME OneCycle, InTime, IInv, InStep, NEW n \in Nodes, TakeLock(n) PROVE InStep'
<1> DEFINE round == tick[n].p.cur
           new == [tick[n] EXCEPT !.pc = "settle", !.svc = svc[n]]
<1>1. /\ tick[n].pc = "lock" /\ tick[n] \in TickType /\ tick \in [Nodes -> TickType]
      /\ tick[n].p \in RoundStates /\ tick[n].p.close = Grid(round).close
      /\ round \in Begun /\ round \in Rounds
      /\ now \in Nat /\ now' = now /\ doc' = doc /\ lock \in [Rounds -> Nat]
      /\ UNCHANGED <<state, svc, sync, queue, timely, left, settled>>
  BY Advance, StateFacts, Standing DEF TakeLock, clockVars, outVars
<1>2. /\ new.pc = "settle" /\ new.p = tick[n].p /\ new.svc = svc[n]
      /\ new.t = tick[n].t
  BY <1>1 DEF TickType
<1>3. NodeInStep(n)
  BY DEF InStep
<1>4. \/ tick' = [tick EXCEPT ![n] = TickIdle] /\ lock' = lock
      \/ /\ LockFree(round) /\ lock' = [lock EXCEPT ![round] = now + LockTTL]
         /\ \/ tick' = [tick EXCEPT ![n] = TickIdle]
            \/ svc[n] # None /\ tick' = [tick EXCEPT ![n] = new]
  BY DEF TakeLock
<1> HIDE DEF round, new
<1>5. LocksProlonged
  BY <1>1, <1>4, Standing DEF LockFree, LocksProlonged
<1>6. OnlyOverSettled'
  BY <1>1, StillOver
<1>7. \A m \in Nodes \ {n} : LeftAlone(m)
  BY <1>1, <1>4 DEF LeftAlone
<1>8. CASE tick' = [tick EXCEPT ![n] = TickIdle]
  <2>1. tick'[n] = TickIdle
    BY <1>1, <1>8
  <2>2. TickInStep(n)'
    BY <2>1, Idle DEF TickInStep, PastLock
  <2>3. /\ Here \in Rounds /\ lock'[Here] >= lock[Here] /\ lock'[Here] \in Nat
        /\ sync[n].pc # "idle" => /\ lock'[sync[n].doc.cur] >= lock[sync[n].doc.cur]
                                  /\ lock'[sync[n].doc.cur] \in Nat
                                  /\ sync[n].doc.cur \in Rounds
        /\ state[n] # None => /\ lock'[state[n].cur] >= lock[state[n].cur]
                              /\ lock'[state[n].cur] \in Nat /\ state[n].cur \in Rounds
    BY <1>5, Standing, NodeStanding DEF LocksProlonged
  <2>4. QueueInStep(n)' /\ StateInStep(n)' /\ SyncInStep(n)' /\ ServiceInStep(n)'
    BY <1>1, <1>3, <2>1, <2>3, Idle
    DEF NodeInStep, QueueInStep, StateInStep, SyncInStep, ServiceInStep,
        Here, Target, TakenNow, SyncPending, Installing
  <2>5. Busy(n)' => Busy(n)
    BY <1>1, <2>1, Idle DEF Busy, PastLock
  <2>6. NodeInStep(n)'
    BY <2>2, <2>4 DEF NodeInStep
  <2> QED
    BY <1>1, <1>5, <1>6, <1>7, <2>5, <2>6, NodeSteps
<1>9. CASE /\ LockFree(round) /\ lock' = [lock EXCEPT ![round] = now + LockTTL]
           /\ svc[n] # None /\ tick' = [tick EXCEPT ![n] = new]
  <2>1. tick'[n] = new /\ new.t = now /\ lock[round] <= now /\ lock[round] \in Nat
    BY <1>1, <1>2, <1>3, <1>9 DEF LockFree, NodeInStep, TickInStep
  <2>2. round = Here /\ ~TakenNow(Here)
    <3>1. \/ round = Here
          \/ round < Here /\ lock[round] > now
      BY <1>1, <1>3 DEF NodeInStep, TickInStep, round
    <3> QED
      BY <2>1, <3>1, <1>1 DEF TakenNow
  <2>3. \A m \in Nodes : ~Busy(m)
    BY <2>2 DEF InStep, NodeInStep, TickInStep, QueueInStep, Busy
  <2>4. TakenNow(Here)'
    <3>1. lock'[Here] = now + LockTTL /\ Here' = Here
      BY <1>1, <1>9, <2>2 DEF Here
    <3> QED
      BY <3>1, <1>1, Standing DEF TakenNow, InTime
  <2>5. svc[n] \in GridServices /\ svc[n].close <= now
    <3>1. /\ svc[n] \in GridServices /\ svc[n].round \in Proper
          /\ svc[n].close = Grid(svc[n].round).close
      BY <1>9, NodeStanding, Standing
    <3>2. svc[n].round <= Here
      BY <1>1, <1>3, <1>9, <2>3 DEF NodeInStep, ServiceInStep, Installing, Busy
    <3>3. now >= Grid(Here).close
      BY <1>1, <1>2, <2>1, <2>2, Advance, Idle DEF TickAt
    <3>4. Here \in Proper /\ Grid(svc[n].round).close \in Nat
      BY <3>1, Standing, GridWindow
    <3>5. now >= Grid(svc[n].round).close
      BY <3>1, <3>2, <3>3, <3>4, <1>1, EarlierIsOver
    <3> QED
      BY <3>1, <3>4, <3>5, <1>1
  <2>6. TickInStep(n)'
    <3>1. Here' = Here /\ GridServices' = GridServices /\ queue'[n] = <<>>
      BY <1>1, <2>3 DEF Here, GridServices, Begun, BegunAt, Busy
    <3> QED
      BY <1>1, <1>2, <2>1, <2>2, <2>4, <2>5, <3>1 DEF TickInStep, PastLock, round
  <2>7. /\ Here \in Rounds /\ lock'[Here] >= lock[Here] /\ lock'[Here] \in Nat
        /\ sync[n].pc # "idle" => /\ lock'[sync[n].doc.cur] >= lock[sync[n].doc.cur]
                                  /\ lock'[sync[n].doc.cur] \in Nat
                                  /\ sync[n].doc.cur \in Rounds
        /\ state[n] # None => /\ lock'[state[n].cur] >= lock[state[n].cur]
                              /\ lock'[state[n].cur] \in Nat /\ state[n].cur \in Rounds
    BY <1>5, Standing, NodeStanding DEF LocksProlonged
  <2>8. QueueInStep(n)' /\ StateInStep(n)' /\ SyncInStep(n)' /\ ServiceInStep(n)'
    BY <1>1, <1>2, <1>3, <2>1, <2>7
    DEF NodeInStep, QueueInStep, StateInStep, SyncInStep, ServiceInStep,
        Here, Target, TakenNow, SyncPending, Installing
  <2>9. \A m \in Nodes : NodeInStep(m)'
    BY <1>1, <1>5, <1>7, <2>6, <2>8, StaysInStep DEF NodeInStep
  <2>10. \A m \in Nodes : Busy(m)' => m = n
    BY <1>7, <2>3 DEF Busy, PastLock, LeftAlone
  <2> QED
    BY <1>1, <1>6, <2>9, <2>10 DEF InStep, OneBusy
<1> QED
  BY <1>4, <1>8, <1>9

(* The round planned is that of the clock. *)
LEMMA SettleAndPlanInStep ==
    ASSUME OneCycle, IInv, InStep, NEW n \in Nodes, SettleAndPlan(n) PROVE InStep'
<1> DEFINE next == NextAdvanceRound(tick[n].p, tick[n].t)
           new == [tick[n] EXCEPT !.pc = "replace", !.p = tick[n].p, !.next = next]
<1>1. /\ tick[n].pc = "settle" /\ tick[n] \in TickType /\ tick \in [Nodes -> TickType]
      /\ tick[n].p \in RoundStates /\ tick[n].p = RoundState(tick[n].p.cur)
      /\ tick[n].p.close = Grid(tick[n].p.cur).close
      /\ now \in Nat /\ now' = now /\ doc' = doc /\ lock' = lock
      /\ UNCHANGED <<svc, sync, timely>>
  BY Advance, StateFacts DEF SettleAndPlan, clockVars
<1>2. NodeInStep(n) /\ LocksProlonged
  BY <1>1, Standing DEF InStep, LocksProlonged
<1>3. /\ tick[n].p.cur = Here /\ tick[n].t = now /\ TakenNow(Here) /\ queue[n] = <<>>
      /\ tick[n].svc \in GridServices /\ tick[n].svc.close <= now
      /\ tick[n].p.close <= tick[n].t
  <2>1. TickAt(n) /\ tick[n] # TickIdle
    BY <1>1, Advance, Idle
  <2> QED
    BY <2>1, <1>1, <1>2 DEF NodeInStep, TickInStep, PastLock, TickAt
<1>4. /\ \/ tick' = [tick EXCEPT ![n] = TickIdle]
         \/ ~Finished(tick[n].t) /\ tick' = [tick EXCEPT ![n] = new]
      /\ UNCHANGED <<state, queue>>
  BY Planned
<1>5. /\ new.pc = "replace" /\ new.p = tick[n].p /\ new.t = tick[n].t
      /\ new.next = next
  BY <1>1 DEF TickType
<1> HIDE DEF new
<1>6. OnlyOverSettled' /\ left'["lose"] = left["lose"]
  <2>1. /\ tick[n].svc \in Service /\ tick[n].svc.round \in Proper
        /\ tick[n].svc.close = Grid(tick[n].svc.round).close
    BY <1>3, ServiceFacts
  <2>2. left'["lose"] = left["lose"] /\ settled' \subseteq settled \cup {tick[n].svc.round}
    BY <2>1, Settles DEF SettleAndPlan, IInv
  <2> QED
    BY <2>1, <2>2, <1>1, <1>3 DEF InStep, OnlyOverSettled
<1>7. \A m \in Nodes \ {n} : LeftAlone(m)
  BY <1>1, <1>4 DEF LeftAlone
<1>8. Busy(n)
  BY <1>1 DEF Busy, PastLock
<1>9. tick'[n] = TickIdle \/ (~Finished(tick[n].t) /\ tick'[n] = new)
  BY <1>1, <1>4
<1>10. TickInStep(n)'
  <2>1. CASE tick'[n] = TickIdle
    BY <2>1, Idle DEF TickInStep, PastLock
  <2>2. CASE ~Finished(tick[n].t) /\ tick'[n] = new
    <3>1. Here \in Proper /\ TotalClose \in Nat
      BY Standing
    <3>2. now >= Grid(Here).close /\ now < TotalClose
      BY <1>1, <1>3, <2>2, <3>1, GridWindow DEF Finished
    <3>3. next = Target /\ Here < Target
      BY <1>1, <1>3, <3>1, <3>2, NextIsTarget DEF Target
    <3>4. UNCHANGED <<Here, Target, TakenNow(Here)>>
      BY <1>1 DEF Here, Target, TakenNow
    <3> HIDE DEF next
    <3> QED
      BY <1>1, <1>3, <1>4, <1>5, <2>2, <3>2, <3>3, <3>4 DEF TickInStep, PastLock
  <2> QED
    BY <1>9, <2>1, <2>2
<1>11. QueueInStep(n)' /\ StateInStep(n)' /\ SyncInStep(n)' /\ ServiceInStep(n)'
  BY <1>1, <1>2, <1>3, <1>4, <1>5, <1>9, Idle
  DEF NodeInStep, QueueInStep, StateInStep, SyncInStep, ServiceInStep,
      Here, Target, TakenNow, SyncPending, Installing
<1> QED
  BY <1>1, <1>2, <1>6, <1>7, <1>8, <1>10, <1>11, NodeSteps DEF NodeInStep

(* The service of the clock's round is there before that round is saved.   *)
LEMMA ReplaceRoundInStep ==
    ASSUME OneCycle, IInv, InStep, NEW n \in Nodes, ReplaceRound(n) PROVE InStep'
<1> DEFINE s == ServiceFor(tick[n].next, Window(tick[n].p, tick[n].next))
           k == [tick[n] EXCEPT !.pc = "window"]
<1>1. /\ tick[n].pc = "replace" /\ tick[n] \in TickType /\ tick \in [Nodes -> TickType]
      /\ now \in Nat /\ now' = now /\ doc' = doc /\ lock' = lock
      /\ UNCHANGED <<state, sync, queue, timely, settled>>
      /\ svc \in [Nodes -> Service \cup {None}]
  BY Advance DEF ReplaceRound, clockVars, redisVars, IInv, TypeOK
<1>2. NodeInStep(n) /\ LocksProlonged /\ Busy(n) /\ OnlyOverSettled'
  BY <1>1, Standing, StillOver DEF InStep, LocksProlonged, Busy, PastLock
<1>3. /\ k.pc = "window" /\ k.p = tick[n].p /\ k.t = tick[n].t /\ k.next = tick[n].next
  BY <1>1 DEF TickType
<1>4. \/ svc' = [svc EXCEPT ![n] = s] /\ tick' = [tick EXCEPT ![n] = k] /\ left' = left
      \/ svc' = svc /\ tick' = [tick EXCEPT ![n] = TickIdle] /\ Spend("error")
  BY DEF ReplaceRound, EitherWay
<1> HIDE DEF s, k
<1>5. left'["lose"] = left["lose"]
  <2>1. {"error", "lose"} \subseteq Kinds /\ left \in [Kinds -> Nat]
    BY PeriodicConstants DEF IInv, TypeOK
  <2> QED
    BY <2>1, <1>4 DEF Spend
<1>6. \A m \in Nodes \ {n} : LeftAlone(m)
  BY <1>1, <1>4 DEF LeftAlone
<1>7. tick'[n] = k \/ (tick'[n] = TickIdle /\ svc' = svc)
  BY <1>1, <1>4
<1>8. UNCHANGED <<Here, Target, TakenNow(Here)>>
  BY <1>1 DEF Here, Target, TakenNow
<1>9. TickInStep(n)'
  BY <1>1, <1>2, <1>3, <1>7, <1>8, Idle DEF NodeInStep, TickInStep, PastLock
<1>10. QueueInStep(n)' /\ StateInStep(n)' /\ SyncInStep(n)' /\ ServiceInStep(n)'
  BY <1>1, <1>2, <1>3, <1>7, Idle
  DEF NodeInStep, QueueInStep, StateInStep, SyncInStep, ServiceInStep,
      Here, Target, TakenNow, SyncPending, Installing
<1> QED
  BY <1>1, <1>2, <1>5, <1>6, <1>9, <1>10, NodeSteps DEF NodeInStep

(* The window alone moves no number. *)
LEMMA WriteWindowInStep ==
    ASSUME OneCycle, IInv, InStep, NEW n \in Nodes, WriteWindow(n) PROVE InStep'
<1> DEFINE p == WithWindowOf(tick[n].p, tick[n].next)
           k == [tick[n] EXCEPT !.pc = "number", !.p = p]
           j == [tick[n] EXCEPT !.pc = "publish"]
<1>1. /\ tick[n].pc = "window" /\ tick[n] \in TickType /\ tick \in [Nodes -> TickType]
      /\ tick[n].p \in PeriodicState /\ StateAt(n)
      /\ state \in [Nodes -> PeriodicState \cup {None}]
      /\ now \in Nat /\ now' = now /\ doc' = doc /\ lock' = lock
      /\ UNCHANGED <<svc, sync, queue, timely, settled, left>>
  BY Advance DEF WriteWindow, clockVars, redisVars, outVars, IInv, TypeOK
<1>2. NodeInStep(n) /\ LocksProlonged /\ Busy(n) /\ OnlyOverSettled'
  BY <1>1, Standing, StillOver DEF InStep, LocksProlonged, Busy, PastLock
<1>3. p.cur = tick[n].p.cur
  BY <1>1 DEF WithWindowOf, PeriodicState
<1>4. /\ k.pc = "number" /\ k.p = p /\ k.t = tick[n].t /\ k.next = tick[n].next
      /\ j.pc = "publish" /\ j.p = tick[n].p /\ j.t = tick[n].t /\ j.next = tick[n].next
  BY <1>1 DEF TickType
<1>5. \/ tick' = [tick EXCEPT ![n] = k] /\ WriteState(n, p)
      \/ tick' = [tick EXCEPT ![n] = j] /\ state' = state
  BY DEF WriteWindow
<1> HIDE DEF p, k, j
<1>6. /\ tick'[n] = k \/ tick'[n] = j
      /\ \A m \in Nodes \ {n} : tick'[m] = tick[m] /\ state'[m] = state[m]
      /\ state'[n] = state[n] \/ (state[n] = tick[n].p /\ state'[n] = p)
  BY <1>1, <1>5 DEF WriteState, StateAt
<1>7. \A m \in Nodes \ {n} : LeftAlone(m)
  BY <1>1, <1>6 DEF LeftAlone
<1>8. UNCHANGED <<Here, Target, TakenNow(Here)>>
  BY <1>1 DEF Here, Target, TakenNow
<1>9. TickInStep(n)'
  BY <1>1, <1>2, <1>3, <1>4, <1>6, <1>8 DEF NodeInStep, TickInStep, PastLock
<1>10. state[n] # None /\ state'[n].cur = state[n].cur /\ queue[n] = <<>>
  BY <1>1, <1>2, <1>3, <1>6, NodeStanding DEF NodeInStep, TickInStep, PastLock
<1>11. QueueInStep(n)' /\ StateInStep(n)' /\ SyncInStep(n)' /\ ServiceInStep(n)'
  BY <1>1, <1>2, <1>4, <1>6, <1>10
  DEF NodeInStep, QueueInStep, StateInStep, SyncInStep, ServiceInStep,
      Here, Target, TakenNow, SyncPending, Installing
<1> QED
  BY <1>1, <1>2, <1>7, <1>9, <1>11, NodeSteps DEF NodeInStep

(* The number is written into the node's state unless a sync has put       *)
(* another in its place; no sync is about to.                              *)
LEMMA WriteNumberInStep ==
    ASSUME OneCycle, IInv, InStep, NEW n \in Nodes, WriteNumber(n) PROVE InStep'
<1> DEFINE p == [tick[n].p EXCEPT !.cur = tick[n].next]
           k == [tick[n] EXCEPT !.pc = "publish", !.p = p]
<1>1. /\ tick[n].pc = "number" /\ tick[n] \in TickType /\ tick \in [Nodes -> TickType]
      /\ StateAt(n) /\ state \in [Nodes -> PeriodicState \cup {None}]
      /\ now \in Nat /\ now' = now /\ doc' = doc /\ lock' = lock
      /\ UNCHANGED <<svc, sync, queue, timely, settled, left>>
  BY Advance DEF WriteNumber, clockVars, redisVars, outVars, IInv, TypeOK
<1>2. NodeInStep(n) /\ LocksProlonged /\ Busy(n) /\ OnlyOverSettled'
  BY <1>1, Standing, StillOver DEF InStep, LocksProlonged, Busy, PastLock
<1>3. /\ tick[n].p.cur = Here /\ tick[n].next = Target /\ Here < Target
      /\ now < TotalClose /\ queue[n] = <<>>
  BY <1>1, <1>2 DEF NodeInStep, TickInStep, PastLock
<1>4. p.cur = Target
  <2>1. /\ tick[n].next \in Begun
        /\ \E r \in Begun : tick[n].p = Between(r, tick[n].next)
    BY <1>1, Advance, Idle DEF TickAt
  <2> QED
    BY <2>1, <1>3 DEF Between
<1>5. k.pc = "publish" /\ k.t = tick[n].t /\ k.next = tick[n].next
  BY <1>1 DEF TickType
<1>6. tick' = [tick EXCEPT ![n] = k] /\ WriteState(n, p)
  BY DEF WriteNumber
<1> HIDE DEF p, k
<1>7. /\ tick'[n] = k
      /\ \A m \in Nodes \ {n} : tick'[m] = tick[m] /\ state'[m] = state[m]
      /\ state'[n] = state[n] \/ (state[n] = tick[n].p /\ state'[n] = p)
  BY <1>1, <1>6 DEF WriteState, StateAt
<1>8. \A m \in Nodes \ {n} : LeftAlone(m)
  BY <1>1, <1>7 DEF LeftAlone
<1>9. UNCHANGED <<Here, Target, TakenNow(Here)>>
  BY <1>1 DEF Here, Target, TakenNow
<1>10. TickInStep(n)'
  BY <1>1, <1>2, <1>5, <1>7, <1>9 DEF NodeInStep, TickInStep, PastLock
<1>11. state[n] # None /\ Here \in Nat /\ (sync[n].pc # "idle" => sync[n].doc.cur \in Nat)
  BY <1>1, NodeStanding, Standing
<1>12. QueueInStep(n)' /\ ServiceInStep(n)'
  BY <1>1, <1>2, <1>3, <1>5, <1>7
  DEF NodeInStep, QueueInStep, ServiceInStep, Here, Target, TakenNow, Installing
<1>13. StateInStep(n)' /\ SyncInStep(n)'
  <2>1. CASE state'[n] = state[n]
    BY <2>1, <1>1, <1>2, <1>5, <1>7
    DEF NodeInStep, StateInStep, SyncInStep, Here, Target, TakenNow, SyncPending
  <2>2. CASE state[n] = tick[n].p /\ state'[n] = p
    <3>1. sync[n].pc # "state"
      BY <2>2, <1>2, <1>3, <1>11 DEF NodeInStep, SyncInStep
    <3>2. SyncInStep(n)'
      BY <3>1, <1>1, <1>2 DEF NodeInStep, SyncInStep, Here, TakenNow
    <3>3. StateInStep(n)'
      BY <2>2, <1>1, <1>3, <1>4, <1>5, <1>7, <1>9 DEF StateInStep
    <3> QED
      BY <3>2, <3>3
  <2> QED
    BY <1>7, <2>1, <2>2
<1> QED
  BY <1>1, <1>2, <1>8, <1>10, <1>12, <1>13, NodeSteps DEF NodeInStep

(* The round that is sent to Mongo is that of the clock.                   *)
LEMMA PublishInStep ==
    ASSUME OneCycle, IInv, InStep, NEW n \in Nodes, Publish(n) PROVE InStep'
<1>1. /\ tick[n].pc = "publish" /\ tick \in [Nodes -> TickType]
      /\ tick[n].p = RoundState(tick[n].next) /\ state[n] # None
      /\ now \in Nat /\ now' = now /\ doc' = doc /\ lock' = lock
      /\ UNCHANGED <<state, svc, sync, timely, settled, left>>
      /\ queue \in [Nodes -> Seq(PeriodicState)]
  BY Advance, Idle, NodeStanding DEF TickAt, Publish, clockVars, outVars, IInv, TypeOK
<1>2. NodeInStep(n) /\ LocksProlonged /\ Busy(n) /\ OnlyOverSettled'
  BY <1>1, Standing, StillOver DEF InStep, LocksProlonged, Busy, PastLock
<1>3. /\ tick[n].next = Target /\ Here < Target /\ now < TotalClose
      /\ TakenNow(Here) /\ queue[n] = <<>>
  BY <1>1, <1>2 DEF NodeInStep, TickInStep, PastLock
<1>4. /\ tick'[n] = TickIdle /\ queue'[n] = <<RoundState(Target)>>
      /\ \A m \in Nodes \ {n} : tick'[m] = tick[m] /\ queue'[m] = queue[m]
  BY <1>1, <1>3 DEF Publish
<1>5. \A m \in Nodes \ {n} : LeftAlone(m)
  BY <1>1, <1>4 DEF LeftAlone
<1>6. UNCHANGED <<Here, Target, TakenNow(Here), RoundState(Target)>>
  BY <1>1 DEF Here, Target, TakenNow
<1>7. TickInStep(n)' /\ QueueInStep(n)'
  BY <1>1, <1>3, <1>4, <1>6, Idle DEF TickInStep, QueueInStep, PastLock
<1>8. queue'[n] # <<>>
  BY <1>4
<1>9. StateInStep(n)' /\ SyncInStep(n)' /\ ServiceInStep(n)'
  BY <1>1, <1>2, <1>4, <1>8
  DEF NodeInStep, StateInStep, SyncInStep, ServiceInStep,
      Here, Target, TakenNow, SyncPending, Installing
<1> QED
  BY <1>1, <1>2, <1>5, <1>7, <1>9, NodeSteps DEF NodeInStep

(* A sync of a node that is behind has read a later round than the node's. *)
LEMMA SyncReadInStep ==
    ASSUME OneCycle, IInv, InStep, NEW n \in Nodes, SyncRead(n) PROVE InStep'
<1> DEFINE k == [pc |-> "decide", doc |-> doc, old |-> None]
<1>1. /\ sync[n].pc = "idle" /\ sync \in [Nodes -> SyncType]
      /\ now \in Nat /\ now' = now /\ doc' = doc /\ lock' = lock
      /\ UNCHANGED <<state, svc, tick, queue, timely, settled>>
  BY Sync DEF SyncRead, clockVars, redisVars, outVars
<1>2. sync' = [sync EXCEPT ![n] = k] /\ left' = left
  <2>1. ~Spend("outage")
    BY DEF Spend, IInv, GridInv
  <2> QED
    BY <2>1 DEF SyncRead
<1>3. NodeInStep(n) /\ LocksProlonged /\ OnlyOverSettled'
  BY <1>1, Standing, StillOver DEF InStep, LocksProlonged
<1>4. /\ sync'[n].pc = "decide" /\ sync'[n].doc = doc
      /\ \A m \in Nodes \ {n} : sync'[m] = sync[m]
  BY <1>1, <1>2
<1>5. \A m \in Nodes \ {n} : LeftAlone(m)
  BY <1>1, <1>4 DEF LeftAlone
<1>6. GridServices' = GridServices
  BY <1>1 DEF GridServices, Begun, BegunAt
<1>7. NodeInStep(n)'
  BY <1>1, <1>3, <1>4, <1>6
  DEF NodeInStep, TickInStep, QueueInStep, StateInStep, SyncInStep, ServiceInStep,
      Here, Target, TakenNow, SyncPending, Installing, PastLock
<1> QED
  BY <1>1, <1>2, <1>3, <1>5, <1>7, NodeSteps DEF Busy, PastLock

(* It goes on to set the state exactly when the node is behind.            *)
LEMMA SyncDecideInStep ==
    ASSUME OneCycle, IInv, InStep, NEW n \in Nodes, SyncDecide(n) PROVE InStep'
<1> DEFINE k == [sync[n] EXCEPT !.old = svc[n],
                                !.pc = IF Behind(n) THEN "state" ELSE "service"]
<1>1. /\ sync[n].pc = "decide" /\ sync[n] \in SyncType /\ sync \in [Nodes -> SyncType]
      /\ now \in Nat /\ now' = now /\ doc' = doc /\ lock' = lock
      /\ UNCHANGED <<state, svc, tick, queue, timely, settled, left>>
  BY Sync DEF SyncDecide, clockVars, redisVars, outVars
<1>2. sync' = [sync EXCEPT ![n] = k]
  BY DEF SyncDecide
<1>3. k.pc = (IF Behind(n) THEN "state" ELSE "service") /\ k.doc = sync[n].doc
  BY <1>1 DEF SyncType
<1> HIDE DEF k
<1>4. NodeInStep(n) /\ LocksProlonged /\ OnlyOverSettled'
  BY <1>1, Standing, StillOver DEF InStep, LocksProlonged
<1>5. sync'[n] = k /\ \A m \in Nodes \ {n} : sync'[m] = sync[m]
  BY <1>1, <1>2
<1>6. \A m \in Nodes \ {n} : LeftAlone(m)
  BY <1>1, <1>5 DEF LeftAlone
<1>7. GridServices' = GridServices
  BY <1>1 DEF GridServices, Begun, BegunAt
<1>8. NodeInStep(n)'
  BY <1>1, <1>3, <1>4, <1>5, <1>7
  DEF NodeInStep, TickInStep, QueueInStep, StateInStep, SyncInStep, ServiceInStep,
      Here, Target, TakenNow, SyncPending, Installing, PastLock, Behind
<1> QED
  BY <1>1, <1>4, <1>6, <1>8, NodeSteps DEF Busy, PastLock

(* A state set from a document that has since been overwritten is of a     *)
(* round whose lock is taken for another unit.                             *)
LEMMA SyncStateInStep ==
    ASSUME OneCycle, IInv, InStep, NEW n \in Nodes, SyncState(n) PROVE InStep'
<1>1. /\ sync[n].pc = "state" /\ sync[n] \in SyncType /\ sync \in [Nodes -> SyncType]
      /\ tick[n] \in TickType /\ tick \in [Nodes -> TickType]
      /\ state \in [Nodes -> PeriodicState \cup {None}]
      /\ sync[n].doc.cur \in Rounds /\ sync[n].doc # None
      /\ now \in Nat /\ now' = now /\ doc' = doc /\ lock' = lock
      /\ UNCHANGED <<svc, queue, timely, settled, left>>
  <2>1. sync[n].pc = "state" /\ sync[n].doc \in RoundStates
    BY Sync DEF SyncState
  <2> QED
    BY <2>1, Sync, Advance, StateFacts
    DEF SyncState, clockVars, redisVars, outVars, IInv, TypeOK
<1>2. NodeInStep(n) /\ LocksProlonged /\ OnlyOverSettled'
  BY <1>1, Standing, StillOver DEF InStep, LocksProlonged
<1>3. /\ sync'[n].pc = "service" /\ sync'[n].doc = sync[n].doc /\ state'[n] = sync[n].doc
      /\ tick'[n].pc = tick[n].pc /\ tick'[n].p = tick[n].p /\ tick'[n].t = tick[n].t
      /\ tick'[n].next = tick[n].next /\ tick'[n].svc = tick[n].svc
      /\ \A m \in Nodes \ {n} :
           sync'[m] = sync[m] /\ tick'[m] = tick[m] /\ state'[m] = state[m]
  BY <1>1 DEF SyncState, SyncType, TickType
<1>4. \A m \in Nodes \ {n} : LeftAlone(m)
  BY <1>1, <1>3 DEF LeftAlone
<1>5. GridServices' = GridServices /\ lock[sync[n].doc.cur] \in Nat
  BY <1>1, Standing DEF GridServices, Begun, BegunAt
<1>6. TickInStep(n)' /\ QueueInStep(n)' /\ SyncInStep(n)' /\ ServiceInStep(n)'
  BY <1>1, <1>2, <1>3, <1>5
  DEF NodeInStep, TickInStep, QueueInStep, SyncInStep, ServiceInStep,
      Here, Target, TakenNow, Installing, PastLock
<1>7. StateInStep(n)'
  BY <1>1, <1>2, <1>3, <1>5 DEF NodeInStep, StateInStep, SyncInStep, Here, TakenNow
<1> QED
  BY <1>1, <1>2, <1>3, <1>4, <1>6, <1>7, NodeSteps DEF NodeInStep, Busy, PastLock

(* The service that a sync creates is of a round that has been saved.      *)
LEMMA SyncServiceInStep ==
    ASSUME OneCycle, IInv, InStep, NEW n \in Nodes, SyncService(n) PROVE InStep'
<1> DEFINE s == CurrentService(sync[n].doc)
<1>1. /\ sync[n].pc = "service" /\ sync \in [Nodes -> SyncType]
      /\ svc \in [Nodes -> Service \cup {None}]
      /\ now \in Nat /\ now' = now /\ doc' = doc /\ lock' = lock
      /\ UNCHANGED <<state, tick, queue, settled, left>>
  BY Sync DEF SyncService, clockVars, redisVars, IInv, TypeOK
<1>2. NodeInStep(n) /\ LocksProlonged /\ OnlyOverSettled'
  BY <1>1, Standing, StillOver DEF InStep, LocksProlonged
<1>3. s.round = sync[n].doc.cur
  BY DEF CurrentService, ServiceFor
<1>4. svc' = [svc EXCEPT ![n] = s] \/ svc' = svc
  BY DEF SyncService
<1> HIDE DEF s
<1>5. /\ sync'[n].pc = "idle" /\ (svc'[n] = s \/ svc'[n] = svc[n])
      /\ \A m \in Nodes \ {n} : sync'[m] = sync[m] /\ svc'[m] = svc[m]
  BY <1>1, <1>4 DEF SyncService, SyncIdle
<1>6. \A m \in Nodes \ {n} : m \in timely'.synced => m \in timely.synced
  BY DEF SyncService, Synced
<1>7. \A m \in Nodes \ {n} : LeftAlone(m)
  BY <1>1, <1>5, <1>6 DEF LeftAlone
<1>8. GridServices' = GridServices
  BY <1>1 DEF GridServices, Begun, BegunAt
<1>9. TickInStep(n)' /\ QueueInStep(n)' /\ StateInStep(n)' /\ SyncInStep(n)'
  BY <1>1, <1>2, <1>5, <1>8
  DEF NodeInStep, TickInStep, QueueInStep, StateInStep, SyncInStep,
      Here, Target, TakenNow, PastLock, SyncPending
<1>10. sync[n].doc.cur <= Here /\ Here \in Nat
  <2>1. sync[n].doc.cur \in Nat /\ Here \in Nat
    BY <1>1, NodeStanding, Standing
  <2> QED
    BY <2>1, <1>1, <1>2 DEF NodeInStep, SyncInStep
<1>11. ServiceInStep(n)'
  BY <1>1, <1>2, <1>3, <1>5, <1>10 DEF NodeInStep, ServiceInStep, Here, Installing
<1> QED
  BY <1>1, <1>2, <1>7, <1>9, <1>11, NodeSteps DEF NodeInStep, Busy, PastLock

(* When the next round reaches the document, whoever is still at the       *)
(* former one finds its lock taken.                                        *)
LEMMA FlushInStep ==
    ASSUME OneCycle, IInv, InStep, NEW n \in Nodes, Flush(n) PROVE InStep'
<1>1. /\ queue[n] # <<>> /\ now \in Nat /\ now' = now /\ lock' = lock
      /\ queue \in [Nodes -> Seq(PeriodicState)]
      /\ UNCHANGED <<state, tick, sync, svc, timely, settled>>
  BY Sync DEF Flush, clockVars, redisVars, outVars, IInv, TypeOK
<1>2. /\ queue[n] = <<RoundState(Target)>> /\ Here < Target /\ TakenNow(Here)
      /\ \A m \in Nodes : ~PastLock(m) /\ (m # n => queue[m] = <<>>)
  BY <1>1 DEF InStep, NodeInStep, QueueInStep, TickInStep, OneBusy, Busy
<1>3. doc' = RoundState(Target) /\ left' = left
  <2>1. ~Spend("lose")
    BY DEF Spend, InStep
  <2> QED
    BY <2>1, <1>2 DEF Flush
<1>4. Here' = Target /\ Target' = Target
  BY <1>1, <1>3 DEF Here, Target, RoundState, Between
<1>5. \A m \in Nodes : queue'[m] = <<>>
  BY <1>1, <1>2 DEF Flush
<1>6. ASSUME NEW m \in Nodes PROVE NodeInStep(m)'
  <2>1. NodeInStep(m) /\ ~PastLock(m)
    BY <1>2 DEF InStep
  <2>2. /\ Here \in Nat /\ Target \in Nat /\ lock[Here] \in Nat
        /\ lock[Here] > now
    BY <1>1, <1>2, Standing DEF TakenNow
  <2>3. /\ tick[m].pc # "idle" => tick[m].p.cur \in Nat
        /\ state[m] # None => state[m].cur \in Nat
        /\ sync[m].pc # "idle" => sync[m].doc.cur \in Nat
        /\ svc[m] # None => svc[m].round \in Nat /\ svc[m].round <= Target
    BY NodeStanding, Standing
  <2>4. TickInStep(m)'
    BY <1>1, <1>2, <1>4, <2>1, <2>2, <2>3 DEF NodeInStep, TickInStep, PastLock
  <2>5. QueueInStep(m)'
    BY <1>5 DEF QueueInStep
  <2>6. StateInStep(m)'
    BY <1>1, <1>2, <1>4, <2>1, <2>2, <2>3
    DEF NodeInStep, StateInStep, SyncPending, TakenNow
  <2>7. SyncInStep(m)'
    BY <1>1, <1>2, <1>4, <2>1, <2>2, <2>3 DEF NodeInStep, SyncInStep, TakenNow
  <2>8. ServiceInStep(m)'
    BY <1>1, <1>4, <2>3 DEF ServiceInStep
  <2> QED
    BY <2>4, <2>5, <2>6, <2>7, <2>8 DEF NodeInStep
<1>7. OneBusy'
  BY <1>1, <1>2, <1>5 DEF OneBusy, Busy, PastLock
<1>8. OnlyOverSettled'
  BY <1>1, StillOver
<1> QED
  BY <1>3, <1>6, <1>7, <1>8 DEF InStep

(* A node that goes down leaves no advance, no save and no sync behind.    *)
LEMMA GoDownInStep ==
    ASSUME OneCycle, IInv, InStep, NEW n \in Nodes, GoDown(n),
           NEW kind \in {"stop", "crash"}, Spend(kind)
    PROVE  InStep'
<1>1. /\ now \in Nat /\ now' = now /\ doc' = doc /\ lock' = lock
      /\ UNCHANGED <<timely, settled>>
      /\ tick \in [Nodes -> TickType] /\ sync \in [Nodes -> SyncType]
      /\ state \in [Nodes -> PeriodicState \cup {None}]
      /\ svc \in [Nodes -> Service \cup {None}]
      /\ queue \in [Nodes -> Seq(PeriodicState)]
  BY Advance, Sync DEF GoDown, clockVars, redisVars, outVars, IInv, TypeOK
<1>2. /\ tick'[n].pc = "idle" /\ sync'[n].pc = "idle" /\ state'[n] = None
      /\ svc'[n] = None /\ queue'[n] = <<>>
      /\ \A m \in Nodes \ {n} : LeftAlone(m)
  BY <1>1, Idle DEF GoDown, SyncIdle, LeftAlone
<1>3. left'["lose"] = left["lose"]
  <2>1. kind \in Kinds /\ "lose" \in Kinds /\ left \in [Kinds -> Nat] /\ kind # "lose"
    BY PeriodicConstants DEF IInv, TypeOK
  <2> QED
    BY <2>1 DEF Spend
<1>4. NodeInStep(n)'
  BY <1>2
  DEF NodeInStep, TickInStep, QueueInStep, StateInStep, SyncInStep, ServiceInStep, PastLock
<1>5. LocksProlonged /\ OnlyOverSettled' /\ ~Busy(n)'
  BY <1>1, <1>2, Standing, StillOver DEF LocksProlonged, Busy, PastLock
<1> QED
  BY <1>1, <1>2, <1>3, <1>4, <1>5, NodeSteps

(* The clock moves when every node has synced: who is still behind has     *)
(* read a round whose lock outlives the unit.                              *)
LEMMA ClockInStep ==
    ASSUME OneCycle, InTime, IInv, InStep, Clock PROVE InStep'
<1>1. /\ now \in Nat /\ now' = now + 1 /\ doc' = doc /\ lock' = lock
      /\ UNCHANGED <<state, svc, tick, sync, queue, settled, left>>
      /\ timely'.synced = {}
  BY Standing DEF Clock, nodeVars, redisVars, outVars
<1>2. ASSUME NEW m \in Nodes
      PROVE  /\ tick[m].pc = "idle" /\ sync[m].pc = "idle" /\ queue[m] = <<>>
             /\ state[m] # None => m \in timely.synced
  <2>1. Down(m) \/ KeptUp(m)
    BY DEF Clock, InTime
  <2>2. CASE Down(m)
    <3>1. state[m] = None /\ sync[m].pc = "idle"
      BY <2>2 DEF Down
    <3>2. tick[m] = TickIdle /\ queue[m] = <<>>
      BY <3>1, NodeStanding DEF InStep, NodeInStep, QueueInStep
    <3> QED
      BY <3>1, <3>2, Idle
  <2>3. CASE KeptUp(m)
    BY <2>3 DEF KeptUp, Quiet
  <2> QED
    BY <2>1, <2>2, <2>3
<1>3. ASSUME NEW m \in Nodes PROVE NodeInStep(m)'
  <2>1. /\ NodeInStep(m) /\ tick[m].pc = "idle" /\ sync[m].pc = "idle" /\ queue[m] = <<>>
        /\ state[m] # None => m \in timely.synced
    BY <1>2 DEF InStep
  <2>2. state[m] # None => state[m].cur \in Rounds /\ lock[state[m].cur] \in Nat
    BY NodeStanding, Standing
  <2>3. StateInStep(m)'
    BY <1>1, <2>1, <2>2 DEF NodeInStep, StateInStep, SyncPending, TakenNow, Here
  <2>4. TickInStep(m)' /\ QueueInStep(m)' /\ SyncInStep(m)'
    BY <1>1, <2>1 DEF TickInStep, QueueInStep, SyncInStep, PastLock
  <2>5. ServiceInStep(m)'
    BY <1>1, <2>1 DEF NodeInStep, ServiceInStep, Installing, Here
  <2> QED
    BY <2>3, <2>4, <2>5 DEF NodeInStep
<1>4. OneBusy'
  BY <1>1, <1>2 DEF OneBusy, Busy, PastLock
<1>5. OnlyOverSettled'
  BY <1>1, StillOver
<1> QED
  BY <1>1, <1>3, <1>4, <1>5 DEF InStep

(* At the start every node is at the round of the document.                *)
LEMMA InitInStep ==
    ASSUME OneCycle, NoOutage, NoLoss, Init PROVE InStep
<1>1. IInv
  BY InitGrid
<1>2. \E p : /\ state = [n \in Nodes |-> p] /\ doc = p
             /\ svc = [n \in Nodes |-> CurrentService(p)]
  BY DEF Init
<1>3. PICK p : /\ state = [n \in Nodes |-> p] /\ doc = p
               /\ svc = [n \in Nodes |-> CurrentService(p)]
  BY <1>2
<1>4. ASSUME NEW n \in Nodes
      PROVE  /\ tick[n].pc = "idle" /\ sync[n].pc = "idle" /\ queue[n] = <<>>
             /\ state[n].cur = Here /\ svc[n].round = Here
  BY <1>3 DEF Init, TickIdle, SyncIdle, Here, CurrentService, ServiceFor
<1>5. Here \in Nat
  BY <1>1, Standing
<1>6. ASSUME NEW n \in Nodes PROVE NodeInStep(n)
  BY <1>4, <1>5
  DEF NodeInStep, TickInStep, QueueInStep, StateInStep, SyncInStep, ServiceInStep, PastLock
<1>7. OneBusy
  BY <1>4 DEF OneBusy, Busy, PastLock
<1> QED
  BY <1>6, <1>7 DEF InStep, OnlyOverSettled, Init, NoLoss

(* The nodes are and stay in step. *)
LEMMA StayingInStep ==
    OneCycle /\ NoOutage /\ NoLoss /\ InTime /\ Spec => [](IInv /\ InStep)
<1> SUFFICES ASSUME OneCycle, NoOutage, NoLoss, InTime PROVE Spec => [](IInv /\ InStep)
  OBVIOUS
<1>1. Init => InStep
  BY InitInStep
<1>2. ASSUME IInv, InStep, [Next]_vars PROVE InStep'
  <2>1. ASSUME NEW n \in Nodes, TickStep(n) PROVE InStep'
    BY <1>2, <2>1, BeginTickInStep, TakeLockInStep, SettleAndPlanInStep,
       ReplaceRoundInStep, WriteWindowInStep, WriteNumberInStep, PublishInStep
    DEF TickStep
  <2>2. ASSUME NEW n \in Nodes, SyncStep(n) PROVE InStep'
    <3>1. ~RecoverFromRedis(n)
      BY <1>2, Sync DEF RecoverFromRedis
    <3> QED
      BY <1>2, <2>2, <3>1, SyncReadInStep, SyncDecideInStep, SyncStateInStep,
         SyncServiceInStep
      DEF SyncStep
  <2>3. ASSUME NEW n \in Nodes, Flush(n) PROVE InStep'
    BY <1>2, <2>3, FlushInStep
  <2>4. ASSUME NEW n \in Nodes, Stop(n) \/ Crash(n) PROVE InStep'
    BY <1>2, <2>4, GoDownInStep DEF Stop, Crash
  <2>5. ASSUME Clock PROVE InStep'
    BY <1>2, <2>5, ClockInStep
  <2>6. ASSUME (\E n \in Nodes : CheckRound(n)) \/ FileScore \/ UNCHANGED vars PROVE InStep'
    <3>1. /\ UNCHANGED <<now, doc, lock, state, svc, tick, sync, queue, timely, settled>>
          /\ left'["lose"] = left["lose"]
      <4>1. {"score", "lose"} \subseteq Kinds /\ left \in [Kinds -> Nat]
        BY <1>2, PeriodicConstants DEF IInv, TypeOK
      <4> QED
        BY <2>6, <4>1
        DEF CheckRound, FileScore, Spend, vars, clockVars, redisVars, outVars
    <3>2. LocksProlonged /\ OnlyOverSettled'
      BY <1>2, <3>1, Standing, StillOver DEF LocksProlonged
    <3>3. \A m \in Nodes : LeftAlone(m)
      BY <3>1 DEF LeftAlone
    <3>4. \A m \in Nodes : NodeInStep(m)'
      BY <1>2, <3>1, <3>2, <3>3, StaysInStep
    <3>5. OneBusy'
      BY <1>2, <3>1 DEF InStep, OneBusy, Busy, PastLock
    <3> QED
      BY <1>2, <3>1, <3>2, <3>4, <3>5 DEF InStep
  <2>7. ~EditCycle
    BY <1>2 DEF EditCycle, OneCycle, IInv, TypeOK
  <2> QED
    BY <1>2, <2>1, <2>2, <2>3, <2>4, <2>5, <2>6, <2>7 DEF Next, TimeIsUp
<1> QED
  BY <1>1, <1>2, Invariance, PTL DEF Spec

(* Nor do scores run ahead of the document, if no node crashes.            *)
LEMMA ScoresStayInStep ==
    OneCycle /\ NoOutage /\ NoLoss /\ NoCrash /\ InTime /\ Spec => []ScoresInStep
<1> SUFFICES ASSUME OneCycle, NoOutage, NoLoss, NoCrash, InTime PROVE Spec => []ScoresInStep
  OBVIOUS
<1>1. Init => ScoresInStep
  BY DEF Init, ScoresInStep, NoCrash
<1>2. ASSUME IInv, InStep, ScoresInStep, [Next]_vars PROVE ScoresInStep'
  <2> DEFINE Calm == /\ UNCHANGED <<now, doc>> /\ left'["crash"] = left["crash"]
                     /\ \A m \in Nodes : Installing(m) => Installing(m)'
  <2>n. /\ {"score", "lose", "error", "stop", "crash", "outage"} \subseteq Kinds
        /\ left \in [Kinds -> Nat] /\ tick \in [Nodes -> TickType]
        /\ queue \in [Nodes -> Seq(PeriodicState)]
        /\ svc \in [Nodes -> Service \cup {None}]
    BY <1>2, PeriodicConstants DEF IInv, TypeOK, TickType
  <2>1. Calm /\ UNCHANGED filed => ScoresInStep'
    BY <1>2 DEF ScoresInStep, Here, Target
  <2>2. ASSUME NEW n \in Nodes, TickStep(n) PROVE Calm /\ UNCHANGED filed
    <3>1. CASE BeginTick(n)
      <4>1. left'["crash"] = left["crash"]
        BY <2>n, <3>1 DEF BeginTick, SettleIfOver, Settle, EitherWay, Spend
      <4> QED
        BY <2>n, <3>1, <4>1 DEF BeginTick, clockVars, Installing
    <3>2. CASE TakeLock(n)
      BY <2>n, <3>2, Idle DEF TakeLock, clockVars, outVars, Installing, TickType
    <3>3. CASE SettleAndPlan(n)
      <4>1. left'["crash"] = left["crash"]
        BY <2>n, <3>3 DEF SettleAndPlan, Settle, EitherWay, Spend
      <4>2. tick[n].pc = "settle" /\ queue' = queue /\ \A m \in Nodes \ {n} : tick'[m] = tick[m]
        BY <1>2, <2>n, <3>3, Planned DEF SettleAndPlan
      <4> QED
        BY <3>3, <4>1, <4>2 DEF SettleAndPlan, clockVars, Installing
    <3>4. CASE ReplaceRound(n)
      BY <2>n, <3>4, Idle
      DEF ReplaceRound, EitherWay, Spend, clockVars, redisVars, Installing, TickType
    <3>5. CASE WriteWindow(n)
      <4>1. tick'[n].pc \in {"number", "publish"} /\ \A m \in Nodes \ {n} : tick'[m] = tick[m]
        BY <2>n, <3>5 DEF WriteWindow, TickType
      <4> QED
        BY <3>5, <4>1 DEF WriteWindow, clockVars, outVars, Installing
    <3>6. CASE WriteNumber(n)
      <4>1. tick'[n].pc = "publish" /\ \A m \in Nodes \ {n} : tick'[m] = tick[m]
        BY <2>n, <3>6 DEF WriteNumber, TickType
      <4> QED
        BY <3>6, <4>1 DEF WriteNumber, clockVars, outVars, Installing
    <3>7. CASE Publish(n)
      <4>1. queue'[n] # <<>> /\ \A m \in Nodes \ {n} : tick'[m] = tick[m] /\ queue'[m] = queue[m]
        <5>1. queue[n] = <<>>
          BY <1>2, <3>7 DEF Publish, InStep, NodeInStep, TickInStep, PastLock
        <5> QED
          BY <2>n, <3>7, <5>1 DEF Publish
      <4> QED
        BY <3>7, <4>1 DEF Publish, clockVars, outVars, Installing
    <3> QED
      BY <2>2, <3>1, <3>2, <3>3, <3>4, <3>5, <3>6, <3>7 DEF TickStep
  <2>3. ASSUME NEW n \in Nodes, SyncStep(n) \/ CheckRound(n) PROVE Calm /\ UNCHANGED filed
    <3>1. /\ UNCHANGED <<now, doc, queue, filed>> /\ left'["crash"] = left["crash"]
          /\ tick' = tick \/ tick' = [tick EXCEPT ![n].live = FALSE]
      BY <2>n, <2>3
      DEF SyncStep, SyncRead, SyncDecide, SyncState, SyncService, RecoverFromRedis,
          CheckRound, Spend, clockVars, redisVars, outVars
    <3>2. ASSUME NEW m \in Nodes PROVE tick'[m].pc = tick[m].pc
      <4>1. CASE tick' = tick
        BY <4>1
      <4>2. CASE tick' = [tick EXCEPT ![n].live = FALSE]
        BY <2>n, <4>2 DEF TickType
      <4> QED
        BY <3>1, <4>1, <4>2
    <3> QED
      BY <3>1, <3>2 DEF Installing
  <2>4. ASSUME NEW n \in Nodes, Flush(n) PROVE ScoresInStep'
    <3>1. Here' = Target /\ Target' = Target /\ Here < Target /\ left' = left /\ filed' = filed
      <4>1. ~Spend("lose") /\ queue[n] = <<RoundState(Target)>> /\ Here < Target
        BY <1>2, <2>4 DEF Spend, InStep, NodeInStep, QueueInStep, Flush
      <4> QED
        BY <2>4, <4>1 DEF Flush, Here, Target, RoundState, Between, clockVars, outVars
    <3>2. /\ Here \in Nat /\ Target \in Nat /\ Rounds \subseteq Nat
          /\ filed \subseteq Rounds \X Rounds
      <4>1. Rounds \subseteq Nat
        BY ProperRounds DEF Rounds
      <4> QED
        BY <1>2, <4>1, Standing DEF IInv, TypeOK
    <3>3. ASSUME NEW f \in filed PROVE f[2] <= Target
      <4>1. f[2] \in Nat
        BY <3>2
      <4> QED
        BY <1>2, <3>1, <3>2, <4>1 DEF ScoresInStep
    <3> QED
      BY <1>2, <3>1, <3>3 DEF ScoresInStep
  <2>5. ASSUME NEW n \in Nodes, Stop(n) PROVE Calm /\ UNCHANGED filed
    <3>1. ~Installing(n)
      BY <2>5 DEF Stop, Quiet, Installing
    <3> QED
      BY <2>n, <2>5, <3>1
      DEF Stop, GoDown, Spend, clockVars, outVars, Installing
  <2>6. \A n \in Nodes : ~Crash(n)
    BY <1>2 DEF Crash, Spend, ScoresInStep
  <2>7. ASSUME Clock PROVE ScoresInStep'
    <3>1. ASSUME NEW m \in Nodes PROVE ~Installing(m)
      <4>1. Down(m) \/ KeptUp(m)
        BY <2>7 DEF Clock, InTime
      <4>2. CASE Down(m)
        <5>1. tick[m] = TickIdle /\ queue[m] = <<>>
          BY <1>2, <4>2, NodeStanding DEF Down, InStep, NodeInStep, QueueInStep
        <5> QED
          BY <5>1, Idle DEF Installing
      <4>3. CASE KeptUp(m)
        BY <4>3 DEF KeptUp, Quiet, Installing
      <4> QED
        BY <4>1, <4>2, <4>3
    <3> QED
      BY <1>2, <2>7, <3>1 DEF Clock, outVars, ScoresInStep, Here
  <2>8. ASSUME FileScore PROVE ScoresInStep'
    <3> DEFINE s == svc[rpc.node]
    <3>1. Calm
      BY <2>8 DEF FileScore, clockVars, Installing
    <3>2. \/ filed' = filed
          \/ s # None /\ filed' = filed \cup {<<rpc.round, s.round>>}
      BY <2>8 DEF FileScore, Accepts
    <3>3. s # None => s.round <= Here \/ (s.round <= Target /\ \E n \in Nodes : Installing(n))
      <4>1. rpc.node \in Nodes
        BY <1>2, <2>8 DEF FileScore, IInv, TypeOK
      <4> QED
        BY <1>2, <4>1, NodeStanding, Standing DEF InStep, NodeInStep, ServiceInStep
    <3> HIDE DEF s
    <3>4. \A f \in filed' : f[2] <= Here \/ (f[2] <= Target /\ \E n \in Nodes : Installing(n))
      BY <1>2, <3>2, <3>3 DEF ScoresInStep
    <3> QED
      BY <1>2, <3>1, <3>4 DEF ScoresInStep, Here, Target
  <2>9. ASSUME UNCHANGED vars PROVE Calm /\ UNCHANGED filed
    BY <2>9 DEF vars, Installing
  <2>10. ~EditCycle
    BY <1>2 DEF EditCycle, OneCycle, IInv, TypeOK
  <2> HIDE DEF Calm
  <2> QED
    BY <1>2, <2>1, <2>2, <2>3, <2>4, <2>5, <2>6, <2>7, <2>8, <2>9, <2>10
    DEF Next, TimeIsUp
<1> QED
  BY <1>1, <1>2, StayingInStep, PTL DEF Spec

(* advanceRound is executed by one node only, from the lock to the moment  *)
(* when the new round is published: the SETNX at its start is enough,      *)
(* although every node looks at its own state and at its own time, if the  *)
(* lock outlives the sync by which the other nodes learn of the new round  *)
(* and no save is lost.                                                    *)
THEOREM OneAdvances ==
    OneCycle /\ NoOutage /\ NoLoss /\ InTime /\ Spec => []OneAdvancer
<1> SUFFICES ASSUME OneCycle, NoOutage, NoLoss, InTime PROVE Spec => []OneAdvancer
  OBVIOUS
<1>1. ASSUME IInv, InStep PROVE OneAdvancer
  <2> SUFFICES ASSUME NEW m \in Nodes, NEW n \in Nodes, m # n,
                      tick[m].pc \notin {"idle", "lock"}, tick[n].pc \notin {"idle", "lock"}
               PROVE  FALSE
    BY DEF OneAdvancer
  <2>1. tick[m] \in TickType /\ tick[n] \in TickType
    BY <1>1, Advance
  <2>2. Busy(m) /\ Busy(n)
    BY <2>1 DEF Busy, PastLock, TickType
  <2> QED
    BY <1>1, <2>2 DEF InStep, OneBusy
<1> QED
  BY <1>1, StayingInStep, PTL

(* No round is settled while some node takes it to be open, although       *)
(* advanceRound settles whatever service it finds, which a sync may just   *)
(* have put there: a sync puts no service of a round that has not been     *)
(* saved, and nothing later is saved than what the advance started from.   *)
THEOREM ClosedBeforeSettled ==
    OneCycle /\ NoOutage /\ NoLoss /\ InTime /\ Spec => []OnlyClosedRoundsSettled
<1> SUFFICES ASSUME OneCycle, NoOutage, NoLoss, InTime
             PROVE  Spec => []OnlyClosedRoundsSettled
  OBVIOUS
<1>1. ASSUME IInv, InStep PROVE OnlyClosedRoundsSettled
  <2> SUFFICES ASSUME NEW s \in served, s.round \in settled PROVE s.close <= now
    BY DEF OnlyClosedRoundsSettled
  <2>1. s.close = Grid(s.round).close
    BY <1>1, ServiceFacts DEF IInv, GridInv, ServedOnGrid
  <2> QED
    BY <1>1, <2>1 DEF InStep, OnlyOverSettled
<1> QED
  BY <1>1, StayingInStep, PTL

(* No stale save and no stale sync takes a round back: the number of the   *)
(* round only goes up in a node's memory, in Redis and in Mongo, from      *)
(* every step to the next (advanceToRound, syncFromMongo, the save queue). *)
THEOREM RoundsGoOn ==
    OneCycle /\ NoOutage /\ NoLoss /\ InTime /\ Spec => RoundsNeverGoBack
<1> SUFFICES ASSUME OneCycle, NoOutage, NoLoss, InTime PROVE Spec => RoundsNeverGoBack
  OBVIOUS
<1> DEFINE Up(n) == state[n] # None /\ state'[n] # None => state'[n].cur >= state[n].cur
           Onward == /\ \A n \in Nodes : Up(n)
                     /\ redisCur' >= redisCur
                     /\ doc'.cur >= doc.cur
<1>1. ASSUME IInv, InStep, [Next]_vars PROVE Onward
  <2>n. /\ redisCur \in Nat /\ doc.cur \in Nat /\ redisCur <= Target /\ Here \in Nat
        /\ \A n \in Nodes : state[n] # None => state[n].cur \in Nat
        /\ state \in [Nodes -> PeriodicState \cup {None}]
        /\ tick \in [Nodes -> TickType]
    <3>1. redisCur \in Begun /\ tick \in [Nodes -> TickType]
      BY <1>1 DEF IInv, GridInv, SavedOnGrid, TypeOK, TickType
    <3> QED
      BY <1>1, <3>1, Standing, NodeStanding DEF Here, IInv, TypeOK
  <2>1. UNCHANGED <<state, redisCur, doc>> => Onward
    BY <2>n
  <2>2. ASSUME NEW n \in Nodes, UNCHANGED <<redisCur, doc>>, Up(n),
               \A m \in Nodes \ {n} : state'[m] = state[m]
        PROVE  Onward
    BY <2>2, <2>n
  <2> HIDE DEF Onward
  <2>3. ASSUME NEW n \in Nodes, BeginTick(n) \/ TakeLock(n) \/ ReplaceRound(n) PROVE Onward
    BY <2>3, <2>1 DEF BeginTick, TakeLock, ReplaceRound, redisVars
  <2>4. ASSUME NEW n \in Nodes, SettleAndPlan(n) PROVE Onward
    BY <1>1, <2>1, <2>4, Planned DEF SettleAndPlan
  <2>5. ASSUME NEW n \in Nodes, WriteWindow(n) PROVE Onward
    <3> DEFINE p == WithWindowOf(tick[n].p, tick[n].next)
    <3>1. tick[n].pc = "window" /\ tick[n].p \in PeriodicState /\ StateAt(n)
      BY <1>1, <2>5, Advance DEF WriteWindow
    <3>2. p.cur = tick[n].p.cur
      BY <3>1 DEF WithWindowOf, PeriodicState
    <3>3. WriteState(n, p) \/ state' = state
      BY <2>5 DEF WriteWindow
    <3> HIDE DEF p
    <3>4. /\ \A m \in Nodes \ {n} : state'[m] = state[m]
          /\ state'[n] = state[n] \/ (state[n] = tick[n].p /\ state'[n] = p)
      BY <2>n, <3>1, <3>3 DEF WriteState, StateAt
    <3>5. Up(n)
      BY <2>n, <3>2, <3>4
    <3> QED
      BY <2>2, <2>5, <3>4, <3>5 DEF WriteWindow, redisVars
  <2>6. ASSUME NEW n \in Nodes, WriteNumber(n) PROVE Onward
    <3> DEFINE p == [tick[n].p EXCEPT !.cur = tick[n].next]
    <3>1. /\ tick[n].pc = "number" /\ StateAt(n) /\ TickAt(n) /\ tick[n] # TickIdle
          /\ tick[n].next > tick[n].p.cur
      <4>1. tick[n].pc = "number" /\ StateAt(n) /\ TickAt(n) /\ tick[n] # TickIdle
        BY <1>1, <2>6, Advance, Idle DEF WriteNumber
      <4>2. PICK r \in Begun : r < tick[n].next /\ tick[n].p = Between(r, tick[n].next)
        BY <4>1 DEF TickAt
      <4>3. tick[n].next \in Nat /\ r \in Nat
        BY <1>1, <4>1, <4>2, Standing DEF TickAt
      <4> QED
        BY <4>1, <4>2, <4>3 DEF Between
    <3>2. p.cur = tick[n].next
      <4>1. \E r \in Begun : tick[n].p = Between(r, tick[n].next)
        BY <3>1 DEF TickAt
      <4> QED
        BY <4>1 DEF Between
    <3>3. WriteState(n, p)
      BY <2>6 DEF WriteNumber
    <3> HIDE DEF p
    <3>4. /\ \A m \in Nodes \ {n} : state'[m] = state[m]
          /\ state'[n] = state[n] \/ (state[n] = tick[n].p /\ state'[n] = p)
      BY <2>n, <3>1, <3>3 DEF WriteState, StateAt
    <3>5. tick[n].next \in Nat /\ tick[n].p.cur \in Nat
      BY <1>1, <3>1, Standing, NodeStanding DEF TickAt
    <3>6. Up(n)
      BY <2>n, <3>1, <3>2, <3>4, <3>5
    <3> QED
      BY <2>2, <2>6, <3>4, <3>6 DEF WriteNumber, redisVars
  <2>7. ASSUME NEW n \in Nodes, Publish(n) PROVE Onward
    <3>1. redisCur' = Target /\ UNCHANGED <<state, doc>>
      BY <1>1, <2>7 DEF Publish, InStep, NodeInStep, TickInStep, PastLock
    <3> QED
      BY <2>n, <3>1 DEF Onward
  <2>8. ASSUME NEW n \in Nodes, SyncRead(n) \/ SyncDecide(n) \/ SyncService(n) PROVE Onward
    BY <2>8, <2>1 DEF SyncRead, SyncDecide, SyncService, redisVars
  <2>9. ASSUME NEW n \in Nodes, SyncState(n) PROVE Onward
    <3>1. /\ state[n] # None => state[n].cur < sync[n].doc.cur
          /\ sync[n].doc.cur \in Nat
      BY <1>1, <2>9, NodeStanding, Standing DEF SyncState, InStep, NodeInStep, SyncInStep
    <3>2. /\ state'[n] = sync[n].doc /\ UNCHANGED <<redisCur, doc>>
          /\ \A m \in Nodes \ {n} : state'[m] = state[m]
      BY <2>n, <2>9 DEF SyncState, redisVars
    <3>3. Up(n)
      BY <2>n, <3>1, <3>2
    <3> QED
      BY <2>2, <3>2, <3>3
  <2>10. \A n \in Nodes : ~RecoverFromRedis(n)
    BY <1>1, Sync DEF RecoverFromRedis
  <2>11. ASSUME NEW n \in Nodes, Flush(n) PROVE Onward
    <3>1. ~Spend("lose") /\ queue[n] = <<RoundState(Target)>> /\ Here < Target /\ Target \in Nat
      BY <1>1, <2>11, Standing DEF Spend, InStep, NodeInStep, QueueInStep, Flush
    <3>2. doc'.cur = Target /\ UNCHANGED <<state, redisCur>>
      BY <2>11, <3>1 DEF Flush, RoundState, Between, redisVars
    <3> QED
      BY <2>n, <3>1, <3>2 DEF Onward, Here
  <2>12. ASSUME NEW n \in Nodes, CheckRound(n) PROVE Onward
    BY <2>12, <2>1 DEF CheckRound, redisVars
  <2>13. ASSUME NEW n \in Nodes, Stop(n) \/ Crash(n) PROVE Onward
    <3>1. /\ UNCHANGED <<redisCur, doc>> /\ state'[n] = None
          /\ \A m \in Nodes \ {n} : state'[m] = state[m]
      BY <2>n, <2>13 DEF Stop, Crash, GoDown, redisVars
    <3> QED
      BY <2>2, <3>1
  <2>14. ASSUME FileScore \/ Clock \/ EditCycle \/ UNCHANGED vars PROVE Onward
    BY <2>14, <2>1 DEF FileScore, Clock, EditCycle, vars, nodeVars, redisVars
  <2> QED
    BY <1>1, <2>3, <2>4, <2>5, <2>6, <2>7, <2>8, <2>9, <2>10, <2>11, <2>12, <2>13, <2>14
    DEF Next, TickStep, SyncStep, TimeIsUp
<1>2. IInv /\ InStep /\ [Next]_vars => [Onward]_vars
  BY <1>1
<1> HIDE DEF Onward
<1>3. Spec => [][Onward]_vars
  BY <1>2, StayingInStep, PTL DEF Spec
<1> QED
  BY <1>3 DEF RoundsNeverGoBack, Onward

(* The rounds that an advance jumps over hold no score that would never be *)
(* settled: every node that serves a later round than the document's is    *)
(* the one that is about to save it.  A crash at that point would leave a  *)
(* score in a round that no saved state tells of (nextAdvanceRound).       *)
THEOREM NoScoreSkipped ==
    OneCycle /\ NoOutage /\ NoLoss /\ NoCrash /\ InTime /\ Spec => []SkippedRoundsAreEmpty
<1> SUFFICES ASSUME OneCycle, NoOutage, NoLoss, NoCrash, InTime
             PROVE  Spec => []SkippedRoundsAreEmpty
  OBVIOUS
<1>1. ASSUME IInv, InStep, ScoresInStep PROVE SkippedRoundsAreEmpty
  <2> SUFFICES ASSUME NEW n \in Nodes, tick[n].pc = "replace",
                      NEW r \in (tick[n].p.cur + 1)..(tick[n].next - 1), r \in Scored
               PROVE  FALSE
    BY DEF SkippedRoundsAreEmpty
  <2>1. PastLock(n) /\ tick[n].p.cur = Here /\ queue[n] = <<>> /\ Here \in Nat
    BY <1>1, Standing DEF InStep, NodeInStep, TickInStep, PastLock
  <2>2. ASSUME NEW m \in Nodes, Installing(m) PROVE FALSE
    <3>1. Busy(m) /\ Busy(n)
      BY <2>1, <2>2 DEF Busy, PastLock, Installing
    <3>2. m = n
      BY <1>1, <3>1 DEF InStep, OneBusy
    <3> QED
      BY <2>1, <2>2, <3>2 DEF Installing
  <2>3. PICK f \in filed : f[2] = r
    BY DEF Scored
  <2>4. r <= Here
    BY <1>1, <2>2, <2>3 DEF ScoresInStep
  <2>5. r >= Here + 1 /\ r \in Int
    BY <1>1, <2>1, NodeStanding, Standing DEF TickAt
  <2> QED
    BY <2>1, <2>4, <2>5
<1> QED
  BY <1>1, StayingInStep, ScoresStayInStep, PTL
=============================================================================
