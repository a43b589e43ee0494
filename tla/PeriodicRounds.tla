--------------------------- MODULE PeriodicRounds ---------------------------
(***************************************************************************)
(* One periodic leaderboard on several nodes: how its rounds are advanced, *)
(* settled, saved, recovered and fed with scores.  Source: TickAll and     *)
(* advanceRound of periodic/handler.go, tickServices, syncFromMongo and    *)
(* tryRecoverPeriodicFromRedis of manager.go, handleUpsertScore of         *)
(* handler/rank.go.                                                        *)
(*                                                                         *)
(* On each node three threads share the maps states and engineServices:    *)
(* the tick goroutine (tick[n]), the sync goroutine (sync[n]) and score    *)
(* requests (rpc, one at a time).  The nodes share Redis (advance locks,   *)
(* current round, metadata) and Mongo (the saved state), which a node      *)
(* writes through a queue in its own memory.  Settlement of a round is one *)
(* fact here.                                                              *)
(*                                                                         *)
(* The unit of time is 30 s, the period of syncLoop: a cycle of one minute *)
(* is 2 units, and so is the life of an advance lock.                      *)
(***************************************************************************)
EXTENDS RoundWindow, Sequences, FiniteSets

CONSTANTS Nodes,
          Cycles,      \* the cycle lengths the configuration file may hold
          FirstCycle,  \* the one it holds at registration
          RegisterAt,  \* the times at which the activity may be registered
          LockTTL,     \* life of an advance lock
          Horizon,     \* the clock stops here
          Kinds,       \* what a run bounds: faults, edits of the file, scores
          Budget,      \* how many of each kind may happen
          Timely,      \* ticks, syncs and saves take less than a unit
          None

ASSUME PeriodicConstants ==
    /\ Cycles \subseteq Nat \ {0}
    /\ FirstCycle \in Cycles
    /\ RegisterAt \subseteq 0..Horizon
    /\ LockTTL \in Nat
    /\ Horizon \in Nat
    /\ {"stop", "crash", "lose", "error", "outage", "edit", "score"} \subseteq Kinds
    /\ Budget \in [Kinds -> Nat]
    /\ Timely \in BOOLEAN

VARIABLES now,        \* the clock
          fileCycle,  \* cycleMinutes in the configuration file
          state,      \* state[n]: the PeriodicState in Handler.states
          svc,        \* svc[n]: the round Service in engineServices
          tick,       \* tick[n]: the tick goroutine
          sync,       \* sync[n]: the sync goroutine
          rpc,        \* a score request between its check and its effect
          queue,      \* queue[n]: states on their way to Mongo
          lock,       \* when the advance lock of each round expires
          redisCur,   \* periodic_cur_round
          redisMeta,  \* periodic_meta
          doc,        \* the field "periodic" of the Mongo document
          settled,    \* the rounds whose groups have been settled
          served,     \* the services there have been, as [round, open, close]
          filed,      \* the scores taken, as <<round asked for, round filed in>>
          timely,     \* the nodes that have ticked, and synced, in this unit
                      \* (kept only if Timely)
          left        \* what is left of the budget

vars == <<now, fileCycle, state, svc, tick, sync, rpc, queue, lock, redisCur,
          redisMeta, doc, settled, served, filed, timely, left>>
nodeVars == <<state, svc, tick, sync, rpc, queue>>
redisVars == <<lock, redisCur, redisMeta>>
outVars == <<settled, served, filed>>
clockVars == <<now, fileCycle>>

MaxRounds == TotalClose - TotalOpen + Cardinality(Cycles) * (TotalClose - TotalOpen)
Rounds == 1..MaxRounds

Service == [round : Rounds, open : Nat, close : Nat]
ServiceFor(round, w) == [round |-> round, open |-> w.open, close |-> w.close]
CurrentService(p) == ServiceFor(p.cur, p)

ASSUME NoneIsNothing == None \notin PeriodicState /\ None \notin Service

TickIdle == [pc |-> "idle", p |-> None, live |-> FALSE, svc |-> None,
             t |-> 0, next |-> 0]
SyncIdle == [pc |-> "idle", doc |-> None, old |-> None]

TypeOK ==
    /\ now \in 0..Horizon
    /\ fileCycle \in Cycles
    /\ state \in [Nodes -> PeriodicState \cup {None}]
    /\ svc \in [Nodes -> Service \cup {None}]
    /\ tick \in [Nodes -> [pc : {"idle", "lock", "settle", "replace",
                                 "window", "number", "publish"},
                           p : PeriodicState \cup {None}, live : BOOLEAN,
                           svc : Service \cup {None}, t : Nat, next : Nat]]
    /\ sync \in [Nodes -> [pc : {"idle", "decide", "state", "service", "redis"},
                           doc : PeriodicState \cup {None},
                           old : Service \cup {None}]]
    /\ rpc \in [node : Nodes, round : Rounds, ts : Nat] \cup {None}
    /\ queue \in [Nodes -> Seq(PeriodicState)]
    /\ lock \in [Rounds -> Nat]
    /\ redisCur \in Rounds
    /\ redisMeta \in [cycle : Nat, base : Nat, open : Nat, close : Nat]
    /\ doc \in PeriodicState
    /\ settled \subseteq Rounds
    /\ served \subseteq Service
    /\ filed \subseteq Rounds \X Rounds
    /\ timely \in [ticked : SUBSET Nodes, synced : SUBSET Nodes]
    /\ left \in [Kinds -> Nat]

(* Mutant: the format of periodic_meta before it carried the window. *)
MetaWithoutWindow(p) == [cycle |-> p.cycle, base |-> p.base]

(* The metadata in Redis. *)
Meta(p) == [cycle |-> p.cycle, base |-> p.base,
            open |-> p.open, close |-> p.close]

(* Register has run, its save has reached Mongo, and every node has learned *)
(* of the activity.                                                        *)
Init ==
    /\ fileCycle = FirstCycle
    /\ \E t \in RegisterAt :
         LET p == NewState(FirstCycle, t)
         IN  /\ now = t
             /\ state = [n \in Nodes |-> p]
             /\ svc = [n \in Nodes |-> CurrentService(p)]
             /\ served = {CurrentService(p)}
             /\ redisCur = p.cur
             /\ redisMeta = Meta(p)
             /\ doc = p
    /\ tick = [n \in Nodes |-> TickIdle]
    /\ sync = [n \in Nodes |-> SyncIdle]
    /\ rpc = None
    /\ queue = [n \in Nodes |-> <<>>]
    /\ lock = [r \in Rounds |-> 0]
    /\ settled = {}
    /\ filed = {}
    /\ timely = [ticked |-> {}, synced |-> {}]
    /\ left = Budget

Scored == {f[2] : f \in filed}
Down(n) == state[n] = None /\ svc[n] = None /\ sync[n].pc = "idle"

(* Start-up syncs before it starts the loops and takes requests, and the   *)
(* service is the last thing a sync creates.                               *)
Started(n) == svc[n] # None

Spend(kind) == left[kind] > 0 /\ left' = [left EXCEPT ![kind] = @ - 1]

(* Something that may fail, or not. *)
EitherWay(ok, failed) == \/ ok /\ UNCHANGED left
                         \/ failed /\ Spend("error")

-----------------------------------------------------------------------------
(* The tick goroutine: every second, tickServices and then TickAll.         *)

Ticked(n) == timely' = IF Timely THEN [timely EXCEPT !.ticked = @ \cup {n}]
                       ELSE timely

(* Mutant: a settlement that only says it was done. *)
SettleNothing(s) == UNCHANGED <<settled, left>>

(* Service.Settle and IsSettled.  An attempt may leave the round unsettled, *)
(* because of an error or of a group that is locked; that is only logged.  *)
Settle(s) ==
    IF s.round \in settled
    THEN UNCHANGED <<settled, left>>
    ELSE EitherWay(settled' = settled \cup {s.round}, UNCHANGED settled)

(* Service.Tick settles a round that is over. *)
SettleIfOver(n) == IF now >= svc[n].close THEN Settle(svc[n])
                                          ELSE UNCHANGED <<settled, left>>

(* tickServices, and TickAll's look at the state: when the round is over,  *)
(* advanceRound is called with that state and this time.                   *)
BeginTick(n) ==
    /\ tick[n].pc = "idle"
    /\ Started(n)
    /\ Timely => n \notin timely.ticked
    /\ SettleIfOver(n)
    /\ tick' = IF state[n] # None /\ Expired(state[n], now)
               THEN [tick EXCEPT ![n] = [TickIdle EXCEPT
                        !.pc = "lock", !.p = state[n], !.live = TRUE, !.t = now]]
               ELSE tick
    /\ Ticked(n)
    /\ UNCHANGED <<clockVars, state, svc, sync, rpc, queue, redisVars, doc,
                   served, filed>>

(* Mutant: the result of SETNX is not looked at. *)
LockAlwaysFree(round) == TRUE
LockFree(round) == now >= lock[round]

(* SETNX of the advance lock of the current round, and the service to      *)
(* settle; without the one or the other the advance is given up.           *)
TakeLock(n) ==
    /\ tick[n].pc = "lock"
    /\ LET round == tick[n].p.cur
       IN  IF LockFree(round)
           THEN /\ lock' = [lock EXCEPT ![round] = now + LockTTL]
                /\ tick' = [tick EXCEPT ![n] =
                     IF svc[n] = None THEN TickIdle
                     ELSE [@ EXCEPT !.pc = "settle", !.svc = svc[n]]]
           ELSE /\ tick' = [tick EXCEPT ![n] = TickIdle]
                /\ UNCHANGED lock
    /\ UNCHANGED <<clockVars, state, svc, sync, rpc, queue, redisCur,
                   redisMeta, doc, outVars, timely, left>>

(* The tick goroutine writes into the state object it holds; it is the     *)
(* node's state as long as the sync goroutine has not put another in its   *)
(* place.                                                                  *)
WriteState(n, p) ==
    state' = IF tick[n].live THEN [state EXCEPT ![n] = p] ELSE state

(* The cycle in the file is taken up between two rounds: it is saved to    *)
(* Mongo and to the Redis metadata, and the next round is the following    *)
(* one.  Otherwise the next round is that of the clock.                    *)
PlanNext(n) ==
    LET edited == fileCycle # tick[n].p.cycle
        p == [tick[n].p EXCEPT !.cycle = fileCycle]
        next == IF edited THEN p.cur + 1 ELSE NextAdvanceRound(p, tick[n].t)
    IN  IF Finished(tick[n].t)
        THEN /\ tick' = [tick EXCEPT ![n] = TickIdle]
             /\ UNCHANGED <<state, queue, redisMeta>>
        ELSE /\ tick' = [tick EXCEPT ![n] =
                   IF Window(p, next).open >= TotalClose THEN TickIdle
                   ELSE [@ EXCEPT !.pc = "replace", !.p = p, !.next = next]]
             /\ WriteState(n, p)
             /\ queue' = IF edited THEN [queue EXCEPT ![n] = Append(@, p)]
                         ELSE queue
             /\ redisMeta' = IF edited THEN Meta(p) ELSE redisMeta

(* advanceRound up to ReplaceRoundService: settle the round of the service *)
(* found at the start, and go on whether that succeeded or not.            *)
SettleAndPlan(n) ==
    /\ tick[n].pc = "settle"
    /\ Settle(tick[n].svc)
    /\ PlanNext(n)
    /\ UNCHANGED <<clockVars, svc, sync, rpc, lock, redisCur, doc, served,
                   filed, timely>>

(* ReplaceRoundService: requests reach the new round from here on.         *)
ReplaceRound(n) ==
    /\ tick[n].pc = "replace"
    /\ LET new == ServiceFor(tick[n].next, Window(tick[n].p, tick[n].next))
       IN  EitherWay(/\ svc' = [svc EXCEPT ![n] = new]
                     /\ served' = served \cup {new}
                     /\ tick' = [tick EXCEPT ![n].pc = "window"],
                     /\ tick' = [tick EXCEPT ![n] = TickIdle]
                     /\ UNCHANGED <<svc, served>>)
    /\ UNCHANGED <<clockVars, state, sync, rpc, queue, redisVars, doc, settled,
                   filed, timely>>

(* Mutant: the number before the window. *)
WriteNumberFirst(n) ==
    /\ tick[n].pc = "window"
    /\ LET p == [tick[n].p EXCEPT !.cur = tick[n].next]
       IN  /\ tick' = [tick EXCEPT ![n] = [@ EXCEPT !.pc = "number", !.p = p]]
           /\ WriteState(n, p)
    /\ UNCHANGED <<clockVars, svc, sync, rpc, queue, redisVars, doc, outVars,
                   timely, left>>

(* advanceToRound, first half: the window... *)
WriteWindow(n) ==
    /\ tick[n].pc = "window"
    /\ IF CanAdvanceTo(tick[n].p, tick[n].next)
       THEN LET p == WithWindowOf(tick[n].p, tick[n].next)
            IN  /\ tick' = [tick EXCEPT ![n] =
                              [@ EXCEPT !.pc = "number", !.p = p]]
                /\ WriteState(n, p)
       ELSE /\ tick' = [tick EXCEPT ![n].pc = "publish"]
            /\ UNCHANGED state
    /\ UNCHANGED <<clockVars, svc, sync, rpc, queue, redisVars, doc, outVars,
                   timely, left>>

(* ... and second half: the number of the round. *)
WriteNumber(n) ==
    /\ tick[n].pc = "number"
    /\ LET p == [tick[n].p EXCEPT !.cur = tick[n].next]
       IN  /\ tick' = [tick EXCEPT ![n] = [@ EXCEPT !.pc = "publish", !.p = p]]
           /\ WriteState(n, p)
    /\ UNCHANGED <<clockVars, svc, sync, rpc, queue, redisVars, doc, outVars,
                   timely, left>>

(* The new round goes to Redis, which tells the other nodes, and on its    *)
(* way to Mongo.                                                           *)
Publish(n) ==
    /\ tick[n].pc = "publish"
    /\ redisCur' = tick[n].next
    /\ queue' = [queue EXCEPT ![n] = Append(@, tick[n].p)]
    /\ tick' = [tick EXCEPT ![n] = TickIdle]
    /\ UNCHANGED <<clockVars, state, svc, sync, rpc, lock, redisMeta, doc,
                   outVars, timely, left>>

-----------------------------------------------------------------------------
(* The sync goroutine, every 30 s and before a starting node serves.        *)

Synced(n) == timely' = IF Timely THEN [ticked |-> timely.ticked \ {n},
                                       synced |-> timely.synced \cup {n}]
                       ELSE timely

(* LoadAllRankConfigs, which may fail: then only Redis is left.             *)
SyncRead(n) ==
    /\ sync[n].pc = "idle"
    /\ Timely => n \notin timely.synced
    /\ \/ /\ sync' = [sync EXCEPT ![n] =
                        [pc |-> "decide", doc |-> doc, old |-> None]]
          /\ UNCHANGED left
       \/ /\ sync' = [sync EXCEPT ![n].pc = "redis"]
          /\ Spend("outage")
    /\ UNCHANGED <<clockVars, state, svc, tick, rpc, queue, redisVars, doc,
                   outVars, timely>>

(* Mutants: a node that has a state never refreshes it; every sync takes   *)
(* the document over.                                                      *)
NeverBehind(n) == state[n] = None
AlwaysBehind(n) == TRUE
Behind(n) == state[n] = None \/ state[n].cur < sync[n].doc.cur

(* Take note of the service there is and see whether the state is behind.  *)
SyncDecide(n) ==
    /\ sync[n].pc = "decide"
    /\ sync' = [sync EXCEPT ![n] =
                   [@ EXCEPT !.old = svc[n],
                             !.pc = IF Behind(n) THEN "state" ELSE "service"]]
    /\ UNCHANGED <<clockVars, state, svc, tick, rpc, queue, redisVars, doc,
                   outVars, timely, left>>

(* SetState with an object of its own: the tick goroutine may still hold   *)
(* the former one.                                                         *)
SyncState(n) ==
    /\ sync[n].pc = "state"
    /\ state' = [state EXCEPT ![n] = sync[n].doc]
    /\ tick' = [tick EXCEPT ![n].live = FALSE]
    /\ sync' = [sync EXCEPT ![n].pc = "service"]
    /\ UNCHANGED <<clockVars, svc, rpc, queue, redisVars, doc, outVars, timely,
                   left>>

(* Replace the service noted before when its round is behind the document, *)
(* or create one where there was none and still is none.                   *)
SyncService(n) ==
    /\ sync[n].pc = "service"
    /\ LET new == CurrentService(sync[n].doc)
           old == sync[n].old
       IN  IF (old # None /\ old.round < new.round) \/ (old = None /\ svc[n] = None)
           THEN /\ svc' = [svc EXCEPT ![n] = new]
                /\ served' = served \cup {new}
           ELSE UNCHANGED <<svc, served>>
    /\ sync' = [sync EXCEPT ![n] = SyncIdle]
    /\ Synced(n)
    /\ UNCHANGED <<clockVars, state, tick, rpc, queue, redisVars, doc, settled,
                   filed, left>>

(* tryRecoverPeriodicFromRedis: a node without the service builds it from  *)
(* the current round and the metadata in Redis.                            *)
RecoverFromRedis(n) ==
    /\ sync[n].pc = "redis"
    /\ IF svc[n] = None
       THEN LET p == [cycle |-> redisMeta.cycle, base |-> redisMeta.base,
                      cur |-> redisCur, open |-> redisMeta.open,
                      close |-> redisMeta.close]
            IN  /\ state' = [state EXCEPT ![n] = p]
                /\ svc' = [svc EXCEPT ![n] = CurrentService(p)]
                /\ served' = served \cup {CurrentService(p)}
                /\ tick' = [tick EXCEPT ![n].live = FALSE]
       ELSE UNCHANGED <<state, svc, served, tick>>
    /\ sync' = [sync EXCEPT ![n] = SyncIdle]
    /\ Synced(n)
    /\ UNCHANGED <<clockVars, rpc, queue, redisVars, doc, settled, filed, left>>

-----------------------------------------------------------------------------
(* The queue of asynchronous Mongo writes, first in first out.              *)

Flush(n) ==
    /\ queue[n] # <<>>
    /\ \/ doc' = Head(queue[n]) /\ UNCHANGED left
       \/ UNCHANGED doc /\ Spend("lose")
    /\ queue' = [queue EXCEPT ![n] = Tail(@)]
    /\ UNCHANGED <<clockVars, state, svc, tick, sync, rpc, redisVars, outVars,
                   timely>>

-----------------------------------------------------------------------------
(* Score requests (handleUpsertScore) carry the round their sender is in    *)
(* and the sender's time.                                                  *)

(* The request names the round the node is in, or it is refused here.      *)
CheckRound(n) ==
    /\ rpc = None
    /\ Started(n)
    /\ rpc' = [node |-> n, round |-> state[n].cur, ts |-> now]
    /\ Spend("score")
    /\ UNCHANGED <<clockVars, state, svc, tick, sync, queue, redisVars, doc,
                   outVars, timely>>

(* Mutant: a service that is not closed to late scores. *)
NeverCloses(s, ts) == s # None /\ s.open <= ts
(* canUpdateScore *)
Accepts(s, ts) == s # None /\ s.open <= ts /\ ts < s.close

(* Later the service is looked up; it takes the score if it is open.       *)
FileScore ==
    /\ rpc # None
    /\ LET s == svc[rpc.node]
       IN  filed' = IF Accepts(s, rpc.ts)
                    THEN filed \cup {<<rpc.round, s.round>>}
                    ELSE filed
    /\ rpc' = None
    /\ UNCHANGED <<clockVars, state, svc, tick, sync, queue, redisVars, doc,
                   settled, served, timely, left>>

-----------------------------------------------------------------------------
(* Nodes stop in order (OnClose: requests, then the loops, then the queue), *)
(* or crash and lose what they had not saved.                              *)

Serving(n) == rpc # None /\ rpc.node = n
Quiet(n) == /\ tick[n].pc = "idle"
            /\ sync[n].pc = "idle"
            /\ queue[n] = <<>>

GoDown(n) ==
    /\ state' = [state EXCEPT ![n] = None]
    /\ svc' = [svc EXCEPT ![n] = None]
    /\ tick' = [tick EXCEPT ![n] = TickIdle]
    /\ sync' = [sync EXCEPT ![n] = SyncIdle]
    /\ rpc' = IF Serving(n) THEN None ELSE rpc
    /\ queue' = [queue EXCEPT ![n] = <<>>]
    /\ UNCHANGED <<clockVars, redisVars, doc, outVars, timely>>

Stop(n) == ~Down(n) /\ Quiet(n) /\ ~Serving(n) /\ Spend("stop") /\ GoDown(n)
Crash(n) == ~Down(n) /\ Spend("crash") /\ GoDown(n)

(* The clock.  With Timely, every node that is up has synced and has       *)
(* ticked after it, possibly also before it, since the clock last moved;   *)
(* no advance is under way and what was to be saved is saved.              *)
KeptUp(n) == Quiet(n) /\ n \in timely.ticked /\ n \in timely.synced

Clock ==
    /\ now < Horizon
    /\ Timely => \A n \in Nodes : Down(n) \/ KeptUp(n)
    /\ now' = now + 1
    /\ timely' = [ticked |-> {}, synced |-> {}]
    /\ UNCHANGED <<fileCycle, nodeVars, redisVars, doc, outVars, left>>

(* The model ends at the horizon; a state before it without a next step    *)
(* would be a deadlock.                                                    *)
TimeIsUp == now = Horizon /\ UNCHANGED vars

EditCycle ==
    /\ Spend("edit")
    /\ fileCycle' \in Cycles \ {fileCycle}
    /\ UNCHANGED <<now, nodeVars, redisVars, doc, outVars, timely>>

-----------------------------------------------------------------------------
TickStep(n) == \/ BeginTick(n) \/ TakeLock(n) \/ SettleAndPlan(n)
               \/ ReplaceRound(n) \/ WriteWindow(n) \/ WriteNumber(n)
               \/ Publish(n)
SyncStep(n) == \/ SyncRead(n) \/ SyncDecide(n) \/ SyncState(n)
               \/ SyncService(n) \/ RecoverFromRedis(n)

Next ==
    \/ \E n \in Nodes : \/ TickStep(n) \/ SyncStep(n) \/ Flush(n)
                        \/ CheckRound(n) \/ Stop(n) \/ Crash(n)
    \/ FileScore \/ Clock \/ TimeIsUp \/ EditCycle

Spec == Init /\ [][Next]_vars

(* Some loop, queue, request or the clock goes on as long as one of them   *)
(* can: in a unit of time each has only so much to do (Timely), so that    *)
(* none is passed over for ever.                                           *)
Fairness ==
    WF_vars(\/ \E n \in Nodes : TickStep(n) \/ SyncStep(n) \/ Flush(n)
            \/ FileScore \/ Clock)

FairSpec == Spec /\ Fairness

-----------------------------------------------------------------------------
(* Properties *)

(* The nodes derive the window of a round each for itself, from states of  *)
(* different age; still a round has one window wherever and whenever it is *)
(* served, and the windows of two rounds do not overlap, so a score cannot *)
(* count twice (computeRoundWindow, advanceRound, syncFromMongo).          *)
OneWindowPerRound ==
    \A a, b \in served :
        /\ a.round = b.round => a = b
        /\ a.round < b.round => a.close <= b.open

(* A round that is being served has begun: the nodes never go to a round   *)
(* whose window is still to come, leaving a time in which no score is      *)
(* taken (handler.go:281-284).                                             *)
ServedRoundHasBegun ==
    \A n \in Nodes : svc[n] # None => svc[n].open <= now

(* GetRoundInfos computes the windows of past rounds anew: they are the    *)
(* windows the rounds were served with (state.go:118).                     *)
HistoryAsServed ==
    \A n \in Nodes, s \in served :
        state[n] # None /\ s.round < state[n].cur
        => ServiceFor(s.round, Window(state[n], s.round)) = s

(* Whoever reads the number of a round reads a window at least as new,     *)
(* also in the middle of an advance: never the window of an earlier round  *)
(* (advanceToRound writes the window first, state.go:219).                 *)
WindowReadyWithNumber ==
    \A n \in Nodes, s \in served :
        state[n] # None /\ s.round = state[n].cur => state[n].open >= s.open

(* No round is settled while some node takes it to be open: the groups     *)
(* would be closed to their players (advanceRound settles the service it   *)
(* finds, which the sync goroutine may just have replaced).                *)
OnlyClosedRoundsSettled ==
    \A s \in served : s.round \in settled => s.close <= now

(* advanceRound is executed by one node only (handler.go:215): no two      *)
(* nodes are past the lock of the same round.                              *)
OneAdvancer ==
    \A m, n \in Nodes :
        /\ m # n
        /\ tick[m].pc \notin {"idle", "lock"}
        /\ tick[n].pc \notin {"idle", "lock"}
        => tick[m].p.cur # tick[n].p.cur

(* The rounds that an advance jumps over were never served, so that no     *)
(* player's score is left unsettled (state.go:202).                        *)
SkippedRoundsAreEmpty ==
    \A n \in Nodes : tick[n].pc = "replace" =>
        \A r \in (tick[n].p.cur + 1)..(tick[n].next - 1) : r \notin Scored

(* A score is never filed in a round before the one it was sent for, which *)
(* may be settled already (handleUpsertScore checks the number of the      *)
(* round against the state and the time against the service).              *)
ScoresNeverFiledBack == \A f \in filed : f[1] <= f[2]

(* Rounds only go up: in the memory of a node, in Redis and in Mongo       *)
(* (state.go:217); a stale save or sync never takes one back.              *)
RoundsNeverGoBack ==
    [][/\ \A n \in Nodes : state[n] # None /\ state'[n] # None
                           => state'[n].cur >= state[n].cur
       /\ redisCur' >= redisCur
       /\ doc'.cur >= doc.cur]_vars

(* Every round in which a score was taken is settled in the end, whatever  *)
(* nodes stop and start (TickAll, Service.Tick).                           *)
EveryScoredRoundSettled ==
    \A r \in Rounds : r \in Scored ~> r \in settled
=============================================================================
