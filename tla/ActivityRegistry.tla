-------------------------- MODULE ActivityRegistry --------------------------
(***************************************************************************)
(* How the nodes agree on which activities there are: one one-off activity *)
(* that the GM creates, changes and deletes.  Source: Manager of           *)
(* rank/manager.go (Register, UpdateService, RemoveService, the            *)
(* subscribers of the create and delete channels, syncFromMongo,           *)
(* syncFromRedis), and the configuration documents of engine/dao.go.       *)
(*                                                                         *)
(* On each node four threads share the map engineServices: the GM's        *)
(* request, the two subscribers and the sync goroutine; the map is locked  *)
(* only while it is read or written, never during I/O.  A Service is known *)
(* by its CloseTime, the one field of its configuration that decides       *)
(* anything here.  The nodes share Redis (rank:meta and the member of      *)
(* rank:{active_services}, written and removed together: meta) and Mongo   *)
(* (the configuration document: doc), which a node writes through a queue  *)
(* in its own memory.                                                      *)
(*                                                                         *)
(* The GM gives every activity an ActID of its own: it creates once.       *)
(***************************************************************************)
EXTENDS Naturals, Sequences, FiniteSets

CONSTANTS Nodes,
          Times,       \* the closing times the GM may set
          Retention,   \* 7 days, in units of the clock
          Horizon,     \* the clock stops here
          MaxQueue,    \* writes of a node on their way to Mongo, at most
          Events,      \* what may come between: faults ("lose" a write,
                       \* "miss" a message, "crash") and requests of the GM
                       \* ("update", "delete")
          MaxEvents,   \* how many of them
          None

ASSUME RegistryConstants ==
    /\ Times \subseteq Nat \ {0}
    /\ {Retention, Horizon, MaxQueue} \subseteq Nat
    /\ MaxEvents \in Nat
    /\ Events \subseteq {"lose", "miss", "crash", "update", "delete"}
    /\ None \notin Times

VARIABLES now,      \* the clock
          svc,      \* svc[n]: CloseTime of the Service in engineServices
          gm,       \* the request of the GM that is being served
          sub,      \* sub[n]: the Service the create subscriber builds
          cleaning, \* cleaning[n]: the delete subscriber has one to clean up
          sync,     \* sync[n]: the sync goroutine
          creates,  \* creates[n]: messages of the create channel
          deletes,  \* deletes[n]: number of messages of the delete channel
          queue,    \* queue[n]: CloseTime to save, or None for a deletion
          doc,      \* the document in Mongo
          meta,     \* rank:meta and the registry in Redis
          wiped,    \* what the players did was wiped
          asked,    \* what the GM asked for last: CloseTime, or None
          deleted,  \* whether the GM has asked for the deletion
          events    \* how many events there have been

nodeVars == <<svc, sub, cleaning, sync, creates, deletes, queue>>
gmVars   == <<gm, asked, deleted>>
storage  == <<doc, meta, wiped>>
vars     == <<now, nodeVars, gmVars, storage, events>>

Close == Times \cup {None}

GMIdle == [op |-> "idle", node |-> None, close |-> None]
SyncIdle == [pc |-> "idle", had |-> FALSE, seen |-> None]

GMState == {GMIdle}
    \cup [op : {"insert", "publish"}, node : Nodes, close : Times]
    \cup [op : {"clean", "forget", "broadcast"}, node : Nodes, close : {None}]
SyncSteps == {"idle", "load", "apply", "insert", "missing", "drop", "clean",
              "redis", "build", "add"}

TypeOK ==
    /\ now \in 0..Horizon
    /\ svc \in [Nodes -> Close]
    /\ gm \in GMState
    /\ sub \in [Nodes -> Close]
    /\ cleaning \in [Nodes -> BOOLEAN]
    /\ sync \in [Nodes -> [pc : SyncSteps, had : BOOLEAN, seen : Close]]
    /\ creates \in [Nodes -> Seq(Times)]
    /\ queue \in [Nodes -> Seq(Close)]
    /\ deletes \in [Nodes -> Nat]
    /\ doc \in Close
    /\ meta \in Close
    /\ wiped \in BOOLEAN
    /\ asked \in Close
    /\ deleted \in BOOLEAN
    /\ events \in 0..MaxEvents

Init ==
    /\ now = 0
    /\ svc = [n \in Nodes |-> None]
    /\ gm = GMIdle
    /\ sub = [n \in Nodes |-> None]
    /\ cleaning = [n \in Nodes |-> FALSE]
    /\ sync = [n \in Nodes |-> SyncIdle]
    /\ creates = [n \in Nodes |-> <<>>]
    /\ deletes = [n \in Nodes |-> 0]
    /\ queue = [n \in Nodes |-> <<>>]
    /\ doc = None
    /\ meta = None
    /\ wiped = FALSE
    /\ asked = None
    /\ deleted = FALSE
    /\ events = 0

Event(kind) == kind \in Events /\ events < MaxEvents /\ events' = events + 1

(* activityStillOpen *)
StillOpen(close, t) == t < close

(* Activities that closed more than 7 days ago get no Service. *)
TooOld(close, t) == t > close + Retention

-----------------------------------------------------------------------------
(* What the threads share *)

(* engine.NewService writes rank:meta and the registry in Redis. *)
NewService(close) == meta' = close

(* Mutant: what was built later wins.                                      *)
InsertAnyway(n, close) == svc' = [svc EXCEPT ![n] = close]

(* The second check, under the lock: whoever comes second drops what it    *)
(* has built.                                                              *)
Insert(n, close) ==
    svc' = IF svc[n] = None THEN [svc EXCEPT ![n] = close] ELSE svc

RemoveFromMap(n) == svc' = [svc EXCEPT ![n] = None]

(* cleanupServiceData and forceCleanupOrphan: everything in Redis and the  *)
(* players' documents in Mongo, but not the configuration document.        *)
Wipe ==
    /\ meta' = None
    /\ wiped' = TRUE

(* SaveRankConfig and DeleteRankConfig hand the write to the queue.        *)
Enqueue(n, write) ==
    /\ Len(queue[n]) < MaxQueue
    /\ queue' = [queue EXCEPT ![n] = Append(@, write)]

(* registerEngine and applyRankConfigDoc save what they have inserted. *)
InsertAndSave(n, close) ==
    /\ Insert(n, close)
    /\ IF svc[n] = None THEN Enqueue(n, close) ELSE UNCHANGED queue

(* A subscriber that is reconnecting does not get a message. *)
HeardBy(L) == \/ L = Nodes /\ UNCHANGED events
              \/ L # Nodes /\ Event("miss")

-----------------------------------------------------------------------------
(* Requests of the GM, one at a time *)

(* The GM closes no activity in the past. *)
FutureTimes == {close \in Times : StillOpen(close, now)}

(* Register: registerEngine finds no Service and builds one. *)
Register(n, close) ==
    /\ gm.op = "idle"
    /\ asked = None /\ ~deleted
    /\ svc[n] = None
    /\ NewService(close)
    /\ asked' = close
    /\ gm' = [op |-> "insert", node |-> n, close |-> close]
    /\ UNCHANGED <<now, nodeVars, deleted, doc, wiped, events>>

(* registerEngine, the insertion: if another thread was faster, nothing is *)
(* saved.                                                                  *)
RegisterInsert ==
    /\ gm.op = "insert"
    /\ InsertAndSave(gm.node, gm.close)
    /\ gm' = [gm EXCEPT !.op = "publish"]
    /\ UNCHANGED <<now, sub, cleaning, sync, creates, deletes, asked, deleted,
                   storage, events>>

Sent(L, close) ==
    creates' = [n \in Nodes |-> IF n \in L THEN Append(creates[n], close)
                               ELSE creates[n]]

(* Mutant: the message is made from the document in Mongo. *)
PublishStored ==
    /\ gm.op = "publish"
    /\ \E L \in SUBSET Nodes : HeardBy(L) /\ Sent(L, doc)
    /\ gm' = GMIdle
    /\ UNCHANGED <<now, svc, sub, cleaning, sync, deletes, queue, asked,
                   deleted, storage>>

(* publishRankCreate reaches every node, the sender included. *)
PublishCreate ==
    /\ gm.op = "publish"
    /\ \E L \in SUBSET Nodes : HeardBy(L) /\ Sent(L, gm.close)
    /\ gm' = GMIdle
    /\ UNCHANGED <<now, svc, sub, cleaning, sync, deletes, queue, asked,
                   deleted, storage>>

(* UpdateService: the node that is asked, and the document; no message. *)
UpdateService(n, close) ==
    /\ gm.op = "idle"
    /\ svc[n] # None /\ close # svc[n]
    /\ asked # None /\ StillOpen(asked, now)
    /\ Event("update")
    /\ svc' = [svc EXCEPT ![n] = close]
    /\ asked' = close
    /\ Enqueue(n, close)
    /\ UNCHANGED <<now, sub, cleaning, sync, creates, deletes, gm, deleted,
                   storage>>

(* RemoveService: out of the map, ... *)
RemoveService(n) ==
    /\ gm.op = "idle"
    /\ asked # None
    /\ Event("delete")
    /\ RemoveFromMap(n)
    /\ deleted' = TRUE
    /\ asked' = None
    /\ gm' = [op |-> "clean", node |-> n, close |-> None]
    /\ UNCHANGED <<now, sub, cleaning, sync, creates, deletes, queue, storage>>

(* ... everything stored wiped, whether or not there was a Service, ... *)
RemoveClean ==
    /\ gm.op = "clean"
    /\ Wipe
    /\ gm' = [gm EXCEPT !.op = "forget"]
    /\ UNCHANGED <<now, nodeVars, asked, deleted, doc, events>>

(* ... the document deleted ... *)
RemoveDoc ==
    /\ gm.op = "forget"
    /\ Enqueue(gm.node, None)
    /\ gm' = [gm EXCEPT !.op = "broadcast"]
    /\ UNCHANGED <<now, svc, sub, cleaning, sync, creates, deletes, asked,
                   deleted, storage, events>>

(* ... and every node told. *)
PublishDelete ==
    /\ gm.op = "broadcast"
    /\ \E L \in SUBSET Nodes :
          /\ HeardBy(L)
          /\ deletes' = [n \in Nodes |-> deletes[n] + IF n \in L THEN 1 ELSE 0]
    /\ gm' = GMIdle
    /\ UNCHANGED <<now, svc, sub, cleaning, sync, creates, queue, asked,
                   deleted, storage>>

-----------------------------------------------------------------------------
(* The subscribers *)

(* applyRankConfigDoc: nothing to do if there is a Service; else one is    *)
(* built, ...                                                              *)
ReceiveCreate(n) ==
    /\ sub[n] = None /\ creates[n] # <<>>
    /\ creates' = [creates EXCEPT ![n] = Tail(@)]
    /\ IF svc[n] = None
       THEN /\ NewService(Head(creates[n]))
            /\ sub' = [sub EXCEPT ![n] = Head(creates[n])]
       ELSE UNCHANGED <<meta, sub>>
    /\ UNCHANGED <<now, svc, cleaning, sync, deletes, queue, gmVars, doc,
                   wiped, events>>

(* ... inserted, and saved by the node that inserted it. *)
ApplyCreate(n) ==
    /\ sub[n] # None
    /\ InsertAndSave(n, sub[n])
    /\ sub' = [sub EXCEPT ![n] = None]
    /\ UNCHANGED <<now, cleaning, sync, creates, deletes, gmVars, storage,
                   events>>

(* subscribeDeleteEvents *)
ReceiveDelete(n) ==
    /\ ~cleaning[n] /\ deletes[n] > 0
    /\ deletes' = [deletes EXCEPT ![n] = @ - 1]
    /\ RemoveFromMap(n)
    /\ cleaning' = [cleaning EXCEPT ![n] = svc[n] # None]
    /\ UNCHANGED <<now, sub, sync, creates, queue, gmVars, storage, events>>

CleanDeleted(n) ==
    /\ cleaning[n]
    /\ Wipe
    /\ cleaning' = [cleaning EXCEPT ![n] = FALSE]
    /\ UNCHANGED <<now, svc, sub, sync, creates, deletes, queue, gmVars, doc,
                   events>>

-----------------------------------------------------------------------------
(* The sync goroutine: syncFromMongo, then syncFromRedis.  It is also what *)
(* a node does when it starts.                                             *)

(* The keys of engineServices, before Mongo is read. *)
SyncSnapshot(n) ==
    /\ sync[n].pc = "idle"
    /\ sync' = [sync EXCEPT ![n].pc = "load", ![n].had = svc[n] # None]
    /\ UNCHANGED <<now, svc, sub, cleaning, creates, deletes, queue, gmVars,
                   storage, events>>

(* LoadAllRankConfigs.  If there is no document that is young enough, the  *)
(* Service that was there before is an orphan.                             *)
SyncLoad(n) ==
    /\ sync[n].pc = "load"
    /\ sync' = [sync EXCEPT ![n] =
          IF doc # None /\ ~TooOld(doc, now)
          THEN [SyncIdle EXCEPT !.pc = "apply", !.seen = doc]
          ELSE IF sync[n].had
          THEN [SyncIdle EXCEPT !.pc = "missing"]
          ELSE [SyncIdle EXCEPT !.pc = "redis"]]
    /\ UNCHANGED <<now, svc, sub, cleaning, creates, deletes, queue, gmVars,
                   storage, events>>

(* A document without a Service: one is built, ... *)
SyncApply(n) ==
    /\ sync[n].pc = "apply"
    /\ IF svc[n] = None
       THEN /\ NewService(sync[n].seen)
            /\ sync' = [sync EXCEPT ![n].pc = "insert"]
       ELSE /\ UNCHANGED meta
            /\ sync' = [sync EXCEPT ![n] = [SyncIdle EXCEPT !.pc = "redis"]]
    /\ UNCHANGED <<now, svc, sub, cleaning, creates, deletes, queue, gmVars,
                   doc, wiped, events>>

(* ... and inserted, but not saved. *)
SyncInsert(n) ==
    /\ sync[n].pc = "insert"
    /\ Insert(n, sync[n].seen)
    /\ sync' = [sync EXCEPT ![n] = [SyncIdle EXCEPT !.pc = "redis"]]
    /\ UNCHANGED <<now, sub, cleaning, creates, deletes, queue, gmVars,
                   storage, events>>

(* Mutant: nothing is saved. *)
RepairNothing(n) ==
    /\ sync' = [sync EXCEPT ![n] = [SyncIdle EXCEPT !.pc = "redis"]]
    /\ UNCHANGED queue

(* An orphan that is there still: if the activity is open, the document is *)
(* written again, ...                                                      *)
Repair(n) ==
    /\ Enqueue(n, svc[n])
    /\ sync' = [sync EXCEPT ![n] = [SyncIdle EXCEPT !.pc = "redis"]]

(* ... else the activity is taken for deleted. *)
Discard(n) ==
    /\ sync' = [sync EXCEPT ![n] = [SyncIdle EXCEPT !.pc = "drop"]]
    /\ UNCHANGED queue

(* Mutant: what is not in Mongo has been deleted. *)
NeverToRepair(n) == FALSE

ToRepair(n) == StillOpen(svc[n], now)

SyncMissing(n) ==
    /\ sync[n].pc = "missing"
    /\ \/ svc[n] # None /\ ToRepair(n) /\ Repair(n)
       \/ svc[n] # None /\ ~ToRepair(n) /\ Discard(n)
       \/ /\ svc[n] = None
          /\ sync' = [sync EXCEPT ![n] = [SyncIdle EXCEPT !.pc = "redis"]]
          /\ UNCHANGED queue
    /\ UNCHANGED <<now, svc, sub, cleaning, creates, deletes, gmVars, storage,
                   events>>

(* What is to be removed is removed under the lock, if it is there still.  *)
SyncDrop(n) ==
    /\ sync[n].pc = "drop"
    /\ RemoveFromMap(n)
    /\ sync' = [sync EXCEPT ![n].pc =
                   IF svc[n] = None THEN "redis" ELSE "clean"]
    /\ UNCHANGED <<now, sub, cleaning, creates, deletes, queue, gmVars,
                   storage, events>>

SyncClean(n) ==
    /\ sync[n].pc = "clean"
    /\ Wipe
    /\ sync' = [sync EXCEPT ![n].pc = "redis"]
    /\ UNCHANGED <<now, svc, sub, cleaning, creates, deletes, queue, gmVars,
                   doc, events>>

(* registerFromBizId: an activity that is in the registry of Redis, but    *)
(* not in memory; ...                                                      *)
SyncRegistry(n) ==
    /\ sync[n].pc = "redis"
    /\ sync' = [sync EXCEPT ![n] =
          IF svc[n] = None /\ meta # None /\ ~TooOld(meta, now)
          THEN [SyncIdle EXCEPT !.pc = "build", !.seen = meta]
          ELSE SyncIdle]
    /\ UNCHANGED <<now, svc, sub, cleaning, creates, deletes, queue, gmVars,
                   storage, events>>

(* ... a Service is built, which writes the registry again, ... *)
SyncBuild(n) ==
    /\ sync[n].pc = "build"
    /\ NewService(sync[n].seen)
    /\ sync' = [sync EXCEPT ![n].pc = "add"]
    /\ UNCHANGED <<now, svc, sub, cleaning, creates, deletes, queue, gmVars,
                   doc, wiped, events>>

(* ... and inserted. *)
SyncAdd(n) ==
    /\ sync[n].pc = "add"
    /\ Insert(n, sync[n].seen)
    /\ sync' = [sync EXCEPT ![n] = SyncIdle]
    /\ UNCHANGED <<now, sub, cleaning, creates, deletes, queue, gmVars,
                   storage, events>>

-----------------------------------------------------------------------------
(* The queue, the players, the clock and faults *)

(* A write reaches Mongo; a new document is inserted if there is none. *)
Flush(n) ==
    /\ queue[n] # <<>>
    /\ doc' = Head(queue[n])
    /\ queue' = [queue EXCEPT ![n] = Tail(@)]
    /\ UNCHANGED <<now, svc, sub, cleaning, sync, creates, deletes, gmVars,
                   meta, wiped, events>>

(* A write is dropped after its one retry. *)
LoseWrite(n) ==
    /\ queue[n] # <<>>
    /\ Event("lose")
    /\ queue' = [queue EXCEPT ![n] = Tail(@)]
    /\ UNCHANGED <<now, svc, sub, cleaning, sync, creates, deletes, gmVars,
                   storage>>

Quiet == /\ gm.op = "idle"
         /\ \A n \in Nodes : /\ creates[n] = <<>> /\ sub[n] = None
                             /\ deletes[n] = 0 /\ ~cleaning[n]
                             /\ queue[n] = <<>>
                             /\ sync[n].pc = "idle"

(* A sync would change nothing. *)
InStep(n) ==
    IF svc[n] = None
    THEN \A close \in {doc, meta} : close # None => TooOld(close, now)
    ELSE doc # None /\ ~TooOld(doc, now)

(* The unit of the clock is a day, in which every node syncs thousands of  *)
(* times: at midnight nothing is on its way, and the syncs have caught up. *)
Clock ==
    /\ now < Horizon
    /\ Quiet /\ \A n \in Nodes : InStep(n)
    /\ now' = now + 1
    /\ UNCHANGED <<nodeVars, gmVars, storage, events>>

(* A node crashes, and starts again with empty maps; its request is over. *)
Crash(n) ==
    /\ Event("crash")
    /\ svc' = [svc EXCEPT ![n] = None]
    /\ sub' = [sub EXCEPT ![n] = None]
    /\ cleaning' = [cleaning EXCEPT ![n] = FALSE]
    /\ sync' = [sync EXCEPT ![n] = SyncIdle]
    /\ creates' = [creates EXCEPT ![n] = <<>>]
    /\ deletes' = [deletes EXCEPT ![n] = 0]
    /\ queue' = [queue EXCEPT ![n] = <<>>]
    /\ gm' = IF gm.node = n THEN GMIdle ELSE gm
    /\ UNCHANGED <<now, asked, deleted, storage>>

-----------------------------------------------------------------------------
RegisterStep == RegisterInsert \/ PublishCreate
RemoveStep == RemoveClean \/ RemoveDoc \/ PublishDelete
GMStep == RegisterStep \/ RemoveStep

CreateStep(n) == ReceiveCreate(n) \/ ApplyCreate(n)
DeleteStep(n) == ReceiveDelete(n) \/ CleanDeleted(n)
SyncStep(n) ==
    \/ SyncSnapshot(n) \/ SyncLoad(n) \/ SyncApply(n) \/ SyncInsert(n)
    \/ SyncMissing(n) \/ SyncDrop(n) \/ SyncClean(n)
    \/ SyncRegistry(n) \/ SyncBuild(n) \/ SyncAdd(n)

Next ==
    \/ \E n \in Nodes :
          \/ \E close \in FutureTimes : \/ Register(n, close)
                                       \/ UpdateService(n, close)
          \/ RemoveService(n)
          \/ CreateStep(n) \/ DeleteStep(n) \/ SyncStep(n)
          \/ Flush(n) \/ LoseWrite(n) \/ Crash(n)
    \/ GMStep \/ Clock

Spec == Init /\ [][Next]_vars

(* The loops and subscribers run on, every queue is drained, and a request *)
(* that is being served ends.  Neither time nor the GM need move.          *)
Fairness ==
    /\ \A n \in Nodes : /\ WF_vars(CreateStep(n))
                        /\ WF_vars(DeleteStep(n))
                        /\ WF_vars(SyncStep(n))
                        /\ WF_vars(Flush(n))
    /\ WF_vars(GMStep)

FairSpec == Spec /\ Fairness

-----------------------------------------------------------------------------
(* Properties *)

Over == asked # None /\ ~StillOpen(asked, now)

(* Only the GM, or the end of the activity, may wipe what the players did: *)
(* no lost write, lost message or crash, and no node that has seen less    *)
(* than the others, makes syncFromMongo take an open activity for deleted  *)
(* (manager.go:1207).  A change of CloseTime that other nodes never hear   *)
(* of breaks this: the runs that check it make none.                       *)
OpenActivityKeepsData ==
    [][wiped' /\ ~wiped => deleted \/ Over]_vars

(* A node that serves an activity it knows to be open goes on doing so,    *)
(* unless it crashes or the GM deletes the activity (manager.go:1197).     *)
OpenActivityIsServed ==
    [][\A n \in Nodes :
          svc[n] # None /\ svc'[n] = None
          => deleted' \/ ~StillOpen(svc[n], now) \/ events' # events]_vars

(* On a node the Service is never replaced by one that was built from      *)
(* older data: what the GM changed stays changed (the second check under   *)
(* the lock, manager.go:283).                                              *)
UpdatesAreKept ==
    [][\A n \in Nodes : svc[n] # None /\ svc'[n] \notin {None, svc[n]}
                        => svc'[n] = asked' /\ events' # events]_vars

(* Once created, an activity is in Mongo and on every node in the end and  *)
(* stays there, until it is deleted or closes: whatever is lost, the node  *)
(* that serves it or the registry in Redis brings it back (the repairs of  *)
(* syncFromMongo, manager.go:1218, and syncFromRedis, manager.go:625).     *)
EverywhereInTheEnd ==
    <>[](asked # None => \/ doc # None /\ \A n \in Nodes : svc[n] # None
                         \/ Over)

(* As long as the GM does not delete an activity, what its players did     *)
(* stays: 7 days after the close the nodes free their memory, but rounds   *)
(* can be read and rewards claimed still (manager.go:1078,                 *)
(* manager_periodic.go:238).                                               *)
HistoryKept == wiped => deleted
=============================================================================
