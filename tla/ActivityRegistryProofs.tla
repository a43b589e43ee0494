------------------------ MODULE ActivityRegistryProofs ------------------------
(***************************************************************************)
(* Proofs about ActivityRegistry, for any number of nodes, any closing     *)
(* times, queues of any length, and any number of faults and requests.     *)
(***************************************************************************)
EXTENDS ActivityRegistry, SequenceTheorems, TLAPS

SyncState == [pc : SyncSteps, had : BOOLEAN, seen : Close]

(* The numbers among the constants.                                        *)
LEMMA Numbers ==
    /\ Times \subseteq Nat /\ Retention \in Nat /\ Horizon \in Nat
    /\ MaxQueue \in Nat /\ MaxEvents \in Nat
BY RegistryConstants

(* An event is counted.                                                    *)
LEMMA EventCounts ==
    ASSUME events \in 0..MaxEvents, NEW kind, Event(kind)
    PROVE  events' \in 0..MaxEvents /\ events' = events + 1 /\ events' # events
BY Numbers DEF Event

(* ... and hearing a message is one, or changes nothing.                   *)
LEMMA HeardCounts ==
    ASSUME events \in 0..MaxEvents, NEW L, HeardBy(L) PROVE events' \in 0..MaxEvents
BY EventCounts DEF HeardBy

(* What is put in the map and in the queue are closing times.              *)
LEMMA InsertTypes ==
    ASSUME svc \in [Nodes -> Close], NEW n \in Nodes, NEW close \in Close, Insert(n, close)
    PROVE  svc' \in [Nodes -> Close]
BY DEF Insert

(* A write joins a queue.                                                  *)
LEMMA EnqueueTypes ==
    ASSUME NEW S, queue \in [Nodes -> Seq(S)], NEW n \in Nodes, NEW write \in S,
           Enqueue(n, write)
    PROVE  queue' \in [Nodes -> Seq(S)]
<1>1. Append(queue[n], write) \in Seq(S)
  BY AppendProperties
<1> QED
  BY <1>1 DEF Enqueue

(* A message leaves a queue, or a write.                                   *)
LEMMA TailTypes ==
    ASSUME NEW S, NEW q \in [Nodes -> Seq(S)], NEW n \in Nodes, q[n] # <<>>
    PROVE  /\ [q EXCEPT ![n] = Tail(@)] \in [Nodes -> Seq(S)]
           /\ Head(q[n]) \in S
<1>1. Tail(q[n]) \in Seq(S) /\ Head(q[n]) \in S
  BY HeadTailProperties
<1> QED
  BY <1>1

(* A node that crashes has nothing queued.                                 *)
LEMMA EmptyTypes ==
    ASSUME NEW S, NEW q \in [Nodes -> Seq(S)], NEW n \in Nodes
    PROVE  [q EXCEPT ![n] = <<>>] \in [Nodes -> Seq(S)]
<1>1. <<>> \in Seq(S)
  BY EmptySeq
<1> QED
  BY <1>1

(* A sync that moves on is a sync.                                         *)
LEMMA SyncMoves ==
    ASSUME sync \in [Nodes -> SyncState], NEW n \in Nodes
    PROVE  /\ SyncIdle \in SyncState
           /\ \A pc \in SyncSteps : [SyncIdle EXCEPT !.pc = pc] \in SyncState
           /\ \A pc \in SyncSteps, seen \in Close :
                [SyncIdle EXCEPT !.pc = pc, !.seen = seen] \in SyncState
           /\ \A s \in SyncState : [sync EXCEPT ![n] = s] \in [Nodes -> SyncState]
           /\ \A pc \in SyncSteps : [sync EXCEPT ![n].pc = pc] \in [Nodes -> SyncState]
BY DEF SyncIdle, SyncState, SyncSteps, Close

(* The request of the GM: every operation has a node, and every message of *)
(* the creation a closing time.                                            *)
LEMMA GMTypes ==
    /\ None \in Close /\ Times \subseteq Close
    /\ GMIdle \in GMState
    /\ \A g \in GMState :
         /\ g.op \in {"insert", "publish", "clean", "forget", "broadcast"} => g.node \in Nodes
         /\ g.op \in {"insert", "publish"} => g.close \in Times
         /\ g.op = "insert" => [g EXCEPT !.op = "publish"] \in GMState
         /\ g.op = "clean" => [g EXCEPT !.op = "forget"] \in GMState
         /\ g.op = "forget" => [g EXCEPT !.op = "broadcast"] \in GMState
BY DEF GMIdle, GMState, Close

-----------------------------------------------------------------------------
(* Types *)

(* The requests of the GM keep the types.                                  *)
LEMMA GMRequestTypes ==
    ASSUME TypeOK,
           \/ \E n \in Nodes : \/ \E close \in FutureTimes : \/ Register(n, close)
                                                            \/ UpdateService(n, close)
                               \/ RemoveService(n)
           \/ GMStep
    PROVE  TypeOK'
<1>t. /\ svc \in [Nodes -> Close] /\ queue \in [Nodes -> Seq(Close)] /\ gm \in GMState
      /\ creates \in [Nodes -> Seq(Times)] /\ deletes \in [Nodes -> Nat]
      /\ events \in 0..MaxEvents
  BY DEF TypeOK
<1>1. ASSUME NEW n \in Nodes, NEW close \in FutureTimes, Register(n, close) PROVE TypeOK'
  <2>1. close \in Times /\ close \in Close
    BY DEF FutureTimes, Close
  <2>2. gm' \in GMState
    BY <1>1, <2>1 DEF Register, GMState
  <2> QED
    BY <1>1, <2>1, <2>2 DEF Register, NewService, TypeOK, nodeVars
<1>2. ASSUME NEW n \in Nodes, NEW close \in FutureTimes, UpdateService(n, close) PROVE TypeOK'
  <2>1. close \in Close
    BY DEF FutureTimes, Close
  <2>2. svc' \in [Nodes -> Close] /\ queue' \in [Nodes -> Seq(Close)]
    BY <1>2, <1>t, <2>1, EnqueueTypes DEF UpdateService
  <2>3. events' \in 0..MaxEvents
    BY <1>2, <1>t, EventCounts DEF UpdateService
  <2> QED
    BY <1>2, <2>1, <2>2, <2>3 DEF UpdateService, TypeOK, storage
<1>3. ASSUME NEW n \in Nodes, RemoveService(n) PROVE TypeOK'
  <2>1. svc' \in [Nodes -> Close] /\ events' \in 0..MaxEvents
    BY <1>3, <1>t, GMTypes, EventCounts DEF RemoveService, RemoveFromMap
  <2>2. gm' \in GMState /\ asked' \in Close
    BY <1>3, GMTypes DEF RemoveService, GMState
  <2> QED
    BY <1>3, <2>1, <2>2 DEF RemoveService, TypeOK, storage
<1>4. CASE RegisterInsert
  <2>1. gm.node \in Nodes /\ gm.close \in Close /\ gm' \in GMState
    BY <1>4, <1>t, GMTypes DEF RegisterInsert
  <2>2. svc' \in [Nodes -> Close] /\ queue' \in [Nodes -> Seq(Close)]
    BY <1>4, <1>t, <2>1, InsertTypes, EnqueueTypes DEF RegisterInsert, InsertAndSave
  <2> QED
    BY <1>4, <2>1, <2>2 DEF RegisterInsert, TypeOK, storage
<1>5. CASE PublishCreate
  <2>1. gm.close \in Times /\ gm' \in GMState
    BY <1>5, <1>t, GMTypes DEF PublishCreate
  <2>2. PICK L \in SUBSET Nodes : HeardBy(L) /\ Sent(L, gm.close)
    BY <1>5 DEF PublishCreate
  <2>3. \A n \in Nodes : Append(creates[n], gm.close) \in Seq(Times)
    BY <1>t, <2>1, AppendProperties
  <2>4. creates' \in [Nodes -> Seq(Times)] /\ events' \in 0..MaxEvents
    BY <1>t, <2>2, <2>3, HeardCounts DEF Sent
  <2> QED
    BY <1>5, <2>1, <2>4 DEF PublishCreate, TypeOK, storage
<1>6. CASE RemoveClean
  BY <1>6, <1>t, GMTypes DEF RemoveClean, Wipe, TypeOK, nodeVars
<1>7. CASE RemoveDoc
  <2>1. gm.node \in Nodes /\ None \in Close /\ gm' \in GMState
    BY <1>7, <1>t, GMTypes DEF RemoveDoc
  <2>2. queue' \in [Nodes -> Seq(Close)]
    BY <1>7, <1>t, <2>1, EnqueueTypes DEF RemoveDoc
  <2> QED
    BY <1>7, <2>1, <2>2 DEF RemoveDoc, TypeOK, storage
<1>8. CASE PublishDelete
  <2>1. PICK L \in SUBSET Nodes :
          /\ HeardBy(L)
          /\ deletes' = [n \in Nodes |-> deletes[n] + IF n \in L THEN 1 ELSE 0]
    BY <1>8 DEF PublishDelete
  <2>2. deletes' \in [Nodes -> Nat] /\ events' \in 0..MaxEvents
    BY <1>t, <2>1, HeardCounts
  <2> QED
    BY <1>8, <2>2, GMTypes DEF PublishDelete, TypeOK, storage
<1> QED
  BY <1>1, <1>2, <1>3, <1>4, <1>5, <1>6, <1>7, <1>8 DEF GMStep, RegisterStep, RemoveStep

(* ... and so do the subscribers, ...                                      *)
LEMMA SubscriberTypes ==
    ASSUME TypeOK, NEW n \in Nodes, CreateStep(n) \/ DeleteStep(n) PROVE TypeOK'
<1>t. /\ svc \in [Nodes -> Close] /\ queue \in [Nodes -> Seq(Close)]
      /\ sub \in [Nodes -> Close] /\ creates \in [Nodes -> Seq(Times)]
      /\ deletes \in [Nodes -> Nat] /\ cleaning \in [Nodes -> BOOLEAN]
  BY DEF TypeOK
<1>1. CASE ReceiveCreate(n)
  <2>1. creates' \in [Nodes -> Seq(Times)] /\ Head(creates[n]) \in Close
    BY <1>1, <1>t, TailTypes, GMTypes DEF ReceiveCreate
  <2>2. sub' \in [Nodes -> Close] /\ meta' \in Close
    BY <1>1, <1>t, <2>1 DEF ReceiveCreate, NewService, TypeOK
  <2> QED
    BY <1>1, <2>1, <2>2 DEF ReceiveCreate, TypeOK, gmVars
<1>2. CASE ApplyCreate(n)
  <2>1. svc' \in [Nodes -> Close] /\ queue' \in [Nodes -> Seq(Close)]
    BY <1>2, <1>t, InsertTypes, EnqueueTypes DEF ApplyCreate, InsertAndSave
  <2>2. sub' \in [Nodes -> Close]
    BY <1>2, <1>t, GMTypes DEF ApplyCreate
  <2> QED
    BY <1>2, <2>1, <2>2 DEF ApplyCreate, TypeOK, gmVars, storage
<1>3. CASE ReceiveDelete(n)
  <2>1. svc' \in [Nodes -> Close]
    BY <1>3, <1>t, GMTypes DEF ReceiveDelete, RemoveFromMap
  <2>2. deletes' \in [Nodes -> Nat]
    BY <1>3, <1>t DEF ReceiveDelete
  <2>3. cleaning' \in [Nodes -> BOOLEAN]
    BY <1>3, <1>t DEF ReceiveDelete
  <2> QED
    BY <1>3, <2>1, <2>2, <2>3 DEF ReceiveDelete, TypeOK, gmVars, storage
<1>4. CASE CleanDeleted(n)
  <2>1. cleaning' \in [Nodes -> BOOLEAN]
    BY <1>4, <1>t DEF CleanDeleted
  <2> QED
    BY <1>4, <2>1, GMTypes DEF CleanDeleted, Wipe, TypeOK, gmVars
<1> QED
  BY <1>1, <1>2, <1>3, <1>4 DEF CreateStep, DeleteStep

(* ... the syncs ...                                                       *)
LEMMA SyncTypes == ASSUME TypeOK, NEW n \in Nodes, SyncStep(n) PROVE TypeOK'
<1>t. /\ svc \in [Nodes -> Close] /\ queue \in [Nodes -> Seq(Close)]
      /\ sync \in [Nodes -> SyncState] /\ doc \in Close /\ meta \in Close
  BY DEF TypeOK, SyncState
<1>m. /\ SyncIdle \in SyncState
      /\ \A pc \in SyncSteps : [SyncIdle EXCEPT !.pc = pc] \in SyncState
      /\ \A pc \in SyncSteps, seen \in Close :
           [SyncIdle EXCEPT !.pc = pc, !.seen = seen] \in SyncState
      /\ \A s \in SyncState : [sync EXCEPT ![n] = s] \in [Nodes -> SyncState]
      /\ \A pc \in SyncSteps : [sync EXCEPT ![n].pc = pc] \in [Nodes -> SyncState]
  BY <1>t, SyncMoves
<1>p. SyncSteps = {"idle", "load", "apply", "insert", "missing", "drop", "clean",
                   "redis", "build", "add"}
  BY DEF SyncSteps
<1>s. sync[n].seen \in Close
  BY <1>t DEF SyncState
<1>1. CASE SyncSnapshot(n)
  <2>1. sync' \in [Nodes -> SyncState]
    BY <1>1, <1>t, <1>p DEF SyncSnapshot, SyncState
  <2> QED
    BY <1>1, <2>1 DEF SyncSnapshot, TypeOK, SyncState, gmVars, storage
<1>2. CASE SyncLoad(n)
  <2>1. sync' \in [Nodes -> SyncState]
    BY <1>2, <1>t, <1>m, <1>p DEF SyncLoad
  <2> QED
    BY <1>2, <2>1 DEF SyncLoad, TypeOK, SyncState, gmVars, storage
<1>3. CASE SyncApply(n)
  <2>1. sync' \in [Nodes -> SyncState] /\ meta' \in Close
    BY <1>3, <1>t, <1>m, <1>p, <1>s DEF SyncApply, NewService
  <2> QED
    BY <1>3, <2>1 DEF SyncApply, TypeOK, SyncState, gmVars
<1>4. CASE SyncInsert(n)
  <2>1. sync' \in [Nodes -> SyncState] /\ svc' \in [Nodes -> Close]
    BY <1>4, <1>t, <1>m, <1>p, <1>s, InsertTypes DEF SyncInsert
  <2> QED
    BY <1>4, <2>1 DEF SyncInsert, TypeOK, SyncState, gmVars, storage
<1>5. CASE SyncMissing(n)
  <2>1. queue' \in [Nodes -> Seq(Close)]
    BY <1>5, <1>t, EnqueueTypes DEF SyncMissing, Repair, Discard
  <2>2. sync' \in [Nodes -> SyncState]
    BY <1>5, <1>m, <1>p DEF SyncMissing, Repair, Discard
  <2> QED
    BY <1>5, <2>1, <2>2 DEF SyncMissing, TypeOK, SyncState, gmVars, storage
<1>6. CASE SyncDrop(n)
  <2>1. sync' \in [Nodes -> SyncState] /\ svc' \in [Nodes -> Close]
    BY <1>6, <1>t, <1>m, <1>p, GMTypes DEF SyncDrop, RemoveFromMap
  <2> QED
    BY <1>6, <2>1 DEF SyncDrop, TypeOK, SyncState, gmVars, storage
<1>7. CASE SyncClean(n)
  BY <1>7, <1>m, <1>p, GMTypes DEF SyncClean, Wipe, TypeOK, SyncState, gmVars
<1>8. CASE SyncRegistry(n)
  <2>1. sync' \in [Nodes -> SyncState]
    BY <1>8, <1>t, <1>m, <1>p DEF SyncRegistry
  <2> QED
    BY <1>8, <2>1 DEF SyncRegistry, TypeOK, SyncState, gmVars, storage
<1>9. CASE SyncBuild(n)
  BY <1>9, <1>m, <1>p, <1>s DEF SyncBuild, NewService, TypeOK, SyncState, gmVars
<1>10. CASE SyncAdd(n)
  <2>1. sync' \in [Nodes -> SyncState] /\ svc' \in [Nodes -> Close]
    BY <1>10, <1>t, <1>m, <1>s, InsertTypes DEF SyncAdd
  <2> QED
    BY <1>10, <2>1 DEF SyncAdd, TypeOK, SyncState, gmVars, storage
<1> QED
  BY <1>1, <1>2, <1>3, <1>4, <1>5, <1>6, <1>7, <1>8, <1>9, <1>10 DEF SyncStep

(* ... and the queue, the clock and the faults.                            *)
LEMMA OtherStepTypes ==
    ASSUME TypeOK, \/ \E n \in Nodes : Flush(n) \/ LoseWrite(n) \/ Crash(n)
                   \/ Clock
    PROVE  TypeOK'
<1>t. /\ svc \in [Nodes -> Close] /\ queue \in [Nodes -> Seq(Close)]
      /\ creates \in [Nodes -> Seq(Times)] /\ sync \in [Nodes -> SyncState]
      /\ events \in 0..MaxEvents
  BY DEF TypeOK, SyncState
<1>1. ASSUME NEW n \in Nodes, Flush(n) PROVE TypeOK'
  <2>1. queue' \in [Nodes -> Seq(Close)] /\ doc' \in Close
    BY <1>1, <1>t, TailTypes DEF Flush
  <2> QED
    BY <1>1, <2>1 DEF Flush, TypeOK, gmVars
<1>2. ASSUME NEW n \in Nodes, LoseWrite(n) PROVE TypeOK'
  <2>1. queue' \in [Nodes -> Seq(Close)] /\ events' \in 0..MaxEvents
    BY <1>2, <1>t, TailTypes, EventCounts DEF LoseWrite
  <2> QED
    BY <1>2, <2>1 DEF LoseWrite, TypeOK, gmVars, storage
<1>3. ASSUME NEW n \in Nodes, Crash(n) PROVE TypeOK'
  <2>1. queue' \in [Nodes -> Seq(Close)] /\ creates' \in [Nodes -> Seq(Times)]
    BY <1>3, <1>t, EmptyTypes DEF Crash
  <2>2. sync' \in [Nodes -> SyncState] /\ events' \in 0..MaxEvents
    BY <1>3, <1>t, SyncMoves, EventCounts DEF Crash
  <2>3. gm' \in GMState
    BY <1>3, GMTypes DEF Crash, TypeOK
  <2> QED
    BY <1>3, <2>1, <2>2, <2>3, GMTypes DEF Crash, TypeOK, SyncState, storage
<1>4. CASE Clock
  <2>1. now' \in 0..Horizon
    BY <1>4, Numbers DEF Clock, TypeOK
  <2> QED
    BY <1>4, <2>1 DEF Clock, TypeOK, nodeVars, gmVars, storage
<1> QED
  BY <1>1, <1>2, <1>3, <1>4

(* Every step keeps the types.                                             *)
LEMMA TypeStep == TypeOK /\ [Next]_vars => TypeOK'
<1> SUFFICES ASSUME TypeOK, [Next]_vars PROVE TypeOK'
  OBVIOUS
<1>1. CASE UNCHANGED vars
  BY <1>1 DEF TypeOK, vars, nodeVars, gmVars, storage
<1> QED
  BY <1>1, GMRequestTypes, SubscriberTypes, SyncTypes, OtherStepTypes DEF Next

(* Before the creation everything is empty.                                *)
LEMMA InitTypes == Init => TypeOK
<1> SUFFICES ASSUME Init PROVE TypeOK
  OBVIOUS
<1>1. \A S : <<>> \in Seq(S)
  BY EmptySeq
<1>2. creates \in [Nodes -> Seq(Times)] /\ queue \in [Nodes -> Seq(Close)]
  BY <1>1 DEF Init
<1>3. sync \in [Nodes -> SyncState]
  BY DEF Init, SyncIdle, SyncState, SyncSteps, Close
<1>4. cleaning \in [Nodes -> BOOLEAN]
  BY DEF Init
<1>5. /\ now \in 0..Horizon /\ events \in 0..MaxEvents
      /\ svc \in [Nodes -> Close] /\ sub \in [Nodes -> Close]
      /\ deletes \in [Nodes -> Nat]
  BY Numbers, GMTypes DEF Init
<1> QED
  BY <1>2, <1>3, <1>4, <1>5, GMTypes DEF Init, TypeOK, SyncState

(* Every reachable state is well typed: every operation of the GM has its  *)
(* node, a message of a creation always names a closing time, and every    *)
(* sync is at one of its steps (rank/manager.go).                          *)
THEOREM TypeCorrect == Spec => []TypeOK
BY InitTypes, TypeStep, PTL DEF Spec

-----------------------------------------------------------------------------
(* What the nodes may know                                                 *)

(* All closing times anywhere are among some.                              *)
AllIn(W) ==
    /\ svc \in [Nodes -> W] /\ sub \in [Nodes -> W]
    /\ \A n \in Nodes : sync[n].seen \in W
    /\ creates \in [Nodes -> Seq(W)] /\ queue \in [Nodes -> Seq(W)]
    /\ doc \in W /\ meta \in W /\ gm.close \in W

(* As long as the GM has changed nothing, every closing time anywhere is   *)
(* the one that was asked for.                                             *)
Unchanged == "update" \notin Events \/ events = 0
SameInv == Unchanged /\ ~deleted => AllIn({asked, None})

(* Nothing is cleaned up on behalf of the GM unless it asked for it, and   *)
(* then it has asked for nothing since.                                    *)
NoDeletion ==
    /\ gm.op \notin {"clean", "forget", "broadcast"}
    /\ \A n \in Nodes : deletes[n] = 0 /\ ~cleaning[n]
DeleteInv == IF deleted THEN asked = None ELSE NoDeletion

(* A sync that is about to drop a Service knows it to be closed.           *)
DropInv == ~deleted =>
    \A n \in Nodes : sync[n].pc = "drop" => svc[n] # None /\ ~StillOpen(svc[n], now)

(* ... and one that is about to wipe its data comes after the close.       *)
CleanInv == ~deleted => \A n \in Nodes : sync[n].pc = "clean" => Over

(* What a thread inserts is known.                                         *)
LEMMA InsertKnown ==
    ASSUME NEW W, AllIn(W), NEW n \in Nodes, NEW close \in W, Insert(n, close)
    PROVE  svc' \in [Nodes -> W]
BY DEF Insert, AllIn

(* The GM's requests but for a change, the subscribers and ...             *)
LEMMA RequestKnown ==
    ASSUME TypeOK, NEW W, None \in W, AllIn(W), NEW n \in Nodes,
           \/ \E close \in W : Register(n, close)
           \/ RemoveService(n) \/ GMStep \/ CreateStep(n) \/ DeleteStep(n)
    PROVE  AllIn(W)'
<1>w. /\ svc \in [Nodes -> W] /\ sub \in [Nodes -> W]
      /\ creates \in [Nodes -> Seq(W)] /\ queue \in [Nodes -> Seq(W)]
      /\ doc \in W /\ meta \in W /\ gm.close \in W /\ gm \in GMState
  BY DEF AllIn, TypeOK
<1>1. ASSUME NEW close \in W, Register(n, close) PROVE AllIn(W)'
  BY <1>1 DEF Register, NewService, AllIn, nodeVars
<1>2. CASE RemoveService(n)
  BY <1>2 DEF RemoveService, RemoveFromMap, AllIn, storage
<1>3. CASE RegisterInsert
  <2>1. gm.node \in Nodes /\ gm'.close = gm.close
    BY <1>3, <1>w, GMTypes DEF RegisterInsert, GMState, GMIdle
  <2>2. svc' \in [Nodes -> W] /\ queue' \in [Nodes -> Seq(W)]
    BY <1>3, <1>w, <2>1, InsertKnown, EnqueueTypes DEF RegisterInsert, InsertAndSave
  <2> QED
    BY <1>3, <2>1, <2>2 DEF RegisterInsert, AllIn, storage
<1>4. CASE PublishCreate
  <2>1. PICK L \in SUBSET Nodes : Sent(L, gm.close)
    BY <1>4 DEF PublishCreate
  <2>2. \A m \in Nodes : Append(creates[m], gm.close) \in Seq(W)
    BY <1>w, AppendProperties
  <2>3. creates' \in [Nodes -> Seq(W)]
    BY <1>w, <2>1, <2>2 DEF Sent
  <2> QED
    BY <1>4, <2>3 DEF PublishCreate, GMIdle, AllIn, storage
<1>5. CASE RemoveClean
  <2>1. gm'.close = gm.close
    BY <1>5, <1>w DEF RemoveClean, GMState, GMIdle
  <2> QED
    BY <1>5, <2>1 DEF RemoveClean, Wipe, AllIn, nodeVars
<1>6. CASE RemoveDoc
  <2>1. gm.node \in Nodes /\ gm'.close = gm.close
    BY <1>6, <1>w, GMTypes DEF RemoveDoc, GMState, GMIdle
  <2>2. queue' \in [Nodes -> Seq(W)]
    BY <1>6, <1>w, <2>1, EnqueueTypes DEF RemoveDoc
  <2> QED
    BY <1>6, <2>1, <2>2 DEF RemoveDoc, AllIn, storage
<1>7. CASE PublishDelete
  BY <1>7 DEF PublishDelete, GMIdle, AllIn, storage
<1>8. CASE ReceiveCreate(n)
  <2>1. creates' \in [Nodes -> Seq(W)] /\ Head(creates[n]) \in W
    BY <1>8, <1>w, TailTypes DEF ReceiveCreate
  <2>2. sub' \in [Nodes -> W] /\ meta' \in W
    BY <1>8, <1>w, <2>1 DEF ReceiveCreate, NewService
  <2> QED
    BY <1>8, <2>1, <2>2 DEF ReceiveCreate, AllIn, gmVars
<1>9. CASE ApplyCreate(n)
  <2>1. svc' \in [Nodes -> W] /\ queue' \in [Nodes -> Seq(W)]
    BY <1>9, <1>w, InsertKnown, EnqueueTypes DEF ApplyCreate, InsertAndSave
  <2>2. sub' \in [Nodes -> W]
    BY <1>9, <1>w DEF ApplyCreate
  <2> QED
    BY <1>9, <2>1, <2>2 DEF ApplyCreate, AllIn, gmVars, storage
<1>10. CASE ReceiveDelete(n)
  BY <1>10 DEF ReceiveDelete, RemoveFromMap, AllIn, gmVars, storage
<1>11. CASE CleanDeleted(n)
  BY <1>11 DEF CleanDeleted, Wipe, AllIn, gmVars
<1> QED
  BY <1>1, <1>2, <1>3, <1>4, <1>5, <1>6, <1>7, <1>8, <1>9, <1>10, <1>11
     DEF GMStep, RegisterStep, RemoveStep, CreateStep, DeleteStep

(* ... the syncs bring no closing time that was not there, ...             *)
LEMMA SyncKnown ==
    ASSUME TypeOK, NEW W, None \in W, AllIn(W), NEW n \in Nodes, SyncStep(n)
    PROVE  AllIn(W)'
<1>w. /\ svc \in [Nodes -> W] /\ queue \in [Nodes -> Seq(W)]
      /\ doc \in W /\ meta \in W /\ sync[n].seen \in W
      /\ sync \in [Nodes -> SyncState]
  BY DEF AllIn, TypeOK, SyncState
<1>1. CASE SyncSnapshot(n)
  BY <1>1, <1>w DEF SyncSnapshot, AllIn, SyncState, gmVars, storage
<1>2. CASE SyncLoad(n)
  BY <1>2, <1>w DEF SyncLoad, SyncIdle, AllIn, SyncState, gmVars, storage
<1>3. CASE SyncApply(n)
  BY <1>3, <1>w DEF SyncApply, NewService, SyncIdle, AllIn, SyncState, gmVars
<1>4. CASE SyncInsert(n)
  <2>1. svc' \in [Nodes -> W]
    BY <1>4, <1>w, InsertKnown DEF SyncInsert
  <2> QED
    BY <1>4, <1>w, <2>1 DEF SyncInsert, SyncIdle, AllIn, SyncState, gmVars, storage
<1>5. CASE SyncMissing(n)
  <2>1. queue' \in [Nodes -> Seq(W)]
    BY <1>5, <1>w, EnqueueTypes DEF SyncMissing, Repair, Discard
  <2>2. \A m \in Nodes : sync'[m].seen \in W
    BY <1>5, <1>w DEF SyncMissing, Repair, Discard, SyncIdle, AllIn, SyncState
  <2> QED
    BY <1>5, <2>1, <2>2 DEF SyncMissing, AllIn, gmVars, storage
<1>6. CASE SyncDrop(n)
  BY <1>6, <1>w DEF SyncDrop, RemoveFromMap, AllIn, SyncState, gmVars, storage
<1>7. CASE SyncClean(n)
  BY <1>7, <1>w DEF SyncClean, Wipe, AllIn, SyncState, gmVars
<1>8. CASE SyncRegistry(n)
  BY <1>8, <1>w DEF SyncRegistry, SyncIdle, AllIn, SyncState, gmVars, storage
<1>9. CASE SyncBuild(n)
  BY <1>9, <1>w DEF SyncBuild, NewService, AllIn, SyncState, gmVars
<1>10. CASE SyncAdd(n)
  <2>1. svc' \in [Nodes -> W]
    BY <1>10, <1>w, InsertKnown DEF SyncAdd
  <2> QED
    BY <1>10, <1>w, <2>1 DEF SyncAdd, SyncIdle, AllIn, SyncState, gmVars, storage
<1> QED
  BY <1>1, <1>2, <1>3, <1>4, <1>5, <1>6, <1>7, <1>8, <1>9, <1>10 DEF SyncStep

(* ... nor do the queue, the clock and the faults.                         *)
LEMMA OtherStepKnown ==
    ASSUME TypeOK, NEW W, None \in W, AllIn(W),
           \/ \E n \in Nodes : Flush(n) \/ LoseWrite(n) \/ Crash(n)
           \/ Clock
    PROVE  AllIn(W)'
<1>w. /\ creates \in [Nodes -> Seq(W)] /\ queue \in [Nodes -> Seq(W)]
      /\ sync \in [Nodes -> SyncState]
  BY DEF AllIn, TypeOK, SyncState
<1>1. ASSUME NEW n \in Nodes, Flush(n) PROVE AllIn(W)'
  <2>1. queue' \in [Nodes -> Seq(W)] /\ doc' \in W
    BY <1>1, <1>w, TailTypes DEF Flush
  <2> QED
    BY <1>1, <2>1 DEF Flush, AllIn, gmVars
<1>2. ASSUME NEW n \in Nodes, LoseWrite(n) PROVE AllIn(W)'
  <2>1. queue' \in [Nodes -> Seq(W)]
    BY <1>2, <1>w, TailTypes DEF LoseWrite
  <2> QED
    BY <1>2, <2>1 DEF LoseWrite, AllIn, gmVars, storage
<1>3. ASSUME NEW n \in Nodes, Crash(n) PROVE AllIn(W)'
  <2>1. queue' \in [Nodes -> Seq(W)] /\ creates' \in [Nodes -> Seq(W)]
    BY <1>3, <1>w, EmptyTypes DEF Crash
  <2>2. svc' \in [Nodes -> W] /\ sub' \in [Nodes -> W]
    BY <1>3 DEF Crash, AllIn
  <2>3. \A m \in Nodes : sync'[m].seen \in W
    BY <1>3, <1>w DEF Crash, SyncIdle, AllIn
  <2>4. gm'.close \in W
    BY <1>3 DEF Crash, GMIdle, AllIn
  <2> QED
    BY <1>3, <2>1, <2>2, <2>3, <2>4 DEF Crash, AllIn, storage
<1>4. CASE Clock
  BY <1>4 DEF Clock, AllIn, nodeVars, gmVars, storage
<1> QED
  BY <1>1, <1>2, <1>3, <1>4

(* The clock goes on, the events are counted, a deletion stays asked for.  *)
LEMMA CountersGoOn ==
    ASSUME TypeOK, [Next]_vars
    PROVE  /\ now \in Nat /\ now' \in Nat /\ now' >= now
           /\ events \in Nat /\ events' \in Nat /\ events' >= events
           /\ deleted => deleted'
<1>1. TypeOK'
  BY TypeStep
<1>2. now \in Nat /\ now' \in Nat /\ events \in Nat /\ events' \in Nat
  BY <1>1, Numbers DEF TypeOK
<1>3. now' = now \/ now' = now + 1
  BY DEF Next, vars, Register, UpdateService, RemoveService, CreateStep, DeleteStep, SyncStep,
     GMStep, RegisterStep, RemoveStep, RegisterInsert, PublishCreate, RemoveClean, RemoveDoc,
     PublishDelete, ReceiveCreate, ApplyCreate, ReceiveDelete, CleanDeleted, SyncSnapshot,
     SyncLoad, SyncApply, SyncInsert, SyncMissing, SyncDrop, SyncClean, SyncRegistry,
     SyncBuild, SyncAdd, Flush, LoseWrite, Crash, Clock
<1>4. events' = events \/ events' = events + 1
  BY DEF Next, vars, Register, UpdateService, RemoveService, CreateStep, DeleteStep, SyncStep,
     GMStep, RegisterStep, RemoveStep, RegisterInsert, PublishCreate, RemoveClean, RemoveDoc,
     PublishDelete, ReceiveCreate, ApplyCreate, ReceiveDelete, CleanDeleted, SyncSnapshot,
     SyncLoad, SyncApply, SyncInsert, SyncMissing, SyncDrop, SyncClean, SyncRegistry,
     SyncBuild, SyncAdd, Flush, LoseWrite, Crash, Clock, Event, HeardBy
<1>5. deleted' = deleted \/ deleted'
  BY DEF Next, vars, gmVars, Register, UpdateService, RemoveService, CreateStep, DeleteStep,
     SyncStep, GMStep, RegisterStep, RemoveStep, RegisterInsert, PublishCreate, RemoveClean,
     RemoveDoc, PublishDelete, ReceiveCreate, ApplyCreate, ReceiveDelete, CleanDeleted,
     SyncSnapshot, SyncLoad, SyncApply, SyncInsert, SyncMissing, SyncDrop, SyncClean,
     SyncRegistry, SyncBuild, SyncAdd, Flush, LoseWrite, Crash, Clock
<1> QED
  BY <1>2, <1>3, <1>4, <1>5

(* What the GM asked for last changes only with its requests.              *)
LEMMA AskedChanges ==
    ASSUME TypeOK, [Next]_vars, asked' # asked
    PROVE  \E n \in Nodes : \/ \E close \in FutureTimes : \/ Register(n, close)
                                                         \/ UpdateService(n, close)
                            \/ RemoveService(n)
BY DEF Next, vars, gmVars, CreateStep, DeleteStep,
     SyncStep, GMStep, RegisterStep, RemoveStep, RegisterInsert, PublishCreate, RemoveClean,
     RemoveDoc, PublishDelete, ReceiveCreate, ApplyCreate, ReceiveDelete, CleanDeleted,
     SyncSnapshot, SyncLoad, SyncApply, SyncInsert, SyncMissing, SyncDrop, SyncClean,
     SyncRegistry, SyncBuild, SyncAdd, Flush, LoseWrite, Crash, Clock

(* A Service that a node has is only ever replaced by a change of the GM,  *)
(* and removed in four places.                                             *)
LEMMA ServiceChanges ==
    ASSUME TypeOK, [Next]_vars, NEW m \in Nodes, svc[m] # None, svc'[m] # svc[m]
    PROVE  \/ /\ svc'[m] = None
              /\ RemoveService(m) \/ ReceiveDelete(m) \/ SyncDrop(m) \/ Crash(m)
           \/ \E close \in FutureTimes : UpdateService(m, close) /\ svc'[m] = close
<1>t. svc \in [Nodes -> Close] /\ gm \in GMState
  BY DEF TypeOK
<1>i. ASSUME NEW n \in Nodes, NEW close, Insert(n, close) PROVE FALSE
  BY <1>t, <1>i DEF Insert
<1>1. ASSUME NEW n \in Nodes, NEW close \in FutureTimes, UpdateService(n, close)
      PROVE  UpdateService(m, close) /\ svc'[m] = close
  BY <1>1, <1>t DEF UpdateService
<1>2. ASSUME NEW n \in Nodes, RemoveService(n) PROVE svc'[m] = None /\ RemoveService(m)
  BY <1>2, <1>t DEF RemoveService, RemoveFromMap
<1>3. ASSUME NEW n \in Nodes, ReceiveDelete(n) PROVE svc'[m] = None /\ ReceiveDelete(m)
  BY <1>3, <1>t DEF ReceiveDelete, RemoveFromMap
<1>4. ASSUME NEW n \in Nodes, SyncDrop(n) PROVE svc'[m] = None /\ SyncDrop(m)
  BY <1>4, <1>t DEF SyncDrop, RemoveFromMap
<1>5. ASSUME NEW n \in Nodes, Crash(n) PROVE svc'[m] = None /\ Crash(m)
  BY <1>5, <1>t DEF Crash
<1>6. CASE RegisterInsert
  <2>1. gm.node \in Nodes
    BY <1>6, <1>t, GMTypes DEF RegisterInsert
  <2> QED
    BY <1>6, <2>1, <1>i DEF RegisterInsert, InsertAndSave
<1>7. ASSUME NEW n \in Nodes, ApplyCreate(n) \/ SyncInsert(n) \/ SyncAdd(n) PROVE FALSE
  BY <1>7, <1>i DEF ApplyCreate, SyncInsert, SyncAdd, InsertAndSave
<1>8. ASSUME UNCHANGED svc PROVE FALSE
  BY <1>8
<1>9. ASSUME NEW n \in Nodes,
             \/ \E close \in FutureTimes : Register(n, close)
             \/ ReceiveCreate(n) \/ CleanDeleted(n) \/ Flush(n) \/ LoseWrite(n)
             \/ SyncSnapshot(n) \/ SyncLoad(n) \/ SyncApply(n) \/ SyncMissing(n)
             \/ SyncClean(n) \/ SyncRegistry(n) \/ SyncBuild(n)
      PROVE  FALSE
  BY <1>8, <1>9 DEF Register, nodeVars, ReceiveCreate, CleanDeleted, Flush, LoseWrite,
     SyncSnapshot, SyncLoad, SyncApply, SyncMissing, SyncClean, SyncRegistry, SyncBuild
<1>10. ASSUME \/ PublishCreate \/ RemoveStep \/ Clock \/ UNCHANGED vars PROVE FALSE
  BY <1>8, <1>10 DEF PublishCreate, RemoveStep, RemoveClean, RemoveDoc, PublishDelete,
     Clock, vars, nodeVars
<1> QED
  BY <1>1, <1>2, <1>3, <1>4, <1>5, <1>6, <1>7, <1>9, <1>10
     DEF Next, GMStep, RegisterStep, CreateStep, DeleteStep, SyncStep

(* A sync goes to drop a Service that is closed, and to wipe data after    *)
(* it has dropped one.                                                     *)
LEMMA SyncChanges ==
    ASSUME TypeOK, [Next]_vars, NEW m \in Nodes
    PROVE  /\ sync'[m].pc = "drop" =>
                \/ sync[m].pc = "drop" /\ ~SyncDrop(m) /\ ~Crash(m)
                \/ SyncMissing(m) /\ svc[m] # None /\ ~ToRepair(m)
           /\ sync'[m].pc = "clean" =>
                \/ sync[m].pc = "clean" /\ ~SyncClean(m) /\ ~Crash(m)
                \/ SyncDrop(m) /\ svc[m] # None
<1>t. sync \in [Nodes -> SyncState]
  BY DEF TypeOK, SyncState
<1>d. SyncDrop(m) => sync[m].pc = "drop" /\ sync'[m].pc = IF svc[m] = None THEN "redis" ELSE "clean"
  BY <1>t DEF SyncDrop, SyncState
<1>c. SyncClean(m) => sync[m].pc = "clean" /\ sync'[m].pc = "redis"
  BY <1>t DEF SyncClean, SyncState
<1>r. Crash(m) => sync'[m].pc = "idle"
  BY <1>t DEF Crash, SyncIdle
<1>1. CASE sync'[m] = sync[m]
  BY <1>1, <1>d, <1>c, <1>r
<1>2. ASSUME NEW n \in Nodes, SyncStep(n) \/ Crash(n), n # m PROVE sync'[m] = sync[m]
  BY <1>2, <1>t DEF Crash, SyncStep, SyncSnapshot, SyncLoad, SyncApply, SyncInsert, SyncMissing,
     Repair, Discard, SyncDrop, SyncClean, SyncRegistry, SyncBuild, SyncAdd
<1>3. CASE \/ SyncSnapshot(m) \/ SyncLoad(m) \/ SyncApply(m) \/ SyncInsert(m)
           \/ SyncRegistry(m) \/ SyncBuild(m) \/ SyncAdd(m)
  <2>1. CASE SyncSnapshot(m)
    BY <2>1, <1>t DEF SyncSnapshot, SyncState
  <2>2. CASE SyncLoad(m)
    BY <2>2, <1>t DEF SyncLoad, SyncIdle
  <2>3. CASE SyncApply(m)
    BY <2>3, <1>t DEF SyncApply, SyncIdle, SyncState
  <2>4. CASE SyncInsert(m)
    BY <2>4, <1>t DEF SyncInsert, SyncIdle
  <2>6. CASE SyncRegistry(m)
    BY <2>6, <1>t DEF SyncRegistry, SyncIdle
  <2>7. CASE SyncAdd(m)
    BY <2>7, <1>t DEF SyncAdd, SyncIdle
  <2>5. CASE SyncBuild(m)
    BY <2>5, <1>t DEF SyncBuild, SyncState
  <2> QED
    BY <1>3, <2>1, <2>2, <2>3, <2>4, <2>5, <2>6, <2>7
<1>4. CASE SyncMissing(m)
  BY <1>4, <1>t DEF SyncMissing, Repair, Discard, SyncIdle, SyncState
<1>5. CASE SyncDrop(m)
  BY <1>5, <1>d
<1>6. CASE SyncClean(m)
  BY <1>6, <1>c
<1>7. CASE Crash(m)
  BY <1>7, <1>r
<1>8. ASSUME ~\E n \in Nodes : SyncStep(n) \/ Crash(n) PROVE sync'[m] = sync[m]
  BY <1>8 DEF Next, vars, nodeVars, Register, UpdateService, RemoveService, CreateStep, DeleteStep,
     GMStep, RegisterStep, RemoveStep, RegisterInsert, PublishCreate, RemoveClean, RemoveDoc,
     PublishDelete, ReceiveCreate, ApplyCreate, ReceiveDelete, CleanDeleted, Flush, LoseWrite,
     Clock
<1> QED
  BY <1>1, <1>2, <1>3, <1>4, <1>5, <1>6, <1>7, <1>8 DEF SyncStep

-----------------------------------------------------------------------------
(* The invariants are kept                                                 *)

(* Every step keeps the closing times at what was asked for.               *)
LEMMA SameStep ==
    ASSUME TypeOK, SameInv, [Next]_vars PROVE SameInv'
<1> SUFFICES ASSUME Unchanged', ~deleted' PROVE AllIn({asked, None})'
  BY DEF SameInv
<1>c. events \in Nat /\ events' \in Nat /\ events' >= events /\ ~deleted
  BY CountersGoOn
<1>u. Unchanged
  BY <1>c DEF Unchanged
<1>w. AllIn({asked, None})
  BY <1>c, <1>u DEF SameInv
<1>1. ASSUME NEW n \in Nodes, NEW close \in FutureTimes, UpdateService(n, close) PROVE FALSE
  BY <1>1, <1>c DEF UpdateService, Event, Unchanged
<1>2. ASSUME NEW n \in Nodes, RemoveService(n) PROVE FALSE
  BY <1>2 DEF RemoveService
<1>3. ASSUME NEW n \in Nodes, NEW close \in FutureTimes, Register(n, close)
      PROVE  AllIn({asked, None})'
  <2> DEFINE W == {close, None}
  <2>1. asked = None /\ asked' = close
    BY <1>3 DEF Register
  <2>2. \A q : q \in Seq({asked, None}) => q \in Seq(W)
    BY <2>1, SeqMonotonic
  <2>3. AllIn(W)
    BY <1>w, <2>1, <2>2 DEF AllIn
  <2>4. AllIn(W)'
    BY <1>3, <2>3, RequestKnown
  <2> QED
    BY <2>1, <2>4
<1>4. CASE asked' = asked
  <2> SUFFICES ASSUME NEW W, W = {asked, None} PROVE AllIn(W)'
    BY <1>4
  <2>1. AllIn(W) /\ None \in W
    BY <1>w
  <2>2. CASE UNCHANGED vars
    BY <2>1, <2>2 DEF AllIn, vars, nodeVars, gmVars, storage
  <2>3. ASSUME NEW n \in Nodes, NEW close \in FutureTimes, Register(n, close) PROVE FALSE
    BY <2>3, <1>4, RegistryConstants DEF Register, FutureTimes
  <2>4. ASSUME NEW n \in Nodes, CreateStep(n) \/ DeleteStep(n) PROVE AllIn(W)'
    BY <2>1, <2>4, RequestKnown
  <2>5. ASSUME NEW n \in Nodes, SyncStep(n) PROVE AllIn(W)'
    BY <2>1, <2>5, SyncKnown
  <2>6. ASSUME \/ \E n \in Nodes : Flush(n) \/ LoseWrite(n) \/ Crash(n)
               \/ Clock
        PROVE  AllIn(W)'
    BY <2>1, <2>6, OtherStepKnown
  <2>7. CASE GMStep
    <3>1. gm.op # "idle"
      BY <2>7 DEF GMStep, RegisterStep, RemoveStep, RegisterInsert, PublishCreate,
         RemoveClean, RemoveDoc, PublishDelete
    <3>2. \E n : n \in Nodes
      BY <3>1, GMTypes DEF TypeOK, GMState, GMIdle
    <3> QED
      BY <2>1, <2>7, <3>2, RequestKnown
  <2> QED
    BY <1>1, <1>2, <2>2, <2>3, <2>4, <2>5, <2>6, <2>7 DEF Next
<1> QED
  BY <1>1, <1>2, <1>3, <1>4, AskedChanges

(* Every step keeps the clean-up to what the GM asked for, ...             *)
LEMMA DeletedStep ==
    ASSUME TypeOK, DeleteInv, [Next]_vars PROVE DeleteInv'
<1>a. ASSUME deleted' PROVE asked' = None
  <2>1. CASE asked' = asked
    <3>1. CASE deleted
      BY <2>1, <3>1 DEF DeleteInv
    <3>2. CASE ~deleted
      <4>1. \E n \in Nodes : RemoveService(n)
        BY <1>a, <3>2 DEF Next, vars, gmVars, Register, UpdateService, CreateStep, DeleteStep,
     SyncStep, GMStep, RegisterStep, RemoveStep, RegisterInsert, PublishCreate, RemoveClean,
     RemoveDoc, PublishDelete, ReceiveCreate, ApplyCreate, ReceiveDelete, CleanDeleted,
     SyncSnapshot, SyncLoad, SyncApply, SyncInsert, SyncMissing, SyncDrop, SyncClean,
     SyncRegistry, SyncBuild, SyncAdd, Flush, LoseWrite, Crash, Clock
      <4> QED
        BY <4>1 DEF RemoveService
    <3> QED
      BY <3>1, <3>2
  <2>2. CASE asked' # asked
    BY <1>a, <2>2, AskedChanges DEF Register, UpdateService, RemoveService, DeleteInv
  <2> QED
    BY <2>1, <2>2
<1> SUFFICES ASSUME ~deleted' PROVE NoDeletion'
  BY <1>a DEF DeleteInv
<1>c. ~deleted /\ deletes \in [Nodes -> Nat] /\ cleaning \in [Nodes -> BOOLEAN] /\ gm \in GMState
  BY CountersGoOn DEF TypeOK
<1>d. /\ gm.op \notin {"clean", "forget", "broadcast"}
      /\ \A n \in Nodes : deletes[n] = 0 /\ ~cleaning[n]
  BY <1>c DEF DeleteInv, NoDeletion
<1>1. gm'.op \notin {"clean", "forget", "broadcast"}
  <2>1. CASE gm' = gm
    BY <2>1, <1>d
  <2>2. CASE gm' = GMIdle
    BY <2>2 DEF GMIdle
  <2>3. ASSUME NEW n \in Nodes, NEW close, Register(n, close) PROVE gm'.op = "insert"
    BY <2>3 DEF Register
  <2>4. CASE RegisterInsert
    <3>1. gm \in [op : {"insert", "publish"}, node : Nodes, close : Times]
      BY <2>4, <1>c DEF RegisterInsert, GMState, GMIdle
    <3> QED
      BY <2>4, <3>1 DEF RegisterInsert
  <2> QED
    BY <1>d, <2>1, <2>2, <2>3, <2>4 DEF Next, vars, nodeVars, gmVars, UpdateService,
     RemoveService, CreateStep, DeleteStep, SyncStep, GMStep, RegisterStep, RemoveStep,
     PublishCreate, RemoveClean, RemoveDoc, PublishDelete, ReceiveCreate, ApplyCreate,
     ReceiveDelete, CleanDeleted, SyncSnapshot, SyncLoad, SyncApply, SyncInsert, SyncMissing,
     SyncDrop, SyncClean, SyncRegistry, SyncBuild, SyncAdd, Flush, LoseWrite, Crash, Clock
<1>2. ASSUME NEW m \in Nodes PROVE deletes'[m] = 0 /\ ~cleaning'[m]
  <2>1. CASE UNCHANGED <<deletes, cleaning>>
    BY <2>1, <1>d
  <2>2. ASSUME NEW n \in Nodes, Crash(n) PROVE deletes'[m] = 0 /\ ~cleaning'[m]
    BY <2>2, <1>c, <1>d DEF Crash
  <2>3. ASSUME NEW n \in Nodes, DeleteStep(n) PROVE FALSE
    BY <2>3, <1>d DEF DeleteStep, ReceiveDelete, CleanDeleted
  <2>4. ASSUME RemoveStep PROVE FALSE
    BY <2>4, <1>d DEF RemoveStep, RemoveClean, RemoveDoc, PublishDelete
  <2>5. ASSUME ~\E n \in Nodes : DeleteStep(n) \/ Crash(n), ~RemoveStep
        PROVE  UNCHANGED <<deletes, cleaning>>
    BY <2>5 DEF Next, vars, nodeVars, gmVars, Register, UpdateService,
     RemoveService, CreateStep, SyncStep, GMStep, RegisterStep, RegisterInsert, PublishCreate,
     ReceiveCreate, ApplyCreate, SyncSnapshot, SyncLoad, SyncApply, SyncInsert,
     SyncMissing, SyncDrop, SyncClean, SyncRegistry, SyncBuild, SyncAdd, Flush, LoseWrite, Clock
  <2> QED
    BY <2>1, <2>2, <2>3, <2>4, <2>5
<1> QED
  BY <1>1, <1>2 DEF NoDeletion

(* The GM changes an activity only through a node that takes it to be open.*)
OpenUpdates ==
    \A n \in Nodes, close \in FutureTimes : UpdateService(n, close) => StillOpen(svc[n], now)

(* ... what is about to be dropped closed, while the GM changes what is    *)
(* open, ...                                                               *)
LEMMA DropStep ==
    ASSUME TypeOK, DeleteInv, DropInv, [Next]_vars, OpenUpdates PROVE DropInv'
<1> SUFFICES ASSUME ~deleted', NEW m \in Nodes, sync'[m].pc = "drop"
             PROVE  svc'[m] # None /\ ~StillOpen(svc'[m], now')
  BY DEF DropInv
<1>c. /\ ~deleted /\ now \in Nat /\ now' \in Nat /\ now' >= now
      /\ svc \in [Nodes -> Close] /\ sync \in [Nodes -> SyncState]
  BY CountersGoOn DEF TypeOK, SyncState
<1>1. svc[m] # None /\ ~StillOpen(svc[m], now)
  BY <1>c, SyncChanges DEF DropInv, ToRepair
<1>2. svc'[m] = svc[m]
  <2> SUFFICES ASSUME svc'[m] # svc[m] PROVE FALSE
    OBVIOUS
  <2>1. ~RemoveService(m)
    BY DEF RemoveService
  <2>2. ~ReceiveDelete(m)
    BY <1>c DEF DeleteInv, NoDeletion, ReceiveDelete
  <2>3. ~SyncDrop(m) /\ ~Crash(m)
    <3>1. ~Crash(m)
      BY <1>c DEF Crash, SyncIdle
    <3>2. ~SyncDrop(m)
      BY <1>1, <1>c DEF SyncDrop, SyncState
    <3> QED
      BY <3>1, <3>2
  <2>4. ~\E close \in FutureTimes : UpdateService(m, close)
    BY <1>1 DEF OpenUpdates
  <2> QED
    BY <1>1, <2>1, <2>2, <2>3, <2>4, ServiceChanges
<1>3. svc[m] \in Nat
  BY <1>1, <1>c, Numbers DEF Close
<1> QED
  BY <1>1, <1>2, <1>3, <1>c DEF StillOpen

(* ... and data about to be wiped after the close, if it changes nothing.  *)
LEMMA CleanStep ==
    ASSUME TypeOK, SameInv, DropInv, CleanInv, "update" \notin Events, [Next]_vars
    PROVE  CleanInv'
<1> SUFFICES ASSUME ~deleted', NEW m \in Nodes, sync'[m].pc = "clean" PROVE Over'
  BY DEF CleanInv
<1>c. /\ ~deleted /\ now \in Nat /\ now' \in Nat /\ now' >= now
      /\ svc \in [Nodes -> Close] /\ asked \in Close
  BY CountersGoOn DEF TypeOK
<1>1. Over
  <2>1. CASE sync[m].pc = "clean"
    BY <2>1, <1>c DEF CleanInv
  <2>2. CASE SyncDrop(m) /\ svc[m] # None
    <3>1. ~StillOpen(svc[m], now)
      BY <2>2, <1>c DEF SyncDrop, DropInv
    <3>2. svc[m] = asked
      BY <2>2, <1>c DEF SameInv, Unchanged, AllIn
    <3> QED
      BY <2>2, <3>1, <3>2 DEF Over
  <2> QED
    BY <2>1, <2>2, SyncChanges
<1>2. asked' = asked
  BY <1>1, AskedChanges DEF Over, Register, UpdateService, RemoveService, Event
<1>3. asked \in Nat
  BY <1>1, <1>c, Numbers DEF Over, Close
<1> QED
  BY <1>1, <1>2, <1>3, <1>c DEF Over, StillOpen

(* What holds in every state, whatever the GM changes.                     *)
KnownInv == TypeOK /\ SameInv /\ DeleteInv

(* Nothing is known before the activity is created.                        *)
LEMMA InitKnown == Init => KnownInv /\ DropInv /\ CleanInv
<1> SUFFICES ASSUME Init, TypeOK PROVE SameInv /\ DeleteInv /\ DropInv /\ CleanInv
  BY InitTypes DEF KnownInv
<1>1. DeleteInv
  BY DEF Init, DeleteInv, NoDeletion, GMIdle
<1>2. DropInv /\ CleanInv
  BY DEF Init, DropInv, CleanInv, SyncIdle
<1>3. AllIn({asked, None})
  <2>1. \A S : <<>> \in Seq(S)
    BY EmptySeq
  <2>2. /\ creates \in [Nodes -> Seq({asked, None})]
        /\ queue \in [Nodes -> Seq({asked, None})]
    BY <2>1 DEF Init
  <2> QED
    BY <2>2 DEF Init, AllIn, SyncIdle, GMIdle
<1> QED
  BY <1>1, <1>2, <1>3 DEF SameInv

(* As long as the GM changes nothing every node, message, document and     *)
(* entry of the registry has the closing time that was asked for, and no   *)
(* node cleans up unless the GM asked for the deletion.                    *)
THEOREM Known == Spec => []KnownInv
<1>1. Init => KnownInv
  BY InitKnown
<1>2. KnownInv /\ [Next]_vars => KnownInv'
  BY TypeStep, SameStep, DeletedStep DEF KnownInv
<1> QED
  BY <1>1, <1>2, PTL DEF Spec

-----------------------------------------------------------------------------
(* Theorems *)

(* No thread replaces a Service of a node by one that was built from older *)
(* data, with any number of changes, deletions and faults: only a change   *)
(* of the GM does (the second check under the lock, manager.go:283).       *)
THEOREM UpdatesStay == Spec => UpdatesAreKept
<1>1. TypeOK /\ [Next]_vars
      => [\A n \in Nodes : svc[n] # None /\ svc'[n] \notin {None, svc[n]}
                           => svc'[n] = asked' /\ events' # events]_vars
  <2> SUFFICES ASSUME TypeOK, [Next]_vars, NEW n \in Nodes,
                      svc[n] # None, svc'[n] \notin {None, svc[n]}
               PROVE  svc'[n] = asked' /\ events' # events
    OBVIOUS
  <2>1. PICK close \in FutureTimes : UpdateService(n, close) /\ svc'[n] = close
    BY ServiceChanges
  <2>2. events \in 0..MaxEvents
    BY DEF TypeOK
  <2> QED
    BY <2>1, <2>2, EventCounts DEF UpdateService
<1> QED
  BY <1>1, TypeCorrect, PTL DEF Spec, UpdatesAreKept

(* What a step may do to an open activity on a node.                       *)
LEMMA ServedStep ==
    ASSUME KnownInv, DropInv, [Next]_vars, NEW n \in Nodes, svc[n] # None, svc'[n] = None
    PROVE  deleted' \/ ~StillOpen(svc[n], now) \/ events' # events
<1>t. TypeOK /\ events \in 0..MaxEvents /\ (deleted => deleted')
  BY CountersGoOn DEF KnownInv, TypeOK
<1>1. ~\E close \in FutureTimes : UpdateService(n, close) /\ svc'[n] = close
  BY RegistryConstants DEF FutureTimes
<1>2. CASE RemoveService(n)
  BY <1>2 DEF RemoveService
<1>3. CASE ReceiveDelete(n)
  BY <1>3, <1>t DEF ReceiveDelete, KnownInv, DeleteInv, NoDeletion
<1>4. CASE SyncDrop(n)
  BY <1>4, <1>t DEF SyncDrop, DropInv
<1>5. CASE Crash(n)
  BY <1>5, <1>t, EventCounts DEF Crash
<1> QED
  BY <1>1, <1>2, <1>3, <1>4, <1>5, <1>t, ServiceChanges

(* A node that serves an activity it knows to be open goes on doing so,    *)
(* with any faults, unless it crashes or the GM deletes the activity - or  *)
(* changes it through a node that takes it to be closed, of which a sync   *)
(* may be about to drop it (manager.go:1197, 1233).                        *)
THEOREM OpenIsServed == Spec /\ [][OpenUpdates]_vars => OpenActivityIsServed
<1>1. /\ KnownInv /\ DropInv /\ [Next]_vars /\ [OpenUpdates]_vars => DropInv'
  <2> SUFFICES ASSUME KnownInv, DropInv, [Next]_vars, [OpenUpdates]_vars PROVE DropInv'
    OBVIOUS
  <2>1. CASE OpenUpdates
    BY <2>1, DropStep DEF KnownInv
  <2>2. CASE UNCHANGED vars
    BY <2>2 DEF DropInv, StillOpen, vars, nodeVars, gmVars
  <2> QED
    BY <2>1, <2>2
<1>2. KnownInv /\ DropInv /\ [Next]_vars
      => [\A n \in Nodes :
            svc[n] # None /\ svc'[n] = None
            => deleted' \/ ~StillOpen(svc[n], now) \/ events' # events]_vars
  BY ServedStep
<1>3. Init => DropInv
  BY InitKnown
<1> QED
  BY <1>1, <1>2, <1>3, Known, PTL DEF Spec, OpenActivityIsServed

(* One change is such a change, or none: whatever node it reaches has the  *)
(* closing time that was asked for.                                        *)
THEOREM OneUpdateIsOpen ==
    "update" \notin Events \/ MaxEvents <= 1 => (Spec => [][OpenUpdates]_vars)
<1> SUFFICES ASSUME "update" \notin Events \/ MaxEvents <= 1 PROVE Spec => [][OpenUpdates]_vars
  OBVIOUS
<1>1. KnownInv => OpenUpdates
  <2> SUFFICES ASSUME KnownInv, NEW n \in Nodes, NEW close \in FutureTimes,
                      UpdateService(n, close)
               PROVE  StillOpen(svc[n], now)
    BY DEF OpenUpdates
  <2>1. events \in Nat /\ MaxEvents \in Nat
    BY Numbers DEF KnownInv, TypeOK
  <2>2. Unchanged
    BY <2>1 DEF UpdateService, Event, Unchanged
  <2>3. CASE deleted
    BY <2>3 DEF KnownInv, DeleteInv, UpdateService
  <2>4. CASE ~deleted
    BY <2>2, <2>4 DEF KnownInv, SameInv, AllIn, UpdateService
  <2> QED
    BY <2>3, <2>4
<1> QED
  BY <1>1, Known, PTL

(* Only the GM, or the end of the activity, wipes what the players did: no *)
(* lost write, lost message or crash, and no node that has seen less than  *)
(* the others, makes syncFromMongo take an open activity for deleted, as   *)
(* long as the GM does not move its end (manager.go:1207).                 *)
THEOREM OpenKeepsData == "update" \notin Events => (Spec => OpenActivityKeepsData)
<1> SUFFICES ASSUME "update" \notin Events PROVE Spec => OpenActivityKeepsData
  OBVIOUS
<1>1. Init => DropInv /\ CleanInv
  BY InitKnown
<1>2. KnownInv /\ DropInv /\ CleanInv /\ [Next]_vars /\ [OpenUpdates]_vars => DropInv' /\ CleanInv'
  <2> SUFFICES ASSUME KnownInv, DropInv, CleanInv, [Next]_vars, [OpenUpdates]_vars
               PROVE  DropInv' /\ CleanInv'
    OBVIOUS
  <2>1. CleanInv'
    BY CleanStep DEF KnownInv
  <2>2. CASE OpenUpdates
    BY <2>1, <2>2, DropStep DEF KnownInv
  <2>3. CASE UNCHANGED vars
    BY <2>1, <2>3 DEF DropInv, StillOpen, vars, nodeVars, gmVars
  <2> QED
    BY <2>1, <2>2, <2>3
<1>3. KnownInv /\ CleanInv /\ [Next]_vars => [wiped' /\ ~wiped => deleted \/ Over]_vars
  <2> SUFFICES ASSUME KnownInv, CleanInv, [Next]_vars, wiped', ~wiped, ~deleted PROVE Over
    OBVIOUS
  <2>1. NoDeletion
    BY DEF KnownInv, DeleteInv
  <2>2. ASSUME NEW n \in Nodes, SyncClean(n) PROVE Over
    BY <2>2 DEF SyncClean, CleanInv
  <2>3. ASSUME NEW n \in Nodes, DeleteStep(n) PROVE FALSE
    BY <2>1, <2>3 DEF NoDeletion, DeleteStep, ReceiveDelete, CleanDeleted
  <2>4. ASSUME RemoveStep PROVE FALSE
    BY <2>1, <2>4 DEF NoDeletion, RemoveStep, RemoveClean, RemoveDoc, PublishDelete
  <2>5. ASSUME ~RemoveStep, ~\E n \in Nodes : SyncClean(n) \/ DeleteStep(n)
        PROVE  UNCHANGED wiped
    BY <2>5 DEF Next, vars, storage, Register, UpdateService, RemoveService, CreateStep,
     SyncStep, GMStep, RegisterStep, RegisterInsert, PublishCreate, ReceiveCreate, ApplyCreate,
     SyncSnapshot, SyncLoad, SyncApply, SyncInsert, SyncMissing, SyncDrop,
     SyncRegistry, SyncBuild, SyncAdd, Flush, LoseWrite, Crash, Clock
  <2> QED
    BY <2>2, <2>3, <2>4, <2>5
<1> QED
  BY <1>1, <1>2, <1>3, Known, OneUpdateIsOpen, PTL DEF Spec, OpenActivityKeepsData
=============================================================================
