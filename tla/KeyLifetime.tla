----------------------------- MODULE KeyLifetime -----------------------------
(***************************************************************************)
(* How long Redis keeps the keys of one leaderboard, an activity or one    *)
(* round of it: who sets which time to live, and when.                     *)
(* Source: the TTL functions of engine/store.go and their callers in       *)
(* engine/service.go and periodic/handler.go, and the tool cmd/rankttl.    *)
(*                                                                         *)
(* A write is HSET and then EXPIRE: a crash in between leaves a new key    *)
(* without a time to live, an old key with the one it had.  The node takes *)
(* the end of the activity from its own configuration, which the GM        *)
(* changes on one node only.                                               *)
(*                                                                         *)
(* The unit of time is a week: a minute or ten are no time at all.  Nodes  *)
(* tick, sync and come back after a crash within the week.                 *)
(***************************************************************************)
EXTENDS Naturals

CONSTANTS Nodes,
          Kinds,      \* of "once" and "round"
          Ends,       \* ends the activity may have
          FirstEnd,
          Retention,  \* SettledCacheTTL, settledDataRetentionTTL: 2 weeks
          Cycle,      \* the cycle of a periodic activity
          Grace,      \* a node takes up what closed this long ago, no older
          Horizon,    \* the clock stops here
          MaxMoves,   \* bound on the GM's changes
          MaxCrashes, \* bound on crashes
          None,
          Absent, Permanent  \* no key; a key without a time to live

ASSUME KeyConstants ==
    /\ Kinds \subseteq {"once", "round"}
    /\ Ends \subseteq Nat
    /\ FirstEnd \in Ends
    /\ Retention \in Nat \ {0}
    /\ Horizon \in Nat
    \* After a longer cycle the timer would find the keys gone.
    /\ Cycle \in 0..(Retention - 1)
    /\ Grace \in 0..(Retention - 1)
    \* The GM moves the end by less than the retention.
    /\ \A d, e \in Ends : d < e + Retention
    /\ MaxMoves \in Nat /\ MaxCrashes \in Nat

ASSUME SomeNode == Nodes # {}
ASSUME MarkersAreNoTimes ==
    None \notin Nat /\ Absent \notin Nat /\ Permanent \notin Nat /\ Absent # Permanent

VARIABLES now,
          kind,
          saved,     \* the end in the document in Mongo
          up,        \* the nodes that run
          end,       \* end[n]: the end, if n has the Service; else None
          done,      \* the nodes that take the leaderboard for settled
          key,       \* key[k]: when the key expires, or one of the below
          settledAt, \* when the leaderboard was settled, or None
          advanced,  \* the next round has begun
          timer,     \* timer[n]: when CleanupLiveData is due, or None
          tool,      \* when the tool was run, or None
          moves, crashes

vars == <<now, kind, saved, up, end, done, key, settledAt, advanced, timer,
          tool, moves, crashes>>
nodeVars == <<up, end, done, timer>>

(* live: rank:meta, groups, members, robots; settled: rank:settled, inst,  *)
(* mb, seq, which ExpireInstance treats alike.  A read extends one key of  *)
(* its class; another of them lives as if nobody had read.                 *)
Keys == {"live", "claims", "settled"}

TypeOK ==
    /\ now \in 0..Horizon
    /\ kind \in Kinds
    /\ saved \in Ends
    /\ up \subseteq Nodes
    /\ end \in [Nodes -> Ends \cup {None}]
    /\ done \subseteq Nodes
    /\ key \in [Keys -> Nat \cup {Absent, Permanent}]
    /\ \A k \in Keys : key[k] \in Nat => key[k] >= now
    /\ settledAt \in 0..Horizon \cup {None}
    /\ advanced \in BOOLEAN
    /\ timer \in [Nodes -> Nat \cup {None}]
    /\ tool \in 0..Horizon \cup {None}
    /\ moves \in 0..MaxMoves /\ crashes \in 0..MaxCrashes

(* Keys of an older version may be there without a time to live.           *)
Init ==
    /\ now = 0
    /\ kind \in Kinds
    /\ saved = FirstEnd
    /\ up = {}
    /\ end = [n \in Nodes |-> None]
    /\ done = {}
    /\ key \in [Keys -> {Absent, Permanent}]
    /\ settledAt = None
    /\ advanced = FALSE
    /\ timer = [n \in Nodes |-> None]
    /\ tool = None
    /\ moves = MaxMoves
    /\ crashes = MaxCrashes

Greater(a, b) == IF a > b THEN a ELSE b

-----------------------------------------------------------------------------
(* Times to live.  Each of these is the moment at which the key expires.   *)

(* writeTTL, ttlFor: a minute, if the activity is long over.               *)
WriteUntil(e) == Greater(e + Retention, now)

(* backfillTTL; a Store without an activity has None.                      *)
BackfillUntil(e) == IF e = None THEN now + Retention
                    ELSE Greater(WriteUntil(e), now + Retention)

(* Mutant: a round is kept for two weeks from its end. *)
CleanupUntilRoundEnd == saved + Retention
(* settledDataRetentionTTL *)
CleanupUntil == now + Retention

(* EXPIRE does nothing about a key that is not there. *)
Expire(keys, k, until) == IF keys[k] = Absent THEN keys
                          ELSE [keys EXCEPT ![k] = until]
ExpireAll(keys, ks, until) ==
    [k \in Keys |-> IF k \in ks /\ keys[k] # Absent THEN until ELSE keys[k]]
(* HSET alone *)
Touched(keys, k) == IF keys[k] = Absent THEN [keys EXCEPT ![k] = Permanent] ELSE keys

(* Mutant: EXPIRE first, which is lost on a key that is not there yet. *)
WrittenLate(keys, k, until) == Touched(Expire(keys, k, until), k)
(* expireKey and backfill: write first. *)
Written(keys, k, until) == Expire(Touched(keys, k), k, until)

(* A node crashes: the Service and the timers are gone.                    *)
Down(n) ==
    /\ crashes > 0
    /\ crashes' = crashes - 1
    /\ up' = up \ {n}
    /\ end' = [end EXCEPT ![n] = None]
    /\ timer' = [timer EXCEPT ![n] = None]
    /\ done' = done \ {n}

(* A write by node n, complete or cut off by a crash.                      *)
Write(n, k, until) ==
    \/ key' = Written(key, k, until) /\ UNCHANGED <<nodeVars, crashes>>
    \/ key' = Touched(key, k) /\ Down(n)

-----------------------------------------------------------------------------
(* Nodes *)

(* CleanupHistoricalRounds: the keys of the Store, not of the instance.    *)
CleanupHistorical == key' = ExpireAll(key, {"live", "claims"}, CleanupUntil)

(* A node starts.  NewService writes the times of the activity into        *)
(* rank:meta (SaveActivityTimes), and ensureLoaded gives the instance its  *)
(* time.  A round that is over has no Service any more.                    *)
Start(n) ==
    /\ n \notin up
    /\ up' = up \cup {n}
    /\ \/ /\ ~advanced
          /\ now <= saved + Grace
          /\ end' = [end EXCEPT ![n] = saved]
          /\ key' = Expire(Written(key, "live", WriteUntil(saved)),
                           "settled", BackfillUntil(saved))
       \/ advanced /\ CleanupHistorical /\ UNCHANGED end
       \/ ~advanced /\ now > saved + Grace /\ UNCHANGED <<key, end>>
    /\ UNCHANGED <<now, tool, kind, saved, done, settledAt, advanced, timer, moves, crashes>>

(* Another node has begun the next round: syncFromMongo or the message of  *)
(* that node replaces the Service.                                         *)
Follow(n) ==
    /\ advanced
    /\ end[n] # None
    /\ end' = [end EXCEPT ![n] = None]
    /\ CleanupHistorical
    /\ UNCHANGED <<now, tool, kind, saved, up, done, settledAt, advanced, timer, moves, crashes>>

Crash(n) ==
    /\ n \in up
    /\ Down(n)
    /\ UNCHANGED <<now, tool, kind, saved, key, settledAt, advanced, moves>>

(* UpdateService: the GM moves the end, to a time that is not past.        *)
UpdateConfig(n) ==
    /\ kind = "once"
    /\ end[n] # None
    /\ moves > 0
    /\ \E e \in Ends : /\ e > now
                       /\ saved' = e
                       /\ end' = [end EXCEPT ![n] = e]
    /\ moves' = moves - 1
    /\ UNCHANGED <<now, tool, kind, up, done, key, settledAt, advanced, timer, crashes>>

-----------------------------------------------------------------------------
(* Requests *)

(* A score, a new member, a growth of the robots.                          *)
Play(n) ==
    /\ end[n] # None
    /\ now < end[n]
    /\ Write(n, "live", WriteUntil(end[n]))
    /\ UNCHANGED <<now, tool, kind, saved, settledAt, advanced, moves>>

(* AtomicClaim and GetClaim, by the Service or, of an old round, by a      *)
(* Store without an activity.                                              *)
Claim(n) ==
    /\ n \in up
    /\ Write(n, "claims", BackfillUntil(end[n]))
    /\ UNCHANGED <<now, tool, kind, saved, settledAt, advanced, moves>>

(* LoadGroupSettledCached, once the leaderboard is settled: a key that is  *)
(* there gets more time, one that is not comes back from Mongo, with SETEX. *)
ReadSettled(n) ==
    /\ n \in up
    /\ settledAt # None
    /\ key' = [key EXCEPT !["settled"] = BackfillUntil(None)]
    /\ UNCHANGED <<now, tool, kind, saved, nodeVars, settledAt, advanced, moves, crashes>>

(* GetHistoricalRank: rank:members gets two more weeks, or comes back.     *)
ReadMembers(n) ==
    /\ n \in up
    /\ settledAt # None
    /\ Write(n, "live", BackfillUntil(None))
    /\ UNCHANGED <<now, tool, kind, saved, settledAt, advanced, moves>>

-----------------------------------------------------------------------------
(* Settling *)

(* SettleInstance and SaveGroup, when the leaderboard is settled for the   *)
(* first time.                                                             *)
FirstSettled(n) ==
    IF settledAt # None THEN key
    ELSE [Written(key, "live", WriteUntil(end[n])) EXCEPT !["settled"] = now + Retention]

(* Mutant: ExpireLiveData leaves the claims out. *)
SettledKeysButClaims == Keys \ {"claims"}
(* ExpireInstance and ExpireLiveData: of groups that were settled before,  *)
(* too.                                                                    *)
SettledKeys == Keys

(* Tick, once it is time; or half of it, if the node crashes on the way.   *)
Settle(n) ==
    /\ end[n] # None
    /\ now >= end[n]
    /\ n \notin done
    /\ settledAt' = IF settledAt = None THEN now ELSE settledAt
    /\ \/ /\ key' = ExpireAll(FirstSettled(n), SettledKeys, BackfillUntil(end[n]))
          /\ IF kind = "once"
             THEN done' = done \cup {n} /\ UNCHANGED <<end, timer, advanced>>
             ELSE \* setSettledTTLForRound, the timer, advanceToRound
                  /\ timer' = [timer EXCEPT ![n] = now + Cycle]
                  /\ end' = [end EXCEPT ![n] = None]
                  /\ advanced' = TRUE
                  /\ UNCHANGED done
          /\ UNCHANGED <<up, crashes>>
       \/ /\ \E some \in SUBSET SettledKeys :
               key' = ExpireAll(FirstSettled(n), some, BackfillUntil(end[n]))
          /\ Down(n)
          /\ UNCHANGED advanced
    /\ UNCHANGED <<now, tool, kind, saved, moves>>

(* CleanupLiveData, one cycle after the round.                             *)
CleanupLiveData(n) ==
    /\ timer[n] # None
    /\ now >= timer[n]
    /\ key' = ExpireAll(key, Keys, CleanupUntil)
    /\ timer' = [timer EXCEPT ![n] = None]
    /\ UNCHANGED <<now, tool, kind, saved, up, end, done, settledAt, advanced, moves, crashes>>

-----------------------------------------------------------------------------
(* The tool, Redis and the clock *)

(* cmd/rankttl -apply, which is run once.                                  *)
RankTTL ==
    /\ tool = None
    /\ tool' = now
    /\ key' = ExpireAll(key, {k \in Keys : key[k] = Permanent}, now + Retention)
    /\ UNCHANGED <<now, kind, saved, nodeVars, settledAt, advanced, moves, crashes>>

Due(k) == key[k] \notin {Absent, Permanent} /\ now >= key[k]

Redis(k) ==
    /\ Due(k)
    /\ key' = [key EXCEPT ![k] = Absent]
    /\ UNCHANGED <<now, tool, kind, saved, nodeVars, settledAt, advanced, moves, crashes>>

(* What takes less than a week is done before the week is over.            *)
Clock ==
    /\ now < Horizon
    /\ up = Nodes
    /\ \A k \in Keys : ~Due(k)
    /\ \A n \in Nodes :
         /\ timer[n] # None => now < timer[n]
         /\ end[n] # None => n \in done \/ (~advanced /\ now < end[n])
    /\ now' = now + 1
    /\ UNCHANGED <<tool, kind, saved, nodeVars, key, settledAt, advanced, moves, crashes>>

(* The model ends at the horizon. *)
TimeIsUp == now = Horizon /\ UNCHANGED vars

Next ==
    \/ \E n \in Nodes : \/ Start(n) \/ Follow(n) \/ Crash(n) \/ UpdateConfig(n)
                        \/ Play(n) \/ Claim(n) \/ ReadSettled(n) \/ ReadMembers(n)
                        \/ Settle(n) \/ CleanupLiveData(n)
    \/ \E k \in Keys : Redis(k)
    \/ RankTTL \/ Clock \/ TimeIsUp

(* Nodes start again, tick and sync; Redis and the clock go on.  Nobody    *)
(* has to play, to look or to run the tool.                                *)
Fairness ==
    /\ \A n \in Nodes : WF_vars(Start(n)) /\ WF_vars(Follow(n)) /\ WF_vars(Settle(n))
                        /\ WF_vars(CleanupLiveData(n))
    /\ \A k \in Keys : WF_vars(Redis(k))
    /\ WF_vars(Clock)

Spec == Init /\ [][Next]_vars /\ Fairness

-----------------------------------------------------------------------------
(* Properties *)

(* What the retention promises: two weeks from the settlement, and for a   *)
(* round, unless a crash takes the timer, one cycle more                   *)
(* (engine/store.go:659).                                                  *)
KeptUntil == settledAt + Retention
             + (IF kind = "round" /\ crashes = MaxCrashes THEN Cycle ELSE 0)

(* No key goes while the activity is open, nor, once it is settled, before *)
(* the retention is over, whichever node set its time last, with whatever  *)
(* end of the activity, and whoever reads, restarts or repairs in between; *)
(* only what the tool gave an open activity, and nobody has written since, *)
(* goes two weeks after the tool                                           *)
(* (engine/store.go:315 and 803, periodic/handler.go:253).                 *)
KeptUntilRetentionEnds ==
    [][\A k \in Keys : key[k] # Absent /\ key'[k] = Absent
         => \/ tool # None /\ tool < saved /\ key[k] = tool + Retention
            \/ now >= saved /\ (settledAt # None => now >= KeptUntil)]_vars

(* A key that an older version or a crash has left without a time to live  *)
(* gets one, without the tool: that of an activity that a node still takes *)
(* up, or of a round (engine/store.go:135, cmd/rankttl/main.go:7).         *)
NoKeyStaysForEver ==
    \A k \in Keys : (key[k] = Permanent /\ (kind = "round" \/ now <= saved + Grace))
                      ~> key[k] # Permanent
=============================================================================
