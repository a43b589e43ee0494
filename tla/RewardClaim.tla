---------------------------- MODULE RewardClaim ----------------------------
(***************************************************************************)
(* Claiming a reward of one leaderboard round (one engine bizId), as it is *)
(* done by engine/store.go (AtomicClaim, GetClaim), engine/dao.go          *)
(* (SaveClaimIfNotExists, GetClaim) and periodic/handler.go                *)
(* (ClaimHistoricalReward, GetHistoricalClaimStatus).                      *)
(*                                                                         *)
(* The claim of a user lives twice: in the Redis hash rank:claims, a cache *)
(* that may be evicted at any moment, and in the Mongo collection          *)
(* CT_RANK_CLAIM.  A request runs on any node and takes either the current *)
(* path (Lua script on Redis, then Mongo) or the historical path (Mongo    *)
(* only): ResolveEngineService decides it from the node's own view of the  *)
(* round, so at one moment two nodes may decide differently.  A claim time *)
(* is represented by the request that wrote it.                            *)
(*                                                                         *)
(* Fail stands for everything that makes a request end in an error without *)
(* a further effect: a Redis error, a Mongo error, a crash of its node.    *)
(* Both stores are configured, as InitGlobalManager requires.              *)
(***************************************************************************)
EXTENDS Naturals

CONSTANTS Users,      \* the users of the round
          Requests,   \* the claim requests of a behaviour
          UserOf,     \* the user each claim request is made for
          Readers,    \* the claim-status requests of a behaviour
          ReaderUser, \* the user each status request asks about
          NoClaim,    \* no entry
          Sentinel    \* nullCacheEntry: Mongo was asked and had no entry

ASSUME ClaimConstants ==
    /\ UserOf \in [Requests -> Users]
    /\ ReaderUser \in [Readers -> Users]
    /\ NoClaim \notin Requests
    /\ Sentinel \notin Requests
    /\ NoClaim # Sentinel

VARIABLES redis,   \* redis[u]: field u of the hash rank:claims
          mongo,   \* mongo[u]: the claim document of u
          claim,   \* claim[r]: where claim request r is, or how it was answered
          path,    \* path[r]: the path r was routed to
          read,    \* read[q]: where status request q is, or its answer
          seen     \* seen[q]: what q read from Mongo and has not yet cached

vars == <<redis, mongo, claim, path, read, seen>>
claimVars == <<claim, path>>
readVars == <<read, seen>>

Answers == {"granted", "refused", "failed"}
ClaimStates == {"new", "script", "verify", "upsert"} \cup Answers
ReadStates == {"new", "mongo", "backfill", "claimed", "unclaimed"}

TypeOK ==
    /\ redis \in [Users -> Requests \cup {NoClaim, Sentinel}]
    /\ mongo \in [Users -> Requests \cup {NoClaim}]
    /\ claim \in [Requests -> ClaimStates]
    /\ path \in [Requests -> {"none", "current", "historical"}]
    /\ read \in [Readers -> ReadStates]
    /\ seen \in [Readers -> Requests \cup {NoClaim}]

Init ==
    /\ redis = [u \in Users |-> NoClaim]
    /\ mongo = [u \in Users |-> NoClaim]
    /\ claim = [r \in Requests |-> "new"]
    /\ path = [r \in Requests |-> "none"]
    /\ read = [q \in Readers |-> "new"]
    /\ seen = [q \in Readers |-> NoClaim]

-----------------------------------------------------------------------------
(* Claiming *)

Route(r) ==
    /\ claim[r] = "new"
    /\ \/ /\ path' = [path EXCEPT ![r] = "current"]
          /\ claim' = [claim EXCEPT ![r] = "script"]
       \/ /\ path' = [path EXCEPT ![r] = "historical"]
          /\ claim' = [claim EXCEPT ![r] = "upsert"]
    /\ UNCHANGED <<redis, mongo, readVars>>

(* Mutant: the script does not know the sentinel. *)
UnclaimedIfAbsent(v) == v = NoClaim

(* A field that the Lua script takes for "not claimed yet". *)
Unclaimed(v) == v \in {NoClaim, Sentinel}

(* atomicClaimScript: one Redis command, so one step. *)
RunScript(r) ==
    /\ claim[r] = "script"
    /\ IF Unclaimed(redis[UserOf[r]])
       THEN /\ redis' = [redis EXCEPT ![UserOf[r]] = r]
            /\ claim' = [claim EXCEPT ![r] = "verify"]
       ELSE /\ claim' = [claim EXCEPT ![r] = "refused"]
            /\ UNCHANGED redis
    /\ UNCHANGED <<mongo, path, readVars>>

(* Mutant: an upsert with $set, which finds nothing in its way. *)
NeverRecorded(u) == FALSE
(* Mongo holds a claim document of the user. *)
Recorded(u) == mongo[u] # NoClaim

(* AtomicClaim asks Mongo before it trusts the script, for the cache may   *)
(* have been evicted.  A Mongo entry never changes, so reading it and      *)
(* writing it back to Redis is one step.                                   *)
Verify(r) ==
    /\ claim[r] = "verify"
    /\ IF Recorded(UserOf[r])
       THEN /\ redis' = [redis EXCEPT ![UserOf[r]] = mongo[UserOf[r]]]
            /\ claim' = [claim EXCEPT ![r] = "refused"]
       ELSE /\ claim' = [claim EXCEPT ![r] = "upsert"]
            /\ UNCHANGED redis
    /\ UNCHANGED <<mongo, path, readVars>>

(* SaveClaimIfNotExists: an upsert with $setOnInsert.  The loser of a race *)
(* re-reads the document; on the current path it also repairs Redis.       *)
Upsert(r) ==
    /\ claim[r] = "upsert"
    /\ IF Recorded(UserOf[r])
       THEN /\ claim' = [claim EXCEPT ![r] = "refused"]
            /\ redis' = IF path[r] = "current"
                        THEN [redis EXCEPT ![UserOf[r]] = mongo[UserOf[r]]]
                        ELSE redis
            /\ UNCHANGED mongo
       ELSE /\ mongo' = [mongo EXCEPT ![UserOf[r]] = r]
            /\ claim' = [claim EXCEPT ![r] = "granted"]
            /\ UNCHANGED redis
    /\ UNCHANGED <<path, readVars>>

(* The request errors out or its node crashes; an upsert may have reached  *)
(* Mongo before the connection was lost.                                   *)
Fail(r) ==
    /\ claim[r] \in {"script", "verify", "upsert"}
    /\ claim' = [claim EXCEPT ![r] = "failed"]
    /\ \/ UNCHANGED mongo
       \/ /\ claim[r] = "upsert"
          /\ ~Recorded(UserOf[r])
          /\ mongo' = [mongo EXCEPT ![UserOf[r]] = r]
    /\ UNCHANGED <<redis, path, readVars>>

-----------------------------------------------------------------------------
(* Asking whether the reward was claimed *)

(* Mutant: a status the caller does not know. *)
AnswerAbsent(q, found) ==
    read' = [read EXCEPT ![q] = IF found THEN "claimed" ELSE "absent"]

Answer(q, found) ==
    read' = [read EXCEPT ![q] = IF found THEN "claimed" ELSE "unclaimed"]

(* Current path: Store.GetClaim looks at Redis first. *)
ReadRedis(q) ==
    /\ read[q] = "new"
    /\ IF redis[ReaderUser[q]] = NoClaim
       THEN read' = [read EXCEPT ![q] = "mongo"]
       ELSE Answer(q, redis[ReaderUser[q]] # Sentinel)
    /\ UNCHANGED <<redis, mongo, claimVars, seen>>

(* Cache miss: read the Mongo document... *)
ReadMongo(q) ==
    /\ read[q] = "mongo"
    /\ seen' = [seen EXCEPT ![q] = mongo[ReaderUser[q]]]
    /\ read' = [read EXCEPT ![q] = "backfill"]
    /\ UNCHANGED <<redis, mongo, claimVars>>

(* ... and later write what was found, or the sentinel, back to Redis. *)
Backfill(q) ==
    /\ read[q] = "backfill"
    /\ redis' = [redis EXCEPT ![ReaderUser[q]] =
                     IF seen[q] = NoClaim THEN Sentinel ELSE seen[q]]
    /\ Answer(q, seen[q] # NoClaim)
    /\ UNCHANGED <<mongo, claimVars, seen>>

(* Historical path: GetHistoricalClaimStatus reads Mongo and caches nothing. *)
ReadHistorical(q) ==
    /\ read[q] = "new"
    /\ Answer(q, mongo[ReaderUser[q]] # NoClaim)
    /\ UNCHANGED <<redis, mongo, claimVars, seen>>

-----------------------------------------------------------------------------
(* The hash rank:claims expires or is evicted; the key goes as a whole. *)
Evict ==
    /\ redis' = [u \in Users |-> NoClaim]
    /\ UNCHANGED <<mongo, claimVars, readVars>>

Next ==
    \/ \E r \in Requests : \/ Route(r) \/ RunScript(r) \/ Verify(r)
                           \/ Upsert(r) \/ Fail(r)
    \/ \E q \in Readers : \/ ReadRedis(q) \/ ReadMongo(q) \/ Backfill(q)
                          \/ ReadHistorical(q)
    \/ Evict

Spec == Init /\ [][Next]_vars

-----------------------------------------------------------------------------
(* Properties *)

(* Of all claim requests of a user at most one is answered "first claim",  *)
(* whatever is evicted from Redis, whichever paths they take and however   *)
(* they interleave: the reward is handed out at most once (AtomicClaim,    *)
(* ClaimHistoricalReward).                                                 *)
AtMostOneGrant ==
    \A r1, r2 \in Requests :
        /\ UserOf[r1] = UserOf[r2]
        /\ claim[r1] = "granted"
        /\ claim[r2] = "granted"
        => r1 = r2

(* A granted claim is the one on record in Mongo, so no later eviction of  *)
(* rank:claims can let another request through (SaveClaimIfNotExists).     *)
GrantIsRecorded ==
    \A r \in Requests : claim[r] = "granted" => mongo[UserOf[r]] = r

(* No step replaces or removes a claim document once it is written: the    *)
(* upsert uses $setOnInsert and nothing else writes CT_RANK_CLAIM on these *)
(* paths.                                                                  *)
ClaimNeverRewritten ==
    [][\A u \in Users : mongo[u] # NoClaim => mongo'[u] = mongo[u]]_vars

(* A request is told "already claimed" only on account of another request  *)
(* of the user, one that was granted, failed or is still on its way: what  *)
(* evictions and status requests leave in Redis is never taken for a claim *)
(* (atomicClaimScript and the sentinel).                                   *)
RefusalHasCause ==
    \A r \in Requests : claim[r] = "refused" =>
        \E s \in Requests \ {r} :
            /\ UserOf[s] = UserOf[r]
            /\ claim[s] \in {"verify", "upsert", "granted", "failed"}

(* The first claim is answered claimed = false (docs/README.md:194): when  *)
(* a request of the user is refused another one has been granted or still  *)
(* may be.                                                                 *)
NoRefusalWithoutGrant ==
    \A r \in Requests : claim[r] = "refused" =>
        \E s \in Requests \ {r} :
            /\ UserOf[s] = UserOf[r]
            /\ claim[s] \in {"verify", "upsert", "granted"}

-----------------------------------------------------------------------------
(* Refinement: the Mongo document is the abstract record, and a request is *)
(* pending until it is answered.                                           *)
AbstractAnswer ==
    [r \in Requests |-> IF claim[r] \in Answers THEN claim[r] ELSE "pending"]

Abstract == INSTANCE ClaimOnce WITH holder <- mongo, answer <- AbstractAnswer

(* Redis, its evictions, the two paths and the status requests together    *)
(* implement the promise of ClaimOnce.                                     *)
ImplementsClaimOnce == Abstract!Spec
=============================================================================
