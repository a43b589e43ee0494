------------------------- MODULE RewardClaimProofs -------------------------
(***************************************************************************)
(* Proofs about RewardClaim, for every set of users, of claim requests and *)
(* of status requests.                                                     *)
(***************************************************************************)
EXTENDS RewardClaim, TLAPS

(* What a step preserves: the types, and that the grant handed out is the  *)
(* one on record.  AtMostOneGrant follows from it: two requests of a user  *)
(* on record as his one claim are the same request.                        *)
IInv == TypeOK /\ GrantIsRecorded

(* Every reachable state has the declared types, the in-flight reads of    *)
(* GetClaim and the positions inside AtomicClaim included.                 *)
THEOREM TypeCorrect == Spec => []TypeOK
<1> USE ClaimConstants
<1>1. Init => TypeOK
  BY DEF Init, TypeOK, ClaimStates, Answers, ReadStates
<1>2. TypeOK /\ [Next]_vars => TypeOK'
  <2> SUFFICES ASSUME TypeOK, [Next]_vars PROVE TypeOK'
    OBVIOUS
  <2> USE DEF TypeOK, ClaimStates, Answers, ReadStates
  <2>1. ASSUME NEW r \in Requests, Route(r) PROVE TypeOK'
    BY <2>1 DEF Route, readVars
  <2>2. ASSUME NEW r \in Requests, RunScript(r) PROVE TypeOK'
    BY <2>2 DEF RunScript, readVars
  <2>3. ASSUME NEW r \in Requests, Verify(r) PROVE TypeOK'
    BY <2>3 DEF Verify, Recorded, readVars
  <2>4. ASSUME NEW r \in Requests, Upsert(r) PROVE TypeOK'
    BY <2>4 DEF Upsert, Recorded, readVars
  <2>5. ASSUME NEW r \in Requests, Fail(r) PROVE TypeOK'
    BY <2>5 DEF Fail, Recorded, readVars
  <2>6. ASSUME NEW q \in Readers, ReadRedis(q) PROVE TypeOK'
    BY <2>6 DEF ReadRedis, Answer, claimVars
  <2>7. ASSUME NEW q \in Readers, ReadMongo(q) PROVE TypeOK'
    BY <2>7 DEF ReadMongo, claimVars
  <2>8. ASSUME NEW q \in Readers, Backfill(q) PROVE TypeOK'
    BY <2>8 DEF Backfill, Answer, claimVars
  <2>9. ASSUME NEW q \in Readers, ReadHistorical(q) PROVE TypeOK'
    BY <2>9 DEF ReadHistorical, Answer, claimVars
  <2>10. ASSUME Evict PROVE TypeOK'
    BY <2>10 DEF Evict, claimVars, readVars
  <2>11. ASSUME UNCHANGED vars PROVE TypeOK'
    BY <2>11 DEF vars
  <2> QED
    BY <2>1, <2>2, <2>3, <2>4, <2>5, <2>6, <2>7, <2>8, <2>9, <2>10, <2>11
       DEF Next
<1> QED
  BY <1>1, <1>2, PTL DEF Spec

(* Once a claim document is in Mongo no step changes it: the only writer   *)
(* is an upsert that finds none.                                           *)
LEMMA RecordStep ==
    ASSUME TypeOK, [Next]_vars, NEW u \in Users, mongo[u] # NoClaim
    PROVE  mongo'[u] = mongo[u]
<1> USE ClaimConstants DEF TypeOK
<1>1. ASSUME NEW r \in Requests, Upsert(r) PROVE mongo'[u] = mongo[u]
  BY <1>1 DEF Upsert, Recorded
<1>2. ASSUME NEW r \in Requests, Fail(r) PROVE mongo'[u] = mongo[u]
  BY <1>2 DEF Fail, Recorded
<1>3. ASSUME NEW r \in Requests, Route(r) \/ RunScript(r) \/ Verify(r)
      PROVE  mongo'[u] = mongo[u]
  BY <1>3 DEF Route, RunScript, Verify
<1>4. ASSUME NEW q \in Readers,
             ReadRedis(q) \/ ReadMongo(q) \/ Backfill(q) \/ ReadHistorical(q)
      PROVE  mongo'[u] = mongo[u]
  BY <1>4 DEF ReadRedis, ReadMongo, Backfill, ReadHistorical
<1>5. ASSUME Evict \/ UNCHANGED vars PROVE mongo'[u] = mongo[u]
  BY <1>5 DEF Evict, vars
<1> QED
  BY <1>1, <1>2, <1>3, <1>4, <1>5 DEF Next

(* A step grants a request only by writing it into Mongo.                  *)
LEMMA GrantStep ==
    ASSUME TypeOK, [Next]_vars, NEW r \in Requests,
           claim[r] # "granted", claim'[r] = "granted"
    PROVE  mongo'[UserOf[r]] = r
<1> USE ClaimConstants DEF TypeOK
<1>1. ASSUME NEW s \in Requests, Upsert(s) PROVE mongo'[UserOf[r]] = r
  BY <1>1 DEF Upsert, Recorded
<1>2. ASSUME NEW s \in Requests, Route(s) \/ RunScript(s) \/ Verify(s) \/ Fail(s)
      PROVE  claim'[r] # "granted"
  BY <1>2 DEF Route, RunScript, Verify, Fail
<1>3. ASSUME NEW q \in Readers,
             ReadRedis(q) \/ ReadMongo(q) \/ Backfill(q) \/ ReadHistorical(q)
      PROVE  claim'[r] # "granted"
  BY <1>3 DEF ReadRedis, ReadMongo, Backfill, ReadHistorical, claimVars
<1>4. ASSUME Evict \/ UNCHANGED vars PROVE claim'[r] # "granted"
  BY <1>4 DEF Evict, claimVars, vars
<1> QED
  BY <1>1, <1>2, <1>3, <1>4 DEF Next

(* The inductive invariant of the claim protocol.                          *)
THEOREM InductiveInvariant == Spec => []IInv
<1>1. Init => GrantIsRecorded
  BY ClaimConstants DEF Init, GrantIsRecorded
<1>2. IInv /\ TypeOK' /\ [Next]_vars => GrantIsRecorded'
  <2> SUFFICES ASSUME IInv, TypeOK', [Next]_vars,
                      NEW r \in Requests, claim'[r] = "granted"
               PROVE  mongo'[UserOf[r]] = r
    BY DEF GrantIsRecorded
  <2>1. CASE claim[r] = "granted"
    <3>1. /\ mongo[UserOf[r]] = r
          /\ UserOf[r] \in Users
          /\ mongo[UserOf[r]] # NoClaim
      BY <2>1, ClaimConstants DEF IInv, GrantIsRecorded
    <3> QED
      BY <3>1, RecordStep DEF IInv
  <2>2. CASE claim[r] # "granted"
    BY <2>2, GrantStep DEF IInv
  <2> QED
    BY <2>1, <2>2
<1> QED
  BY <1>1, <1>2, TypeCorrect, PTL DEF Spec, IInv

(* The grant a caller received is the claim on record in Mongo.            *)
THEOREM GrantsAreRecorded == Spec => []GrantIsRecorded
BY InductiveInvariant, PTL DEF IInv

(* No user's reward is granted twice, however many requests race on        *)
(* however many nodes and whatever Redis forgets.                          *)
THEOREM RewardGrantedAtMostOnce == Spec => []AtMostOneGrant
<1>1. IInv => AtMostOneGrant
  BY ClaimConstants DEF IInv, GrantIsRecorded, AtMostOneGrant
<1> QED
  BY <1>1, InductiveInvariant, PTL

(* A claim document never changes once written.                            *)
THEOREM RecordsAreFinal == Spec => ClaimNeverRewritten
<1>1. TypeOK /\ [Next]_vars
      => [\A u \in Users : mongo[u] # NoClaim => mongo'[u] = mongo[u]]_vars
  BY RecordStep
<1> QED
  BY <1>1, TypeCorrect, PTL DEF Spec, ClaimNeverRewritten

(* A step of a claim request is a step of ClaimOnce or leaves the abstract *)
(* state alone.                                                            *)
LEMMA ClaimStepRefines ==
    ASSUME TypeOK, NEW r \in Requests,
           Route(r) \/ RunScript(r) \/ Verify(r) \/ Upsert(r) \/ Fail(r)
    PROVE  [Abstract!Next]_(Abstract!vars)
<1> USE ClaimConstants DEF TypeOK, Answers, ClaimStates, AbstractAnswer
<1> USE DEF Abstract!Next, Abstract!vars,
            Abstract!Grant, Abstract!Refuse, Abstract!Fail, Recorded
<1>1. CASE Route(r)
  BY <1>1 DEF Route
<1>2. CASE RunScript(r)
  <2>1. CASE Unclaimed(redis[UserOf[r]])
    BY <1>2, <2>1 DEF RunScript
  <2>2. CASE ~Unclaimed(redis[UserOf[r]])
    <3>1. Abstract!Refuse(r)
      BY <1>2, <2>2 DEF RunScript
    <3> QED
      BY <3>1
  <2> QED
    BY <2>1, <2>2
<1>3. CASE Verify(r)
  <2>1. CASE Recorded(UserOf[r])
    <3>1. Abstract!Refuse(r)
      BY <1>3, <2>1 DEF Verify
    <3> QED
      BY <3>1
  <2>2. CASE ~Recorded(UserOf[r])
    BY <1>3, <2>2 DEF Verify
  <2> QED
    BY <2>1, <2>2
<1>4. CASE Upsert(r)
  <2>1. CASE ~Recorded(UserOf[r])
    <3>1. Abstract!Grant(r)
      BY <1>4, <2>1 DEF Upsert, Recorded
    <3> QED
      BY <3>1
  <2>2. CASE Recorded(UserOf[r])
    <3>1. Abstract!Refuse(r)
      BY <1>4, <2>2 DEF Upsert, Recorded
    <3> QED
      BY <3>1
  <2> QED
    BY <2>1, <2>2
<1>5. CASE Fail(r)
  <2>1. Abstract!Fail(r)
    BY <1>5 DEF Fail, Recorded
  <2> QED
    BY <2>1
<1> QED
  BY <1>1, <1>2, <1>3, <1>4, <1>5

(* Redis, Mongo, the two paths and the status requests implement the       *)
(* promise of ClaimOnce.                                                   *)
THEOREM Refinement == Spec => ImplementsClaimOnce
<1>1. Init => Abstract!Init
  BY DEF Init, Abstract!Init, AbstractAnswer, Answers
<1>2. TypeOK /\ [Next]_vars => [Abstract!Next]_(Abstract!vars)
  <2> SUFFICES ASSUME TypeOK, [Next]_vars
               PROVE  [Abstract!Next]_(Abstract!vars)
    OBVIOUS
  <2>1. ASSUME NEW q \in Readers,
               ReadRedis(q) \/ ReadMongo(q) \/ Backfill(q) \/ ReadHistorical(q)
        PROVE  UNCHANGED (Abstract!vars)
    BY <2>1 DEF ReadRedis, ReadMongo, Backfill, ReadHistorical, claimVars,
                AbstractAnswer, Abstract!vars
  <2>2. ASSUME Evict \/ UNCHANGED vars PROVE UNCHANGED (Abstract!vars)
    BY <2>2 DEF Evict, claimVars, vars, AbstractAnswer, Abstract!vars
  <2> QED
    BY <2>1, <2>2, ClaimStepRefines DEF Next
<1> QED
  BY <1>1, <1>2, TypeCorrect, PTL DEF Spec, ImplementsClaimOnce, Abstract!Spec

-----------------------------------------------------------------------------
(* Refusals.  Whatever names a request in Redis, in Mongo or in the hands  *)
(* of a status request was put there by that request on behalf of its own  *)
(* user: a document by an upsert that was then granted or lost its answer, *)
(* a field of rank:claims by a script whose request has not been refused.  *)
Cause == {"verify", "upsert", "granted", "failed"}

Traced(r, u) == UserOf[r] = u /\ claim[r] \in {"granted", "failed"}

DocumentsTraced == \A u \in Users : mongo[u] \in Requests => Traced(mongo[u], u)

ReadsTraced ==
    \A q \in Readers : seen[q] \in Requests => Traced(seen[q], ReaderUser[q])

FieldsTraced ==
    \A u \in Users : redis[u] \in Requests =>
        /\ UserOf[redis[u]] = u
        /\ claim[redis[u]] \in Cause
        /\ claim[redis[u]] = "upsert" => path[redis[u]] = "current"

ScriptsAreCurrent ==
    \A r \in Requests : claim[r] \in {"script", "verify"} => path[r] = "current"

TraceInv ==
    /\ TypeOK
    /\ DocumentsTraced
    /\ ReadsTraced
    /\ FieldsTraced
    /\ ScriptsAreCurrent
    /\ RefusalHasCause

(* A request that is refused has a cause other than itself, and one that   *)
(* was the cause of a refusal and is refused in turn leaves the document   *)
(* it lost to as the cause.                                                *)
LEMMA TraceStep == TraceInv /\ TypeOK' /\ [Next]_vars => TraceInv'
<1> SUFFICES ASSUME TraceInv, TypeOK', [Next]_vars PROVE TraceInv'
  OBVIOUS
<1> USE ClaimConstants DEF TraceInv
<1> USE DEF TypeOK, ClaimStates, Answers, Cause, Traced
<1>1. ASSUME NEW r \in Requests, Route(r) PROVE TraceInv'
  <2>1. DocumentsTraced' /\ ReadsTraced' /\ ScriptsAreCurrent'
    BY <1>1 DEF Route, readVars, DocumentsTraced, ReadsTraced, ScriptsAreCurrent
  <2>2. FieldsTraced'
    BY <1>1 DEF Route, FieldsTraced
  <2>3. RefusalHasCause'
    BY <1>1 DEF Route, RefusalHasCause
  <2> QED
    BY <2>1, <2>2, <2>3
<1>2. ASSUME NEW r \in Requests, RunScript(r) PROVE TraceInv'
  <2>1. DocumentsTraced' /\ ReadsTraced' /\ ScriptsAreCurrent'
    BY <1>2 DEF RunScript, readVars, DocumentsTraced, ReadsTraced,
                ScriptsAreCurrent
  <2>2. FieldsTraced'
    BY <1>2 DEF RunScript, FieldsTraced
  <2>3. RefusalHasCause'
    <3>1. CASE Unclaimed(redis[UserOf[r]])
      BY <1>2, <3>1 DEF RunScript, RefusalHasCause
    <3>2. CASE ~Unclaimed(redis[UserOf[r]])
      <4> DEFINE s == redis[UserOf[r]]
      <4>1. s \in Requests \ {r}
        BY <1>2, <3>2 DEF RunScript, Unclaimed, FieldsTraced
      <4>2. UserOf[s] = UserOf[r] /\ claim'[s] \in Cause
        BY <1>2, <3>2, <4>1 DEF RunScript, FieldsTraced
      <4> QED
        BY <1>2, <3>2, <4>1, <4>2 DEF RunScript, RefusalHasCause
    <3> QED
      BY <3>1, <3>2
  <2> QED
    BY <2>1, <2>2, <2>3
<1>3. ASSUME NEW r \in Requests, Verify(r) \/ Upsert(r) PROVE TraceInv'
  <2>1. /\ claim[r] \in {"verify", "upsert"}
        /\ seen' = seen
        /\ path' = path
    BY <1>3 DEF Verify, Upsert, readVars
  <2>2. CASE Recorded(UserOf[r])
    <3> DEFINE t == mongo[UserOf[r]]
    <3>1. /\ t \in Requests \ {r}
          /\ UserOf[t] = UserOf[r]
          /\ claim[t] \in {"granted", "failed"}
      BY <2>1, <2>2 DEF Recorded, DocumentsTraced
    <3>2. /\ mongo' = mongo
          /\ claim' = [claim EXCEPT ![r] = "refused"]
          /\ redis' # redis => redis' = [redis EXCEPT ![UserOf[r]] = t]
          /\ path[r] = "current" => redis' = [redis EXCEPT ![UserOf[r]] = t]
      BY <1>3, <2>1, <2>2 DEF Verify, Upsert, ScriptsAreCurrent
    <3>3. DocumentsTraced' /\ ReadsTraced' /\ ScriptsAreCurrent'
      BY <2>1, <3>2 DEF DocumentsTraced, ReadsTraced, ScriptsAreCurrent
    <3>4. FieldsTraced'
      <4> SUFFICES ASSUME NEW u \in Users, redis'[u] \in Requests
                   PROVE  /\ UserOf[redis'[u]] = u
                          /\ claim'[redis'[u]] \in Cause
                          /\ claim'[redis'[u]] = "upsert"
                             => path'[redis'[u]] = "current"
        BY DEF FieldsTraced
      <4>1. CASE redis'[u] = t /\ u = UserOf[r]
        BY <3>1, <3>2, <4>1
      <4>2. CASE redis'[u] = redis[u] /\ redis[u] # r
        BY <2>1, <3>2, <4>2 DEF FieldsTraced
      <4>3. CASE redis'[u] = redis[u] /\ redis[u] = r
        BY <2>1, <3>1, <3>2, <4>3 DEF FieldsTraced, ScriptsAreCurrent
      <4> QED
        BY <3>2, <4>1, <4>2, <4>3
    <3>5. RefusalHasCause'
      <4> SUFFICES ASSUME NEW p \in Requests, claim'[p] = "refused"
                   PROVE  \E s \in Requests \ {p} :
                             UserOf[s] = UserOf[p] /\ claim'[s] \in Cause
        BY DEF RefusalHasCause
      <4>1. CASE UserOf[p] = UserOf[r]
        BY <3>1, <3>2, <4>1
      <4>2. CASE UserOf[p] # UserOf[r]
        <5>1. PICK s \in Requests \ {p} :
                 UserOf[s] = UserOf[p] /\ claim[s] \in Cause
          BY <3>2, <4>2 DEF RefusalHasCause
        <5> QED
          BY <3>2, <4>2, <5>1
      <4> QED
        BY <4>1, <4>2
    <3> QED
      BY <3>3, <3>4, <3>5
  <2>3. CASE ~Recorded(UserOf[r])
    <3>1. /\ redis' = redis
          /\ \/ /\ mongo' = mongo
                /\ claim[r] = "verify"
                /\ claim' = [claim EXCEPT ![r] = "upsert"]
             \/ /\ mongo' = [mongo EXCEPT ![UserOf[r]] = r]
                /\ claim[r] = "upsert"
                /\ claim' = [claim EXCEPT ![r] = "granted"]
      BY <1>3, <2>3 DEF Verify, Upsert
    <3>2. DocumentsTraced' /\ ReadsTraced' /\ ScriptsAreCurrent'
      BY <2>1, <3>1 DEF DocumentsTraced, ReadsTraced, ScriptsAreCurrent
    <3>3. FieldsTraced'
      BY <2>1, <3>1 DEF FieldsTraced, ScriptsAreCurrent
    <3>4. RefusalHasCause'
      BY <2>1, <3>1 DEF RefusalHasCause
    <3> QED
      BY <3>2, <3>3, <3>4
  <2> QED
    BY <2>2, <2>3
<1>4. ASSUME NEW r \in Requests, Fail(r) PROVE TraceInv'
  <2>1. /\ claim[r] \in {"script", "verify", "upsert"}
        /\ claim' = [claim EXCEPT ![r] = "failed"]
        /\ redis' = redis /\ path' = path /\ seen' = seen
        /\ mongo' = mongo \/ mongo' = [mongo EXCEPT ![UserOf[r]] = r]
    BY <1>4 DEF Fail, readVars
  <2>2. DocumentsTraced' /\ ReadsTraced' /\ ScriptsAreCurrent'
    BY <2>1 DEF DocumentsTraced, ReadsTraced, ScriptsAreCurrent
  <2>3. FieldsTraced' /\ RefusalHasCause'
    BY <2>1 DEF FieldsTraced, RefusalHasCause
  <2> QED
    BY <2>2, <2>3
<1>5. ASSUME NEW q \in Readers, ReadRedis(q) \/ ReadHistorical(q)
      PROVE  TraceInv'
  BY <1>5 DEF ReadRedis, ReadHistorical, claimVars, DocumentsTraced,
              ReadsTraced, FieldsTraced, ScriptsAreCurrent, RefusalHasCause
<1>6. ASSUME NEW q \in Readers, ReadMongo(q) PROVE TraceInv'
  BY <1>6 DEF ReadMongo, claimVars, DocumentsTraced, ReadsTraced,
              FieldsTraced, ScriptsAreCurrent, RefusalHasCause
<1>7. ASSUME NEW q \in Readers, Backfill(q) PROVE TraceInv'
  BY <1>7 DEF Backfill, claimVars, DocumentsTraced, ReadsTraced,
              FieldsTraced, ScriptsAreCurrent, RefusalHasCause
<1>8. ASSUME Evict PROVE TraceInv'
  BY <1>8 DEF Evict, claimVars, readVars, DocumentsTraced, ReadsTraced,
              FieldsTraced, ScriptsAreCurrent, RefusalHasCause
<1>9. ASSUME UNCHANGED vars PROVE TraceInv'
  BY <1>9 DEF vars, DocumentsTraced, ReadsTraced, FieldsTraced,
              ScriptsAreCurrent, RefusalHasCause
<1> QED
  BY <1>1, <1>2, <1>3, <1>4, <1>5, <1>6, <1>7, <1>8, <1>9 DEF Next

(* Nobody is told "already claimed" on account of an eviction, a sentinel  *)
(* or his own request.                                                     *)
THEOREM RefusalsHaveCauses == Spec => []RefusalHasCause
<1>1. Init => TraceInv
  BY ClaimConstants DEF Init, TraceInv, TypeOK, ClaimStates, Answers,
     ReadStates, DocumentsTraced, ReadsTraced, FieldsTraced,
     ScriptsAreCurrent, RefusalHasCause
<1>2. TraceInv => RefusalHasCause
  BY DEF TraceInv
<1> QED
  BY <1>1, <1>2, TraceStep, TypeCorrect, PTL DEF Spec
=============================================================================
