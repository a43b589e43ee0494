-------------------------- MODULE KeyLifetimeProofs --------------------------
(***************************************************************************)
(* Proofs about KeyLifetime, for any number of nodes, any ends that the GM *)
(* may set, any retention, cycle and grace, and any number of crashes.     *)
(***************************************************************************)
EXTENDS KeyLifetime, TLAPS

Times == Nat \cup {Absent, Permanent}
KeyMap == [Keys -> Times]

(* A write leaves the keys it does not touch, gives the others one of some *)
(* times or none at all, and takes no key away.                            *)
Gives(new, old, times) ==
    /\ new \in KeyMap
    /\ \A k \in Keys : new[k] = old[k] \/ new[k] = Permanent \/ new[k] \in times

(* The numbers among the constants.                                        *)
LEMMA Numbers ==
    /\ Retention \in Nat /\ Retention > 0 /\ Cycle \in Nat /\ Cycle < Retention
    /\ Grace \in Nat /\ Grace < Retention /\ Horizon \in Nat
    /\ MaxCrashes \in Nat /\ MaxMoves \in Nat
BY KeyConstants
(* The marker None is no end of a round.                                   *)
LEMMA EndNumbers == \A e \in Ends : e \in Nat /\ e # None
BY KeyConstants, MarkersAreNoTimes
(* The clock and the saved end are numbers.                                *)
LEMMA NowNumber == TypeOK => now \in Nat /\ saved \in Ends /\ saved \in Nat
BY Numbers, EndNumbers DEF TypeOK

(* HSET, HSET and EXPIRE, and EXPIRE of some keys are such writes.         *)
LEMMA TouchedGives ==
    ASSUME NEW old \in KeyMap, NEW k \in Keys, NEW times \in SUBSET Nat
    PROVE  Gives(Touched(old, k), old, times) /\ Touched(old, k)[k] # Absent
<1>1. CASE old[k] = Absent
  <2>1. Touched(old, k) = [old EXCEPT ![k] = Permanent]
    BY <1>1 DEF Touched
  <2> QED
    BY <2>1, MarkersAreNoTimes DEF Gives, KeyMap, Times
<1>2. CASE old[k] # Absent
  BY <1>2 DEF Touched, Gives
<1> QED
  BY <1>1, <1>2

(* EXPIRE of an existing key gives it the time, and no other key.          *)
LEMMA ExpireGives ==
    ASSUME NEW old \in KeyMap, NEW k \in Keys, NEW times \in SUBSET Nat, NEW t \in times
    PROVE  Gives(Expire(old, k, t), old, times)
<1>1. t \in Times
  BY DEF Times
<1>2. CASE old[k] = Absent
  BY <1>2 DEF Expire, Gives
<1>3. CASE old[k] # Absent
  <2>1. Expire(old, k, t) = [old EXCEPT ![k] = t]
    BY <1>3 DEF Expire
  <2> QED
    BY <1>1, <2>1 DEF Gives, KeyMap
<1> QED
  BY <1>2, <1>3

(* Two such writes after one another are one.                              *)
LEMMA GivesTwice ==
    ASSUME NEW a, NEW b, NEW c, NEW times, Gives(b, a, times), Gives(c, b, times)
    PROVE  Gives(c, a, times)
BY DEF Gives

(* A write that sets the time to live where it wrote, HSET and EXPIRE.     *)
LEMMA WrittenGives ==
    ASSUME NEW old \in KeyMap, NEW k \in Keys, NEW times \in SUBSET Nat, NEW t \in times
    PROVE  Gives(Written(old, k, t), old, times)
<1> DEFINE mid == Touched(old, k)
<1>1. Gives(mid, old, times) /\ mid \in KeyMap
  BY TouchedGives DEF Gives
<1> HIDE DEF mid
<1>2. Gives(Expire(mid, k, t), mid, times)
  BY <1>1, ExpireGives
<1>3. Gives(Expire(mid, k, t), old, times)
  BY <1>1, <1>2, GivesTwice
<1> QED
  BY <1>3 DEF mid, Written

(* EXPIRE of a set of keys.                                                *)
LEMMA ExpireAllGives ==
    ASSUME NEW old \in KeyMap, NEW ks, NEW times \in SUBSET Nat, NEW t \in times
    PROVE  Gives(ExpireAll(old, ks, t), old, times)
<1>1. t \in Times
  BY DEF Times
<1>2. ExpireAll(old, ks, t) = [k \in Keys |-> IF k \in ks /\ old[k] # Absent THEN t ELSE old[k]]
  BY DEF ExpireAll
<1> QED
  BY <1>1, <1>2 DEF Gives, KeyMap

-----------------------------------------------------------------------------
(* Type correctness *)

(* The nodes keep their types when one of them goes down.                  *)
NodeTypes ==
    /\ up \subseteq Nodes
    /\ end \in [Nodes -> Ends \cup {None}]
    /\ done \subseteq Nodes
    /\ timer \in [Nodes -> Nat \cup {None}]
(* A stop or crash of a node keeps the types of its fields and is counted. *)
LEMMA DownTypes ==
    ASSUME TypeOK, NEW n \in Nodes, Down(n)
    PROVE  NodeTypes' /\ crashes' \in 0..MaxCrashes
<1>1. crashes' \in 0..MaxCrashes
  BY Numbers DEF TypeOK, Down
<1>2. up' \subseteq Nodes /\ done' \subseteq Nodes
  BY DEF TypeOK, Down
<1>3. end' \in [Nodes -> Ends \cup {None}] /\ timer' \in [Nodes -> Nat \cup {None}]
  BY DEF TypeOK, Down
<1> QED
  BY <1>1, <1>2, <1>3 DEF NodeTypes

(* All types but that of the keys.                                         *)
OtherTypes ==
    /\ NodeTypes
    /\ now \in 0..Horizon
    /\ kind \in Kinds
    /\ saved \in Ends
    /\ settledAt \in 0..Horizon \cup {None}
    /\ advanced \in BOOLEAN
    /\ tool \in 0..Horizon \cup {None}
    /\ moves \in 0..MaxMoves /\ crashes \in 0..MaxCrashes
(* Every step keeps the type of everything that is not a key.              *)
LEMMA OtherTypesStep == TypeOK /\ [Next]_vars => OtherTypes'
<1> SUFFICES ASSUME TypeOK, [Next]_vars PROVE OtherTypes'
  OBVIOUS
<1>t. /\ OtherTypes /\ NodeTypes /\ key \in KeyMap /\ now \in Nat
  BY DEF TypeOK, OtherTypes, NodeTypes, KeyMap, Times
<1>w. ASSUME NEW n \in Nodes, UNCHANGED <<nodeVars, crashes>> \/ Down(n)
      PROVE  NodeTypes' /\ crashes' \in 0..MaxCrashes
  BY <1>t, <1>w, DownTypes DEF OtherTypes, NodeTypes, nodeVars
<1>1. ASSUME NEW n \in Nodes, Start(n) PROVE OtherTypes'
  <2>1. up' \subseteq Nodes
    BY <1>1, <1>t DEF Start, NodeTypes
  <2>2. end' \in [Nodes -> Ends \cup {None}]
    BY <1>1, <1>t DEF Start, NodeTypes, OtherTypes
  <2> QED
    BY <1>1, <2>1, <2>2, <1>t DEF Start, NodeTypes, OtherTypes
<1>2. ASSUME NEW n \in Nodes, Follow(n) PROVE OtherTypes'
  BY <1>2, <1>t DEF Follow, NodeTypes, OtherTypes
<1>3. ASSUME NEW n \in Nodes, Crash(n) PROVE OtherTypes'
  BY <1>3, <1>t, DownTypes DEF Crash, OtherTypes
<1>4. ASSUME NEW n \in Nodes, UpdateConfig(n) PROVE OtherTypes'
  <2>1. moves' \in 0..MaxMoves
    BY <1>4, <1>t, Numbers DEF UpdateConfig, OtherTypes
  <2>2. PICK e \in Ends : saved' = e /\ end' = [end EXCEPT ![n] = e]
    BY <1>4 DEF UpdateConfig
  <2>3. end' \in [Nodes -> Ends \cup {None}]
    BY <2>2, <1>t DEF NodeTypes
  <2> QED
    BY <1>4, <2>1, <2>2, <2>3, <1>t DEF UpdateConfig, NodeTypes, OtherTypes
<1>5. ASSUME NEW n \in Nodes, Play(n) \/ Claim(n) \/ ReadMembers(n) PROVE OtherTypes'
  <2>1. UNCHANGED <<now, tool, kind, saved, settledAt, advanced, moves>>
    BY <1>5 DEF Play, Claim, ReadMembers
  <2>2. UNCHANGED <<nodeVars, crashes>> \/ Down(n)
    BY <1>5 DEF Play, Claim, ReadMembers, Write
  <2> QED
    BY <2>1, <2>2, <1>w, <1>t DEF OtherTypes
<1>6. ASSUME NEW n \in Nodes, ReadSettled(n) PROVE OtherTypes'
  BY <1>6, <1>t DEF ReadSettled, NodeTypes, OtherTypes, nodeVars
<1>7. ASSUME NEW n \in Nodes, Settle(n) PROVE OtherTypes'
  <2>1. settledAt' \in 0..Horizon \cup {None}
    BY <1>7, <1>t DEF Settle, OtherTypes
  <2>2. UNCHANGED <<now, tool, kind, saved, moves>>
    BY <1>7 DEF Settle
  <2>3. CASE Down(n) /\ UNCHANGED advanced
    BY <2>1, <2>2, <2>3, <1>t, DownTypes DEF OtherTypes
  <2>4. CASE /\ IF kind = "once"
                THEN done' = done \cup {n} /\ UNCHANGED <<end, timer, advanced>>
                ELSE /\ timer' = [timer EXCEPT ![n] = now + Cycle]
                     /\ end' = [end EXCEPT ![n] = None]
                     /\ advanced' = TRUE
                     /\ UNCHANGED done
             /\ UNCHANGED <<up, crashes>>
    <3>1. now + Cycle \in Nat
      BY <1>t, Numbers
    <3>2. timer' \in [Nodes -> Nat \cup {None}] /\ end' \in [Nodes -> Ends \cup {None}]
          /\ done' \subseteq Nodes /\ advanced' \in BOOLEAN
      BY <2>4, <3>1, <1>t DEF NodeTypes, OtherTypes
    <3> QED
      BY <2>1, <2>2, <2>4, <3>2, <1>t DEF NodeTypes, OtherTypes
  <2> QED
    BY <1>7, <2>3, <2>4 DEF Settle
<1>8. ASSUME NEW n \in Nodes, CleanupLiveData(n) PROVE OtherTypes'
  BY <1>8, <1>t DEF CleanupLiveData, NodeTypes, OtherTypes
<1>9. ASSUME (\E k \in Keys : Redis(k)) \/ RankTTL PROVE OtherTypes'
  BY <1>9, <1>t DEF Redis, RankTTL, NodeTypes, OtherTypes, nodeVars
<1>10. ASSUME Clock PROVE OtherTypes'
  <2>1. now' \in 0..Horizon
    BY <1>10, <1>t, Numbers DEF Clock, OtherTypes
  <2> QED
    BY <1>10, <2>1, <1>t DEF Clock, NodeTypes, OtherTypes, nodeVars
<1>11. ASSUME TimeIsUp \/ UNCHANGED vars PROVE OtherTypes'
  BY <1>11, <1>t DEF TimeIsUp, vars, NodeTypes, OtherTypes
<1> QED
  BY <1>1, <1>2, <1>3, <1>4, <1>5, <1>6, <1>7, <1>8, <1>9, <1>10, <1>11 DEF Next

-----------------------------------------------------------------------------
(* The invariant *)

Settled == settledAt # None
AfterEnd == \E e \in Ends : e <= now

(* A node that is down knows nothing, the present is not before the past,  *)
(* nothing is settled before an end, nor later than the end that is saved, *)
(* and a node without the Service has come too late for it.                *)
PastInv ==
    /\ \A n \in Nodes \ up : end[n] = None /\ n \notin done
    /\ tool # None => tool <= now
    /\ Settled => settledAt <= now /\ settledAt <= saved /\ AfterEnd
    /\ advanced => Settled
    /\ \A n \in Nodes : timer[n] # None => Settled
    /\ \A n \in up : end[n] = None => AfterEnd

(* No node has settled all of the leaderboard, and one is going to: all    *)
(* have the Service, with an end that is not past, and one, if none is     *)
(* down, the end that is saved.                                            *)
Unfinished ==
    /\ done = {} /\ ~advanced
    /\ now <= saved
    /\ \A n \in up : end[n] # None /\ end[n] >= now
    /\ up = Nodes => \E n \in Nodes : end[n] = saved

(* A key lives at least that long, unless it owes its time to the tool, of *)
(* an activity that was open.                                              *)
ByTool(k) == tool # None /\ tool < saved /\ key[k] = tool + Retention
Kept(k, until) == key[k] \in Nat => ByTool(k) \/ key[k] >= until

(* It lives for the retention after some end, whoever gave it its time, ...*)
OpenInv == \A k \in Keys : \E e \in Ends : Kept(k, e + Retention)

(* ... and after the settlement, once a node has settled all of it.        *)
SettledInv == \/ Unfinished
              \/ Settled /\ \A k \in Keys : Kept(k, settledAt + Retention)

(* Times that a key may be given: not past, the retention after an end,    *)
(* and the retention from now or, before the next round, after the end     *)
(* that is saved.                                                          *)
GoodTimes == {t \in Nat : /\ t >= now
                          /\ \E e \in Ends : t >= e + Retention
                          /\ t >= now + Retention \/ (~advanced /\ t >= saved + Retention)}

(* What the TTL functions compute is such a time.                          *)
LEMMA TimesAreGood ==
    ASSUME TypeOK
    PROVE  /\ ~advanced => WriteUntil(saved) \in GoodTimes
           /\ \A e \in Ends : now <= e => WriteUntil(e) \in GoodTimes
           /\ \A e \in Ends : BackfillUntil(e) \in GoodTimes
           /\ AfterEnd => /\ BackfillUntil(None) \in GoodTimes
                          /\ CleanupUntil \in GoodTimes
                          /\ now + Retention \in GoodTimes
<1>1. /\ now \in Nat /\ saved \in Ends /\ saved \in Nat /\ Retention \in Nat
      /\ \A e \in Ends : e \in Nat /\ e # None
  BY Numbers, EndNumbers, NowNumber
<1>2. ASSUME ~advanced PROVE WriteUntil(saved) \in GoodTimes
  <2>1. WriteUntil(saved) \in Nat /\ WriteUntil(saved) >= now
        /\ WriteUntil(saved) >= saved + Retention
    BY <1>1 DEF WriteUntil, Greater
  <2> QED
    BY <1>1, <1>2, <2>1 DEF GoodTimes
<1>3. ASSUME NEW e \in Ends, now <= e PROVE WriteUntil(e) \in GoodTimes
  <2>1. WriteUntil(e) \in Nat /\ WriteUntil(e) >= now
        /\ WriteUntil(e) >= e + Retention /\ WriteUntil(e) >= now + Retention
    BY <1>1, <1>3 DEF WriteUntil, Greater
  <2> QED
    BY <1>1, <2>1 DEF GoodTimes
<1>4. ASSUME NEW e \in Ends PROVE BackfillUntil(e) \in GoodTimes
  <2>1. BackfillUntil(e) \in Nat /\ BackfillUntil(e) >= now
        /\ BackfillUntil(e) >= e + Retention /\ BackfillUntil(e) >= now + Retention
    BY <1>1 DEF BackfillUntil, WriteUntil, Greater
  <2> QED
    BY <1>1, <2>1 DEF GoodTimes
<1>5. ASSUME AfterEnd PROVE now + Retention \in GoodTimes
  <2>1. PICK e \in Ends : e <= now
    BY <1>5 DEF AfterEnd
  <2>2. now + Retention \in Nat /\ now + Retention >= now /\ now + Retention >= e + Retention
    BY <1>1, <2>1
  <2> QED
    BY <1>1, <2>2 DEF GoodTimes
<1>6. BackfillUntil(None) = now + Retention /\ CleanupUntil = now + Retention
  BY DEF BackfillUntil, CleanupUntil
<1> QED
  BY <1>2, <1>3, <1>4, <1>5, <1>6

(* A write of a node gives keys good times.                                *)
LEMMA WriteGives ==
    ASSUME TypeOK, NEW n \in Nodes, NEW k \in Keys, NEW t \in GoodTimes, Write(n, k, t)
    PROVE  Gives(key', key, GoodTimes)
<1>1. key \in KeyMap /\ GoodTimes \in SUBSET Nat
  BY DEF TypeOK, KeyMap, Times, GoodTimes
<1>2. Gives(Written(key, k, t), key, GoodTimes) /\ Gives(Touched(key, k), key, GoodTimes)
  BY <1>1, WrittenGives, TouchedGives
<1> QED
  BY <1>2 DEF Write

(* What the first settlement of the leaderboard writes.                    *)
LEMMA FirstSettledGives ==
    ASSUME TypeOK, PastInv, SettledInv, NEW n \in Nodes, end[n] # None, now >= end[n]
    PROVE  Gives(FirstSettled(n), key, GoodTimes) /\ end[n] \in Ends /\ AfterEnd
<1>1. key \in KeyMap /\ GoodTimes \in SUBSET Nat /\ "live" \in Keys /\ "settled" \in Keys
  BY DEF TypeOK, KeyMap, Times, GoodTimes, Keys
<1>2. end[n] \in Ends /\ AfterEnd
  BY DEF TypeOK, AfterEnd
<1>3. CASE settledAt # None
  BY <1>1, <1>2, <1>3 DEF FirstSettled, Gives
<1>4. CASE settledAt = None
  <2>1. Unfinished
    BY <1>4 DEF SettledInv, Settled
  <2>2. n \in up
    BY DEF PastInv
  <2>3. now <= end[n]
    BY <1>2, <2>1, <2>2, EndNumbers, NowNumber DEF Unfinished
  <2>4. WriteUntil(end[n]) \in GoodTimes /\ now + Retention \in GoodTimes
    BY <1>2, <2>3, TimesAreGood
  <2> DEFINE mid == Written(key, "live", WriteUntil(end[n]))
  <2>5. Gives(mid, key, GoodTimes) /\ mid \in KeyMap
    BY <1>1, <2>4, WrittenGives DEF Gives
  <2>6. FirstSettled(n) = [mid EXCEPT !["settled"] = now + Retention]
    BY <1>4 DEF FirstSettled
  <2> HIDE DEF mid
  <2>7. now + Retention \in Times
    BY <1>1, <2>4 DEF Times
  <2>8. Gives(FirstSettled(n), mid, GoodTimes)
    BY <1>1, <2>4, <2>5, <2>6, <2>7 DEF Gives, KeyMap
  <2> QED
    BY <1>2, <2>5, <2>8, GivesTwice
<1> QED
  BY <1>3, <1>4

(* Every step gives keys good times, but for Redis, which takes a key away *)
(* whose time has come, and for the tool.                                  *)
LEMMA KeySteps ==
    ASSUME TypeOK, PastInv, SettledInv, [Next]_vars
    PROVE  \/ Gives(key', key, GoodTimes)
           \/ \E k \in Keys : Redis(k)
           \/ RankTTL
<1> DEFINE P == Gives(key', key, GoodTimes)
<1>1. /\ key \in KeyMap /\ GoodTimes \in SUBSET Nat /\ {"live", "claims", "settled"} \subseteq Keys
      /\ saved \in Ends /\ None \notin Ends /\ end \in [Nodes -> Ends \cup {None}]
  BY EndNumbers DEF TypeOK, KeyMap, Times, GoodTimes, Keys
<1>2. Settled => AfterEnd
  BY DEF PastInv
<1>c. AfterEnd => \A ks : Gives(ExpireAll(key, ks, CleanupUntil), key, GoodTimes)
  BY <1>1, TimesAreGood, ExpireAllGives
<1>u. UNCHANGED key => P
  BY <1>1 DEF Gives
<1>3. ASSUME NEW n \in Nodes, Start(n) PROVE P
  <2>1. CASE /\ ~advanced
             /\ key' = Expire(Written(key, "live", WriteUntil(saved)),
                              "settled", BackfillUntil(saved))
    <3> DEFINE mid == Written(key, "live", WriteUntil(saved))
    <3>1. WriteUntil(saved) \in GoodTimes /\ BackfillUntil(saved) \in GoodTimes
      BY <1>1, <2>1, TimesAreGood
    <3>2. Gives(mid, key, GoodTimes) /\ mid \in KeyMap
      BY <1>1, <3>1, WrittenGives DEF Gives
    <3> HIDE DEF mid
    <3>3. Gives(Expire(mid, "settled", BackfillUntil(saved)), mid, GoodTimes)
      BY <1>1, <3>1, <3>2, ExpireGives
    <3> QED
      BY <2>1, <3>2, <3>3, GivesTwice DEF mid
  <2>2. CASE advanced /\ CleanupHistorical
    BY <1>2, <1>c, <2>2 DEF PastInv, CleanupHistorical
  <2>3. CASE UNCHANGED key
    BY <1>u, <2>3
  <2> QED
    BY <1>3, <2>1, <2>2, <2>3 DEF Start
<1>4. ASSUME NEW n \in Nodes, Follow(n) PROVE P
  BY <1>2, <1>4, <1>c DEF Follow, PastInv, CleanupHistorical
<1>5. ASSUME NEW n \in Nodes, Crash(n) \/ UpdateConfig(n) PROVE P
  BY <1>5, <1>u DEF Crash, UpdateConfig
<1>6. ASSUME NEW n \in Nodes, Play(n) PROVE P
  <2>1. end[n] \in Ends /\ now < end[n] /\ Write(n, "live", WriteUntil(end[n]))
    BY <1>1, <1>6 DEF Play
  <2>2. now \in Nat /\ end[n] \in Nat
    BY <2>1, NowNumber, EndNumbers
  <2>3. now <= end[n]
    BY <2>1, <2>2
  <2>4. WriteUntil(end[n]) \in GoodTimes
    BY <2>1, <2>3, TimesAreGood
  <2> QED
    BY <1>1, <2>1, <2>4, WriteGives
<1>7. ASSUME NEW n \in Nodes, Claim(n) PROVE P
  <2>1. n \in up /\ Write(n, "claims", BackfillUntil(end[n]))
    BY <1>7 DEF Claim
  <2>2. BackfillUntil(end[n]) \in GoodTimes
    <3>1. CASE end[n] = None
      BY <2>1, <3>1, TimesAreGood DEF PastInv
    <3>2. CASE end[n] # None
      BY <1>1, <3>2, TimesAreGood
    <3> QED
      BY <3>1, <3>2
  <2> QED
    BY <1>1, <2>1, <2>2, WriteGives
<1>8. ASSUME NEW n \in Nodes, ReadMembers(n) PROVE P
  <2>1. Settled /\ Write(n, "live", BackfillUntil(None))
    BY <1>8 DEF ReadMembers, Settled
  <2> QED
    BY <1>1, <1>2, <2>1, TimesAreGood, WriteGives
<1>9. ASSUME NEW n \in Nodes, ReadSettled(n) PROVE P
  <2>1. Settled /\ key' = [key EXCEPT !["settled"] = BackfillUntil(None)]
    BY <1>9 DEF ReadSettled, Settled
  <2>2. BackfillUntil(None) \in GoodTimes
    BY <1>2, <2>1, TimesAreGood
  <2>3. BackfillUntil(None) \in Times
    BY <1>1, <2>2 DEF Times
  <2> QED
    BY <1>1, <2>1, <2>2, <2>3 DEF Gives, KeyMap
<1>10. ASSUME NEW n \in Nodes, Settle(n) PROVE P
  <2>1. end[n] # None /\ now >= end[n]
    BY <1>10 DEF Settle
  <2>2. Gives(FirstSettled(n), key, GoodTimes) /\ FirstSettled(n) \in KeyMap
        /\ BackfillUntil(end[n]) \in GoodTimes
    BY <2>1, FirstSettledGives, TimesAreGood DEF Gives
  <2>3. \E ks : key' = ExpireAll(FirstSettled(n), ks, BackfillUntil(end[n]))
    BY <1>10 DEF Settle
  <2>4. Gives(key', FirstSettled(n), GoodTimes)
    BY <1>1, <2>2, <2>3, ExpireAllGives
  <2> QED
    BY <2>2, <2>4, GivesTwice
<1>11. ASSUME NEW n \in Nodes, CleanupLiveData(n) PROVE P
  BY <1>2, <1>11, <1>c DEF CleanupLiveData, PastInv
<1>12. ASSUME Clock \/ TimeIsUp \/ UNCHANGED vars PROVE P
  BY <1>12, <1>u DEF Clock, TimeIsUp, vars
<1> HIDE DEF P
<1>13. P \/ (\E k \in Keys : Redis(k)) \/ RankTTL
  BY <1>3, <1>4, <1>5, <1>6, <1>7, <1>8, <1>9, <1>10, <1>11, <1>12 DEF Next
<1> QED
  BY <1>13 DEF P

-----------------------------------------------------------------------------
(* Keys through a step *)

(* What the tool gave stays what the tool gave.                            *)
LEMMA ByToolStays ==
    ASSUME TypeOK, PastInv, [Next]_vars, NEW k \in Keys, ByTool(k), key'[k] = key[k]
    PROVE  ByTool(k)'
<1>1. tool' = tool
  BY DEF ByTool, Next, Start, Follow, Crash, UpdateConfig, Play, Claim, ReadSettled,
     ReadMembers, Settle, CleanupLiveData, Redis, RankTTL, Clock, TimeIsUp, vars
<1>2. saved' = saved \/ (saved' \in Ends /\ saved' > now)
  BY DEF Next, Start, Follow, Crash, UpdateConfig, Play, Claim, ReadSettled,
     ReadMembers, Settle, CleanupLiveData, Redis, RankTTL, Clock, TimeIsUp, vars
<1>3. tool <= now /\ tool \in Nat /\ now \in Nat
  BY NowNumber DEF ByTool, PastInv, TypeOK
<1>4. tool < saved'
  <2>1. CASE saved' = saved
    BY <2>1 DEF ByTool
  <2>2. CASE saved' \in Ends /\ saved' > now
    BY <2>2, <1>3, EndNumbers
  <2> QED
    BY <1>2, <2>1, <2>2
<1> QED
  BY <1>1, <1>4 DEF ByTool

(* A key keeps its time, loses it, or gets another.                        *)
LEMMA KeyOutcome ==
    ASSUME TypeOK, PastInv, SettledInv, [Next]_vars, NEW k \in Keys
    PROVE  /\ key' \in KeyMap
           /\ key'[k] = key[k] \/ key'[k] \notin Nat \/ key'[k] \in GoodTimes \/ ByTool(k)'
           /\ key'[k] \in Nat => key'[k] = key[k] \/ key'[k] >= now
           /\ key[k] # Absent /\ key'[k] = Absent => Due(k)
<1>1. key \in KeyMap /\ \A t \in GoodTimes : t \in Nat /\ t >= now
  BY DEF TypeOK, KeyMap, Times, GoodTimes
<1>2. CASE Gives(key', key, GoodTimes)
  BY <1>1, <1>2, MarkersAreNoTimes DEF Gives
<1>3. ASSUME NEW j \in Keys, Redis(j)
      PROVE  /\ key' \in KeyMap
             /\ key'[k] = key[k] \/ key'[k] \notin Nat
             /\ key[k] # Absent /\ key'[k] = Absent => Due(k)
  BY <1>1, <1>3, MarkersAreNoTimes DEF Redis, KeyMap, Times
<1>4. CASE RankTTL
  <2>1. /\ key' = [j \in Keys |-> IF j \in {i \in Keys : key[i] = Permanent} /\ key[j] # Absent
                                  THEN now + Retention ELSE key[j]]
        /\ tool' = now /\ saved' = saved
    BY <1>4 DEF RankTTL, ExpireAll
  <2>2. now + Retention \in Nat /\ now + Retention >= now /\ now \in Nat /\ saved \in Nat
        /\ saved \in Ends /\ None \notin Nat
    BY Numbers, NowNumber, MarkersAreNoTimes
  <2>3. now + Retention \in Times
    BY <2>2 DEF Times
  <2>4. key' \in KeyMap
    BY <1>1, <2>1, <2>3 DEF KeyMap
  <2>5. key'[k] = key[k] \/ key'[k] = now + Retention
    BY <2>1
  <2>6. key'[k] = now + Retention /\ now < saved => ByTool(k)'
    BY <2>1, <2>2 DEF ByTool
  <2>7. ~(now < saved) => now + Retention \in GoodTimes
    <3>1. ~(now < saved) => AfterEnd
      BY <2>2 DEF AfterEnd
    <3> QED
      BY <3>1, TimesAreGood
  <2>8. key[k] # Absent => key'[k] # Absent
    BY <2>2, <2>5, MarkersAreNoTimes
  <2> QED
    BY <2>2, <2>4, <2>5, <2>6, <2>7, <2>8
<1> QED
  BY <1>2, <1>3, <1>4, KeySteps

(* So a key that lives long enough still does, unless it got a time that   *)
(* is too short.                                                           *)
LEMMA KeptStep ==
    ASSUME TypeOK, PastInv, SettledInv, [Next]_vars, NEW k \in Keys, NEW t \in Nat, Kept(k, t),
           \A g \in GoodTimes : g >= t
    PROVE  Kept(k, t)'
BY KeyOutcome, ByToolStays DEF Kept

(* Every step keeps the expiry of each key at a retention after some end.  *)
LEMMA OpenStep ==
    ASSUME TypeOK, PastInv, SettledInv, OpenInv, [Next]_vars PROVE OpenInv'
<1> SUFFICES ASSUME NEW k \in Keys PROVE \E e \in Ends : Kept(k, e + Retention)'
  BY DEF OpenInv, Kept, ByTool
<1>1. CASE key'[k] = key[k]
  <2>1. PICK e \in Ends : Kept(k, e + Retention)
    BY DEF OpenInv
  <2>2. Kept(k, e + Retention)'
    BY <1>1, <2>1, ByToolStays DEF Kept
  <2> QED
    BY <2>2
<1>2. CASE key'[k] \in GoodTimes
  BY <1>2 DEF GoodTimes, Kept
<1>3. CASE key'[k] \notin Nat \/ ByTool(k)'
  BY <1>3, KeyConstants DEF Kept
<1> QED
  BY <1>1, <1>2, <1>3, KeyOutcome

(* Every step keeps the types, and no key that has expired stays.          *)
LEMMA KeyTypes ==
    ASSUME TypeOK, PastInv, SettledInv, [Next]_vars PROVE TypeOK'
<1>1. OtherTypes'
  BY OtherTypesStep
<1>2. key' \in KeyMap
  <2>1. "live" \in Keys
    BY DEF Keys
  <2> QED
    BY <2>1, KeyOutcome
<1>3. ASSUME NEW k \in Keys, key'[k] \in Nat PROVE key'[k] >= now'
  <2>1. key'[k] = key[k] \/ key'[k] >= now
    BY <1>3, KeyOutcome
  <2>2. key[k] \in Nat => key[k] >= now
    BY DEF TypeOK
  <2>3. key'[k] >= now
    BY <1>3, <2>1, <2>2
  <2>4. CASE Clock
    <3>1. key' = key /\ now' = now + 1 /\ ~Due(k)
      BY <2>4 DEF Clock
    <3>2. key[k] > now
      BY <1>3, <3>1, NowNumber, MarkersAreNoTimes DEF Due
    <3> QED
      BY <1>3, <3>1, <3>2, NowNumber
  <2>5. CASE ~Clock
    <3>1. now' = now
      BY <2>5 DEF Next, Start, Follow, Crash, UpdateConfig, Play, Claim, ReadSettled,
         ReadMembers, Settle, CleanupLiveData, Redis, RankTTL, TimeIsUp, vars
    <3> QED
      BY <2>3, <3>1
  <2> QED
    BY <2>4, <2>5
<1> QED
  BY <1>1, <1>2, <1>3 DEF TypeOK, OtherTypes, NodeTypes, KeyMap, Times

-----------------------------------------------------------------------------
(* The past *)

(* The clock goes on, and an end that is past stays past.                  *)
LEMMA ClockGoesOn ==
    ASSUME TypeOK, [Next]_vars
    PROVE  /\ now \in Nat /\ now' \in Nat /\ now' >= now
           /\ Clock \/ now' = now
           /\ AfterEnd => AfterEnd'
<1>1. now' = now \/ now' = now + 1
  BY DEF Next, Start, Follow, Crash, UpdateConfig, Play, Claim, ReadSettled,
     ReadMembers, Settle, CleanupLiveData, Redis, RankTTL, Clock, TimeIsUp, vars
<1>2. Clock \/ now' = now
  BY DEF Next, Start, Follow, Crash, UpdateConfig, Play, Claim, ReadSettled,
     ReadMembers, Settle, CleanupLiveData, Redis, RankTTL, TimeIsUp, vars
<1>3. now \in Nat /\ now' \in Nat /\ now' >= now
  BY <1>1, NowNumber
<1>4. AfterEnd => \E e \in Ends : e <= now'
  BY <1>3, EndNumbers DEF AfterEnd
<1> QED
  BY <1>2, <1>3, <1>4 DEF AfterEnd

(* Which end is saved, when the leaderboard was settled, and the tool.     *)
LEMMA SettledOnce ==
    ASSUME TypeOK, PastInv, SettledInv, [Next]_vars
    PROVE  /\ saved' = saved \/ (kind = "once" /\ saved' \in Ends /\ saved' > now)
           /\ Settled => settledAt' = settledAt
           /\ ~Settled => \/ ~Settled'
                          \/ /\ settledAt' = now /\ now <= saved /\ AfterEnd
                             /\ saved' = saved
                             /\ \E n \in Nodes : Settle(n)
           /\ tool' = tool \/ tool' = now
           /\ kind' = kind
<1>1. saved' = saved \/ (kind = "once" /\ saved' \in Ends /\ saved' > now)
  BY DEF Next, Start, Follow, Crash, UpdateConfig, Play, Claim, ReadSettled,
     ReadMembers, Settle, CleanupLiveData, Redis, RankTTL, Clock, TimeIsUp, vars
<1>2. /\ tool' = tool \/ tool' = now
      /\ kind' = kind
  BY DEF Next, Start, Follow, Crash, UpdateConfig, Play, Claim, ReadSettled,
     ReadMembers, Settle, CleanupLiveData, Redis, RankTTL, Clock, TimeIsUp, vars
<1>3. settledAt' = settledAt \/ \E n \in Nodes : Settle(n)
  BY DEF Next, Start, Follow, Crash, UpdateConfig, Play, Claim, ReadSettled,
     ReadMembers, CleanupLiveData, Redis, RankTTL, Clock, TimeIsUp, vars
<1>4. ASSUME NEW n \in Nodes, Settle(n)
      PROVE  /\ settledAt' = IF Settled THEN settledAt ELSE now
             /\ saved' = saved
             /\ AfterEnd
             /\ ~Settled => now <= saved
  <2>1. end[n] # None /\ now >= end[n]
        /\ settledAt' = (IF settledAt = None THEN now ELSE settledAt) /\ saved' = saved
    BY <1>4 DEF Settle
  <2>2. AfterEnd
    BY <2>1, FirstSettledGives
  <2>3. ~Settled => now <= saved
    BY DEF SettledInv, Unfinished
  <2> QED
    BY <2>1, <2>2, <2>3 DEF Settled
<1>5. now # None
  BY NowNumber, MarkersAreNoTimes
<1> QED
  BY <1>1, <1>2, <1>3, <1>4, <1>5 DEF Settled

(* Every step keeps the saved end within reach of the expiries.            *)
LEMMA PastStep ==
    ASSUME TypeOK, PastInv, SettledInv, [Next]_vars PROVE PastInv'
<1>c. /\ now \in Nat /\ now' \in Nat /\ now' >= now
      /\ AfterEnd => AfterEnd'
  BY ClockGoesOn
<1>s. /\ Settled => Settled' /\ settledAt' = settledAt
      /\ saved \in Nat /\ settledAt \in Nat \cup {None} /\ saved' \in Nat
  BY SettledOnce, NowNumber, EndNumbers DEF Settled, TypeOK
<1>1. tool' # None => tool' <= now'
  <2>1. tool # None => tool \in Nat
    BY DEF TypeOK
  <2>2. CASE tool' = tool
    BY <2>1, <2>2, <1>c DEF PastInv
  <2>3. CASE tool' = now
    BY <2>3, <1>c
  <2> QED
    BY <2>2, <2>3, SettledOnce
<1>2. Settled' => settledAt' <= now' /\ settledAt' <= saved' /\ AfterEnd'
  <2>1. CASE Settled
    <3>1. settledAt \in Nat /\ settledAt <= now /\ settledAt <= saved /\ AfterEnd
      BY <2>1, <1>s, MarkersAreNoTimes DEF PastInv, Settled
    <3>2. saved' = saved \/ saved' > now
      BY SettledOnce
    <3> QED
      BY <2>1, <3>1, <3>2, <1>c, <1>s
  <2>2. CASE ~Settled
    BY <2>2, <1>c, <1>s, SettledOnce
  <2> QED
    BY <2>1, <2>2
<1> DEFINE P == /\ \A n \in Nodes \ up' : end'[n] = None /\ n \notin done'
                /\ advanced' => Settled'
                /\ \A n \in Nodes : timer'[n] # None => Settled'
                /\ \A n \in up' : end'[n] = None => AfterEnd'
<1>t. /\ end \in [Nodes -> Ends \cup {None}] /\ timer \in [Nodes -> Nat \cup {None}]
      /\ up \subseteq Nodes
  BY DEF TypeOK
<1>i. /\ \A n \in Nodes \ up : end[n] = None /\ n \notin done
      /\ advanced => Settled'
      /\ \A n \in Nodes : timer[n] # None => Settled'
      /\ \A n \in up : end[n] = None => AfterEnd'
      /\ Settled' => AfterEnd'
  BY <1>c, <1>s, <1>2 DEF PastInv
<1>3. ASSUME UNCHANGED <<nodeVars, advanced>> PROVE P
  BY <1>3, <1>i DEF nodeVars
<1>4. ASSUME NEW n \in Nodes, Down(n), UNCHANGED advanced PROVE P
  <2>1. /\ up' = up \ {n} /\ end'[n] = None /\ timer'[n] = None /\ n \notin done'
        /\ done' \subseteq done
        /\ \A m \in Nodes \ {n} : end'[m] = end[m] /\ timer'[m] = timer[m]
    BY <1>4, <1>t DEF Down
  <2>2. \A m \in Nodes \ up' : end'[m] = None /\ m \notin done'
    BY <2>1, <1>i
  <2>3. \A m \in Nodes : timer'[m] # None => Settled'
    BY <2>1, <1>i
  <2>4. \A m \in up' : end'[m] = None => AfterEnd'
    BY <2>1, <1>i, <1>t
  <2> QED
    BY <1>4, <2>2, <2>3, <2>4, <1>i
<1>5. ASSUME NEW n \in Nodes, Start(n) PROVE P
  <2>1. /\ up' = up \cup {n} /\ done' = done /\ timer' = timer /\ advanced' = advanced
        /\ \A m \in Nodes \ {n} : end'[m] = end[m]
    BY <1>5, <1>t DEF Start
  <2>2. end'[n] = None => AfterEnd'
    <3>1. CASE end' = [end EXCEPT ![n] = saved]
      BY <3>1, <1>t, NowNumber, EndNumbers
    <3>2. CASE advanced
      BY <3>2, <1>i
    <3>3. CASE now > saved + Grace
      <4>1. saved <= now
        BY <3>3, <1>c, <1>s, Numbers
      <4>2. AfterEnd
        BY <4>1, NowNumber DEF AfterEnd
      <4> QED
        BY <4>2, <1>c
    <3> QED
      BY <1>5, <3>1, <3>2, <3>3 DEF Start
  <2>3. \A m \in up' : end'[m] = None => AfterEnd'
    BY <2>1, <2>2, <1>i, <1>t
  <2>4. \A m \in Nodes \ up' : end'[m] = None /\ m \notin done'
    BY <2>1, <1>i
  <2> QED
    BY <2>1, <2>3, <2>4, <1>i
<1>6. ASSUME NEW n \in Nodes, Follow(n) PROVE P
  <2>1. /\ up' = up /\ done' = done /\ timer' = timer /\ advanced' = advanced /\ advanced
        /\ end' = [end EXCEPT ![n] = None]
    BY <1>6 DEF Follow
  <2>2. \A m \in Nodes : end'[m] = None \/ end'[m] = end[m]
    BY <2>1, <1>t
  <2> QED
    BY <2>1, <2>2, <1>i, <1>t
<1>7. ASSUME NEW n \in Nodes, UpdateConfig(n) PROVE P
  <2>1. /\ UNCHANGED <<up, done, timer, advanced>> /\ end[n] # None
        /\ \E e \in Ends : end' = [end EXCEPT ![n] = e]
    BY <1>7 DEF UpdateConfig
  <2>2. \A m \in Nodes \ {n} : end'[m] = end[m]
    BY <2>1, <1>t
  <2>3. end'[n] # None /\ n \in up
    BY <2>1, <1>t, <1>i, EndNumbers
  <2> QED
    BY <2>1, <2>2, <2>3, <1>i, <1>t
<1>8. ASSUME NEW n \in Nodes, Settle(n) PROVE P
  <2>1. Settled'
    BY <1>8, NowNumber, MarkersAreNoTimes DEF Settle, Settled
  <2>2. n \in up
    BY <1>8, <1>i DEF Settle
  <2>3. CASE Down(n) /\ UNCHANGED advanced
    BY <2>3, <1>4
  <2>4. CASE /\ up' = up /\ done' \subseteq done \cup {n}
             /\ end' = end \/ end' = [end EXCEPT ![n] = None]
    <3>1. \A m \in Nodes \ {n} : end'[m] = end[m]
      BY <2>4, <1>t
    <3> QED
      BY <2>1, <2>2, <2>4, <3>1, <1>i
  <2>5. \/ Down(n) /\ UNCHANGED advanced
        \/ /\ up' = up /\ done' \subseteq done \cup {n}
           /\ end' = end \/ end' = [end EXCEPT ![n] = None]
    BY <1>8 DEF Settle
  <2> HIDE DEF P
  <2> QED
    BY <2>3, <2>4, <2>5
<1>9. ASSUME NEW n \in Nodes, CleanupLiveData(n) PROVE P
  <2>1. /\ UNCHANGED <<up, done, end, advanced>>
        /\ timer' = [timer EXCEPT ![n] = None]
    BY <1>9 DEF CleanupLiveData
  <2>2. \A m \in Nodes : timer'[m] = None \/ timer'[m] = timer[m]
    BY <2>1, <1>t
  <2> QED
    BY <2>1, <2>2, <1>i
<1>10. ASSUME NEW n \in Nodes, Crash(n) \/ Play(n) \/ Claim(n) \/ ReadSettled(n) \/ ReadMembers(n)
       PROVE  P
  <2>1. UNCHANGED advanced /\ (UNCHANGED nodeVars \/ Down(n))
    BY <1>10 DEF Crash, Play, Claim, ReadSettled, ReadMembers, Write
  <2> HIDE DEF P
  <2> QED
    BY <2>1, <1>3, <1>4
<1>11. ASSUME (\E k \in Keys : Redis(k)) \/ RankTTL \/ Clock \/ TimeIsUp \/ UNCHANGED vars
       PROVE  P
  <2>1. UNCHANGED <<nodeVars, advanced>>
    BY <1>11 DEF Redis, RankTTL, Clock, TimeIsUp, vars, nodeVars
  <2> HIDE DEF P
  <2> QED
    BY <2>1, <1>3
<1> HIDE DEF P
<1>12. P
  BY <1>5, <1>6, <1>7, <1>8, <1>9, <1>10, <1>11 DEF Next
<1> QED
  BY <1>1, <1>2, <1>12 DEF P, PastInv

-----------------------------------------------------------------------------
(* Settlement *)

(* A full settlement gives all keys that are there the retention from now. *)
LEMMA FullSettlement ==
    ASSUME TypeOK, NEW n \in Nodes, end[n] \in Ends, NEW k \in Keys, NEW keys,
           key' = ExpireAll(keys, SettledKeys, BackfillUntil(end[n])), key'[k] \in Nat
    PROVE  key'[k] >= now + Retention
<1>1. key'[k] = BackfillUntil(end[n]) \/ key'[k] = Absent
  BY DEF ExpireAll, SettledKeys
<1>2. key'[k] = BackfillUntil(end[n])
  BY <1>1, MarkersAreNoTimes
<1>3. BackfillUntil(end[n]) >= now + Retention
  <2>1. now \in Nat /\ end[n] \in Nat /\ end[n] # None /\ Retention \in Nat
    BY Numbers, NowNumber, EndNumbers
  <2> QED
    BY <2>1 DEF BackfillUntil, WriteUntil, Greater
<1> QED
  BY <1>2, <1>3

(* Until it is settled in full a node goes on that will do so: one that    *)
(* crashes takes the leaderboard up again before the end.                  *)
LEMMA UnfinishedStep ==
    ASSUME TypeOK, PastInv, Unfinished, [Next]_vars
    PROVE  \/ Unfinished'
           \/ \E n \in Nodes :
                /\ Settle(n) /\ now >= end[n] /\ end[n] \in Ends /\ end[n] >= now
                /\ \E keys : key' = ExpireAll(keys, SettledKeys, BackfillUntil(end[n]))
                /\ UNCHANGED crashes
                /\ IF kind = "once"
                   THEN UNCHANGED <<timer, advanced>> /\ done' = done \cup {n}
                   ELSE /\ timer' = [timer EXCEPT ![n] = now + Cycle]
                        /\ end' = [end EXCEPT ![n] = None]
                        /\ advanced' = TRUE
                        /\ UNCHANGED done
<1>t. /\ end \in [Nodes -> Ends \cup {None}] /\ up \subseteq Nodes
      /\ now \in Nat /\ saved \in Nat /\ saved \in Ends
      /\ \A e \in Ends : e \in Nat /\ e # None
  BY NowNumber, EndNumbers DEF TypeOK
<1>u. /\ done = {} /\ ~advanced
      /\ now <= saved
      /\ \A n \in up : end[n] # None /\ end[n] >= now
      /\ up = Nodes => \E n \in Nodes : end[n] = saved
  BY DEF Unfinished
<1>s. UNCHANGED <<up, end, done, advanced, now, saved>> => Unfinished'
  BY DEF Unfinished
<1>d. ASSUME NEW n \in Nodes, Down(n), UNCHANGED <<advanced, now, saved>> PROVE Unfinished'
  <2>1. done' = {} /\ up' = up \ {n} /\ \A m \in Nodes \ {n} : end'[m] = end[m]
    BY <1>d, <1>t, <1>u DEF Down
  <2>2. \A m \in up' : end'[m] # None /\ end'[m] >= now
    BY <2>1, <1>t, <1>u
  <2> QED
    BY <1>d, <2>1, <2>2, <1>u DEF Unfinished
<1>1. ASSUME NEW n \in Nodes, Start(n) PROVE Unfinished'
  <2>1. ~(now > saved + Grace)
    BY <1>t, <1>u, Numbers
  <2>2. /\ end' = [end EXCEPT ![n] = saved] /\ up' = up \cup {n}
        /\ UNCHANGED <<done, advanced, now, saved>>
    BY <1>1, <2>1, <1>u DEF Start
  <2>3. end'[n] = saved /\ \A m \in Nodes \ {n} : end'[m] = end[m]
    BY <2>2, <1>t
  <2>4. \A m \in up' : end'[m] # None /\ end'[m] >= now
    BY <2>2, <2>3, <1>t, <1>u
  <2> QED
    BY <2>2, <2>3, <2>4, <1>u DEF Unfinished
<1>2. ASSUME NEW n \in Nodes, Follow(n) PROVE FALSE
  BY <1>2, <1>u DEF Follow
<1>3. ASSUME NEW n \in Nodes, UpdateConfig(n) PROVE Unfinished'
  <2>1. PICK e \in Ends : e > now /\ saved' = e /\ end' = [end EXCEPT ![n] = e]
    BY <1>3 DEF UpdateConfig
  <2>2. UNCHANGED <<up, done, advanced, now>>
    BY <1>3 DEF UpdateConfig
  <2>3. end'[n] = e /\ \A m \in Nodes \ {n} : end'[m] = end[m]
    BY <2>1, <1>t
  <2>4. \A m \in up' : end'[m] # None /\ end'[m] >= now
    BY <2>1, <2>2, <2>3, <1>t, <1>u
  <2>5. e \in Nat /\ now <= e
    BY <2>1, <1>t
  <2> QED
    BY <2>1, <2>2, <2>3, <2>4, <2>5, <1>u DEF Unfinished
<1>4. ASSUME NEW n \in Nodes, Crash(n) \/ Play(n) \/ Claim(n) \/ ReadSettled(n) \/ ReadMembers(n)
      PROVE  Unfinished'
  <2>1. UNCHANGED <<advanced, now, saved>>
        /\ (UNCHANGED <<up, end, done>> \/ Down(n))
    BY <1>4 DEF Crash, Play, Claim, ReadSettled, ReadMembers, Write, nodeVars
  <2> QED
    BY <2>1, <1>s, <1>d
<1>5. ASSUME NEW n \in Nodes, CleanupLiveData(n) PROVE Unfinished'
  BY <1>5, <1>s DEF CleanupLiveData
<1>6. ASSUME (\E k \in Keys : Redis(k)) \/ RankTTL \/ TimeIsUp \/ UNCHANGED vars
      PROVE  Unfinished'
  BY <1>6, <1>s DEF Redis, RankTTL, TimeIsUp, vars, nodeVars
<1>7. ASSUME Clock PROVE Unfinished'
  <2>1. /\ up = Nodes /\ now' = now + 1
        /\ \A n \in Nodes : end[n] # None => n \in done \/ (~advanced /\ now < end[n])
        /\ UNCHANGED <<up, end, done, advanced, saved>>
    BY <1>7 DEF Clock, nodeVars
  <2>2. PICK n \in Nodes : end[n] = saved
    BY <2>1, <1>u
  <2>3. now < saved
    BY <2>1, <2>2, <1>t, <1>u
  <2>4. \A m \in up : end[m] # None /\ now < end[m] /\ end[m] \in Nat
    BY <2>1, <1>t, <1>u
  <2>5. now' <= saved /\ \A m \in up : end[m] >= now'
    BY <2>1, <2>3, <2>4, <1>t
  <2> QED
    BY <2>1, <2>4, <2>5, <1>u DEF Unfinished
<1>8. ASSUME NEW n \in Nodes, Settle(n)
      PROVE  \/ Unfinished'
             \/ /\ Settle(n) /\ now >= end[n] /\ end[n] \in Ends /\ end[n] >= now
                /\ \E keys : key' = ExpireAll(keys, SettledKeys, BackfillUntil(end[n]))
                /\ UNCHANGED crashes
                /\ IF kind = "once"
                   THEN UNCHANGED <<timer, advanced>> /\ done' = done \cup {n}
                   ELSE /\ timer' = [timer EXCEPT ![n] = now + Cycle]
                        /\ end' = [end EXCEPT ![n] = None]
                        /\ advanced' = TRUE
                        /\ UNCHANGED done
  <2>1. end[n] # None /\ now >= end[n] /\ UNCHANGED <<now, saved>>
    BY <1>8 DEF Settle
  <2>2. end[n] \in Ends /\ n \in up
    BY <2>1, <1>t DEF PastInv
  <2>3. CASE Down(n) /\ UNCHANGED advanced
    BY <2>1, <2>3, <1>d
  <2>4. CASE /\ key' = ExpireAll(FirstSettled(n), SettledKeys, BackfillUntil(end[n]))
             /\ IF kind = "once"
                THEN done' = done \cup {n} /\ UNCHANGED <<end, timer, advanced>>
                ELSE /\ timer' = [timer EXCEPT ![n] = now + Cycle]
                     /\ end' = [end EXCEPT ![n] = None]
                     /\ advanced' = TRUE
                     /\ UNCHANGED done
             /\ UNCHANGED <<up, crashes>>
    BY <1>8, <2>1, <2>2, <2>4, <1>u
  <2> QED
    BY <1>8, <2>3, <2>4 DEF Settle
<1> QED
  BY <1>1, <1>2, <1>3, <1>4, <1>5, <1>6, <1>7, <1>8 DEF Next

(* Every step keeps what a settlement guarantees of the keys.              *)
LEMMA SettledStep ==
    ASSUME TypeOK, PastInv, SettledInv, [Next]_vars PROVE SettledInv'
<1>n. now \in Nat /\ saved \in Nat /\ Retention \in Nat
  BY Numbers, NowNumber
<1>1. CASE Unfinished
  <2>1. ASSUME NEW n \in Nodes, NEW keys, Settle(n), end[n] \in Ends,
               key' = ExpireAll(keys, SettledKeys, BackfillUntil(end[n]))
        PROVE  SettledInv'
    <3>1. Settled' /\ settledAt' \in Nat /\ settledAt' <= now
      BY <2>1, <1>n, MarkersAreNoTimes DEF Settle, Settled, PastInv, TypeOK
    <3>2. ASSUME NEW k \in Keys, key'[k] \in Nat PROVE key'[k] >= settledAt' + Retention
      <4>1. key'[k] >= now + Retention
        BY <2>1, <3>2, FullSettlement
      <4> QED
        BY <3>1, <3>2, <4>1, <1>n
    <3> QED
      BY <3>1, <3>2 DEF SettledInv, Kept
  <2> QED
    BY <1>1, <2>1, UnfinishedStep DEF SettledInv
<1>2. CASE Settled /\ \A k \in Keys : Kept(k, settledAt + Retention)
  <2>1. settledAt \in Nat /\ settledAt <= now /\ settledAt <= saved /\ settledAt' = settledAt
    BY <1>2, SettledOnce DEF Settled, PastInv, TypeOK
  <2> DEFINE t == settledAt + Retention
  <2>2. t \in Nat
    BY <2>1, <1>n
  <2>3. \A g \in GoodTimes : g >= t
    BY <2>1, <1>n DEF GoodTimes
  <2>4. ASSUME NEW k \in Keys PROVE Kept(k, settledAt + Retention)'
    <3>1. PICK u \in Nat : u = t
      BY <2>2
    <3>2. Kept(k, u) /\ \A g \in GoodTimes : g >= u
      BY <1>2, <2>3, <3>1
    <3> HIDE DEF t
    <3>3. Kept(k, u)'
      BY <3>2, KeptStep
    <3>4. settledAt' + Retention = u
      BY <2>1, <3>1 DEF t
    <3> QED
      BY <3>3, <3>4 DEF Kept, ByTool
  <2> QED
    BY <1>2, <2>1, <2>4 DEF SettledInv, Settled
<1> QED
  BY <1>1, <1>2 DEF SettledInv

-----------------------------------------------------------------------------
(* Rounds *)

(* The nodes of a round: its end never moves, none settles it twice, and   *)
(* whoever still has it when the next one begins settles it at once.       *)
RoundNodes ==
    /\ done = {}
    /\ ~advanced => Unfinished
    /\ \A n \in Nodes : end[n] # None => end[n] = saved
    /\ Settled => settledAt = saved
    /\ advanced => \A n \in Nodes : end[n] # None => now = settledAt

(* Every step keeps the nodes of a round on the end that is saved.         *)
LEMMA RoundNodesStep ==
    ASSUME TypeOK, PastInv, SettledInv, kind = "round", RoundNodes, [Next]_vars
    PROVE  RoundNodes'
<1>t. /\ end \in [Nodes -> Ends \cup {None}] /\ up \subseteq Nodes
      /\ now \in Nat /\ saved \in Nat /\ saved \in Ends
      /\ \A e \in Ends : e \in Nat /\ e # None
  BY NowNumber, EndNumbers DEF TypeOK
<1>k. kind # "once" /\ saved' = saved
  BY SettledOnce
<1>1. done' = {}
  BY <1>k DEF RoundNodes, Next, Start, Follow, Crash, UpdateConfig, Play, Claim, ReadSettled,
     ReadMembers, Write, Down, nodeVars, Settle, CleanupLiveData, Redis, RankTTL, Clock,
     TimeIsUp, vars
<1>2. ~advanced' => Unfinished'
  <2>1. CASE advanced
    <3>1. advanced' = advanced \/ advanced' = TRUE
      BY DEF Next, Start, Follow, Crash, UpdateConfig, Play, Claim, ReadSettled,
         ReadMembers, Settle, CleanupLiveData, Redis, RankTTL, Clock, TimeIsUp, vars
    <3> QED
      BY <2>1, <3>1
  <2>2. CASE ~advanced
    <3>1. Unfinished
      BY <2>2 DEF RoundNodes
    <3> QED
      BY <3>1, <1>k, UnfinishedStep
  <2> QED
    BY <2>1, <2>2
<1>3. Settled' => settledAt' = saved'
  <2>1. CASE Settled
    BY <2>1, <1>k, SettledOnce DEF RoundNodes
  <2>2. ASSUME ~Settled, Settled', NEW n \in Nodes, Settle(n) PROVE settledAt' = saved
    <3>1. settledAt' = now /\ now <= saved
      BY <2>2, SettledOnce
    <3>2. end[n] = saved /\ now >= end[n]
      BY <2>2 DEF Settle, RoundNodes
    <3> QED
      BY <3>1, <3>2, <1>t
  <2> QED
    BY <2>1, <2>2, <1>k, SettledOnce
(* Which nodes have the round: it is taken up before the advance only.     *)
<1>4. ASSUME NEW n \in Nodes
      PROVE  end'[n] = None \/ end'[n] = end[n] \/ (~advanced /\ ~advanced' /\ end'[n] = saved)
  <2>1. ASSUME NEW m \in Nodes, Start(m)
        PROVE  end'[n] = end[n] \/ (~advanced /\ ~advanced' /\ end'[n] = saved)
    <3>1. advanced' = advanced /\ (end' = end \/ (~advanced /\ end' = [end EXCEPT ![m] = saved]))
      BY <2>1 DEF Start
    <3> QED
      BY <3>1, <1>t
  <2>2. ASSUME NEW m \in Nodes, ~Start(m),
               \/ Start(m) \/ Follow(m) \/ Crash(m) \/ UpdateConfig(m)
               \/ Play(m) \/ Claim(m) \/ ReadSettled(m) \/ ReadMembers(m)
               \/ Settle(m) \/ CleanupLiveData(m)
        PROVE  end'[n] = None \/ end'[n] = end[n]
    <3>1. end' = end \/ end' = [end EXCEPT ![m] = None]
      BY <2>2, <1>k DEF Follow, Crash, UpdateConfig, Play, Claim, ReadSettled,
         ReadMembers, Write, Down, nodeVars, Settle, CleanupLiveData
    <3> QED
      BY <3>1, <1>t
  <2>3. ASSUME (\E k \in Keys : Redis(k)) \/ RankTTL \/ Clock \/ TimeIsUp \/ UNCHANGED vars
        PROVE  end' = end
    BY <2>3 DEF Redis, RankTTL, Clock, TimeIsUp, vars, nodeVars
  <2> QED
    BY <2>1, <2>2, <2>3 DEF Next
<1>5. \A n \in Nodes : end'[n] # None => end'[n] = saved'
  BY <1>4, <1>k DEF RoundNodes
<1>6. ASSUME advanced', NEW n \in Nodes, end'[n] # None PROVE now' = settledAt'
  <2>1. end'[n] = end[n]
    BY <1>4, <1>6
  <2>2. CASE advanced
    <3>1. now = settledAt /\ Settled
      BY <1>6, <2>1, <2>2 DEF RoundNodes, PastInv
    <3>2. ~Clock
      <4>1. end[n] # None /\ n \notin done
        BY <1>6, <2>1 DEF RoundNodes
      <4> QED
        BY <2>2, <4>1 DEF Clock
    <3> QED
      BY <3>1, <3>2, ClockGoesOn, SettledOnce
  <2>3. CASE ~advanced
    <3>1. PICK m \in Nodes : Settle(m)
      BY <1>6, <2>3 DEF Next, Start, Follow, Crash, UpdateConfig, Play, Claim, ReadSettled,
         ReadMembers, CleanupLiveData, Redis, RankTTL, Clock, TimeIsUp, vars
    <3>2. now' = now /\ now >= end[m] /\ end[m] = saved /\ now <= saved
      BY <2>3, <3>1 DEF Settle, RoundNodes, Unfinished
    <3>3. now = saved
      BY <3>2, <1>t
    <3>4. Settled'
      BY <3>1, <1>t, MarkersAreNoTimes DEF Settle, Settled
    <3> QED
      BY <3>2, <3>3, <3>4, <1>3, <1>k
  <2> QED
    BY <2>2, <2>3
<1> QED
  BY <1>1, <1>2, <1>3, <1>5, <1>6 DEF RoundNodes

(* Without a crash the timer runs, and when it has run every key has been  *)
(* given the retention again.                                              *)
Timed == \E n \in Nodes : timer[n] = settledAt + Cycle
TimerKept == Settled /\ crashes = MaxCrashes =>
    /\ advanced
    /\ \/ now <= settledAt + Cycle /\ Timed
       \/ /\ now >= settledAt + Cycle
          /\ \A k \in Keys : Kept(k, settledAt + Cycle + Retention)

(* Every step keeps the timer of a settled round running until it has run. *)
LEMMA TimerKeptStep ==
    ASSUME TypeOK, PastInv, SettledInv, kind = "round", RoundNodes, TimerKept, [Next]_vars
    PROVE  TimerKept'
<1> SUFFICES ASSUME Settled', crashes' = MaxCrashes
             PROVE  /\ advanced'
                    /\ \/ now' <= settledAt' + Cycle /\ Timed'
                       \/ /\ now' >= settledAt' + Cycle
                          /\ \A k \in Keys : Kept(k, settledAt + Cycle + Retention)'
  BY DEF TimerKept
<1>t. /\ timer \in [Nodes -> Nat \cup {None}]
      /\ now \in Nat /\ saved \in Nat /\ Cycle \in Nat /\ Retention \in Nat
      /\ crashes \in Nat /\ crashes <= MaxCrashes /\ MaxCrashes \in Nat
  BY NowNumber, Numbers DEF TypeOK
<1>k. kind # "once"
  OBVIOUS
<1>d. /\ \A n \in Nodes : ~Down(n)
      /\ crashes = MaxCrashes
  <2>1. \A n \in Nodes : ~Down(n)
    BY <1>t DEF Down
  <2>2. crashes' = crashes
    BY <2>1 DEF Next, Start, Follow, Crash, UpdateConfig, Play, Claim, ReadSettled,
       ReadMembers, Write, Settle, CleanupLiveData, Redis, RankTTL, Clock, TimeIsUp, vars
  <2> QED
    BY <2>1, <2>2
<1>1. ASSUME NEW n \in Nodes, Settle(n)
      PROVE  /\ advanced' /\ timer' = [timer EXCEPT ![n] = now + Cycle] /\ now' = now
             /\ settledAt' = now
  <2>1. /\ advanced' /\ timer' = [timer EXCEPT ![n] = now + Cycle] /\ now' = now
        /\ end[n] # None /\ now >= end[n]
    BY <1>1, <1>d, <1>k DEF Settle
  <2>2. CASE advanced
    <3>1. now = settledAt /\ Settled
      BY <2>1, <2>2 DEF RoundNodes, PastInv
    <3> QED
      BY <2>1, <3>1, SettledOnce
  <2>3. CASE ~advanced
    <3>1. ~Settled
      BY <1>d, <2>3 DEF TimerKept
    <3> QED
      BY <2>1, <3>1, SettledOnce
  <2> QED
    BY <2>1, <2>2, <2>3
<1>2. CASE \E n \in Nodes : Settle(n)
  <2>1. PICK n \in Nodes : Settle(n)
    BY <1>2
  <2>2. timer'[n] = settledAt' + Cycle /\ now' <= settledAt' + Cycle
    BY <2>1, <1>1, <1>t
  <2> QED
    BY <2>1, <2>2, <1>1 DEF Timed
<1>3. CASE ~ \E n \in Nodes : Settle(n)
  <2>1. Settled /\ settledAt' = settledAt /\ settledAt \in Nat
    BY <1>3, SettledOnce DEF Settled, TypeOK
  <2>2. advanced /\ (\/ now <= settledAt + Cycle /\ Timed
                     \/ /\ now >= settledAt + Cycle
                        /\ \A k \in Keys : Kept(k, settledAt + Cycle + Retention))
    BY <2>1, <1>d DEF TimerKept
  <2>3. advanced'
    BY <1>3, <2>2 DEF Next, Start, Follow, Crash, UpdateConfig, Play, Claim, ReadSettled,
       ReadMembers, CleanupLiveData, Redis, RankTTL, Clock, TimeIsUp, vars
  <2> DEFINE due == settledAt + Cycle
  <2>4. due \in Nat
    BY <2>1, <1>t
  <2>5. CASE now <= due /\ Timed
    <3>1. PICK n \in Nodes : timer[n] = due
      BY <2>5 DEF Timed
    <3>2. timer[n] # None
      BY <3>1, <2>4, MarkersAreNoTimes
    <3> HIDE DEF due
    <3>3. CASE CleanupLiveData(n)
      <4>1. now >= due /\ now' = now /\ key' = ExpireAll(key, Keys, now + Retention)
        BY <3>1, <3>3 DEF CleanupLiveData, CleanupUntil
      <4>2. ASSUME NEW k \in Keys, key'[k] \in Nat PROVE key'[k] >= due + Retention
        <5>1. key'[k] = now + Retention \/ key'[k] = Absent
          BY <4>1 DEF ExpireAll
        <5>2. key'[k] = now + Retention
          BY <4>2, <5>1, MarkersAreNoTimes
        <5> QED
          BY <4>1, <5>2, <2>4, <1>t
      <4> QED
        BY <2>1, <2>3, <4>1, <4>2 DEF Kept, due
    <3>4. CASE ~CleanupLiveData(n)
      <4>1. timer'[n] = timer[n]
        <5>1. ASSUME NEW m \in Nodes, CleanupLiveData(m) PROVE timer'[n] = timer[n]
          <6>1. m # n /\ timer' = [timer EXCEPT ![m] = None]
            BY <3>4, <5>1 DEF CleanupLiveData
          <6> QED
            BY <6>1, <1>t
        <5>2. (\A m \in Nodes : ~CleanupLiveData(m)) => timer' = timer
          BY <1>3, <1>d DEF Next, Start, Follow, Crash, UpdateConfig, Play, Claim, ReadSettled,
             ReadMembers, Write, nodeVars, Redis, RankTTL, Clock, TimeIsUp, vars
        <5> QED
          BY <5>1, <5>2
      <4>2. now' <= due
        <5>1. CASE Clock
          <6>1. now' = now + 1 /\ now < due
            BY <3>1, <3>2, <5>1 DEF Clock
          <6> QED
            BY <6>1, <2>4, <1>t
        <5>2. CASE ~Clock
          BY <5>2, <2>5, ClockGoesOn
        <5> QED
          BY <5>1, <5>2
      <4> QED
        BY <2>1, <2>3, <3>1, <4>1, <4>2 DEF Timed, due
    <3> QED
      BY <3>3, <3>4
  <2>6. CASE now >= due /\ \A k \in Keys : Kept(k, due + Retention)
    <3>1. PICK t \in Nat : t = due + Retention
      BY <2>4, <1>t
    <3>2. \A g \in GoodTimes : g >= t
      BY <2>2, <2>4, <2>6, <3>1, <1>t DEF GoodTimes
    <3>3. ASSUME NEW k \in Keys PROVE Kept(k, t)'
      BY <2>6, <3>1, <3>2, KeptStep
    <3>4. now' >= due
      BY <2>4, <2>6, ClockGoesOn
    <3>5. settledAt' + Cycle = due
      BY <2>1
    <3> QED
      BY <2>1, <2>3, <3>1, <3>3, <3>4, <3>5 DEF Kept, ByTool
  <2> QED
    BY <2>2, <2>5, <2>6
<1> QED
  BY <1>2, <1>3

-----------------------------------------------------------------------------
(* Theorems *)

RoundInv == kind = "round" => RoundNodes /\ TimerKept
KeysInv == TypeOK /\ PastInv /\ OpenInv /\ SettledInv /\ RoundInv

(* The inductive invariant holds before anything is written.               *)
LEMMA InitKeys == Init => KeysInv
<1> SUFFICES ASSUME Init PROVE KeysInv
  OBVIOUS
<1>1. now = 0 /\ 0 \in 0..Horizon /\ saved \in Ends /\ saved \in Nat
      /\ moves \in 0..MaxMoves /\ crashes \in 0..MaxCrashes
  BY Numbers, EndNumbers, KeyConstants DEF Init
<1>2. key \in KeyMap /\ \A k \in Keys : key[k] \notin Nat
  BY MarkersAreNoTimes DEF Init, KeyMap, Times
<1>3. TypeOK
  BY <1>1, <1>2 DEF Init, TypeOK, KeyMap, Times
<1>4. PastInv
  BY DEF Init, PastInv, Settled
<1>5. OpenInv
  BY <1>1, <1>2 DEF OpenInv, Kept
<1>6. Unfinished
  BY <1>1, SomeNode DEF Init, Unfinished
<1>7. RoundInv
  BY <1>6 DEF Init, RoundInv, RoundNodes, TimerKept, Settled
<1> QED
  BY <1>3, <1>4, <1>5, <1>6, <1>7 DEF KeysInv, SettledInv

(* Every step keeps the inductive invariant.                               *)
LEMMA KeysStep == KeysInv /\ [Next]_vars => KeysInv'
<1> SUFFICES ASSUME KeysInv, [Next]_vars PROVE KeysInv'
  OBVIOUS
<1>1. TypeOK /\ PastInv /\ OpenInv /\ SettledInv /\ RoundInv
  BY DEF KeysInv
<1>2. TypeOK' /\ PastInv' /\ OpenInv' /\ SettledInv'
  BY <1>1, KeyTypes, PastStep, OpenStep, SettledStep
<1>3. RoundInv'
  <2>1. kind' = kind
    BY <1>1, SettledOnce
  <2>2. kind = "round" => RoundNodes' /\ TimerKept'
    BY <1>1, RoundNodesStep, TimerKeptStep DEF RoundInv
  <2> QED
    BY <2>1, <2>2 DEF RoundInv
<1> QED
  BY <1>2, <1>3 DEF KeysInv

(* The records of the model keep their types, and Redis is never late: no  *)
(* key is there whose time is past.                                        *)
THEOREM TypeCorrect == Spec => []TypeOK
<1>1. KeysInv => TypeOK
  BY DEF KeysInv
<1> QED
  BY <1>1, InitKeys, KeysStep, PTL DEF Spec

(* No key goes while the activity is open, nor, once it is settled, before *)
(* the retention is over, whichever node set its time last, with whatever  *)
(* end of the activity, and whoever reads, restarts, crashes or repairs in *)
(* between; only what the tool gave an open activity, and nobody has       *)
(* written since, goes two weeks after the tool                            *)
(* (engine/store.go:315 and 803, periodic/handler.go:253).                 *)
THEOREM KeysAreKept == Spec => KeptUntilRetentionEnds
<1>1. ASSUME KeysInv, [Next]_vars, NEW k \in Keys, key[k] # Absent, key'[k] = Absent
      PROVE  \/ tool # None /\ tool < saved /\ key[k] = tool + Retention
             \/ now >= saved /\ (settledAt # None => now >= KeptUntil)
  <2>1. TypeOK /\ PastInv /\ OpenInv /\ SettledInv /\ RoundInv
    BY <1>1 DEF KeysInv
  <2>2. Due(k)
    BY <1>1, <2>1, KeyOutcome
  <2>3. key[k] \in Nat /\ now = key[k] /\ now \in Nat /\ saved \in Nat /\ saved \in Ends
    <3>1. key[k] \in Nat
      BY <2>1, <2>2 DEF Due, TypeOK
    <3>2. now >= key[k] /\ key[k] >= now
      BY <2>1, <2>2, <3>1 DEF Due, TypeOK
    <3> QED
      BY <2>1, <3>1, <3>2, NowNumber
  <2>4. CASE ByTool(k)
    BY <2>4 DEF ByTool
  <2>5. CASE ~ByTool(k)
    <3>1. PICK e \in Ends : key[k] >= e + Retention
      BY <2>1, <2>3, <2>5 DEF OpenInv, Kept
    <3>2. e \in Nat /\ saved < e + Retention
      BY <2>3, EndNumbers, KeyConstants
    <3>3. now > saved
      BY <2>3, <3>1, <3>2, Numbers
    <3>4. Settled /\ key[k] >= settledAt + Retention
      <4>1. ~Unfinished
        BY <2>3, <3>3 DEF Unfinished
      <4> QED
        BY <2>1, <2>3, <2>5, <4>1 DEF SettledInv, Kept
    <3>5. settledAt \in Nat
      BY <2>1, <3>4 DEF TypeOK, Settled
    <3>6. CASE kind = "round" /\ crashes = MaxCrashes
      <4>1. \/ now <= settledAt + Cycle
            \/ key[k] >= settledAt + Cycle + Retention
        BY <2>1, <2>3, <2>5, <3>4, <3>6 DEF RoundInv, TimerKept, Kept
      <4>2. ~(now <= settledAt + Cycle)
        BY <2>3, <3>4, <3>5, Numbers
      <4>3. KeptUntil = settledAt + Retention + Cycle
        BY <3>6 DEF KeptUntil
      <4> QED
        BY <2>3, <3>3, <3>5, <4>1, <4>2, <4>3, Numbers
    <3>7. CASE ~(kind = "round" /\ crashes = MaxCrashes)
      <4>1. KeptUntil = settledAt + Retention
        BY <3>5, <3>7, Numbers DEF KeptUntil
      <4> QED
        BY <2>3, <3>3, <3>4, <4>1
    <3> QED
      BY <3>6, <3>7
  <2> QED
    BY <2>4, <2>5
<1>2. KeysInv /\ [Next]_vars =>
        [\A k \in Keys : key[k] # Absent /\ key'[k] = Absent
           => \/ tool # None /\ tool < saved /\ key[k] = tool + Retention
              \/ now >= saved /\ (settledAt # None => now >= KeptUntil)]_vars
  BY <1>1
<1> QED
  BY <1>2, InitKeys, KeysStep, PTL DEF Spec, KeptUntilRetentionEnds
=============================================================================
