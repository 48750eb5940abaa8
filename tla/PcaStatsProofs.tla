--------------------------- MODULE PcaStatsProofs ---------------------------
(***************************************************************************)
(* Proofs that the statistics of PcaStats add up, for every number of      *)
(* consumers and data and every bound on the data fed.                     *)
(***************************************************************************)
EXTENDS PcaStats, PcaProofs

Counters == [delivered : Nat, discarded : Nat, updated : Nat, consumed : Nat]

StatsTypeOK == dstats \in Counters /\ cstats \in [Consumers -> Counters]

(* The accounts at every program point, not only when the mutex is free:   *)
(* what the holder of the mutex has counted already, and what it has not.  *)
DispatcherBalance ==
  dstats.delivered = dstats.updated + dstats.consumed
                     + (IF dmutex = "dispatcher" THEN 1 ELSE One(dnew))
                     + One(dmutex = "feeder")

(* The dispatcher has locked c's mutex to give it the datum.               *)
Giving(c) == dpc \in {"remove_lock", "remove", "add"} /\ pos = c

(* c has counted its datum as consumed, but its mailbox is still full.     *)
Counting(c) == cpc[c] \in {"remove_lock", "remove", "done"}

ConsumerBalance ==
  \A c \in Consumers :
    cstats[c].delivered + One(Counting(c))
      = cstats[c].discarded + cstats[c].updated + cstats[c].consumed
        + One(cnew[c]) + One(Giving(c))

(* A consumer only gets data of its type, so that the test before          *)
(* total_consumed is counted always succeeds.                              *)
RightType ==
  /\ dpc \in {"remove_lock", "remove", "add"} => Matches(pos, dslot)
  /\ \A c \in Consumers : cnew[c] => Matches(c, cslot[c])

(* The dispatcher has come past c in this round.                           *)
Passed(c) == \/ dpc = "deliver" /\ c < pos
             \/ dpc \in {"remove_lock", "remove", "add"} /\ c <= pos
             \/ Waking
             \/ dpc \in {"free", "finish"}

OfferBound ==
  \A c \in Consumers : cstats[c].delivered <= dstats.consumed + One(Passed(c))

StatsInv == /\ StatsTypeOK /\ DispatcherBalance /\ RightType /\ ConsumerBalance
            /\ OfferBound
-----------------------------------------------------------------------------
LEMMA StatsFacts ==
  ASSUME Base
  PROVE  /\ N \in Nat /\ Consumers \subseteq Nat /\ pos \in Nat
         /\ len \in Nat /\ len <= N
         /\ \A c \in Nat : 1 <= c /\ c <= N => c \in Consumers
         /\ cslot \in [Consumers -> Data] /\ cnew \in [Consumers -> BOOLEAN]
         /\ need \in [Consumers -> BOOLEAN]
         /\ cpc \in [Consumers -> ConsumerPc] /\ fpc \in [Feeders -> FeederPc]
         /\ dnew \in BOOLEAN /\ 1 <= pos
         /\ dmutex = "dispatcher" <=> dpc \notin {"start", "wait", "lock"}
         /\ \A f \in Feeders : fpc[f] \in {"free_old", "store"} => dmutex = "feeder"
         /\ dpc \in {"remove_lock", "remove", "add"} =>
              pos \in Consumers /\ need[pos] /\ ~Handling(pos)
         /\ \A c \in Consumers : Handling(c) => ~need[c] /\ cnew[c]
         /\ dmutex = "dispatcher" /\ dpc # "finish" /\ dpc # "free" => dnew
BY PcaAssumption
   DEF PcaAssumption, Base, TypeInv, TypeOK, LockInv, MutexOwners,
   DispatcherMutex, ConsumerMutex, NeedRange, HandlingInv, Consumers, WakeInv,
   WakesForData, DispatcherPc, Delivering, Waking

LEMMA InitStats == StatsInit => StatsInv
<1> SUFFICES ASSUME StatsInit PROVE StatsInv
  OBVIOUS
<1> USE DEF StatsInit, Init
<1>1. StatsTypeOK
  BY DEF StatsTypeOK, ZeroStats, Counters
<1>2. DispatcherBalance
  BY DEF DispatcherBalance, ZeroStats, One
<1>3. RightType
  BY DEF RightType
<1>4. ConsumerBalance
  BY DEF ConsumerBalance, ZeroStats, One, Giving, Counting
<1>5. OfferBound
  BY DEF OfferBound, ZeroStats, One
<1> QED BY <1>1, <1>2, <1>3, <1>4, <1>5 DEF StatsInv

(* The statistics do not interfere with what they are about.               *)
LEMMA StatsNextIsNext == [StatsNext]_statsVars => [Next]_vars
BY
   DEF StatsNext, statsVars, FeedDispatcherStats, DispatcherStats,
   FeedConsumersStats,
   ConsumerStats, Next, Feed, Dispatcher, FeedConsumers, Consumer

LEMMA NextRightType == Base /\ RightType /\ [Next]_vars => RightType'
<1> SUFFICES ASSUME Base, RightType, [Next]_vars PROVE RightType'
  OBVIOUS
<1> USE StatsFacts DEF RightType, Matches
<1> USE DEF slotVars, walkVars, listVars, freeVars, consVars, fvars
<1>1. ASSUME NEW f \in Feeders, Feed(f) PROVE RightType'
  <2>1. ASSUME NEW d \in Data, FeedTrylock(f, d) PROVE RightType'
    BY <2>1 DEF FeedTrylock
  <2>2. CASE FeedFreeOld(f) BY <2>2 DEF FeedFreeOld, DataFree
  <2>3. CASE FeedStore(f) BY <2>3 DEF FeedStore
  <2>4. CASE FeedDiscard(f) BY <2>4 DEF FeedDiscard, DataFree
  <2> QED BY <1>1, <2>1, <2>2, <2>3, <2>4 DEF Feed
<1>2. CASE Dispatcher
  <2>1. CASE DispatcherStart BY <2>1 DEF DispatcherStart
  <2>2. CASE DispatcherWait BY <2>2 DEF DispatcherWait
  <2>3. CASE DispatcherLock BY <2>3 DEF DispatcherLock
  <2>4. CASE DispatcherFree BY <2>4 DEF DispatcherFree, DataFree
  <2>5. CASE DispatcherFinish BY <2>5 DEF DispatcherFinish
  <2>6. CASE FeedConsumersLock BY <2>6 DEF FeedConsumersLock
  <2>7. CASE FeedConsumersSkip BY <2>7 DEF FeedConsumersSkip
  <2>8. CASE FeedConsumersTrylock BY <2>8 DEF FeedConsumersTrylock
  <2>9. CASE FeedConsumersRemoveLock BY <2>9 DEF FeedConsumersRemoveLock
  <2>10. CASE FeedConsumersRemove BY <2>10 DEF FeedConsumersRemove,
      RemoveDataFreeItem
  <2>11. CASE FeedConsumersAdd BY <2>11 DEF FeedConsumersAdd, AddDataFreeItem
  <2>12. CASE FeedConsumersNextLoop BY <2>12 DEF FeedConsumersNextLoop
  <2>13. CASE FeedConsumersUnlock BY <2>13 DEF FeedConsumersUnlock
  <2>14. CASE FeedConsumersHasNew BY <2>14 DEF FeedConsumersHasNew
  <2>15. CASE FeedConsumersPost BY <2>15 DEF FeedConsumersPost
  <2>16. CASE FeedConsumersReturn BY <2>16 DEF FeedConsumersReturn
  <2> QED BY <1>2, <2>1, <2>2, <2>3, <2>4, <2>5, <2>6, <2>7, <2>8, <2>9,
      <2>10, <2>11, <2>12, <2>13, <2>14, <2>15, <2>16 DEF Dispatcher,
          FeedConsumers
<1>3. ASSUME NEW c \in Consumers, Consumer(c) PROVE RightType'
  <2> USE DEF ConsumerStep
  <2>1. CASE ConsumerStart(c) BY <2>1 DEF ConsumerStart
  <2>2. CASE ConsumerWait(c) BY <2>2 DEF ConsumerWait
  <2>3. CASE ConsumerHasNew(c) BY <2>3 DEF ConsumerHasNew
  <2>4. CASE ConsumerLock(c) BY <2>4 DEF ConsumerLock
  <2>5. CASE ConsumerProcess(c) BY <2>5 DEF ConsumerProcess
  <2>6. CASE ConsumerRemoveLock(c) BY <2>6 DEF ConsumerRemoveLock
  <2>7. CASE ConsumerRemove(c) BY <2>7 DEF ConsumerRemove, RemoveDataFreeItem
  <2>8. CASE ConsumerDone(c) BY <2>8 DEF ConsumerDone
  <2> QED BY <1>3, <2>1, <2>2, <2>3, <2>4, <2>5, <2>6, <2>7, <2>8 DEF Consumer
<1>4. CASE AddConsumer BY <1>4 DEF AddConsumer
<1>5. CASE AddConsumerSpawn BY <1>5 DEF AddConsumerSpawn
<1>6. CASE UNCHANGED vars BY <1>6 DEF vars
<1> QED BY <1>1, <1>2, <1>3, <1>4, <1>5, <1>6 DEF Next

LEMMA NextStatsType ==
  ASSUME Base, StatsTypeOK, [StatsNext]_statsVars
  PROVE  StatsTypeOK'
<1> USE DEF StatsTypeOK, Counters
<1>1. ASSUME NEW f \in Feeders, FeedDispatcherStats(f) PROVE StatsTypeOK'
  BY <1>1 DEF FeedDispatcherStats
<1>2. CASE DispatcherStats
  BY <1>2 DEF DispatcherStats, FeedConsumersStats
<1>3. ASSUME NEW c \in Consumers, ConsumerStats(c) PROVE StatsTypeOK'
  BY <1>3 DEF ConsumerStats
<1> QED BY <1>1, <1>2, <1>3 DEF StatsNext, statsVars
-----------------------------------------------------------------------------
(* One lemma for each account, one step for each action that can disturb   *)
(* it.                                                                     *)

LEMMA NextDispatcherBalance ==
  ASSUME Base, StatsTypeOK, DispatcherBalance, [StatsNext]_statsVars
  PROVE  DispatcherBalance'
<1> USE StatsFacts DEF StatsTypeOK, Counters, DispatcherBalance, One
<1> USE DEF slotVars, walkVars, listVars, freeVars, consVars, fvars
<1>1. ASSUME NEW f \in Feeders, FeedDispatcherStats(f) PROVE DispatcherBalance'
  <2>1. ASSUME NEW d \in Data, FeedTrylock(f, d),
               dstats' = IF dmutex = "free"
                         THEN [dstats EXCEPT !.delivered = @ + 1] ELSE dstats
        PROVE  DispatcherBalance'
    BY <2>1 DEF FeedTrylock
  <2>2. CASE FeedFreeOld(f) /\ UNCHANGED dstats
    BY <2>2 DEF FeedFreeOld
  <2>3. CASE /\ FeedStore(f)
             /\ dstats' = IF dnew THEN [dstats EXCEPT !.updated = @ + 1] ELSE dstats
    BY <2>3 DEF FeedStore
  <2>4. CASE FeedDiscard(f) /\ dstats' = [dstats EXCEPT !.discarded = @ + 1]
    BY <2>4 DEF FeedDiscard
  <2> QED BY <1>1, <2>1, <2>2, <2>3, <2>4 DEF FeedDispatcherStats
<1>2. CASE DispatcherStats
  <2>1. CASE FeedConsumersStats
    <3>1. UNCHANGED dstats
      BY <2>1 DEF FeedConsumersStats
    <3>2. CASE FeedConsumersReturn
      BY <3>1, <3>2 DEF FeedConsumersReturn
    <3>3. CASE ~FeedConsumersReturn
      <4>1. UNCHANGED <<dmutex, dnew>>
        BY <2>1, <3>3
           DEF FeedConsumersStats, FeedConsumersSkip, FeedConsumersTrylock,
           FeedConsumersAdd, FeedConsumersLock, FeedConsumersRemoveLock,
           FeedConsumersRemove, FeedConsumersNextLoop, FeedConsumersUnlock,
           FeedConsumersHasNew, FeedConsumersPost
      <4> QED BY <3>1, <4>1
    <3> QED BY <3>2, <3>3
  <2>2. CASE DispatcherFinish /\ dstats' = [dstats EXCEPT !.consumed = @ + 1]
    BY <2>2 DEF DispatcherFinish
  <2>3. CASE /\ DispatcherStart \/ DispatcherWait \/ DispatcherFree
             /\ UNCHANGED dstats
    BY <2>3 DEF DispatcherStart, DispatcherWait, DispatcherFree
  <2>4. CASE DispatcherLock /\ UNCHANGED dstats
    <3>1. dnew
      BY <2>4 DEF DispatcherLock, Base, WakeInv, WakesForData
    <3> QED BY <2>4, <3>1 DEF DispatcherLock
  <2> QED BY <1>2, <2>1, <2>2, <2>3, <2>4 DEF DispatcherStats
<1>3. ASSUME NEW c \in Consumers, ConsumerStats(c) PROVE DispatcherBalance'
  <2>1. UNCHANGED <<dstats, dmutex, dnew>>
    BY <1>3
       DEF ConsumerStats, ConsumerStep, ConsumerProcess, ConsumerStart,
       ConsumerWait,
       ConsumerHasNew, ConsumerLock, ConsumerRemoveLock, ConsumerRemove,
          ConsumerDone
  <2> QED BY <2>1
<1>4. CASE (AddConsumer \/ AddConsumerSpawn) /\ UNCHANGED <<dstats, cstats>>
  BY <1>4 DEF AddConsumer, AddConsumerSpawn
<1>5. CASE UNCHANGED statsVars
  BY <1>5 DEF statsVars, vars
<1> QED BY <1>1, <1>2, <1>3, <1>4, <1>5 DEF StatsNext

(* A step that changes no counter of a consumer, nor the three facts about *)
(* it that its account mentions, keeps its account.                        *)
LEMMA SameAccount ==
  ASSUME ConsumerBalance, UNCHANGED <<cstats, cnew>>,
         \A c \in Consumers : (Giving(c)' <=> Giving(c))
            /\ (Counting(c)' <=> Counting(c))
  PROVE  ConsumerBalance'
BY DEF ConsumerBalance, One

LEMMA NextConsumerBalance ==
  ASSUME Base, StatsTypeOK, RightType, ConsumerBalance, [StatsNext]_statsVars
  PROVE  ConsumerBalance'
<1> USE StatsFacts
<1> USE DEF slotVars, walkVars, listVars, freeVars, consVars, fvars
<1>0. /\ cstats \in [Consumers -> Counters]
      /\ ConsumerBalance
  BY DEF StatsTypeOK
<1>1. ASSUME NEW f \in Feeders, FeedDispatcherStats(f) PROVE ConsumerBalance'
  <2>1. UNCHANGED <<cstats, cnew, dpc, pos, cpc>>
    BY <1>1
       DEF FeedDispatcherStats, FeedTrylock, FeedFreeOld, FeedStore,
       FeedDiscard
  <2> QED BY <2>1, SameAccount DEF Giving, Counting
<1>2. CASE FeedConsumersStats
  <2>1. CASE /\ FeedConsumersSkip
             /\ cstats' = IF Matches(pos, dslot)
                          THEN [cstats EXCEPT ![pos].delivered = @ + 1,
                                              ![pos].discarded = @ + 1]
                          ELSE cstats
    <3>1. UNCHANGED <<cnew, cpc>> /\ dpc = "deliver" /\ dpc' = "deliver"
      BY <2>1 DEF FeedConsumersSkip
    <3> QED BY <1>0, <2>1, <3>1
       DEF ConsumerBalance, Counters, Giving, Counting, One
  <2>2. CASE /\ FeedConsumersTrylock
             /\ cstats' = [cstats EXCEPT ![pos].delivered = @ + 1]
    <3>1. /\ UNCHANGED <<cnew, cpc, pos>>
          /\ dpc = "deliver" /\ dpc' \in {"remove_lock", "remove", "add"}
      BY <2>2 DEF FeedConsumersTrylock
    <3> QED BY <1>0, <2>2, <3>1
       DEF ConsumerBalance, Counters, Giving, Counting, One
  <2>3. CASE /\ FeedConsumersAdd
             /\ cstats' = IF cnew[pos] THEN [cstats EXCEPT ![pos].updated = @ + 1]
                                       ELSE cstats
    <3>1. /\ UNCHANGED cpc /\ cnew' = [cnew EXCEPT ![pos] = TRUE]
          /\ dpc = "add" /\ dpc' = "deliver"
      BY <2>3 DEF FeedConsumersAdd
    <3> QED BY <1>0, <2>3, <3>1
       DEF ConsumerBalance, Counters, Giving, Counting, One
  <2>4. CASE /\ \/ FeedConsumersLock \/ FeedConsumersRemoveLock \/ FeedConsumersRemove
                \/ FeedConsumersNextLoop \/ FeedConsumersUnlock \/ FeedConsumersHasNew
                \/ FeedConsumersPost \/ FeedConsumersReturn
             /\ UNCHANGED cstats
    <3>1. /\ UNCHANGED <<cnew, cpc>>
          /\ \A c \in Consumers : Giving(c)' <=> Giving(c)
      BY <2>4
         DEF FeedConsumersLock, FeedConsumersRemoveLock, FeedConsumersRemove,
         FeedConsumersNextLoop, FeedConsumersUnlock, FeedConsumersHasNew,
         FeedConsumersPost, FeedConsumersReturn, Giving
    <3> QED BY <2>4, <3>1, SameAccount DEF Counting
  <2> QED BY <1>2, <2>1, <2>2, <2>3, <2>4 DEF FeedConsumersStats
<1>3. CASE /\ \/ DispatcherFinish
              \/ DispatcherStart \/ DispatcherWait \/ DispatcherLock \/ DispatcherFree
           /\ UNCHANGED cstats
  <2>1. /\ UNCHANGED <<cnew, cpc>>
        /\ \A c \in Consumers : Giving(c)' <=> Giving(c)
    BY <1>3
       DEF DispatcherFinish, DispatcherStart, DispatcherWait, DispatcherLock,
                DispatcherFree, Giving
  <2> QED BY <1>3, <2>1, SameAccount DEF Counting
<1>4. ASSUME NEW c \in Consumers, ConsumerStats(c) PROVE ConsumerBalance'
  <2>0. UNCHANGED <<dpc, pos>>
    BY <1>4
       DEF ConsumerStats, ConsumerStep, ConsumerProcess, ConsumerStart,
       ConsumerWait,
       ConsumerHasNew, ConsumerLock, ConsumerRemoveLock, ConsumerRemove,
          ConsumerDone
  <2>1. CASE /\ ConsumerProcess(c)
             /\ cstats' = IF Matches(c, cslot[c])
                          THEN [cstats EXCEPT ![c].consumed = @ + 1] ELSE cstats
    <3>1. /\ cpc[c] = "process" /\ cpc' = [cpc EXCEPT ![c] = "remove_lock"]
          /\ UNCHANGED cnew
      BY <2>1 DEF ConsumerProcess, ConsumerStep
    <3>2. Matches(c, cslot[c])
      BY <3>1 DEF RightType, Handling
    <3> QED BY <1>0, <2>0, <2>1, <3>1, <3>2
            DEF ConsumerBalance, Counters, Giving, Counting, One
  <2>2. CASE ConsumerDone(c) /\ UNCHANGED cstats
    <3>1. /\ cpc[c] = "done" /\ cpc' = [cpc EXCEPT ![c] = "wait"]
          /\ cnew[c] /\ cnew' = [cnew EXCEPT ![c] = FALSE]
      BY <2>2 DEF ConsumerDone, ConsumerStep, Handling
    <3> QED BY <1>0, <2>0, <2>2, <3>1
            DEF ConsumerBalance, Counters, Giving, Counting, One
  <2>3. CASE /\ \/ ConsumerStart(c) \/ ConsumerWait(c) \/ ConsumerHasNew(c)
                \/ ConsumerLock(c) \/ ConsumerRemoveLock(c) \/ ConsumerRemove(c)
             /\ UNCHANGED cstats
    <3>1. UNCHANGED cnew
      BY <2>3 DEF ConsumerStep, ConsumerStart, ConsumerWait, ConsumerHasNew,
         ConsumerLock, ConsumerRemoveLock, ConsumerRemove
    <3>2. \A b \in Consumers : Counting(b)' <=> Counting(b)
      BY <2>3 DEF ConsumerStep, ConsumerStart, ConsumerWait, ConsumerHasNew,
         ConsumerLock, ConsumerRemoveLock, ConsumerRemove, Counting
    <3> QED BY <2>0, <2>3, <3>1, <3>2, SameAccount DEF Giving
  <2> QED BY <1>4, <2>1, <2>2, <2>3 DEF ConsumerStats
<1>5. CASE (AddConsumer \/ AddConsumerSpawn) /\ UNCHANGED <<dstats, cstats>>
  <2>1. UNCHANGED <<cnew, dpc, pos>>
    BY <1>5 DEF AddConsumer, AddConsumerSpawn
  <2>2. \A b \in Consumers : Counting(b)' <=> Counting(b)
    BY <1>5
       DEF AddConsumer, AddConsumerSpawn, Counting, Base, TypeInv, Positions
  <2> QED BY <1>5, <2>1, <2>2, SameAccount DEF Giving
<1>6. CASE UNCHANGED statsVars
  <2>1. UNCHANGED <<cstats, cnew, dpc, pos, cpc>>
    BY <1>6 DEF statsVars, vars
  <2> QED BY <2>1, SameAccount DEF Giving, Counting
<1> QED BY <1>1, <1>2, <1>3, <1>4, <1>5, <1>6 DEF StatsNext, DispatcherStats

LEMMA NextOfferBound ==
  ASSUME Base, StatsTypeOK, OfferBound, [StatsNext]_statsVars
  PROVE  OfferBound'
<1> USE StatsFacts
<1> USE DEF slotVars, walkVars, listVars, freeVars, consVars, fvars
<1>0. /\ cstats \in [Consumers -> Counters] /\ dstats \in Counters
      /\ OfferBound
  BY DEF StatsTypeOK
<1>a. \A c \in Consumers : cstats[c].delivered \in Nat
   /\ dstats.consumed \in Nat
  BY <1>0 DEF Counters
(* Enough when nothing is delivered to a consumer.                         *)
<1>b. ASSUME \A c \in Consumers : cstats'[c].delivered = cstats[c].delivered,
             dstats'.consumed = dstats.consumed,
             \A c \in Consumers : Passed(c) => Passed(c)'
      PROVE  OfferBound'
  BY <1>0, <1>a, <1>b DEF OfferBound, One
<1>1. ASSUME NEW f \in Feeders, FeedDispatcherStats(f) PROVE OfferBound'
  <2>1. UNCHANGED <<cstats, dpc, pos>>
    BY <1>1
       DEF FeedDispatcherStats, FeedTrylock, FeedFreeOld, FeedStore,
       FeedDiscard
  <2>2. dstats'.consumed = dstats.consumed
    BY <1>0, <1>1 DEF FeedDispatcherStats, Counters
  <2> QED BY <1>b, <2>1, <2>2 DEF Passed, Waking
<1>2. CASE FeedConsumersStats
  <2>0. dstats' = dstats
    BY <1>2 DEF FeedConsumersStats
  <2>1. CASE /\ FeedConsumersSkip
             /\ cstats' = IF Matches(pos, dslot)
                          THEN [cstats EXCEPT ![pos].delivered = @ + 1,
                                              ![pos].discarded = @ + 1]
                          ELSE cstats
    <3>1. dpc = "deliver" /\ dpc' = "deliver" /\ pos' = pos + 1
      BY <2>1 DEF FeedConsumersSkip
    <3>2. \A c \in Consumers :
            cstats'[c].delivered <= cstats[c].delivered + One(c = pos)
      BY <1>0, <2>1 DEF Counters, One
    <3>3. \A c \in Consumers : cstats'[c].delivered \in Nat
      BY <1>0, <2>1 DEF Counters
    <3>4. \A c \in Consumers : /\ Passed(c) <=> c < pos
                               /\ Passed(c)' <=> c <= pos
      BY <3>1 DEF Passed, Waking
    <3> QED BY <1>0, <1>a, <2>0, <3>2, <3>3, <3>4 DEF OfferBound, One
  <2>2. CASE /\ FeedConsumersTrylock
             /\ cstats' = [cstats EXCEPT ![pos].delivered = @ + 1]
    <3>1. dpc = "deliver" /\ dpc' \in {"remove_lock", "add"} /\ pos' = pos
      BY <2>2 DEF FeedConsumersTrylock
    <3>2. \A c \in Consumers :
            cstats'[c].delivered <= cstats[c].delivered + One(c = pos)
      BY <1>0, <2>2 DEF Counters, One
    <3>3. \A c \in Consumers : cstats'[c].delivered \in Nat
      BY <1>0, <2>2 DEF Counters
    <3>4. \A c \in Consumers : /\ Passed(c) <=> c < pos
                               /\ Passed(c)' <=> c <= pos
      BY <3>1 DEF Passed, Waking
    <3> QED BY <1>0, <1>a, <2>0, <3>2, <3>3, <3>4 DEF OfferBound, One
  <2>3. CASE /\ FeedConsumersAdd
             /\ cstats' = IF cnew[pos] THEN [cstats EXCEPT ![pos].updated = @ + 1]
                                       ELSE cstats
    <3>1. dpc = "add" /\ dpc' = "deliver" /\ pos' = pos + 1
      BY <2>3 DEF FeedConsumersAdd
    <3>2. \A c \in Consumers : cstats'[c].delivered = cstats[c].delivered
      BY <1>0, <2>3 DEF Counters
    <3>3. \A c \in Consumers : Passed(c) => Passed(c)'
      BY <3>1 DEF Passed, Waking
    <3> QED BY <1>b, <2>0, <3>2, <3>3
  <2>4. CASE /\ \/ FeedConsumersLock \/ FeedConsumersRemoveLock \/ FeedConsumersRemove
                \/ FeedConsumersNextLoop \/ FeedConsumersUnlock \/ FeedConsumersHasNew
                \/ FeedConsumersPost \/ FeedConsumersReturn
             /\ UNCHANGED cstats
    <3>1. \A c \in Consumers : Passed(c) => Passed(c)'
      BY <2>4
         DEF FeedConsumersLock, FeedConsumersRemoveLock, FeedConsumersRemove,
         FeedConsumersNextLoop, FeedConsumersUnlock, FeedConsumersHasNew,
         FeedConsumersPost, FeedConsumersReturn, Passed, Waking
    <3> QED BY <1>b, <2>0, <2>4, <3>1
  <2> QED BY <1>2, <2>1, <2>2, <2>3, <2>4 DEF FeedConsumersStats
<1>3. CASE /\ DispatcherFinish
           /\ dstats' = [dstats EXCEPT !.consumed = @ + 1]
           /\ UNCHANGED cstats
  <2>1. dstats'.consumed = dstats.consumed + 1
    BY <1>0, <1>3 DEF Counters
  <2>2. \A c \in Consumers : cstats'[c].delivered = cstats[c].delivered
    BY <1>3
  <2> QED BY <1>0, <1>a, <2>1, <2>2 DEF OfferBound, One
<1>4. CASE /\ \/ DispatcherStart \/ DispatcherWait \/ DispatcherLock
              \/ DispatcherFree
           /\ UNCHANGED <<dstats, cstats>>
  <2>1. \A c \in Consumers : Passed(c) => Passed(c)'
    BY <1>4
       DEF DispatcherStart, DispatcherWait, DispatcherLock, DispatcherFree,
                Passed, Waking
  <2> QED BY <1>b, <1>4, <2>1
<1>5. ASSUME NEW c \in Consumers, ConsumerStats(c) PROVE OfferBound'
  <2>1. UNCHANGED <<dpc, pos, dstats>>
    BY <1>5
       DEF ConsumerStats, ConsumerStep, ConsumerProcess, ConsumerStart,
       ConsumerWait,
       ConsumerHasNew, ConsumerLock, ConsumerRemoveLock, ConsumerRemove,
          ConsumerDone
  <2>2. \A b \in Consumers : cstats'[b].delivered = cstats[b].delivered
    BY <1>0, <1>5 DEF ConsumerStats, Counters
  <2> QED BY <1>b, <2>1, <2>2 DEF Passed, Waking
<1>6. CASE (AddConsumer \/ AddConsumerSpawn) /\ UNCHANGED <<dstats, cstats>>
  <2>1. UNCHANGED <<dpc, pos>>
    BY <1>6 DEF AddConsumer, AddConsumerSpawn
  <2> QED BY <1>b, <1>6, <2>1 DEF Passed, Waking
<1>7. CASE UNCHANGED statsVars
  <2>1. UNCHANGED <<cstats, dstats, dpc, pos>>
    BY <1>7 DEF statsVars, vars
  <2> QED BY <1>b, <2>1 DEF Passed, Waking
<1> QED BY <1>1, <1>2, <1>3, <1>4, <1>5, <1>6, <1>7
   DEF StatsNext, DispatcherStats

LEMMA StatsSpecInv == StatsSpec => [](Base /\ StatsInv)
<1>1. StatsInit => Base /\ StatsInv
  BY InitBase, InitStats DEF StatsInit
<1>2. Base /\ StatsInv /\ [StatsNext]_statsVars => Base' /\ StatsInv'
  BY StatsNextIsNext, NextBase, NextStatsType, NextDispatcherBalance,
     NextRightType,
     NextConsumerBalance, NextOfferBound DEF StatsInv
<1> QED BY <1>1, <1>2, PTL DEF StatsSpec
-----------------------------------------------------------------------------
(* Every datum that entered the dispatcher's mailbox was overwritten,      *)
(* dispatched or is still in it.                                           *)
THEOREM DispatcherAddsUp == StatsSpec => []DispatcherAccounts
<1>1. StatsInv => DispatcherAccounts
  <2> SUFFICES ASSUME StatsInv, dmutex = "free"
               PROVE  dstats.delivered = dstats.updated + dstats.consumed + One(dnew)
    BY DEF DispatcherAccounts
  <2>1. dstats \in Counters /\ One(dmutex = "feeder") = 0 /\ One(dnew) \in Nat
    BY DEF StatsInv, StatsTypeOK, One
  <2> QED BY <2>1 DEF StatsInv, DispatcherBalance, Counters
<1> QED BY StatsSpecInv, <1>1, PTL

(* The same for every consumer whose mutex is free.                        *)
THEOREM ConsumersAddUp == StatsSpec => []ConsumerAccounts
<1>1. Base /\ StatsInv => ConsumerAccounts
  <2> SUFFICES ASSUME Base, StatsInv, NEW c \in Consumers, cmutex[c] = "free"
               PROVE  cstats[c].delivered = cstats[c].discarded + cstats[c].updated
                                            + cstats[c].consumed + One(cnew[c])
    BY DEF ConsumerAccounts
  <2>1. ~Handling(c) /\ ~need[c]
    BY DEF Base, LockInv, MutexOwners, ConsumerMutex
  <2>2. One(Counting(c)) = 0 /\ One(Giving(c)) = 0
    BY <2>1, StatsFacts DEF Counting, Giving, Handling, One
  <2>3. cstats[c] \in Counters /\ One(cnew[c]) \in Nat
    BY DEF StatsInv, StatsTypeOK, One
  <2> QED BY <2>2, <2>3 DEF StatsInv, ConsumerBalance, Counters
<1> QED BY StatsSpecInv, <1>1, PTL

(* No consumer is offered a datum twice in one round of the dispatcher.    *)
THEOREM OfferedOnce == StatsSpec => []OfferedAtMostOnce
<1>1. Base /\ StatsInv => OfferedAtMostOnce
  <2> SUFFICES ASSUME Base, StatsInv, NEW c \in Consumers
               PROVE  cstats[c].delivered
                      <= dstats.consumed + One(dmutex = "dispatcher")
    BY DEF OfferedAtMostOnce
  <2>1. Passed(c) => dmutex = "dispatcher"
    BY StatsFacts DEF Passed, Waking
  <2>2. cstats[c].delivered \in Nat /\ dstats.consumed \in Nat
    BY DEF StatsInv, StatsTypeOK, Counters
  <2> QED BY <2>1, <2>2 DEF StatsInv, OfferBound, One
<1> QED BY StatsSpecInv, <1>1, PTL
=============================================================================
