------------------------------ MODULE PcaStats ------------------------------
(***************************************************************************)
(* The statistics that pca_feed_dispatcher, pca_feed_consumers and the two *)
(* thread functions keep, added to the actions of Pca that update them.    *)
(* Counters grow for ever in the code; here at most MaxFeeds data are fed. *)
(* total_discarded of the dispatcher is updated without a mutex, so the    *)
(* counters are only right with one feeder thread.                         *)
(***************************************************************************)
EXTENDS Pca

CONSTANT MaxFeeds

ASSUME StatsAssumption == MaxFeeds \in Nat /\ \A f, g \in Feeders : f = g

VARIABLES dstats, cstats

statsVars == <<vars, dstats, cstats>>

(* pca_data_statistics_t.                                                  *)
ZeroStats == [delivered |-> 0, discarded |-> 0, updated |-> 0, consumed |-> 0]

StatsInit == /\ Init
             /\ dstats = ZeroStats
             /\ cstats = [c \in Consumers |-> ZeroStats]

(* Mutants: an update not counted, and a datum that no consumer took not   *)
(* counted as consumed.                                                    *)
Slip_UpdateNotCounted ==
  /\ \/ /\ FeedConsumersSkip
        /\ cstats' = IF Matches(pos, dslot)
                     THEN [cstats EXCEPT ![pos].delivered = @ + 1,
                                         ![pos].discarded = @ + 1]
                     ELSE cstats
     \/ /\ FeedConsumersTrylock
        /\ cstats' = [cstats EXCEPT ![pos].delivered = @ + 1]
     \/ /\ \/ FeedConsumersLock \/ FeedConsumersRemoveLock \/ FeedConsumersRemove
           \/ FeedConsumersNextLoop \/ FeedConsumersUnlock \/ FeedConsumersHasNew
           \/ FeedConsumersPost \/ FeedConsumersReturn \/ FeedConsumersAdd
        /\ UNCHANGED cstats
  /\ UNCHANGED dstats

Slip_UnacceptedNotCounted ==
  \/ FeedConsumers /\ UNCHANGED <<dstats, cstats>>
  \/ /\ DispatcherFinish
     /\ dstats' = IF accepted THEN [dstats EXCEPT !.consumed = @ + 1] ELSE dstats
     /\ UNCHANGED cstats
  \/ /\ DispatcherStart \/ DispatcherWait \/ DispatcherLock \/ DispatcherFree
     /\ UNCHANGED <<dstats, cstats>>

FeedDispatcherStats(f) ==
  /\ \/ /\ dstats.delivered + dstats.discarded < MaxFeeds
        /\ \E d \in Data : FeedTrylock(f, d)
        /\ dstats' = IF dmutex = "free"
                     THEN [dstats EXCEPT !.delivered = @ + 1] ELSE dstats
     \/ FeedFreeOld(f) /\ UNCHANGED dstats
     \/ FeedStore(f) /\ dstats' = IF dnew THEN [dstats EXCEPT !.updated = @ + 1]
                                          ELSE dstats
     \/ FeedDiscard(f) /\ dstats' = [dstats EXCEPT !.discarded = @ + 1]
  /\ UNCHANGED cstats

FeedConsumersStats ==
  /\ \/ /\ FeedConsumersSkip
        /\ cstats' = IF Matches(pos, dslot)
                     THEN [cstats EXCEPT ![pos].delivered = @ + 1,
                                         ![pos].discarded = @ + 1]
                     ELSE cstats
     \/ /\ FeedConsumersTrylock
        /\ cstats' = [cstats EXCEPT ![pos].delivered = @ + 1]
     \/ /\ FeedConsumersAdd
        /\ cstats' = IF cnew[pos] THEN [cstats EXCEPT ![pos].updated = @ + 1]
                                  ELSE cstats
     \/ /\ \/ FeedConsumersLock \/ FeedConsumersRemoveLock \/ FeedConsumersRemove
           \/ FeedConsumersNextLoop \/ FeedConsumersUnlock \/ FeedConsumersHasNew
           \/ FeedConsumersPost \/ FeedConsumersReturn
        /\ UNCHANGED cstats
  /\ UNCHANGED dstats

DispatcherStats ==
  \/ FeedConsumersStats
  \/ /\ DispatcherFinish
     /\ dstats' = [dstats EXCEPT !.consumed = @ + 1]
     /\ UNCHANGED cstats
  \/ /\ DispatcherStart \/ DispatcherWait \/ DispatcherLock \/ DispatcherFree
     /\ UNCHANGED <<dstats, cstats>>

ConsumerStats(c) ==
  /\ \/ /\ ConsumerProcess(c)
        /\ cstats' = IF Matches(c, cslot[c])
                     THEN [cstats EXCEPT ![c].consumed = @ + 1] ELSE cstats
     \/ /\ \/ ConsumerStart(c) \/ ConsumerWait(c) \/ ConsumerHasNew(c)
           \/ ConsumerLock(c) \/ ConsumerRemoveLock(c) \/ ConsumerRemove(c)
           \/ ConsumerDone(c)
        /\ UNCHANGED cstats
  /\ UNCHANGED dstats

StatsNext ==
  \/ \E f \in Feeders : FeedDispatcherStats(f)
  \/ DispatcherStats
  \/ \E c \in Consumers : ConsumerStats(c)
  \/ (AddConsumer \/ AddConsumerSpawn) /\ UNCHANGED <<dstats, cstats>>

StatsSpec == StatsInit /\ [][StatsNext]_statsVars

-----------------------------------------------------------------------------
One(b) == IF b THEN 1 ELSE 0

(* Whenever nobody is in the dispatcher's critical section, every datum    *)
(* that entered its mailbox was overwritten, dispatched, or is still in    *)
(* it: none is counted twice or lost.                                      *)
DispatcherAccounts ==
  dmutex = "free" =>
    dstats.delivered = dstats.updated + dstats.consumed + One(dnew)

(* The same for each consumer whose mutex is free; what it was offered     *)
(* while busy is also counted as delivered there.                          *)
ConsumerAccounts ==
  \A c \in Consumers : cmutex[c] = "free" =>
    cstats[c].delivered = cstats[c].discarded + cstats[c].updated
                          + cstats[c].consumed + One(cnew[c])

(* A consumer is offered a datum at most once for each time the dispatcher *)
(* has dispatched or is dispatching one.                                   *)
OfferedAtMostOnce ==
  \A c \in Consumers :
    cstats[c].delivered <= dstats.consumed + One(dmutex = "dispatcher")
=============================================================================
