----------------------------- MODULE PcaProofs -----------------------------
(***************************************************************************)
(* Proofs about Pca for every number of consumers, data and feeders.       *)
(***************************************************************************)
EXTENDS Pca, TLAPS

(* The dispatcher's position is an entry of the list whenever it uses it;  *)
(* a consumer that has a thread or a datum is in the list, and the one     *)
(* whose thread is about to be created has none.                           *)
Positions ==
  /\ dpc \in {"remove_lock", "remove", "add", "has_new", "post"} => pos <= len
  /\ apc = "spawn" => len > 0 /\ cpc[len] = "none"
  /\ \A c \in Consumers : cnew[c] \/ cpc[c] # "none" => c <= len

TypeInv == TypeOK /\ Positions

LEMMA InitTypeInv == Init => TypeInv
<1> SUFFICES ASSUME Init PROVE TypeInv
  OBVIOUS
<1>1. TypeOK
  <2> USE PcaAssumption DEF PcaAssumption, Init, Consumers
  <2>1. /\ dslot \in Data /\ dpc \in DispatcherPc /\ pos \in 1 .. N + 1
        /\ len \in 0 .. N /\ refs \in [Data -> Nat]
    BY DEF DispatcherPc
  <2>2. /\ cmutex \in [Consumers -> {"free", "dispatcher", "consumer"}]
        /\ need \in [Consumers -> BOOLEAN] /\ cnew \in [Consumers -> BOOLEAN]
        /\ cslot \in [Consumers -> Data] /\ csem \in [Consumers -> {0, 1}]
        /\ cpc \in [Consumers -> ConsumerPc]
    BY DEF ConsumerPc
  <2>3. fpc \in [Feeders -> FeederPc] /\ fdata \in [Feeders -> Data]
    BY DEF FeederPc
  <2> QED BY <2>1, <2>2, <2>3 DEF TypeOK
<1>2. \A c \in Consumers : ~cnew[c] /\ cpc[c] = "none"
  BY DEF Init
<1> QED BY <1>1, <1>2 DEF TypeInv, Positions, Init

LEMMA RemoveType ==
  ASSUME refs \in [Data -> Nat], owned \in SUBSET Data,
         NEW d \in Data, RemoveDataFreeItem(d)
  PROVE  refs' \in [Data -> Nat] /\ owned' \in SUBSET Data
BY DEF RemoveDataFreeItem

LEMMA NextTypeOK == TypeInv /\ [Next]_vars => TypeOK'
<1> SUFFICES ASSUME TypeInv, [Next]_vars PROVE TypeOK'
  OBVIOUS
<1>0. /\ TypeOK /\ N \in Nat
      /\ dpc \in {"remove_lock", "remove", "add", "has_new", "post"} => pos <= len
      /\ apc = "spawn" => len > 0
  BY PcaAssumption DEF PcaAssumption, TypeInv, Positions
<1> USE <1>0 DEF TypeOK, Consumers, DispatcherPc, ConsumerPc, FeederPc
<1> USE DEF slotVars, walkVars, listVars, freeVars, consVars, fvars
<1>1. ASSUME NEW f \in Feeders, Feed(f) PROVE TypeOK'
  <2>1. ASSUME NEW d \in Data, FeedTrylock(f, d) PROVE TypeOK'
    <3>1. /\ owned' \in SUBSET Data /\ dmutex' \in {"free", "feeder", "dispatcher"}
          /\ fdata' \in [Feeders -> Data] /\ fpc' \in [Feeders -> FeederPc]
      BY <2>1 DEF FeedTrylock
    <3>2. UNCHANGED <<running, slotVars, dpc, walkVars, listVars, freeVars, consVars>>
      BY <2>1 DEF FeedTrylock
    <3> QED BY <3>1, <3>2
  <2>2. CASE FeedFreeOld(f) BY <2>2 DEF FeedFreeOld, DataFree
  <2>3. CASE FeedStore(f) BY <2>3 DEF FeedStore
  <2>4. CASE FeedDiscard(f) BY <2>4 DEF FeedDiscard, DataFree
  <2> QED BY <1>1, <2>1, <2>2, <2>3, <2>4 DEF Feed
<1>2. CASE Dispatcher
  <2>1. CASE DispatcherStart BY <2>1 DEF DispatcherStart
  <2>2. CASE DispatcherWait BY <2>2 DEF DispatcherWait
  <2>3. CASE DispatcherLock BY <2>3 DEF DispatcherLock
  <2>4. CASE DispatcherFree BY <2>4 DEF DispatcherFree, DataFree
  <2>5. CASE DispatcherFinish BY <2>5 DEF DispatcherFinish
  <2>6. CASE FeedConsumersLock 
    <3>1. pos' \in 1 .. N + 1 /\ accepted' = FALSE /\ listMutex' = "dispatcher"
          /\ dpc' = "deliver"
      BY <2>6 DEF FeedConsumersLock
    <3>2. UNCHANGED <<running, dmutex, slotVars, len, apc, need, freeVars, consVars,
                      fvars, owned>>
      BY <2>6 DEF FeedConsumersLock
    <3> QED BY <3>1, <3>2
  <2>7. CASE FeedConsumersSkip BY <2>7 DEF FeedConsumersSkip
  <2>8. CASE FeedConsumersTrylock BY <2>8 DEF FeedConsumersTrylock
  <2>9. CASE FeedConsumersRemoveLock BY <2>9 DEF FeedConsumersRemoveLock
  <2>10. CASE FeedConsumersRemove BY <2>10 DEF FeedConsumersRemove,
      RemoveDataFreeItem
  <2>11. CASE FeedConsumersAdd BY <2>11 DEF FeedConsumersAdd, AddDataFreeItem
  <2>12. CASE FeedConsumersNextLoop BY <2>12 DEF FeedConsumersNextLoop
  <2>13. CASE FeedConsumersUnlock BY <2>13 DEF FeedConsumersUnlock
  <2>14. CASE FeedConsumersHasNew BY <2>14 DEF FeedConsumersHasNew
  <2>15. CASE FeedConsumersPost BY <2>15 DEF FeedConsumersPost
  <2>16. CASE FeedConsumersReturn BY <2>16 DEF FeedConsumersReturn
  <2> QED BY <1>2, <2>1, <2>2, <2>3, <2>4, <2>5, <2>6, <2>7, <2>8, <2>9,
      <2>10, <2>11, <2>12, <2>13, <2>14, <2>15, <2>16 DEF Dispatcher,
          FeedConsumers
<1>3. ASSUME NEW c \in Consumers, Consumer(c) PROVE TypeOK'
  <2> USE DEF ConsumerStep
  <2>1. CASE ConsumerStart(c) BY <2>1 DEF ConsumerStart
  <2>2. CASE ConsumerWait(c) BY <2>2 DEF ConsumerWait
  <2>3. CASE ConsumerHasNew(c) BY <2>3 DEF ConsumerHasNew
  <2>4. CASE ConsumerLock(c) BY <2>4 DEF ConsumerLock
  <2>5. CASE ConsumerProcess(c) BY <2>5 DEF ConsumerProcess
  <2>6. CASE ConsumerRemoveLock(c) BY <2>6 DEF ConsumerRemoveLock
  <2>7. CASE ConsumerRemove(c) 
    <3>1. refs' \in [Data -> Nat] /\ owned' \in SUBSET Data
      <4>1. RemoveDataFreeItem(cslot[c]) /\ cslot[c] \in Data BY <2>7 DEF ConsumerRemove
      <4>2. refs \in [Data -> Nat] /\ owned \in SUBSET Data OBVIOUS
      <4> QED BY <4>1, <4>2, RemoveType
    <3>2. freeMutex' = "free" /\ cpc' \in [Consumers -> ConsumerPc]
      BY <2>7 DEF ConsumerRemove
    <3>3. UNCHANGED <<running, dmutex, slotVars, dpc, walkVars, listVars, cslot,
                      fvars, cmutex, cnew, csem>>
      BY <2>7 DEF ConsumerRemove
    <3> QED BY <3>1, <3>2, <3>3
  <2>8. CASE ConsumerDone(c) BY <2>8 DEF ConsumerDone
  <2> QED BY <1>3, <2>1, <2>2, <2>3, <2>4, <2>5, <2>6, <2>7, <2>8 DEF Consumer
<1>4. CASE AddConsumer BY <1>4 DEF AddConsumer
<1>5. CASE AddConsumerSpawn BY <1>5 DEF AddConsumerSpawn
<1>6. CASE UNCHANGED vars BY <1>6 DEF vars
<1> QED BY <1>1, <1>2, <1>3, <1>4, <1>5, <1>6 DEF Next

LEMMA NextPositions == TypeInv /\ [Next]_vars => Positions'
<1> SUFFICES ASSUME TypeInv, [Next]_vars PROVE Positions'
  OBVIOUS
<1>0. /\ Positions
      /\ len \in Nat /\ pos \in Nat /\ N \in Nat
      /\ cpc \in [Consumers -> ConsumerPc] /\ cnew \in [Consumers -> BOOLEAN]
  BY PcaAssumption DEF PcaAssumption, TypeInv, TypeOK
<1> USE <1>0 DEF Positions
<1> USE DEF slotVars, walkVars, listVars, freeVars, consVars, fvars
<1>1. ASSUME NEW f \in Feeders, Feed(f) PROVE Positions'
  <2>1. ASSUME NEW d \in Data, FeedTrylock(f, d) PROVE Positions'
    BY <2>1 DEF FeedTrylock
  <2>2. CASE FeedFreeOld(f) BY <2>2 DEF FeedFreeOld, DataFree
  <2>3. CASE FeedStore(f) BY <2>3 DEF FeedStore
  <2>4. CASE FeedDiscard(f) BY <2>4 DEF FeedDiscard, DataFree
  <2> QED BY <1>1, <2>1, <2>2, <2>3, <2>4 DEF Feed
<1>2. CASE Dispatcher
  <2>1. CASE DispatcherStart BY <2>1 DEF DispatcherStart
  <2>2. CASE DispatcherWait BY <2>2 DEF DispatcherWait
  <2>3. CASE DispatcherLock BY <2>3 DEF DispatcherLock
  <2>4. CASE DispatcherFree BY <2>4 DEF DispatcherFree, DataFree
  <2>5. CASE DispatcherFinish BY <2>5 DEF DispatcherFinish
  <2>6. CASE FeedConsumersLock BY <2>6 DEF FeedConsumersLock
  <2>7. CASE FeedConsumersSkip BY <2>7 DEF FeedConsumersSkip
  <2>8. CASE FeedConsumersTrylock BY <2>8 DEF FeedConsumersTrylock
  <2>9. CASE FeedConsumersRemoveLock BY <2>9 DEF FeedConsumersRemoveLock
  <2>10. CASE FeedConsumersRemove BY <2>10 DEF FeedConsumersRemove,
      RemoveDataFreeItem
  <2>11. CASE FeedConsumersAdd BY <2>11 DEF FeedConsumersAdd, AddDataFreeItem,
      TypeInv, TypeOK
  <2>12. CASE FeedConsumersNextLoop BY <2>12 DEF FeedConsumersNextLoop
  <2>13. CASE FeedConsumersUnlock BY <2>13 DEF FeedConsumersUnlock
  <2>14. CASE FeedConsumersHasNew BY <2>14 DEF FeedConsumersHasNew
  <2>15. CASE FeedConsumersPost BY <2>15 DEF FeedConsumersPost
  <2>16. CASE FeedConsumersReturn BY <2>16 DEF FeedConsumersReturn
  <2> QED BY <1>2, <2>1, <2>2, <2>3, <2>4, <2>5, <2>6, <2>7, <2>8, <2>9,
      <2>10, <2>11, <2>12, <2>13, <2>14, <2>15, <2>16 DEF Dispatcher,
          FeedConsumers
<1>3. ASSUME NEW c \in Consumers, Consumer(c) PROVE Positions'
  <2> USE DEF ConsumerStep
  <2>1. CASE ConsumerStart(c) BY <2>1 DEF ConsumerStart
  <2>2. CASE ConsumerWait(c) BY <2>2 DEF ConsumerWait
  <2>3. CASE ConsumerHasNew(c) BY <2>3 DEF ConsumerHasNew
  <2>4. CASE ConsumerLock(c) BY <2>4 DEF ConsumerLock
  <2>5. CASE ConsumerProcess(c) BY <2>5 DEF ConsumerProcess
  <2>6. CASE ConsumerRemoveLock(c) BY <2>6 DEF ConsumerRemoveLock
  <2>7. CASE ConsumerRemove(c) BY <2>7 DEF ConsumerRemove, RemoveDataFreeItem
  <2>8. CASE ConsumerDone(c) BY <2>8 DEF ConsumerDone
  <2> QED BY <1>3, <2>1, <2>2, <2>3, <2>4, <2>5, <2>6, <2>7, <2>8 DEF Consumer
<1>4. CASE AddConsumer BY <1>4 DEF AddConsumer, Consumers
<1>5. CASE AddConsumerSpawn BY <1>5 DEF AddConsumerSpawn, Consumers, TypeInv,
    TypeOK
<1>6. CASE UNCHANGED vars BY <1>6 DEF vars
<1> QED BY <1>1, <1>2, <1>3, <1>4, <1>5, <1>6 DEF Next

LEMMA NextTypeInv == TypeInv /\ [Next]_vars => TypeInv'
BY NextTypeOK, NextPositions DEF TypeInv

(* Every variable stays in its range, and both kinds of semaphore stay     *)
(* binary, for every number of consumers and feeders.                      *)
THEOREM TypeCorrect == Spec => []TypeOK
<1>1. TypeInv => TypeOK BY DEF TypeInv
<1> QED BY InitTypeInv, NextTypeInv, <1>1, PTL DEF Spec
-----------------------------------------------------------------------------
(* Mutual exclusion.                                                       *)

(* Which consumers' mutexes the dispatcher may still have to unlock: those *)
(* it has passed in its first loop, those ahead of it in its second.       *)
NeedRange ==
  /\ dpc \in {"remove_lock", "remove", "add"} => pos \in Consumers /\ need[pos]
  /\ \A c \in Consumers :
       need[c] =>
         /\ c <= len
         /\ \/ dpc = "deliver" /\ c < pos
            \/ dpc \in {"remove_lock", "remove", "add"} /\ c <= pos
            \/ dpc = "unlock" /\ pos <= c
            \/ dpc \in {"has_new", "post"} /\ pos < c

LockInv == MutexOwners /\ NeedRange

LEMMA NextDispatcherMutex == TypeInv /\ LockInv /\ [Next]_vars => DispatcherMutex'
<1> SUFFICES ASSUME TypeInv, LockInv, [Next]_vars PROVE DispatcherMutex'
  OBVIOUS
<1>0. DispatcherMutex /\ fpc \in [Feeders -> FeederPc]
  BY DEF LockInv, MutexOwners, TypeInv, TypeOK
<1> USE <1>0 DEF DispatcherMutex
<1> USE DEF slotVars, walkVars, listVars, freeVars, consVars, fvars
<1>1. ASSUME NEW f \in Feeders, Feed(f) PROVE DispatcherMutex'
  <2>1. ASSUME NEW d \in Data, FeedTrylock(f, d) PROVE DispatcherMutex'
    BY <2>1 DEF FeedTrylock
  <2>2. CASE FeedFreeOld(f) BY <2>2 DEF FeedFreeOld, DataFree
  <2>3. CASE FeedStore(f) BY <2>3 DEF FeedStore
  <2>4. CASE FeedDiscard(f) BY <2>4 DEF FeedDiscard, DataFree
  <2> QED BY <1>1, <2>1, <2>2, <2>3, <2>4 DEF Feed
<1>2. CASE Dispatcher
  <2>1. CASE DispatcherStart BY <2>1 DEF DispatcherStart
  <2>2. CASE DispatcherWait BY <2>2 DEF DispatcherWait
  <2>3. CASE DispatcherLock BY <2>3 DEF DispatcherLock
  <2>4. CASE DispatcherFree BY <2>4 DEF DispatcherFree, DataFree
  <2>5. CASE DispatcherFinish BY <2>5 DEF DispatcherFinish
  <2>6. CASE FeedConsumersLock BY <2>6 DEF FeedConsumersLock
  <2>7. CASE FeedConsumersSkip BY <2>7 DEF FeedConsumersSkip
  <2>8. CASE FeedConsumersTrylock BY <2>8 DEF FeedConsumersTrylock
  <2>9. CASE FeedConsumersRemoveLock BY <2>9 DEF FeedConsumersRemoveLock
  <2>10. CASE FeedConsumersRemove BY <2>10 DEF FeedConsumersRemove,
      RemoveDataFreeItem
  <2>11. CASE FeedConsumersAdd BY <2>11 DEF FeedConsumersAdd, AddDataFreeItem
  <2>12. CASE FeedConsumersNextLoop BY <2>12 DEF FeedConsumersNextLoop
  <2>13. CASE FeedConsumersUnlock BY <2>13 DEF FeedConsumersUnlock
  <2>14. CASE FeedConsumersHasNew BY <2>14 DEF FeedConsumersHasNew
  <2>15. CASE FeedConsumersPost BY <2>15 DEF FeedConsumersPost
  <2>16. CASE FeedConsumersReturn BY <2>16 DEF FeedConsumersReturn
  <2> QED BY <1>2, <2>1, <2>2, <2>3, <2>4, <2>5, <2>6, <2>7, <2>8, <2>9,
      <2>10, <2>11, <2>12, <2>13, <2>14, <2>15, <2>16 DEF Dispatcher,
          FeedConsumers
<1>3. ASSUME NEW c \in Consumers, Consumer(c) PROVE DispatcherMutex'
  <2> USE DEF ConsumerStep
  <2>1. CASE ConsumerStart(c) BY <2>1 DEF ConsumerStart
  <2>2. CASE ConsumerWait(c) BY <2>2 DEF ConsumerWait
  <2>3. CASE ConsumerHasNew(c) BY <2>3 DEF ConsumerHasNew
  <2>4. CASE ConsumerLock(c) BY <2>4 DEF ConsumerLock
  <2>5. CASE ConsumerProcess(c) BY <2>5 DEF ConsumerProcess
  <2>6. CASE ConsumerRemoveLock(c) BY <2>6 DEF ConsumerRemoveLock
  <2>7. CASE ConsumerRemove(c) BY <2>7 DEF ConsumerRemove, RemoveDataFreeItem
  <2>8. CASE ConsumerDone(c) BY <2>8 DEF ConsumerDone
  <2> QED BY <1>3, <2>1, <2>2, <2>3, <2>4, <2>5, <2>6, <2>7, <2>8 DEF Consumer
<1>4. CASE AddConsumer BY <1>4 DEF AddConsumer
<1>5. CASE AddConsumerSpawn BY <1>5 DEF AddConsumerSpawn
<1>6. CASE UNCHANGED vars BY <1>6 DEF vars
<1> QED BY <1>1, <1>2, <1>3, <1>4, <1>5, <1>6 DEF Next

LEMMA NextListMutex == TypeInv /\ LockInv /\ [Next]_vars => ListMutex'
<1> SUFFICES ASSUME TypeInv, LockInv, [Next]_vars PROVE ListMutex'
  OBVIOUS
<1>0. ListMutex
  BY DEF LockInv, MutexOwners
<1> USE <1>0 DEF ListMutex, Delivering, Waking
<1> USE DEF slotVars, walkVars, listVars, freeVars, consVars, fvars
<1>1. ASSUME NEW f \in Feeders, Feed(f) PROVE ListMutex'
  <2>1. ASSUME NEW d \in Data, FeedTrylock(f, d) PROVE ListMutex'
    BY <2>1 DEF FeedTrylock
  <2>2. CASE FeedFreeOld(f) BY <2>2 DEF FeedFreeOld, DataFree
  <2>3. CASE FeedStore(f) BY <2>3 DEF FeedStore
  <2>4. CASE FeedDiscard(f) BY <2>4 DEF FeedDiscard, DataFree
  <2> QED BY <1>1, <2>1, <2>2, <2>3, <2>4 DEF Feed
<1>2. CASE Dispatcher
  <2>1. CASE DispatcherStart BY <2>1 DEF DispatcherStart
  <2>2. CASE DispatcherWait BY <2>2 DEF DispatcherWait
  <2>3. CASE DispatcherLock BY <2>3 DEF DispatcherLock
  <2>4. CASE DispatcherFree BY <2>4 DEF DispatcherFree, DataFree
  <2>5. CASE DispatcherFinish BY <2>5 DEF DispatcherFinish
  <2>6. CASE FeedConsumersLock BY <2>6 DEF FeedConsumersLock
  <2>7. CASE FeedConsumersSkip BY <2>7 DEF FeedConsumersSkip
  <2>8. CASE FeedConsumersTrylock BY <2>8 DEF FeedConsumersTrylock
  <2>9. CASE FeedConsumersRemoveLock BY <2>9 DEF FeedConsumersRemoveLock
  <2>10. CASE FeedConsumersRemove BY <2>10 DEF FeedConsumersRemove,
      RemoveDataFreeItem
  <2>11. CASE FeedConsumersAdd BY <2>11 DEF FeedConsumersAdd, AddDataFreeItem
  <2>12. CASE FeedConsumersNextLoop BY <2>12 DEF FeedConsumersNextLoop
  <2>13. CASE FeedConsumersUnlock BY <2>13 DEF FeedConsumersUnlock
  <2>14. CASE FeedConsumersHasNew BY <2>14 DEF FeedConsumersHasNew
  <2>15. CASE FeedConsumersPost BY <2>15 DEF FeedConsumersPost
  <2>16. CASE FeedConsumersReturn BY <2>16 DEF FeedConsumersReturn
  <2> QED BY <1>2, <2>1, <2>2, <2>3, <2>4, <2>5, <2>6, <2>7, <2>8, <2>9,
      <2>10, <2>11, <2>12, <2>13, <2>14, <2>15, <2>16 DEF Dispatcher,
          FeedConsumers
<1>3. ASSUME NEW c \in Consumers, Consumer(c) PROVE ListMutex'
  <2> USE DEF ConsumerStep
  <2>1. CASE ConsumerStart(c) BY <2>1 DEF ConsumerStart
  <2>2. CASE ConsumerWait(c) BY <2>2 DEF ConsumerWait
  <2>3. CASE ConsumerHasNew(c) BY <2>3 DEF ConsumerHasNew
  <2>4. CASE ConsumerLock(c) BY <2>4 DEF ConsumerLock
  <2>5. CASE ConsumerProcess(c) BY <2>5 DEF ConsumerProcess
  <2>6. CASE ConsumerRemoveLock(c) BY <2>6 DEF ConsumerRemoveLock
  <2>7. CASE ConsumerRemove(c) BY <2>7 DEF ConsumerRemove, RemoveDataFreeItem
  <2>8. CASE ConsumerDone(c) BY <2>8 DEF ConsumerDone
  <2> QED BY <1>3, <2>1, <2>2, <2>3, <2>4, <2>5, <2>6, <2>7, <2>8 DEF Consumer
<1>4. CASE AddConsumer BY <1>4 DEF AddConsumer
<1>5. CASE AddConsumerSpawn BY <1>5 DEF AddConsumerSpawn
<1>6. CASE UNCHANGED vars BY <1>6 DEF vars
<1> QED BY <1>1, <1>2, <1>3, <1>4, <1>5, <1>6 DEF Next

LEMMA NextFreeMutex == TypeInv /\ LockInv /\ [Next]_vars => FreeMutex'
<1> SUFFICES ASSUME TypeInv, LockInv, [Next]_vars PROVE FreeMutex'
  OBVIOUS
<1>0. FreeMutex /\ cpc \in [Consumers -> ConsumerPc]
  BY DEF LockInv, MutexOwners, TypeInv, TypeOK
<1> USE <1>0 DEF FreeMutex
<1> USE DEF slotVars, walkVars, listVars, freeVars, consVars, fvars
<1>1. ASSUME NEW f \in Feeders, Feed(f) PROVE FreeMutex'
  <2>1. ASSUME NEW d \in Data, FeedTrylock(f, d) PROVE FreeMutex'
    BY <2>1 DEF FeedTrylock
  <2>2. CASE FeedFreeOld(f) BY <2>2 DEF FeedFreeOld, DataFree
  <2>3. CASE FeedStore(f) BY <2>3 DEF FeedStore
  <2>4. CASE FeedDiscard(f) BY <2>4 DEF FeedDiscard, DataFree
  <2> QED BY <1>1, <2>1, <2>2, <2>3, <2>4 DEF Feed
<1>2. CASE Dispatcher
  <2>1. CASE DispatcherStart BY <2>1 DEF DispatcherStart
  <2>2. CASE DispatcherWait BY <2>2 DEF DispatcherWait
  <2>3. CASE DispatcherLock BY <2>3 DEF DispatcherLock
  <2>4. CASE DispatcherFree BY <2>4 DEF DispatcherFree, DataFree
  <2>5. CASE DispatcherFinish BY <2>5 DEF DispatcherFinish
  <2>6. CASE FeedConsumersLock BY <2>6 DEF FeedConsumersLock
  <2>7. CASE FeedConsumersSkip BY <2>7 DEF FeedConsumersSkip
  <2>8. CASE FeedConsumersTrylock BY <2>8 DEF FeedConsumersTrylock
  <2>9. CASE FeedConsumersRemoveLock BY <2>9 DEF FeedConsumersRemoveLock
  <2>10. CASE FeedConsumersRemove BY <2>10 DEF FeedConsumersRemove,
      RemoveDataFreeItem
  <2>11. CASE FeedConsumersAdd BY <2>11 DEF FeedConsumersAdd, AddDataFreeItem
  <2>12. CASE FeedConsumersNextLoop BY <2>12 DEF FeedConsumersNextLoop
  <2>13. CASE FeedConsumersUnlock BY <2>13 DEF FeedConsumersUnlock
  <2>14. CASE FeedConsumersHasNew BY <2>14 DEF FeedConsumersHasNew
  <2>15. CASE FeedConsumersPost BY <2>15 DEF FeedConsumersPost
  <2>16. CASE FeedConsumersReturn BY <2>16 DEF FeedConsumersReturn
  <2> QED BY <1>2, <2>1, <2>2, <2>3, <2>4, <2>5, <2>6, <2>7, <2>8, <2>9,
      <2>10, <2>11, <2>12, <2>13, <2>14, <2>15, <2>16 DEF Dispatcher,
          FeedConsumers
<1>3. ASSUME NEW c \in Consumers, Consumer(c) PROVE FreeMutex'
  <2> USE DEF ConsumerStep
  <2>1. CASE ConsumerStart(c) BY <2>1 DEF ConsumerStart
  <2>2. CASE ConsumerWait(c) BY <2>2 DEF ConsumerWait
  <2>3. CASE ConsumerHasNew(c) BY <2>3 DEF ConsumerHasNew
  <2>4. CASE ConsumerLock(c) BY <2>4 DEF ConsumerLock
  <2>5. CASE ConsumerProcess(c) BY <2>5 DEF ConsumerProcess
  <2>6. CASE ConsumerRemoveLock(c) BY <2>6 DEF ConsumerRemoveLock
  <2>7. CASE ConsumerRemove(c) BY <2>7 DEF ConsumerRemove, RemoveDataFreeItem
  <2>8. CASE ConsumerDone(c) BY <2>8 DEF ConsumerDone
  <2> QED BY <1>3, <2>1, <2>2, <2>3, <2>4, <2>5, <2>6, <2>7, <2>8 DEF Consumer
<1>4. CASE AddConsumer BY <1>4 DEF AddConsumer
<1>5. CASE AddConsumerSpawn BY <1>5 DEF AddConsumerSpawn
<1>6. CASE UNCHANGED vars BY <1>6 DEF vars
<1> QED BY <1>1, <1>2, <1>3, <1>4, <1>5, <1>6 DEF Next

LEMMA NextConsumerMutex == TypeInv /\ LockInv /\ [Next]_vars => ConsumerMutex'
<1> SUFFICES ASSUME TypeInv, LockInv, [Next]_vars PROVE ConsumerMutex'
  OBVIOUS
<1>0. /\ ConsumerMutex /\ NeedRange
      /\ cpc \in [Consumers -> ConsumerPc] /\ need \in [Consumers -> BOOLEAN]
      /\ cmutex \in [Consumers -> {"free", "dispatcher", "consumer"}]
      /\ pos \in Nat /\ len \in Nat /\ Consumers \subseteq Nat
  BY PcaAssumption DEF PcaAssumption, LockInv, MutexOwners, TypeInv, TypeOK, Consumers
<1> USE <1>0 DEF ConsumerMutex, NeedRange, Handling, Delivering, Waking
<1> USE DEF slotVars, walkVars, listVars, freeVars, consVars, fvars
<1>1. ASSUME NEW f \in Feeders, Feed(f) PROVE ConsumerMutex'
  <2>1. ASSUME NEW d \in Data, FeedTrylock(f, d) PROVE ConsumerMutex'
    BY <2>1 DEF FeedTrylock
  <2>2. CASE FeedFreeOld(f) BY <2>2 DEF FeedFreeOld, DataFree
  <2>3. CASE FeedStore(f) BY <2>3 DEF FeedStore
  <2>4. CASE FeedDiscard(f) BY <2>4 DEF FeedDiscard, DataFree
  <2> QED BY <1>1, <2>1, <2>2, <2>3, <2>4 DEF Feed
<1>2. CASE Dispatcher
  <2>1. CASE DispatcherStart BY <2>1 DEF DispatcherStart
  <2>2. CASE DispatcherWait BY <2>2 DEF DispatcherWait
  <2>3. CASE DispatcherLock BY <2>3 DEF DispatcherLock
  <2>4. CASE DispatcherFree BY <2>4 DEF DispatcherFree, DataFree
  <2>5. CASE DispatcherFinish BY <2>5 DEF DispatcherFinish
  <2>6. CASE FeedConsumersLock BY <2>6 DEF FeedConsumersLock
  <2>7. CASE FeedConsumersSkip BY <2>7 DEF FeedConsumersSkip
  <2>8. CASE FeedConsumersTrylock BY <2>8 DEF FeedConsumersTrylock
  <2>9. CASE FeedConsumersRemoveLock BY <2>9 DEF FeedConsumersRemoveLock
  <2>10. CASE FeedConsumersRemove BY <2>10 DEF FeedConsumersRemove,
      RemoveDataFreeItem
  <2>11. CASE FeedConsumersAdd BY <2>11 DEF FeedConsumersAdd, AddDataFreeItem
  <2>12. CASE FeedConsumersNextLoop BY <2>12 DEF FeedConsumersNextLoop
  <2>13. CASE FeedConsumersUnlock BY <2>13 DEF FeedConsumersUnlock
  <2>14. CASE FeedConsumersHasNew BY <2>14 DEF FeedConsumersHasNew
  <2>15. CASE FeedConsumersPost BY <2>15 DEF FeedConsumersPost
  <2>16. CASE FeedConsumersReturn BY <2>16 DEF FeedConsumersReturn
  <2> QED BY <1>2, <2>1, <2>2, <2>3, <2>4, <2>5, <2>6, <2>7, <2>8, <2>9,
      <2>10, <2>11, <2>12, <2>13, <2>14, <2>15, <2>16 DEF Dispatcher,
          FeedConsumers
<1>3. ASSUME NEW c \in Consumers, Consumer(c) PROVE ConsumerMutex'
  <2> USE DEF ConsumerStep
  <2>1. CASE ConsumerStart(c) BY <2>1 DEF ConsumerStart
  <2>2. CASE ConsumerWait(c) BY <2>2 DEF ConsumerWait
  <2>3. CASE ConsumerHasNew(c) BY <2>3 DEF ConsumerHasNew
  <2>4. CASE ConsumerLock(c) BY <2>4 DEF ConsumerLock
  <2>5. CASE ConsumerProcess(c) BY <2>5 DEF ConsumerProcess
  <2>6. CASE ConsumerRemoveLock(c) BY <2>6 DEF ConsumerRemoveLock
  <2>7. CASE ConsumerRemove(c) BY <2>7 DEF ConsumerRemove, RemoveDataFreeItem
  <2>8. CASE ConsumerDone(c) BY <2>8 DEF ConsumerDone
  <2> QED BY <1>3, <2>1, <2>2, <2>3, <2>4, <2>5, <2>6, <2>7, <2>8 DEF Consumer
<1>4. CASE AddConsumer BY <1>4 DEF AddConsumer
<1>5. CASE AddConsumerSpawn BY <1>5 DEF AddConsumerSpawn, TypeInv, Positions
<1>6. CASE UNCHANGED vars BY <1>6 DEF vars
<1> QED BY <1>1, <1>2, <1>3, <1>4, <1>5, <1>6 DEF Next

LEMMA NextNeedRange == TypeInv /\ LockInv /\ [Next]_vars => NeedRange'
<1> SUFFICES ASSUME TypeInv, LockInv, [Next]_vars PROVE NeedRange'
  OBVIOUS
<1>0. /\ NeedRange
      /\ need \in [Consumers -> BOOLEAN]
      /\ pos \in Nat /\ len \in Nat /\ Consumers \subseteq Nat
  BY PcaAssumption DEF PcaAssumption, LockInv, TypeInv, TypeOK, Consumers
<1> USE <1>0 DEF NeedRange
<1> USE DEF slotVars, walkVars, listVars, freeVars, consVars, fvars
<1>1. ASSUME NEW f \in Feeders, Feed(f) PROVE NeedRange'
  <2>1. ASSUME NEW d \in Data, FeedTrylock(f, d) PROVE NeedRange'
    BY <2>1 DEF FeedTrylock
  <2>2. CASE FeedFreeOld(f) BY <2>2 DEF FeedFreeOld, DataFree
  <2>3. CASE FeedStore(f) BY <2>3 DEF FeedStore
  <2>4. CASE FeedDiscard(f) BY <2>4 DEF FeedDiscard, DataFree
  <2> QED BY <1>1, <2>1, <2>2, <2>3, <2>4 DEF Feed
<1>2. CASE Dispatcher
  <2>1. CASE DispatcherStart BY <2>1 DEF DispatcherStart
  <2>2. CASE DispatcherWait BY <2>2 DEF DispatcherWait
  <2>3. CASE DispatcherLock BY <2>3 DEF DispatcherLock
  <2>4. CASE DispatcherFree BY <2>4 DEF DispatcherFree, DataFree
  <2>5. CASE DispatcherFinish BY <2>5 DEF DispatcherFinish
  <2>6. CASE FeedConsumersLock BY <2>6 DEF FeedConsumersLock
  <2>7. CASE FeedConsumersSkip BY <2>7 DEF FeedConsumersSkip
  <2>8. CASE FeedConsumersTrylock BY <2>8, PcaAssumption DEF
      FeedConsumersTrylock, PcaAssumption, TypeInv, TypeOK, Consumers
  <2>9. CASE FeedConsumersRemoveLock BY <2>9 DEF FeedConsumersRemoveLock
  <2>10. CASE FeedConsumersRemove BY <2>10 DEF FeedConsumersRemove,
      RemoveDataFreeItem
  <2>11. CASE FeedConsumersAdd BY <2>11 DEF FeedConsumersAdd, AddDataFreeItem
  <2>12. CASE FeedConsumersNextLoop BY <2>12, PcaAssumption DEF
      FeedConsumersNextLoop, Consumers, PcaAssumption
  <2>13. CASE FeedConsumersUnlock BY <2>13 DEF FeedConsumersUnlock
  <2>14. CASE FeedConsumersHasNew BY <2>14 DEF FeedConsumersHasNew
  <2>15. CASE FeedConsumersPost BY <2>15 DEF FeedConsumersPost
  <2>16. CASE FeedConsumersReturn BY <2>16 DEF FeedConsumersReturn
  <2> QED BY <1>2, <2>1, <2>2, <2>3, <2>4, <2>5, <2>6, <2>7, <2>8, <2>9,
      <2>10, <2>11, <2>12, <2>13, <2>14, <2>15, <2>16 DEF Dispatcher,
          FeedConsumers
<1>3. ASSUME NEW c \in Consumers, Consumer(c) PROVE NeedRange'
  <2> USE DEF ConsumerStep
  <2>1. CASE ConsumerStart(c) BY <2>1 DEF ConsumerStart
  <2>2. CASE ConsumerWait(c) BY <2>2 DEF ConsumerWait
  <2>3. CASE ConsumerHasNew(c) BY <2>3 DEF ConsumerHasNew
  <2>4. CASE ConsumerLock(c) BY <2>4 DEF ConsumerLock
  <2>5. CASE ConsumerProcess(c) BY <2>5 DEF ConsumerProcess
  <2>6. CASE ConsumerRemoveLock(c) BY <2>6 DEF ConsumerRemoveLock
  <2>7. CASE ConsumerRemove(c) BY <2>7 DEF ConsumerRemove, RemoveDataFreeItem
  <2>8. CASE ConsumerDone(c) BY <2>8 DEF ConsumerDone
  <2> QED BY <1>3, <2>1, <2>2, <2>3, <2>4, <2>5, <2>6, <2>7, <2>8 DEF Consumer
<1>4. CASE AddConsumer BY <1>4 DEF AddConsumer
<1>5. CASE AddConsumerSpawn BY <1>5 DEF AddConsumerSpawn
<1>6. CASE UNCHANGED vars BY <1>6 DEF vars
<1> QED BY <1>1, <1>2, <1>3, <1>4, <1>5, <1>6 DEF Next

LEMMA InitLockInv == Init => LockInv
<1> SUFFICES ASSUME Init PROVE LockInv
  OBVIOUS
<1>1. \A c \in Consumers : ~need[c] /\ cpc[c] = "none" /\ cmutex[c] = "free"
  BY DEF Init
<1>2. \A f \in Feeders : fpc[f] = "idle"
  BY DEF Init
<1>3. DispatcherMutex BY <1>2 DEF Init, DispatcherMutex
<1>4. ListMutex /\ FreeMutex BY <1>1 DEF Init, ListMutex, FreeMutex, Delivering, Waking
<1>5. ConsumerMutex /\ NeedRange BY <1>1 DEF Init, ConsumerMutex, NeedRange, Handling
<1> QED BY <1>3, <1>4, <1>5 DEF LockInv, MutexOwners

LEMMA NextLockInv == TypeInv /\ LockInv /\ [Next]_vars => LockInv'
BY NextDispatcherMutex, NextListMutex, NextFreeMutex, NextConsumerMutex,
   NextNeedRange DEF LockInv, MutexOwners

(* At most one thread is in the critical section of each of the mutexes,   *)
(* and the dispatcher unlocks exactly what it has locked.                  *)
THEOREM MutualExclusion == Spec => []MutexOwners
<1>1. TypeInv /\ LockInv => MutexOwners BY DEF LockInv
<1> QED BY InitTypeInv, NextTypeInv, InitLockInv, NextLockInv, <1>1, PTL DEF Spec
-----------------------------------------------------------------------------
(* Wake-ups, and the stability of a mailbox that is being handled.         *)

WakeInv == WakesForData /\ NoLostWakeup

LEMMA InitWakeInv == Init => WakeInv
<1> SUFFICES ASSUME Init PROVE WakeInv
  OBVIOUS
<1>1. \A c \in Consumers : ~cnew[c]
  BY DEF Init
<1> QED BY <1>1 DEF Init, WakeInv, WakesForData, NoLostWakeup, Delivering, Waking

LEMMA NextWakesForData == TypeInv /\ LockInv /\ WakeInv /\ [Next]_vars => WakesForData'
<1> SUFFICES ASSUME TypeInv, LockInv, WakeInv, [Next]_vars PROVE WakesForData'
  OBVIOUS
<1>0. /\ WakesForData /\ DispatcherMutex
      /\ dsem \in {0, 1} /\ dnew \in BOOLEAN /\ dpc \in DispatcherPc
  BY DEF LockInv, MutexOwners, WakeInv, TypeInv, TypeOK
<1> USE <1>0 DEF WakesForData, DispatcherMutex, Delivering, Waking, DispatcherPc
<1> USE DEF slotVars, walkVars, listVars, freeVars, consVars, fvars
<1>1. ASSUME NEW f \in Feeders, Feed(f) PROVE WakesForData'
  <2>1. ASSUME NEW d \in Data, FeedTrylock(f, d) PROVE WakesForData'
    BY <2>1 DEF FeedTrylock
  <2>2. CASE FeedFreeOld(f) BY <2>2 DEF FeedFreeOld, DataFree
  <2>3. CASE FeedStore(f) BY <2>3 DEF FeedStore
  <2>4. CASE FeedDiscard(f) BY <2>4 DEF FeedDiscard, DataFree
  <2> QED BY <1>1, <2>1, <2>2, <2>3, <2>4 DEF Feed
<1>2. CASE Dispatcher
  <2>1. CASE DispatcherStart BY <2>1 DEF DispatcherStart
  <2>2. CASE DispatcherWait BY <2>2 DEF DispatcherWait
  <2>3. CASE DispatcherLock BY <2>3 DEF DispatcherLock
  <2>4. CASE DispatcherFree BY <2>4 DEF DispatcherFree, DataFree
  <2>5. CASE DispatcherFinish BY <2>5 DEF DispatcherFinish
  <2>6. CASE FeedConsumersLock BY <2>6 DEF FeedConsumersLock
  <2>7. CASE FeedConsumersSkip BY <2>7 DEF FeedConsumersSkip
  <2>8. CASE FeedConsumersTrylock BY <2>8 DEF FeedConsumersTrylock
  <2>9. CASE FeedConsumersRemoveLock BY <2>9 DEF FeedConsumersRemoveLock
  <2>10. CASE FeedConsumersRemove BY <2>10 DEF FeedConsumersRemove,
      RemoveDataFreeItem
  <2>11. CASE FeedConsumersAdd BY <2>11 DEF FeedConsumersAdd, AddDataFreeItem
  <2>12. CASE FeedConsumersNextLoop BY <2>12 DEF FeedConsumersNextLoop
  <2>13. CASE FeedConsumersUnlock BY <2>13 DEF FeedConsumersUnlock
  <2>14. CASE FeedConsumersHasNew BY <2>14 DEF FeedConsumersHasNew
  <2>15. CASE FeedConsumersPost BY <2>15 DEF FeedConsumersPost
  <2>16. CASE FeedConsumersReturn BY <2>16 DEF FeedConsumersReturn
  <2> QED BY <1>2, <2>1, <2>2, <2>3, <2>4, <2>5, <2>6, <2>7, <2>8, <2>9,
      <2>10, <2>11, <2>12, <2>13, <2>14, <2>15, <2>16 DEF Dispatcher,
          FeedConsumers
<1>3. ASSUME NEW c \in Consumers, Consumer(c) PROVE WakesForData'
  <2> USE DEF ConsumerStep
  <2>1. CASE ConsumerStart(c) BY <2>1 DEF ConsumerStart
  <2>2. CASE ConsumerWait(c) BY <2>2 DEF ConsumerWait
  <2>3. CASE ConsumerHasNew(c) BY <2>3 DEF ConsumerHasNew
  <2>4. CASE ConsumerLock(c) BY <2>4 DEF ConsumerLock
  <2>5. CASE ConsumerProcess(c) BY <2>5 DEF ConsumerProcess
  <2>6. CASE ConsumerRemoveLock(c) BY <2>6 DEF ConsumerRemoveLock
  <2>7. CASE ConsumerRemove(c) BY <2>7 DEF ConsumerRemove, RemoveDataFreeItem
  <2>8. CASE ConsumerDone(c) BY <2>8 DEF ConsumerDone
  <2> QED BY <1>3, <2>1, <2>2, <2>3, <2>4, <2>5, <2>6, <2>7, <2>8 DEF Consumer
<1>4. CASE AddConsumer BY <1>4 DEF AddConsumer
<1>5. CASE AddConsumerSpawn BY <1>5 DEF AddConsumerSpawn
<1>6. CASE UNCHANGED vars BY <1>6 DEF vars
<1> QED BY <1>1, <1>2, <1>3, <1>4, <1>5, <1>6 DEF Next

LEMMA NextNoLostWakeup == TypeInv /\ WakeInv /\ [Next]_vars => NoLostWakeup'
<1> SUFFICES ASSUME TypeInv, WakeInv, [Next]_vars PROVE NoLostWakeup'
  OBVIOUS
<1>0. /\ NoLostWakeup /\ Positions
      /\ csem \in [Consumers -> {0, 1}] /\ cnew \in [Consumers -> BOOLEAN]
      /\ cpc \in [Consumers -> ConsumerPc]
      /\ pos \in Nat /\ len \in Nat /\ Consumers \subseteq Nat
      /\ \A c \in Consumers : 1 <= c
  BY PcaAssumption DEF PcaAssumption, WakeInv, TypeInv, TypeOK, Consumers
<1> USE <1>0 DEF NoLostWakeup, Delivering, Waking
<1> USE DEF slotVars, walkVars, listVars, freeVars, consVars, fvars
<1>1. ASSUME NEW f \in Feeders, Feed(f) PROVE NoLostWakeup'
  <2>1. ASSUME NEW d \in Data, FeedTrylock(f, d) PROVE NoLostWakeup'
    BY <2>1 DEF FeedTrylock
  <2>2. CASE FeedFreeOld(f) BY <2>2 DEF FeedFreeOld, DataFree
  <2>3. CASE FeedStore(f) BY <2>3 DEF FeedStore
  <2>4. CASE FeedDiscard(f) BY <2>4 DEF FeedDiscard, DataFree
  <2> QED BY <1>1, <2>1, <2>2, <2>3, <2>4 DEF Feed
<1>2. CASE Dispatcher
  <2>1. CASE DispatcherStart BY <2>1 DEF DispatcherStart
  <2>2. CASE DispatcherWait BY <2>2 DEF DispatcherWait
  <2>3. CASE DispatcherLock BY <2>3 DEF DispatcherLock
  <2>4. CASE DispatcherFree BY <2>4 DEF DispatcherFree, DataFree
  <2>5. CASE DispatcherFinish BY <2>5 DEF DispatcherFinish
  <2>6. CASE FeedConsumersLock BY <2>6 DEF FeedConsumersLock
  <2>7. CASE FeedConsumersSkip BY <2>7 DEF FeedConsumersSkip
  <2>8. CASE FeedConsumersTrylock BY <2>8 DEF FeedConsumersTrylock
  <2>9. CASE FeedConsumersRemoveLock BY <2>9 DEF FeedConsumersRemoveLock
  <2>10. CASE FeedConsumersRemove BY <2>10 DEF FeedConsumersRemove,
      RemoveDataFreeItem
  <2>11. CASE FeedConsumersAdd BY <2>11 DEF FeedConsumersAdd, AddDataFreeItem
  <2>12. CASE FeedConsumersNextLoop BY <2>12 DEF FeedConsumersNextLoop
  <2>13. CASE FeedConsumersUnlock BY <2>13 DEF FeedConsumersUnlock
  <2>14. CASE FeedConsumersHasNew BY <2>14 DEF FeedConsumersHasNew
  <2>15. CASE FeedConsumersPost BY <2>15 DEF FeedConsumersPost
  <2>16. CASE FeedConsumersReturn BY <2>16 DEF FeedConsumersReturn, Positions
  <2> QED BY <1>2, <2>1, <2>2, <2>3, <2>4, <2>5, <2>6, <2>7, <2>8, <2>9,
      <2>10, <2>11, <2>12, <2>13, <2>14, <2>15, <2>16 DEF Dispatcher,
          FeedConsumers
<1>3. ASSUME NEW c \in Consumers, Consumer(c) PROVE NoLostWakeup'
  <2> USE DEF ConsumerStep
  <2>1. CASE ConsumerStart(c) BY <2>1 DEF ConsumerStart
  <2>2. CASE ConsumerWait(c) BY <2>2 DEF ConsumerWait
  <2>3. CASE ConsumerHasNew(c) BY <2>3 DEF ConsumerHasNew
  <2>4. CASE ConsumerLock(c) BY <2>4 DEF ConsumerLock
  <2>5. CASE ConsumerProcess(c) BY <2>5 DEF ConsumerProcess
  <2>6. CASE ConsumerRemoveLock(c) BY <2>6 DEF ConsumerRemoveLock
  <2>7. CASE ConsumerRemove(c) BY <2>7 DEF ConsumerRemove, RemoveDataFreeItem
  <2>8. CASE ConsumerDone(c) BY <2>8 DEF ConsumerDone
  <2> QED BY <1>3, <2>1, <2>2, <2>3, <2>4, <2>5, <2>6, <2>7, <2>8 DEF Consumer
<1>4. CASE AddConsumer BY <1>4 DEF AddConsumer
<1>5. CASE AddConsumerSpawn BY <1>5 DEF AddConsumerSpawn, Positions
<1>6. CASE UNCHANGED vars BY <1>6 DEF vars
<1> QED BY <1>1, <1>2, <1>3, <1>4, <1>5, <1>6 DEF Next

LEMMA NextWakeInv == TypeInv /\ LockInv /\ WakeInv /\ [Next]_vars => WakeInv'
BY NextWakesForData, NextNoLostWakeup DEF WakeInv

(* The dispatcher thread, which does not test has_new_data, runs for a new *)
(* datum and only for one.                                                 *)
THEOREM DispatcherWakeups == Spec => []WakesForData
<1>1. WakeInv => WakesForData BY DEF WakeInv
<1> QED BY InitTypeInv, NextTypeInv, InitLockInv, NextLockInv, InitWakeInv,
           NextWakeInv, <1>1, PTL DEF Spec

(* No consumer sleeps over a full mailbox.                                 *)
THEOREM ConsumerWakeups == Spec => []NoLostWakeup
<1>1. WakeInv => NoLostWakeup BY DEF WakeInv
<1> QED BY InitTypeInv, NextTypeInv, InitLockInv, NextLockInv, InitWakeInv,
           NextWakeInv, <1>1, PTL DEF Spec

(* A consumer that is handling has its flag has_new_data set, and any step *)
(* that could change its mailbox has its mutex.                            *)
HandlingInv == \A c \in Consumers : Handling(c) \/ cpc[c] = "lock" => cnew[c]

LEMMA InitHandlingInv == Init => HandlingInv
<1> SUFFICES ASSUME Init, NEW c \in Consumers PROVE ~Handling(c) /\ cpc[c] # "lock"
  BY DEF HandlingInv
<1> QED BY DEF Init, Handling

LEMMA NextHandlingInv == TypeInv /\ LockInv /\ HandlingInv /\ [Next]_vars => HandlingInv'
<1> SUFFICES ASSUME TypeInv, LockInv, HandlingInv, [Next]_vars PROVE HandlingInv'
  OBVIOUS
<1>0. /\ HandlingInv
      /\ cnew \in [Consumers -> BOOLEAN] /\ cpc \in [Consumers -> ConsumerPc]
  BY DEF TypeInv, TypeOK
<1> USE <1>0 DEF HandlingInv, Handling
<1> USE DEF slotVars, walkVars, listVars, freeVars, consVars, fvars
<1>1. ASSUME NEW f \in Feeders, Feed(f) PROVE HandlingInv'
  <2>1. ASSUME NEW d \in Data, FeedTrylock(f, d) PROVE HandlingInv'
    BY <2>1 DEF FeedTrylock
  <2>2. CASE FeedFreeOld(f) BY <2>2 DEF FeedFreeOld, DataFree
  <2>3. CASE FeedStore(f) BY <2>3 DEF FeedStore
  <2>4. CASE FeedDiscard(f) BY <2>4 DEF FeedDiscard, DataFree
  <2> QED BY <1>1, <2>1, <2>2, <2>3, <2>4 DEF Feed
<1>2. CASE Dispatcher
  <2>1. CASE DispatcherStart BY <2>1 DEF DispatcherStart
  <2>2. CASE DispatcherWait BY <2>2 DEF DispatcherWait
  <2>3. CASE DispatcherLock BY <2>3 DEF DispatcherLock
  <2>4. CASE DispatcherFree BY <2>4 DEF DispatcherFree, DataFree
  <2>5. CASE DispatcherFinish BY <2>5 DEF DispatcherFinish
  <2>6. CASE FeedConsumersLock BY <2>6 DEF FeedConsumersLock
  <2>7. CASE FeedConsumersSkip BY <2>7 DEF FeedConsumersSkip
  <2>8. CASE FeedConsumersTrylock BY <2>8 DEF FeedConsumersTrylock
  <2>9. CASE FeedConsumersRemoveLock BY <2>9 DEF FeedConsumersRemoveLock
  <2>10. CASE FeedConsumersRemove BY <2>10 DEF FeedConsumersRemove,
      RemoveDataFreeItem
  <2>11. CASE FeedConsumersAdd BY <2>11 DEF FeedConsumersAdd, AddDataFreeItem
  <2>12. CASE FeedConsumersNextLoop BY <2>12 DEF FeedConsumersNextLoop
  <2>13. CASE FeedConsumersUnlock BY <2>13 DEF FeedConsumersUnlock
  <2>14. CASE FeedConsumersHasNew BY <2>14 DEF FeedConsumersHasNew
  <2>15. CASE FeedConsumersPost BY <2>15 DEF FeedConsumersPost
  <2>16. CASE FeedConsumersReturn BY <2>16 DEF FeedConsumersReturn
  <2> QED BY <1>2, <2>1, <2>2, <2>3, <2>4, <2>5, <2>6, <2>7, <2>8, <2>9,
      <2>10, <2>11, <2>12, <2>13, <2>14, <2>15, <2>16 DEF Dispatcher,
          FeedConsumers
<1>3. ASSUME NEW c \in Consumers, Consumer(c) PROVE HandlingInv'
  <2> USE DEF ConsumerStep
  <2>1. CASE ConsumerStart(c) BY <2>1 DEF ConsumerStart
  <2>2. CASE ConsumerWait(c) BY <2>2 DEF ConsumerWait
  <2>3. CASE ConsumerHasNew(c) BY <2>3 DEF ConsumerHasNew
  <2>4. CASE ConsumerLock(c) BY <2>4 DEF ConsumerLock
  <2>5. CASE ConsumerProcess(c) BY <2>5 DEF ConsumerProcess
  <2>6. CASE ConsumerRemoveLock(c) BY <2>6 DEF ConsumerRemoveLock
  <2>7. CASE ConsumerRemove(c) BY <2>7 DEF ConsumerRemove, RemoveDataFreeItem
  <2>8. CASE ConsumerDone(c) BY <2>8 DEF ConsumerDone
  <2> QED BY <1>3, <2>1, <2>2, <2>3, <2>4, <2>5, <2>6, <2>7, <2>8 DEF Consumer
<1>4. CASE AddConsumer BY <1>4 DEF AddConsumer
<1>5. CASE AddConsumerSpawn BY <1>5 DEF AddConsumerSpawn
<1>6. CASE UNCHANGED vars BY <1>6 DEF vars
<1> QED BY <1>1, <1>2, <1>3, <1>4, <1>5, <1>6 DEF Next

(* The mailbox of a consumer does not change while its thread handles it.  *)
THEOREM MailboxStable == Spec => StableWhileHandling
<1> DEFINE Stable == \A c \in Consumers :
       Handling(c) => cslot'[c] = cslot[c] /\ (cnew'[c] \/ ~Handling(c)')
<1>1. TypeInv /\ LockInv /\ HandlingInv /\ HandlingInv' /\ [Next]_vars => Stable
  <2> SUFFICES ASSUME TypeInv, LockInv, HandlingInv, HandlingInv', [Next]_vars,
                      NEW c \in Consumers, Handling(c)
               PROVE  cslot'[c] = cslot[c] /\ (cnew'[c] \/ ~Handling(c)')
    OBVIOUS
  <2>1. cnew'[c] \/ ~Handling(c)'
    BY DEF HandlingInv
  <2>2. cslot'[c] = cslot[c]
    <3> USE DEF slotVars, walkVars, listVars, freeVars, consVars, fvars
    <3>1. ASSUME NEW f \in Feeders, Feed(f) PROVE cslot'[c] = cslot[c]
      <4>1. ASSUME NEW d \in Data, FeedTrylock(f, d) PROVE cslot'[c] = cslot[c]
        BY <4>1 DEF FeedTrylock
      <4>2. CASE FeedFreeOld(f) BY <4>2 DEF FeedFreeOld, DataFree
      <4>3. CASE FeedStore(f) BY <4>3 DEF FeedStore
      <4>4. CASE FeedDiscard(f) BY <4>4 DEF FeedDiscard, DataFree
      <4> QED BY <3>1, <4>1, <4>2, <4>3, <4>4 DEF Feed
    <3>2. CASE Dispatcher
      <4>1. CASE DispatcherStart BY <4>1 DEF DispatcherStart
      <4>2. CASE DispatcherWait BY <4>2 DEF DispatcherWait
      <4>3. CASE DispatcherLock BY <4>3 DEF DispatcherLock
      <4>4. CASE DispatcherFree BY <4>4 DEF DispatcherFree, DataFree
      <4>5. CASE DispatcherFinish BY <4>5 DEF DispatcherFinish
      <4>6. CASE FeedConsumersLock BY <4>6 DEF FeedConsumersLock
      <4>7. CASE FeedConsumersSkip BY <4>7 DEF FeedConsumersSkip
      <4>8. CASE FeedConsumersTrylock BY <4>8 DEF FeedConsumersTrylock
      <4>9. CASE FeedConsumersRemoveLock BY <4>9 DEF FeedConsumersRemoveLock
      <4>10. CASE FeedConsumersRemove BY <4>10 DEF FeedConsumersRemove,
          RemoveDataFreeItem
      <4>11. CASE FeedConsumersAdd 
        <5>1. pos # c
          BY <4>11 DEF FeedConsumersAdd, LockInv, MutexOwners, ConsumerMutex,
                       NeedRange, TypeInv, TypeOK
        <5> QED BY <4>11, <5>1 DEF FeedConsumersAdd, TypeInv, TypeOK
      <4>12. CASE FeedConsumersNextLoop BY <4>12 DEF FeedConsumersNextLoop
      <4>13. CASE FeedConsumersUnlock BY <4>13 DEF FeedConsumersUnlock
      <4>14. CASE FeedConsumersHasNew BY <4>14 DEF FeedConsumersHasNew
      <4>15. CASE FeedConsumersPost BY <4>15 DEF FeedConsumersPost
      <4>16. CASE FeedConsumersReturn BY <4>16 DEF FeedConsumersReturn
      <4> QED BY <3>2, <4>1, <4>2, <4>3, <4>4, <4>5, <4>6, <4>7, <4>8, <4>9,
          <4>10, <4>11, <4>12, <4>13, <4>14, <4>15, <4>16 DEF Dispatcher,
              FeedConsumers
    <3>3. ASSUME NEW e \in Consumers, Consumer(e) PROVE cslot'[c] = cslot[c]
      <4> USE DEF ConsumerStep
      <4>1. CASE ConsumerStart(e) BY <4>1 DEF ConsumerStart
      <4>2. CASE ConsumerWait(e) BY <4>2 DEF ConsumerWait
      <4>3. CASE ConsumerHasNew(e) BY <4>3 DEF ConsumerHasNew
      <4>4. CASE ConsumerLock(e) BY <4>4 DEF ConsumerLock
      <4>5. CASE ConsumerProcess(e) BY <4>5 DEF ConsumerProcess
      <4>6. CASE ConsumerRemoveLock(e) BY <4>6 DEF ConsumerRemoveLock
      <4>7. CASE ConsumerRemove(e) BY <4>7 DEF ConsumerRemove, RemoveDataFreeItem
      <4>8. CASE ConsumerDone(e) BY <4>8 DEF ConsumerDone
      <4> QED BY <3>3, <4>1, <4>2, <4>3, <4>4, <4>5, <4>6, <4>7, <4>8 DEF Consumer
    <3>4. CASE AddConsumer BY <3>4 DEF AddConsumer
    <3>5. CASE AddConsumerSpawn BY <3>5 DEF AddConsumerSpawn
    <3>6. CASE UNCHANGED vars BY <3>6 DEF vars
    <3> QED BY <3>1, <3>2, <3>3, <3>4, <3>5, <3>6 DEF Next
  <2> QED BY <2>1, <2>2
<1> QED BY InitTypeInv, NextTypeInv, InitLockInv, NextLockInv, InitHandlingInv,
           NextHandlingInv, <1>1, PTL DEF Spec, StableWhileHandling
-----------------------------------------------------------------------------
(* The four invariants together, as the proofs of the other modules use    *)
(* them.                                                                   *)
Base == TypeInv /\ LockInv /\ WakeInv /\ HandlingInv

LEMMA InitBase == Init => Base
BY InitTypeInv, InitLockInv, InitWakeInv, InitHandlingInv DEF Base

LEMMA NextBase == Base /\ [Next]_vars => Base'
BY NextTypeInv, NextLockInv, NextWakeInv, NextHandlingInv DEF Base

LEMMA SpecBase == Spec => []Base
BY InitBase, NextBase, PTL DEF Spec
=============================================================================
