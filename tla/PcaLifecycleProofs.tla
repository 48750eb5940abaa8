------------------------ MODULE PcaLifecycleProofs -------------------------
(***************************************************************************)
(* Proofs about stopping and restarting the dispatcher (PcaLifecycle):     *)
(* what is in its list stays its own when consumers are cancelled in the   *)
(* middle of handling, and a stop leaves nothing behind.                   *)
(***************************************************************************)
EXTENDS PcaLifecycle, FiniteSetTheorems, TLAPS

(* The consumers that have a datum, and the feeders that are in a call.    *)
Holding == {c \in Consumers : Holds(c)}
Calling == {f \in Feeders : InHand(f)}

(* The dispatcher's thread is before, or outside, its critical section.    *)
Outside == dpc \in {"none", "dead", "start", "wait", "lock"}

(* TypeOK, with the program points and owners that stopping adds.          *)
Ranges ==
  /\ dnew \in BOOLEAN /\ dslot \in Data /\ dsem \in {0, 1}
  /\ dpc \in DispatcherPc \union {"none", "dead"} /\ pos \in 1 .. N + 1
  /\ accepted \in BOOLEAN
  /\ len \in 0..N /\ apc \in {"idle", "spawn"}
  /\ refs \in [Data -> Nat]
  /\ cmutex \in [Consumers -> {"free", "dispatcher", "consumer"}]
  /\ need \in [Consumers -> BOOLEAN]
  /\ cnew \in [Consumers -> BOOLEAN]
  /\ cslot \in [Consumers -> Data]
  /\ cpc \in [Consumers -> ConsumerPc \union {"dead"}]
  /\ fpc \in [Feeders -> FeederPc] /\ fdata \in [Feeders -> Data]
  /\ owned \in SUBSET Data
  /\ spc \in StopPc /\ spos \in 1 .. N + 1 /\ dcancel \in BOOLEAN

(* The client's progress through pca_dispatcher_stop.                      *)
StopInv ==
  /\ spc = "join" => spos <= len
  /\ spc \in {"flush_lock", "flush", "cancel_dispatcher", "join_dispatcher"} =>
       len = 0
  /\ dcancel \/ dpc = "dead" => spc = "join_dispatcher"
  /\ dpc = "none" => spc = "idle"
  /\ apc = "spawn" => spc = "idle" /\ len > 0 /\ cpc[len] = "none"

(* A consumer that is not in the list, or has been joined, left nothing.   *)
Gone(c) == cpc[c] = "none" /\ ~cnew[c] /\ cmutex[c] = "free"
GoneInv ==
  \A c \in Consumers :
    c > len \/ (spc \in {"cancel", "join"} /\ c < spos) => Gone(c)

(* Who is where holds the mutex it needs there.  A thread that was         *)
(* cancelled may hold one without being anywhere.                          *)
MutexInv ==
  /\ ~Outside => dmutex = "dispatcher"
  /\ \A f \in Feeders : fpc[f] \in {"free_old", "store"} => dmutex = "feeder"
  /\ \A f, g \in Feeders :
       fpc[f] \in {"free_old", "store"} /\ fpc[g] \in {"free_old", "store"} => f = g
  /\ Delivering \/ Waking => listMutex = "dispatcher"
  /\ spc \in {"cancel", "join"} => listMutex = "client"
  /\ \A c \in Consumers : /\ Handling(c) => cmutex[c] = "consumer"
                          /\ need[c] => cmutex[c] = "dispatcher"

(* The walk along the list.                                                *)
WalkInv ==
  /\ dpc \in {"remove_lock", "remove", "add", "has_new", "post"} => pos <= len
  /\ dpc \in {"remove_lock", "remove", "add"} => need[pos]
  /\ Delivering /\ accepted => len > 0

(* A full mailbox has been posted, or is being dispatched.                 *)
WakeInv ==
  /\ dsem = 1 => dnew
  /\ dpc \in {"lock", "lock_list"} \/ Delivering \/ Waking => dnew /\ dsem = 0
  /\ dnew /\ dpc \in {"none", "dead", "start", "wait"} => dsem = 1
  /\ dpc \in {"free", "finish"} => ~dnew

(* The flag on which a thread decided has not changed when it acts.        *)
FlagInv ==
  /\ \A f \in Feeders : fpc[f] = "free_old" => dnew
  /\ dpc \in {"remove_lock", "remove"} => cnew[pos]
  /\ dpc = "free" => ~accepted
  /\ \A c \in Consumers : cpc[c] = "lock" \/ Handling(c) => cnew[c]

Control == /\ Ranges /\ StopInv /\ GoneInv /\ MutexInv /\ WalkInv /\ WakeInv
           /\ FlagInv

(* The datum in the dispatcher's mailbox, with or without a thread to      *)
(* dispatch it, is on offer until somebody has taken it.                   *)
Waits == \/ /\ dnew
            /\ Outside \/ dpc = "lock_list"
            /\ \A f \in Feeders : fpc[f] # "store"
         \/ Delivering
         \/ (Waking \/ dpc = "free") /\ ~accepted

(* What is in the list, on offer or in a call is owned, and is in one of   *)
(* these places only; the datum on offer is in the list as well while it   *)
(* is handed out, but nobody who has it can go on.                         *)
PlaceInv ==
  /\ \A d \in Data : refs[d] > 0 => d \in owned
  /\ Waits => /\ dslot \in owned
              /\ refs[dslot] > 0 => Delivering /\ accepted
              /\ \A c \in Holding : cslot[c] = dslot => need[c] /\ c < pos
              /\ \A f \in Calling : fdata[f] # dslot
  /\ Delivering /\ accepted => refs[dslot] > 0
  /\ \A f \in Calling :
       /\ fdata[f] \in owned /\ refs[fdata[f]] = 0
       /\ \A g \in Calling : fdata[f] = fdata[g] => f = g

(* Each holder is counted.  A consumer that was cancelled and joined holds *)
(* nothing, but stays counted until the flush: the count may exceed the    *)
(* holders.                                                                *)
CountInv ==
  \A d \in Data : Cardinality({c \in Holding : cslot[c] = d}) <= refs[d]

(* The flush empties the list, and nothing fills it until the next run.    *)
EmptyInv ==
  spc \in {"cancel_dispatcher", "join_dispatcher"} \/ dpc = "none" =>
    \A d \in Data : refs[d] = 0

LifeInv == Control /\ PlaceInv /\ CountInv /\ EmptyInv

(* What needs a callback that cannot be cancelled: mutexes are held only   *)
(* where they are needed, and no datum is forgotten.                       *)
FreeMutexInv ==
  /\ freeMutex \in {"free", "dispatcher", "consumer", "client"}
  /\ freeMutex = "dispatcher" <=> dpc = "remove"
  /\ freeMutex = "client" <=> spc = "flush"
  /\ freeMutex = "consumer" => \E c \in Consumers : cpc[c] = "remove"
  /\ \A c \in Consumers : cpc[c] = "remove" => freeMutex = "consumer"
  /\ \A b, c \in Consumers : cpc[b] = "remove" /\ cpc[c] = "remove" => b = c

AllPlaced ==
  \A d \in owned : \/ \E f \in Calling : fdata[f] = d
                   \/ Waits /\ dslot = d
                   \/ refs[d] > 0

ReturnedInv == /\ FreeMutexInv /\ AllPlaced
               /\ dmutex = "dispatcher" => ~Outside
-----------------------------------------------------------------------------
(* The control: types, the client's progress, mutexes, flags, wake-ups.    *)

LEMMA RemoveType ==
  ASSUME Control, NEW c \in Consumers, RemoveDataFreeItem(cslot[c])
  PROVE  refs' \in [Data -> Nat] /\ owned' \in SUBSET Data
BY DEF RemoveDataFreeItem, Control, Ranges

(* Each part is kept by each step, given the other parts.                  *)
LEMMA ControlKept ==
  ASSUME Control, [LifecycleNext]_lvars PROVE Control'
<1> USE PcaAssumption DEF PcaAssumption
<1> USE DEF Control, Ranges, StopInv, GoneInv, Gone, MutexInv, WakeInv,
       WalkInv, FlagInv, Consumers, DispatcherPc, ConsumerPc, FeederPc,
       StopPc, Outside, Delivering, Waking, Handling
<1> USE DEF slotVars, walkVars, listVars, freeVars, consVars, fvars, stopVars,
       ConsumerStep
<1>1. ASSUME NEW f \in Feeders, Feed(f), UNCHANGED stopVars PROVE Control'
  <2>1. ASSUME NEW d \in Data, FeedTrylock(f, d) PROVE Control'
    <3>0. FeedTrylock(f, d) /\ UNCHANGED stopVars
      BY <1>1, <2>1
    <3>1. Ranges'
      <4>1. fpc' \in [Feeders -> FeederPc]
        BY <3>0 DEF FeedTrylock
      <4>2. fdata' \in [Feeders -> Data] /\ owned' \in SUBSET Data
        BY <3>0 DEF FeedTrylock
      <4> QED BY <3>0, <4>1, <4>2 DEF FeedTrylock
    <3>2. FlagInv'
      <4>1. \A g \in Feeders : fpc'[g] = "free_old" => fpc[g] = "free_old" \/ dnew
        BY <3>0 DEF FeedTrylock
      <4>2. UNCHANGED <<dnew, dpc, cnew, cpc, pos, accepted>>
        BY <3>0 DEF FeedTrylock
      <4> QED BY <4>1, <4>2
    <3>4. MutexInv'
      <4>1. dmutex = "free" =>
              \A g \in Feeders : fpc[g] \notin {"free_old", "store"}
        OBVIOUS
      <4>2. \A g \in Feeders : fpc'[g] \in {"free_old", "store"} =>
                IF dmutex = "free" THEN g = f /\ dmutex' = "feeder"
                ELSE fpc[g] = fpc'[g] /\ dmutex' = dmutex
        BY <3>0, <4>1 DEF FeedTrylock
      <4>3. dmutex = "free" => Outside
        OBVIOUS
      <4> QED BY <3>0, <4>2, <4>3 DEF FeedTrylock
    <3>3. StopInv' /\ GoneInv' /\ WakeInv' /\ WalkInv'
      BY <3>0 DEF FeedTrylock
    <3> QED BY <3>1, <3>2, <3>3, <3>4
  <2>2. CASE FeedFreeOld(f)
    BY <1>1, <2>2 DEF FeedFreeOld, DataFree
  <2>3. CASE FeedStore(f)
    BY <1>1, <2>3 DEF FeedStore
  <2>4. CASE FeedDiscard(f)
    BY <1>1, <2>4 DEF FeedDiscard, DataFree
  <2> QED BY <1>1, <2>1, <2>2, <2>3, <2>4 DEF Feed
<1>2. ASSUME Dispatcher, UNCHANGED stopVars PROVE Control'
  <2>1. CASE DispatcherStart
    BY <1>2, <2>1 DEF DispatcherStart
  <2>2. CASE DispatcherWait
    BY <1>2, <2>2 DEF DispatcherWait
  <2>3. CASE DispatcherLock
    BY <1>2, <2>3 DEF DispatcherLock
  <2>4. CASE FeedConsumersLock
    <3>1. pos' \in 1 .. N + 1
      BY <1>2, <2>4 DEF FeedConsumersLock
    <3> QED BY <1>2, <2>4, <3>1 DEF FeedConsumersLock
  <2>5. CASE FeedConsumersSkip
    BY <1>2, <2>5 DEF FeedConsumersSkip
  <2>6. CASE FeedConsumersTrylock
    BY <1>2, <2>6 DEF FeedConsumersTrylock
  <2>7. CASE FeedConsumersRemoveLock
    BY <1>2, <2>7 DEF FeedConsumersRemoveLock
  <2>8. CASE FeedConsumersRemove
    BY <1>2, <2>8 DEF FeedConsumersRemove, RemoveDataFreeItem
  <2>9. CASE FeedConsumersAdd
    BY <1>2, <2>9 DEF FeedConsumersAdd, AddDataFreeItem
  <2>10. CASE FeedConsumersNextLoop
    BY <1>2, <2>10 DEF FeedConsumersNextLoop
  <2>11. CASE FeedConsumersUnlock
    BY <1>2, <2>11 DEF FeedConsumersUnlock
  <2>12. CASE FeedConsumersHasNew
    BY <1>2, <2>12 DEF FeedConsumersHasNew
  <2>13. CASE FeedConsumersPost
    <3>1. pos' \in 1 .. N + 1
      BY <1>2, <2>13 DEF FeedConsumersPost
    <3> QED BY <1>2, <2>13, <3>1 DEF FeedConsumersPost
  <2>14. CASE FeedConsumersReturn
    <3>1. Ranges' /\ StopInv' /\ GoneInv' /\ WalkInv'
      BY <1>2, <2>14 DEF FeedConsumersReturn
    <3>2. MutexInv' /\ WakeInv'
      BY <1>2, <2>14 DEF FeedConsumersReturn
    <3>3. FlagInv'
      BY <1>2, <2>14 DEF FeedConsumersReturn
    <3> QED BY <3>1, <3>2, <3>3
  <2>15. CASE DispatcherFree
    BY <1>2, <2>15 DEF DispatcherFree, DataFree
  <2>16. CASE DispatcherFinish
    BY <1>2, <2>16 DEF DispatcherFinish
  <2> QED BY <1>2, <2>1, <2>2, <2>3, <2>4, <2>5, <2>6, <2>7, <2>8, <2>9,
         <2>10, <2>11, <2>12, <2>13, <2>14, <2>15, <2>16 DEF Dispatcher,
         FeedConsumers
<1>3. ASSUME NEW c \in Consumers, Consumer(c), UNCHANGED stopVars PROVE Control'
  <2>1. CASE ConsumerStart(c)
    BY <1>3, <2>1 DEF ConsumerStart
  <2>2. CASE ConsumerWait(c)
    BY <1>3, <2>2 DEF ConsumerWait
  <2>3. CASE ConsumerHasNew(c)
    BY <1>3, <2>3 DEF ConsumerHasNew
  <2>4. CASE ConsumerLock(c)
    BY <1>3, <2>4 DEF ConsumerLock
  <2>5. CASE ConsumerProcess(c)
    BY <1>3, <2>5 DEF ConsumerProcess
  <2>6. CASE ConsumerRemoveLock(c)
    BY <1>3, <2>6 DEF ConsumerRemoveLock
  <2>7. CASE ConsumerRemove(c)
    <3>1. refs' \in [Data -> Nat] /\ owned' \in SUBSET Data
      <4>1. RemoveDataFreeItem(cslot[c])
        BY <2>7 DEF ConsumerRemove
      <4> QED BY <4>1, RemoveType
    <3> QED BY <1>3, <2>7, <3>1 DEF ConsumerRemove
  <2>8. CASE ConsumerDone(c)
    BY <1>3, <2>8 DEF ConsumerDone
  <2> QED BY <1>3, <2>1, <2>2, <2>3, <2>4, <2>5, <2>6, <2>7, <2>8 DEF Consumer
<1>4. ASSUME NEW c \in Consumers, ConsumerCancelled(c) PROVE Control'
  BY <1>4 DEF ConsumerCancelled
<1>5. CASE AddConsumer /\ spc = "idle" /\ UNCHANGED stopVars
  BY <1>5 DEF AddConsumer
<1>6. CASE AddConsumerSpawn /\ UNCHANGED stopVars
  BY <1>6 DEF AddConsumerSpawn
<1>7. CASE StopLock
  BY <1>7 DEF StopLock, vars
<1>8. CASE StopCancel
  BY <1>8 DEF StopCancel, vars
<1>9. CASE StopJoin
  BY <1>9 DEF StopJoin, vars
<1>10. CASE StopUnlock
  BY <1>10 DEF StopUnlock, vars
<1>11. CASE StopFlushLock
  BY <1>11 DEF StopFlushLock, vars
<1>12. CASE StopFlush
  BY <1>12 DEF StopFlush, vars
<1>13. CASE StopCancelDispatcher
  BY <1>13 DEF StopCancelDispatcher, vars
<1>14. CASE StopJoinDispatcher
  BY <1>14 DEF StopJoinDispatcher, vars
<1>15. CASE Run
  BY <1>15 DEF Run, vars
<1>16. CASE DispatcherCancelled
  BY <1>16 DEF DispatcherCancelled, vars
<1>17. CASE UNCHANGED lvars
  BY <1>17 DEF lvars, vars
<1> QED BY <1>1, <1>2, <1>3, <1>4, <1>5, <1>6, <1>7, <1>8, <1>9, <1>10, <1>11,
       <1>12, <1>13, <1>14, <1>15, <1>16, <1>17
   DEF LifecycleNext, DispatcherThread, ConsumerThread, Client, Stop

-----------------------------------------------------------------------------
(* What is held is in the list, and each step moves at most one reference. *)

(* Whoever holds a datum is counted for it.                                *)
LEMMA HolderListed ==
  ASSUME Control, CountInv, NEW c \in Holding
  PROVE  cslot[c] \in Data /\ refs[cslot[c]] > 0
<1> DEFINE H == {e \in Holding : cslot[e] = cslot[c]}
<1>1. IsFiniteSet(Consumers)
  BY FS_Interval, PcaAssumption DEF PcaAssumption, Consumers
<1>2. IsFiniteSet(H) /\ c \in H /\ cslot[c] \in Data
  BY <1>1, FS_Subset DEF Holding, Control, Ranges
<1>3. Cardinality(H) <= refs[cslot[c]] /\ refs[cslot[c]] \in Nat
  BY <1>2 DEF CountInv, Control, Ranges
<1> HIDE DEF H
<1>4. Cardinality(H) \in Nat /\ Cardinality(H) # 0
  BY <1>2, FS_CardinalityType, FS_EmptySet
<1> QED BY <1>2, <1>3, <1>4

(* What a step may do to the holders of data and to the list.              *)
HoldersStep ==
  \/ UNCHANGED <<Holding, refs, cslot>>
  \/ \E c \in Holding : /\ Holding' = Holding \ {c} /\ cslot' = cslot
                         /\ RemoveDataFreeItem(cslot[c])
  \/ /\ pos \in Consumers \ Holding /\ Holding' = Holding \union {pos}
     /\ cslot' = [cslot EXCEPT ![pos] = dslot] /\ AddDataFreeItem(dslot)
  \/ Holding' \subseteq Holding /\ UNCHANGED <<refs, cslot>>
  \/ Holding' = {} /\ refs' = [d \in Data |-> 0]

(* Which step does which.                                                  *)
LEMMA HoldersMove ==
  ASSUME LifeInv, [LifecycleNext]_lvars PROVE HoldersStep
<1> USE PcaAssumption DEF PcaAssumption
<1> USE DEF LifeInv, Control, Ranges, StopInv, GoneInv, Gone, MutexInv,
       WalkInv, FlagInv, Holding, Holds, HoldersStep, Consumers, DispatcherPc,
       ConsumerPc, FeederPc, StopPc, Outside, Delivering, Waking, Handling
<1> USE DEF slotVars, walkVars, listVars, freeVars, consVars, fvars, stopVars,
       ConsumerStep
<1>1. ASSUME NEW f \in Feeders, Feed(f), UNCHANGED stopVars PROVE HoldersStep
  <2>1. ASSUME NEW d \in Data, FeedTrylock(f, d) PROVE HoldersStep
    BY <1>1, <2>1 DEF FeedTrylock
  <2>2. CASE FeedFreeOld(f)
    BY <1>1, <2>2 DEF FeedFreeOld
  <2>3. CASE FeedStore(f)
    BY <1>1, <2>3 DEF FeedStore
  <2>4. CASE FeedDiscard(f)
    BY <1>1, <2>4 DEF FeedDiscard
  <2> QED BY <1>1, <2>1, <2>2, <2>3, <2>4 DEF Feed
<1>2. ASSUME Dispatcher, UNCHANGED stopVars PROVE HoldersStep
  <2>1. CASE DispatcherStart
    BY <1>2, <2>1 DEF DispatcherStart
  <2>2. CASE DispatcherWait
    BY <1>2, <2>2 DEF DispatcherWait
  <2>3. CASE DispatcherLock
    BY <1>2, <2>3 DEF DispatcherLock
  <2>4. CASE FeedConsumersLock
    BY <1>2, <2>4 DEF FeedConsumersLock
  <2>5. CASE FeedConsumersSkip
    BY <1>2, <2>5 DEF FeedConsumersSkip
  <2>6. CASE FeedConsumersTrylock
    BY <1>2, <2>6 DEF FeedConsumersTrylock
  <2>7. CASE FeedConsumersRemoveLock
    BY <1>2, <2>7 DEF FeedConsumersRemoveLock
  <2>8. CASE FeedConsumersRemove
    <3>1. pos \in Holding /\ Holding' = Holding \ {pos} /\ cslot' = cslot
      BY <1>2, <2>8 DEF FeedConsumersRemove
    <3>2. RemoveDataFreeItem(cslot[pos])
      BY <2>8 DEF FeedConsumersRemove
    <3> HIDE DEF Holding
    <3> QED BY <3>1, <3>2
  <2>9. CASE FeedConsumersAdd
    BY <1>2, <2>9 DEF FeedConsumersAdd
  <2>10. CASE FeedConsumersNextLoop
    BY <1>2, <2>10 DEF FeedConsumersNextLoop
  <2>11. CASE FeedConsumersUnlock
    BY <1>2, <2>11 DEF FeedConsumersUnlock
  <2>12. CASE FeedConsumersHasNew
    BY <1>2, <2>12 DEF FeedConsumersHasNew
  <2>13. CASE FeedConsumersPost
    BY <1>2, <2>13 DEF FeedConsumersPost
  <2>14. CASE FeedConsumersReturn
    BY <1>2, <2>14 DEF FeedConsumersReturn
  <2>15. CASE DispatcherFree
    BY <1>2, <2>15 DEF DispatcherFree
  <2>16. CASE DispatcherFinish
    BY <1>2, <2>16 DEF DispatcherFinish
  <2> QED BY <1>2, <2>1, <2>2, <2>3, <2>4, <2>5, <2>6, <2>7, <2>8, <2>9,
         <2>10, <2>11, <2>12, <2>13, <2>14, <2>15, <2>16 DEF Dispatcher,
         FeedConsumers
<1>3. ASSUME NEW c \in Consumers, Consumer(c), UNCHANGED stopVars PROVE HoldersStep
  <2>1. CASE ConsumerStart(c)
    BY <1>3, <2>1 DEF ConsumerStart
  <2>2. CASE ConsumerWait(c)
    BY <1>3, <2>2 DEF ConsumerWait
  <2>3. CASE ConsumerHasNew(c)
    BY <1>3, <2>3 DEF ConsumerHasNew
  <2>4. CASE ConsumerLock(c)
    BY <1>3, <2>4 DEF ConsumerLock
  <2>5. CASE ConsumerProcess(c)
    BY <1>3, <2>5 DEF ConsumerProcess
  <2>6. CASE ConsumerRemoveLock(c)
    BY <1>3, <2>6 DEF ConsumerRemoveLock
  <2>7. CASE ConsumerRemove(c)
    <3>1. ~(dpc = "add" /\ pos = c)
      BY <2>7 DEF ConsumerRemove
    <3>2. c \in Holding /\ Holding' = Holding \ {c} /\ cslot' = cslot
      BY <1>3, <2>7, <3>1 DEF ConsumerRemove
    <3>3. RemoveDataFreeItem(cslot[c])
      BY <2>7 DEF ConsumerRemove
    <3> HIDE DEF Holding
    <3> QED BY <3>2, <3>3
  <2>8. CASE ConsumerDone(c)
    BY <1>3, <2>8 DEF ConsumerDone
  <2> QED BY <1>3, <2>1, <2>2, <2>3, <2>4, <2>5, <2>6, <2>7, <2>8 DEF Consumer
<1>4. ASSUME NEW c \in Consumers, ConsumerCancelled(c) PROVE HoldersStep
  BY <1>4 DEF ConsumerCancelled
<1>5. CASE AddConsumer /\ spc = "idle" /\ UNCHANGED stopVars
  BY <1>5 DEF AddConsumer
<1>6. CASE AddConsumerSpawn /\ UNCHANGED stopVars
  BY <1>6 DEF AddConsumerSpawn
<1>7. CASE StopLock
  BY <1>7 DEF StopLock, vars
<1>8. CASE StopCancel
  BY <1>8 DEF StopCancel, vars
<1>9. CASE StopJoin
  BY <1>9 DEF StopJoin, vars
<1>10. CASE StopUnlock
  BY <1>10 DEF StopUnlock, vars
<1>11. CASE StopFlushLock
  BY <1>11 DEF StopFlushLock, vars
<1>12. CASE StopFlush
  BY <1>12 DEF StopFlush, vars
<1>13. CASE StopCancelDispatcher
  BY <1>13 DEF StopCancelDispatcher, vars
<1>14. CASE StopJoinDispatcher
  BY <1>14 DEF StopJoinDispatcher, vars
<1>15. CASE Run
  BY <1>15 DEF Run, vars
<1>16. CASE DispatcherCancelled
  BY <1>16 DEF DispatcherCancelled, vars
<1>17. CASE UNCHANGED lvars
  BY <1>17 DEF lvars, vars
<1> QED BY <1>1, <1>2, <1>3, <1>4, <1>5, <1>6, <1>7, <1>8, <1>9, <1>10, <1>11,
       <1>12, <1>13, <1>14, <1>15, <1>16, <1>17
   DEF LifecycleNext, DispatcherThread, ConsumerThread, Client, Stop

(* The count follows the holders, from above.                              *)
LEMMA CountKept ==
  ASSUME LifeInv, HoldersStep PROVE CountInv'
<1> DEFINE H(d) == {c \in Holding : cslot[c] = d}
<1>0. \A d \in Data : /\ IsFiniteSet(H(d)) /\ refs[d] \in Nat
                     /\ Cardinality(H(d)) \in Nat /\ Cardinality(H(d)) <= refs[d]
  <2>1. IsFiniteSet(Consumers)
    BY FS_Interval, PcaAssumption DEF PcaAssumption, Consumers
  <2>2. \A d \in Data : IsFiniteSet(H(d))
    BY <2>1, FS_Subset DEF Holding
  <2>3. refs \in [Data -> Nat]
    BY DEF LifeInv, Control, Ranges
  <2> QED BY <2>2, <2>3, FS_CardinalityType DEF LifeInv, CountInv
<1> SUFFICES ASSUME NEW d \in Data
             PROVE  Cardinality({c \in Holding' : cslot'[c] = d}) <= refs'[d]
  BY DEF CountInv
<1>t. cslot \in [Consumers -> Data] /\ refs \in [Data -> Nat]
  BY DEF LifeInv, Control, Ranges
<1>1. CASE UNCHANGED <<Holding, refs, cslot>>
  BY <1>0, <1>1
<1>2. ASSUME NEW c \in Holding, Holding' = Holding \ {c}, cslot' = cslot,
             RemoveDataFreeItem(cslot[c])
      PROVE  Cardinality({e \in Holding' : cslot'[e] = d}) <= refs'[d]
  <2>1. {e \in Holding' : cslot'[e] = d} = H(d) \ {c}
    BY <1>2
  <2>2. c \in H(d) <=> cslot[c] = d
    OBVIOUS
  <2>3. refs'[d] = IF cslot[c] = d THEN refs[d] - 1 ELSE refs[d]
    <3>1. cslot[c] \in Data /\ refs[cslot[c]] > 0
      BY HolderListed DEF LifeInv
    <3> QED BY <1>2, <1>t, <3>1 DEF RemoveDataFreeItem
  <2> HIDE DEF H
  <2>4. Cardinality(H(d) \ {c}) = IF c \in H(d) THEN Cardinality(H(d)) - 1
                                                ELSE Cardinality(H(d))
    BY <1>0, FS_RemoveElement
  <2> QED BY <1>0, <2>1, <2>2, <2>3, <2>4
<1>3. CASE /\ pos \in Consumers \ Holding /\ Holding' = Holding \union {pos}
           /\ cslot' = [cslot EXCEPT ![pos] = dslot] /\ AddDataFreeItem(dslot)
  <2>1. {e \in Holding' : cslot'[e] = d}
           = IF d = dslot THEN H(d) \union {pos} ELSE H(d)
    BY <1>3, <1>t DEF Holding
  <2>2. pos \notin H(d)
    BY <1>3
  <2>3. refs'[d] = IF d = dslot THEN refs[d] + 1 ELSE refs[d]
    BY <1>3, <1>t DEF AddDataFreeItem
  <2> HIDE DEF H
  <2>4. Cardinality(H(d) \union {pos}) = Cardinality(H(d)) + 1
    BY <1>0, <2>2, FS_AddElement
  <2>5. CASE d = dslot
    <3>1. {e \in Holding' : cslot'[e] = d} = H(d) \union {pos}
      BY <2>1, <2>5
    <3>2. Cardinality({e \in Holding' : cslot'[e] = d}) = Cardinality(H(d)) + 1
      BY <2>4, <3>1
    <3>3. refs'[d] = refs[d] + 1
      BY <2>3, <2>5
    <3>4. Cardinality(H(d)) + 1 <= refs[d] + 1
      BY <1>0
    <3> QED BY <3>2, <3>3, <3>4
  <2>6. CASE d # dslot
    BY <1>0, <2>1, <2>3, <2>6
  <2> QED BY <2>5, <2>6
<1>4. CASE Holding' \subseteq Holding /\ UNCHANGED <<refs, cslot>>
  <2> DEFINE G == {e \in Holding' : cslot'[e] = d}
  <2>1. G \subseteq H(d)
    BY <1>4
  <2> HIDE DEF G, H
  <2>2. Cardinality(G) \in Nat /\ Cardinality(G) <= Cardinality(H(d))
    BY <1>0, <2>1, FS_Subset, FS_CardinalityType
  <2>3. refs'[d] = refs[d]
    BY <1>4
  <2> QED BY <1>0, <2>2, <2>3 DEF G
<1>5. CASE Holding' = {} /\ refs' = [b \in Data |-> 0]
  <2>1. {e \in Holding' : cslot'[e] = d} = {}
    BY <1>5
  <2> QED BY <1>5, <2>1, FS_EmptySet
<1> QED BY <1>1, <1>2, <1>3, <1>4, <1>5 DEF HoldersStep

-----------------------------------------------------------------------------
(* What a holder removes is not on offer; when it was the last reference   *)
(* the datum is no longer owned.                                           *)
LEMMA RemovePlaces ==
  ASSUME Control, CountInv, PlaceInv, NEW c \in Holding,
         RemoveDataFreeItem(cslot[c]),
         Waits => cslot[c] # dslot, Delivering => Waits,
         Waits' <=> Waits, Delivering' <=> Delivering,
         Holding' = Holding \ {c}, Calling' = Calling,
         UNCHANGED <<cslot, fdata, dslot, pos, need, accepted>>
  PROVE  PlaceInv'
<1>1. cslot[c] \in Data /\ refs[cslot[c]] > 0 /\ refs \in [Data -> Nat]
  BY HolderListed DEF Control, Ranges
<1>2. /\ refs' = [refs EXCEPT ![cslot[c]] = @ - 1]
      /\ owned' = IF refs[cslot[c]] = 1 THEN owned \ {cslot[c]} ELSE owned
  BY <1>1 DEF RemoveDataFreeItem
<1>3. dslot \in Data /\ \A f \in Calling : fdata[f] \in Data
  BY DEF Control, Ranges, Calling
<1>4. \A d \in Data : d # cslot[c] => refs'[d] = refs[d]
  BY <1>1, <1>2
<1>13. \A d \in Data : refs'[d] > 0 => refs[d] > 0 /\ d \in owned'
  BY <1>1, <1>2 DEF PlaceInv
<1>5. \A d \in owned : d # cslot[c] => d \in owned'
  BY <1>2
<1>6. /\ \A f \in Calling : fdata[f] \in owned /\ refs[fdata[f]] = 0
      /\ \A f, g \in Calling : fdata[f] = fdata[g] => f = g
      /\ Delivering /\ accepted => refs[dslot] > 0
      /\ Waits => /\ dslot \in owned
                  /\ refs[dslot] > 0 => Delivering /\ accepted
                  /\ \A e \in Holding : cslot[e] = dslot => need[e] /\ e < pos
                  /\ \A f \in Calling : fdata[f] # dslot
  BY DEF PlaceInv
<1>7. \A f \in Calling : fdata[f] # cslot[c]
  BY <1>1, <1>6
<1>8. \A f \in Calling : fdata[f] \in owned' /\ refs'[fdata[f]] = 0
  BY <1>3, <1>4, <1>5, <1>6, <1>7, Zenon
<1>9. Delivering /\ accepted => refs'[dslot] > 0
  <2>1. Delivering => dslot # cslot[c] /\ refs'[dslot] = refs[dslot]
    BY <1>3, <1>4, Zenon
  <2> QED BY <2>1, <1>6
<1>10. Waits => /\ dslot \in owned'
                /\ refs'[dslot] > 0 => Delivering /\ accepted
  <2>1. Waits => dslot # cslot[c] /\ refs'[dslot] = refs[dslot]
    BY <1>3, <1>4, Zenon
  <2> QED BY <2>1, <1>5, <1>6
<1>11. \A f \in Calling' : /\ fdata'[f] \in owned' /\ refs'[fdata'[f]] = 0
                           /\ \A g \in Calling' : fdata'[f] = fdata'[g] => f = g
  BY <1>6, <1>8
<1>12. Waits' => \A e \in Holding' : cslot'[e] = dslot' => need'[e] /\ e < pos'
  BY <1>6
<1> QED BY <1>13, <1>6, <1>9, <1>10, <1>11, <1>12 DEF PlaceInv

(* The places are kept by each step.                                       *)
LEMMA PlaceKept ==
  ASSUME LifeInv, [LifecycleNext]_lvars PROVE PlaceInv'
<1> USE PcaAssumption DEF PcaAssumption
<1> USE DEF LifeInv, Control, Ranges, StopInv, GoneInv, Gone, MutexInv,
       WalkInv, WakeInv, FlagInv, PlaceInv, Waits, Holding, Holds, Calling,
       InHand, Consumers, DispatcherPc, ConsumerPc, FeederPc, StopPc, Outside,
       Delivering, Waking, Handling
<1> USE DEF slotVars, walkVars, listVars, freeVars, consVars, fvars, stopVars,
       ConsumerStep
<1>1. ASSUME NEW f \in Feeders, Feed(f), UNCHANGED stopVars PROVE PlaceInv'
  <2>1. ASSUME NEW d \in Data, FeedTrylock(f, d) PROVE PlaceInv'
    BY <1>1, <2>1 DEF FeedTrylock
  <2>2. CASE FeedFreeOld(f)
    BY <1>1, <2>2 DEF FeedFreeOld, DataFree
  <2>3. CASE FeedStore(f)
    <3>1. \A c \in Holding : refs[cslot[c]] > 0
      BY HolderListed
    <3>2. Holding' = Holding /\ Calling' = Calling \ {f} /\ f \in Calling
      BY <1>1, <2>3 DEF FeedStore
    <3>3. /\ dslot' = fdata[f] /\ ~Delivering
          /\ UNCHANGED <<owned, refs, cslot, fdata, dpc>>
      BY <1>1, <2>3 DEF FeedStore
    <3> HIDE DEF Holding, Calling
    <3>4. \A c \in Holding : cslot[c] # fdata[f]
      BY <3>1, <3>2
    <3> QED BY <3>2, <3>3, <3>4
  <2>4. CASE FeedDiscard(f)
    BY <1>1, <2>4 DEF FeedDiscard, DataFree
  <2> QED BY <1>1, <2>1, <2>2, <2>3, <2>4 DEF Feed
<1>2. ASSUME Dispatcher, UNCHANGED stopVars PROVE PlaceInv'
  <2>1. CASE DispatcherStart
    BY <1>2, <2>1 DEF DispatcherStart
  <2>2. CASE DispatcherWait
    BY <1>2, <2>2 DEF DispatcherWait
  <2>3. CASE DispatcherLock
    BY <1>2, <2>3 DEF DispatcherLock
  <2>4. CASE FeedConsumersLock
    <3>1. Waits /\ ~Delivering /\ Waits' /\ Delivering' /\ ~accepted'
      BY <1>2, <2>4 DEF FeedConsumersLock
    <3>2. /\ Holding' = Holding /\ Calling' = Calling
          /\ UNCHANGED <<owned, refs, cslot, fdata, dslot>>
      BY <1>2, <2>4 DEF FeedConsumersLock
    <3> HIDE DEF Holding, Calling, Waits, Delivering
    <3>3. ~(refs[dslot] > 0) /\ \A c \in Holding : cslot[c] # dslot
      BY <3>1, HolderListed
    <3> QED BY <3>1, <3>2, <3>3
  <2>5. CASE FeedConsumersSkip
    BY <1>2, <2>5 DEF FeedConsumersSkip
  <2>6. CASE FeedConsumersTrylock
    BY <1>2, <2>6 DEF FeedConsumersTrylock
  <2>7. CASE FeedConsumersRemoveLock
    BY <1>2, <2>7 DEF FeedConsumersRemoveLock
  <2>8. CASE FeedConsumersRemove
    <3>1. pos \in Holding /\ Holding' = Holding \ {pos} /\ Calling' = Calling
      BY <1>2, <2>8 DEF FeedConsumersRemove
    <3>2. /\ Waits /\ Waits' /\ Delivering /\ Delivering'
          /\ UNCHANGED <<cslot, fdata, dslot, pos, need, accepted>>
          /\ RemoveDataFreeItem(cslot[pos])
      BY <1>2, <2>8 DEF FeedConsumersRemove
    <3> HIDE DEF Holding, Calling, Waits, Delivering
    <3>3. cslot[pos] # dslot
      BY <3>1, <3>2
    <3> QED BY <3>1, <3>2, <3>3, RemovePlaces
  <2>9. CASE FeedConsumersAdd
    BY <1>2, <2>9 DEF FeedConsumersAdd, AddDataFreeItem
  <2>10. CASE FeedConsumersNextLoop
    <3>1. /\ Holding' = Holding /\ Calling' = Calling
          /\ UNCHANGED <<owned, refs, cslot, fdata, dslot, accepted>>
          /\ Waits /\ ~Delivering'
      BY <1>2, <2>10 DEF FeedConsumersNextLoop
    <3>2. Waits' => ~accepted
      BY <1>2, <2>10 DEF FeedConsumersNextLoop
    <3> HIDE DEF Holding, Calling, Waits, Delivering
    <3>3. ~accepted => \A c \in Holding : cslot[c] # dslot
      BY <3>1, HolderListed
    <3> QED BY <3>1, <3>2, <3>3
  <2>11. CASE FeedConsumersUnlock
    BY <1>2, <2>11 DEF FeedConsumersUnlock
  <2>12. CASE FeedConsumersHasNew
    BY <1>2, <2>12 DEF FeedConsumersHasNew
  <2>13. CASE FeedConsumersPost
    BY <1>2, <2>13 DEF FeedConsumersPost
  <2>14. CASE FeedConsumersReturn
    BY <1>2, <2>14 DEF FeedConsumersReturn
  <2>15. CASE DispatcherFree
    BY <1>2, <2>15 DEF DispatcherFree, DataFree
  <2>16. CASE DispatcherFinish
    BY <1>2, <2>16 DEF DispatcherFinish
  <2> QED BY <1>2, <2>1, <2>2, <2>3, <2>4, <2>5, <2>6, <2>7, <2>8, <2>9,
         <2>10, <2>11, <2>12, <2>13, <2>14, <2>15, <2>16 DEF Dispatcher,
         FeedConsumers
<1>3. ASSUME NEW c \in Consumers, Consumer(c), UNCHANGED stopVars PROVE PlaceInv'
  <2>1. CASE ConsumerStart(c)
    BY <1>3, <2>1 DEF ConsumerStart
  <2>2. CASE ConsumerWait(c)
    BY <1>3, <2>2 DEF ConsumerWait
  <2>3. CASE ConsumerHasNew(c)
    BY <1>3, <2>3 DEF ConsumerHasNew
  <2>4. CASE ConsumerLock(c)
    BY <1>3, <2>4 DEF ConsumerLock
  <2>5. CASE ConsumerProcess(c)
    BY <1>3, <2>5 DEF ConsumerProcess
  <2>6. CASE ConsumerRemoveLock(c)
    BY <1>3, <2>6 DEF ConsumerRemoveLock
  <2>7. CASE ConsumerRemove(c)
    <3>1. ~(dpc = "add" /\ pos = c) /\ ~need[c]
      BY <2>7 DEF ConsumerRemove
    <3>2. c \in Holding /\ Holding' = Holding \ {c} /\ Calling' = Calling
      BY <1>3, <2>7, <3>1 DEF ConsumerRemove
    <3>3. /\ Waits' <=> Waits
          /\ Delivering' <=> Delivering
          /\ Delivering => Waits
          /\ UNCHANGED <<cslot, fdata, dslot, pos, need, accepted>>
          /\ RemoveDataFreeItem(cslot[c])
      BY <1>3, <2>7 DEF ConsumerRemove
    <3> HIDE DEF Holding, Calling, Waits, Delivering
    <3>4. Waits => cslot[c] # dslot
      BY <3>1, <3>2
    <3> QED BY <3>2, <3>3, <3>4, RemovePlaces
  <2>8. CASE ConsumerDone(c)
    BY <1>3, <2>8 DEF ConsumerDone
  <2> QED BY <1>3, <2>1, <2>2, <2>3, <2>4, <2>5, <2>6, <2>7, <2>8 DEF Consumer
<1>4. ASSUME NEW c \in Consumers, ConsumerCancelled(c) PROVE PlaceInv'
  BY <1>4 DEF ConsumerCancelled
<1>5. CASE AddConsumer /\ spc = "idle" /\ UNCHANGED stopVars
  BY <1>5 DEF AddConsumer
<1>6. CASE AddConsumerSpawn /\ UNCHANGED stopVars
  BY <1>6 DEF AddConsumerSpawn
<1>7. CASE StopLock
  BY <1>7 DEF StopLock, vars
<1>8. CASE StopCancel
  BY <1>8 DEF StopCancel, vars
<1>9. CASE StopJoin
  BY <1>9 DEF StopJoin, vars
<1>10. CASE StopUnlock
  BY <1>10 DEF StopUnlock, vars
<1>11. CASE StopFlushLock
  BY <1>11 DEF StopFlushLock, vars
<1>12. CASE StopFlush
  BY <1>12 DEF StopFlush, vars
<1>13. CASE StopCancelDispatcher
  BY <1>13 DEF StopCancelDispatcher, vars
<1>14. CASE StopJoinDispatcher
  BY <1>14 DEF StopJoinDispatcher, vars
<1>15. CASE Run
  BY <1>15 DEF Run, vars
<1>16. CASE DispatcherCancelled
  BY <1>16 DEF DispatcherCancelled, vars
<1>17. CASE UNCHANGED lvars
  BY <1>17 DEF lvars, vars
<1> QED BY <1>1, <1>2, <1>3, <1>4, <1>5, <1>6, <1>7, <1>8, <1>9, <1>10, <1>11,
       <1>12, <1>13, <1>14, <1>15, <1>16, <1>17
   DEF LifecycleNext, DispatcherThread, ConsumerThread, Client, Stop

-----------------------------------------------------------------------------
(* Whatever is left to do while nothing is listed lists nothing.           *)
LEMMA EmptyKept ==
  ASSUME LifeInv, [LifecycleNext]_lvars PROVE EmptyInv'
<1> USE PcaAssumption DEF PcaAssumption
<1> USE DEF LifeInv, Control, Ranges, StopInv, MutexInv, WalkInv, EmptyInv,
       Consumers, DispatcherPc, ConsumerPc, FeederPc, StopPc, Outside,
       Delivering, Waking, Handling
<1> USE DEF slotVars, walkVars, listVars, freeVars, consVars, fvars, stopVars,
       ConsumerStep
<1>1. ASSUME NEW f \in Feeders, Feed(f), UNCHANGED stopVars PROVE EmptyInv'
  <2>1. ASSUME NEW d \in Data, FeedTrylock(f, d) PROVE EmptyInv'
    BY <1>1, <2>1 DEF FeedTrylock
  <2>2. CASE FeedFreeOld(f)
    BY <1>1, <2>2 DEF FeedFreeOld, DataFree
  <2>3. CASE FeedStore(f)
    BY <1>1, <2>3 DEF FeedStore
  <2>4. CASE FeedDiscard(f)
    BY <1>1, <2>4 DEF FeedDiscard, DataFree
  <2> QED BY <1>1, <2>1, <2>2, <2>3, <2>4 DEF Feed
<1>2. ASSUME Dispatcher, UNCHANGED stopVars PROVE EmptyInv'
  <2>1. CASE DispatcherStart
    BY <1>2, <2>1 DEF DispatcherStart
  <2>2. CASE DispatcherWait
    BY <1>2, <2>2 DEF DispatcherWait
  <2>3. CASE DispatcherLock
    BY <1>2, <2>3 DEF DispatcherLock
  <2>4. CASE FeedConsumersLock
    BY <1>2, <2>4 DEF FeedConsumersLock
  <2>5. CASE FeedConsumersSkip
    BY <1>2, <2>5 DEF FeedConsumersSkip
  <2>6. CASE FeedConsumersTrylock
    BY <1>2, <2>6 DEF FeedConsumersTrylock
  <2>7. CASE FeedConsumersRemoveLock
    BY <1>2, <2>7 DEF FeedConsumersRemoveLock
  <2>8. CASE FeedConsumersRemove
    BY <1>2, <2>8 DEF FeedConsumersRemove, RemoveDataFreeItem
  <2>9. CASE FeedConsumersAdd
    BY <1>2, <2>9 DEF FeedConsumersAdd, AddDataFreeItem
  <2>10. CASE FeedConsumersNextLoop
    BY <1>2, <2>10 DEF FeedConsumersNextLoop
  <2>11. CASE FeedConsumersUnlock
    BY <1>2, <2>11 DEF FeedConsumersUnlock
  <2>12. CASE FeedConsumersHasNew
    BY <1>2, <2>12 DEF FeedConsumersHasNew
  <2>13. CASE FeedConsumersPost
    BY <1>2, <2>13 DEF FeedConsumersPost
  <2>14. CASE FeedConsumersReturn
    BY <1>2, <2>14 DEF FeedConsumersReturn
  <2>15. CASE DispatcherFree
    BY <1>2, <2>15 DEF DispatcherFree, DataFree
  <2>16. CASE DispatcherFinish
    BY <1>2, <2>16 DEF DispatcherFinish
  <2> QED BY <1>2, <2>1, <2>2, <2>3, <2>4, <2>5, <2>6, <2>7, <2>8, <2>9,
         <2>10, <2>11, <2>12, <2>13, <2>14, <2>15, <2>16 DEF Dispatcher,
         FeedConsumers
<1>3. ASSUME NEW c \in Consumers, Consumer(c), UNCHANGED stopVars PROVE EmptyInv'
  <2>1. CASE ConsumerStart(c)
    BY <1>3, <2>1 DEF ConsumerStart
  <2>2. CASE ConsumerWait(c)
    BY <1>3, <2>2 DEF ConsumerWait
  <2>3. CASE ConsumerHasNew(c)
    BY <1>3, <2>3 DEF ConsumerHasNew
  <2>4. CASE ConsumerLock(c)
    BY <1>3, <2>4 DEF ConsumerLock
  <2>5. CASE ConsumerProcess(c)
    BY <1>3, <2>5 DEF ConsumerProcess
  <2>6. CASE ConsumerRemoveLock(c)
    BY <1>3, <2>6 DEF ConsumerRemoveLock
  <2>7. CASE ConsumerRemove(c)
    BY <1>3, <2>7 DEF ConsumerRemove, RemoveDataFreeItem
  <2>8. CASE ConsumerDone(c)
    BY <1>3, <2>8 DEF ConsumerDone
  <2> QED BY <1>3, <2>1, <2>2, <2>3, <2>4, <2>5, <2>6, <2>7, <2>8 DEF Consumer
<1>4. ASSUME NEW c \in Consumers, ConsumerCancelled(c) PROVE EmptyInv'
  BY <1>4 DEF ConsumerCancelled
<1>5. CASE AddConsumer /\ spc = "idle" /\ UNCHANGED stopVars
  BY <1>5 DEF AddConsumer
<1>6. CASE AddConsumerSpawn /\ UNCHANGED stopVars
  BY <1>6 DEF AddConsumerSpawn
<1>7. CASE StopLock
  BY <1>7 DEF StopLock, vars
<1>8. CASE StopCancel
  BY <1>8 DEF StopCancel, vars
<1>9. CASE StopJoin
  BY <1>9 DEF StopJoin, vars
<1>10. CASE StopUnlock
  BY <1>10 DEF StopUnlock, vars
<1>11. CASE StopFlushLock
  BY <1>11 DEF StopFlushLock, vars
<1>12. CASE StopFlush
  BY <1>12 DEF StopFlush, vars
<1>13. CASE StopCancelDispatcher
  BY <1>13 DEF StopCancelDispatcher, vars
<1>14. CASE StopJoinDispatcher
  BY <1>14 DEF StopJoinDispatcher, vars
<1>15. CASE Run
  BY <1>15 DEF Run, vars
<1>16. CASE DispatcherCancelled
  BY <1>16 DEF DispatcherCancelled, vars
<1>17. CASE UNCHANGED lvars
  BY <1>17 DEF lvars, vars
<1> QED BY <1>1, <1>2, <1>3, <1>4, <1>5, <1>6, <1>7, <1>8, <1>9, <1>10, <1>11,
       <1>12, <1>13, <1>14, <1>15, <1>16, <1>17
   DEF LifecycleNext, DispatcherThread, ConsumerThread, Client, Stop

-----------------------------------------------------------------------------
(* A removal gives a datum back with its last reference, and then only.    *)
LEMMA RemovePlaced ==
  ASSUME Control, AllPlaced, NEW c \in Consumers, RemoveDataFreeItem(cslot[c]),
         UNCHANGED <<fdata, dslot, Calling>>, Waits => Waits'
  PROVE  AllPlaced'
<1>1. cslot[c] \in Data /\ refs \in [Data -> Nat] /\ owned \in SUBSET Data
  BY DEF Control, Ranges
<1>2. \A d \in Data : d \in owned' /\ refs[d] > 0 => refs'[d] > 0
  BY <1>1 DEF RemoveDataFreeItem
<1>3. owned' \subseteq owned
  BY DEF RemoveDataFreeItem
<1> QED BY <1>1, <1>2, <1>3 DEF AllPlaced

(* The mutexes are where they are needed, and nothing is forgotten.        *)
LEMMA ReturnedKept ==
  ASSUME ~CallbackCancels, LifeInv, ReturnedInv, [LifecycleNext]_lvars
  PROVE  ReturnedInv'
<1> USE PcaAssumption DEF PcaAssumption
<1> USE DEF LifeInv, Control, Ranges, StopInv, GoneInv, Gone, MutexInv,
       WalkInv, WakeInv, FlagInv, PlaceInv, ReturnedInv, FreeMutexInv,
       AllPlaced, Waits, Calling, InHand, Consumers, DispatcherPc, ConsumerPc,
       FeederPc, StopPc, Outside, Delivering, Waking, Handling
<1> USE DEF slotVars, walkVars, listVars, freeVars, consVars, fvars, stopVars,
       ConsumerStep
<1>1. ASSUME NEW f \in Feeders, Feed(f), UNCHANGED stopVars PROVE ReturnedInv'
  <2>1. ASSUME NEW d \in Data, FeedTrylock(f, d) PROVE ReturnedInv'
    <3>1. FeedTrylock(f, d) /\ UNCHANGED stopVars /\ d \notin owned
      BY <1>1, <2>1 DEF FeedTrylock
    <3>2. FreeMutexInv' /\ (dmutex' = "dispatcher" => ~Outside')
      <4>1. UNCHANGED <<freeMutex, cpc, dpc, spc>>
        BY <3>1 DEF FeedTrylock
      <4>2. dmutex' \in {dmutex, "feeder"}
        BY <3>1 DEF FeedTrylock
      <4> QED BY <4>1, <4>2
    <3>3. /\ Calling' = Calling \union {f} /\ f \notin Calling
          /\ owned' = owned \union {d} /\ fdata' = [fdata EXCEPT ![f] = d]
          /\ UNCHANGED <<refs, dslot>>
      BY <3>1 DEF FeedTrylock
    <3>4. Waits => Waits'
      <4>1. \A g \in Feeders : fpc'[g] = "store" => fpc[g] = "store" \/ ~dnew
        BY <3>1 DEF FeedTrylock
      <4>2. UNCHANGED <<dnew, dpc, accepted>>
        BY <3>1 DEF FeedTrylock
      <4> QED BY <4>1, <4>2
    <3> HIDE DEF Calling, Waits
    <3>5. \A g \in Calling : g \in Calling' /\ fdata'[g] = fdata[g]
      BY <3>3
    <3>6. f \in Calling' /\ fdata'[f] = d
      BY <3>3
    <3>7. AllPlaced'
      <4> SUFFICES ASSUME NEW e \in owned'
                   PROVE  \/ \E g \in Calling' : fdata'[g] = e
                          \/ Waits' /\ dslot' = e
                          \/ refs'[e] > 0
        BY DEF AllPlaced
      <4>1. CASE e = d
        BY <3>6, <4>1
      <4>2. CASE e \in owned
        <5>1. \/ \E g \in Calling : fdata[g] = e
              \/ Waits /\ dslot = e
              \/ refs[e] > 0
          BY <4>2
        <5> QED BY <3>3, <3>4, <3>5, <5>1
      <4> QED BY <3>3, <4>1, <4>2
    <3> QED BY <3>2, <3>7
  <2>2. CASE FeedFreeOld(f)
    BY <1>1, <2>2 DEF FeedFreeOld, DataFree
  <2>3. CASE FeedStore(f)
    BY <1>1, <2>3 DEF FeedStore
  <2>4. CASE FeedDiscard(f)
    BY <1>1, <2>4 DEF FeedDiscard, DataFree
  <2> QED BY <1>1, <2>1, <2>2, <2>3, <2>4 DEF Feed
<1>2. ASSUME Dispatcher, UNCHANGED stopVars PROVE ReturnedInv'
  <2>1. CASE DispatcherStart
    BY <1>2, <2>1 DEF DispatcherStart
  <2>2. CASE DispatcherWait
    BY <1>2, <2>2 DEF DispatcherWait
  <2>3. CASE DispatcherLock
    BY <1>2, <2>3 DEF DispatcherLock
  <2>4. CASE FeedConsumersLock
    BY <1>2, <2>4 DEF FeedConsumersLock
  <2>5. CASE FeedConsumersSkip
    BY <1>2, <2>5 DEF FeedConsumersSkip
  <2>6. CASE FeedConsumersTrylock
    BY <1>2, <2>6 DEF FeedConsumersTrylock
  <2>7. CASE FeedConsumersRemoveLock
    BY <1>2, <2>7 DEF FeedConsumersRemoveLock
  <2>8. CASE FeedConsumersRemove
    <3>1. FreeMutexInv' /\ (dmutex' = "dispatcher" => ~Outside')
      BY <1>2, <2>8 DEF FeedConsumersRemove
    <3>2. /\ pos \in Consumers /\ RemoveDataFreeItem(cslot[pos])
          /\ UNCHANGED <<fdata, dslot, Calling>> /\ (Waits => Waits')
      BY <1>2, <2>8 DEF FeedConsumersRemove
    <3>3. AllPlaced'
      BY <3>2, RemovePlaced
    <3> QED BY <3>1, <3>3
  <2>9. CASE FeedConsumersAdd
    BY <1>2, <2>9 DEF FeedConsumersAdd, AddDataFreeItem
  <2>10. CASE FeedConsumersNextLoop
    BY <1>2, <2>10 DEF FeedConsumersNextLoop
  <2>11. CASE FeedConsumersUnlock
    BY <1>2, <2>11 DEF FeedConsumersUnlock
  <2>12. CASE FeedConsumersHasNew
    BY <1>2, <2>12 DEF FeedConsumersHasNew
  <2>13. CASE FeedConsumersPost
    BY <1>2, <2>13 DEF FeedConsumersPost
  <2>14. CASE FeedConsumersReturn
    BY <1>2, <2>14 DEF FeedConsumersReturn
  <2>15. CASE DispatcherFree
    BY <1>2, <2>15 DEF DispatcherFree, DataFree
  <2>16. CASE DispatcherFinish
    BY <1>2, <2>16 DEF DispatcherFinish
  <2> QED BY <1>2, <2>1, <2>2, <2>3, <2>4, <2>5, <2>6, <2>7, <2>8, <2>9,
         <2>10, <2>11, <2>12, <2>13, <2>14, <2>15, <2>16 DEF Dispatcher,
         FeedConsumers
<1>3. ASSUME NEW c \in Consumers, Consumer(c), UNCHANGED stopVars PROVE ReturnedInv'
  <2>1. CASE ConsumerStart(c)
    BY <1>3, <2>1 DEF ConsumerStart
  <2>2. CASE ConsumerWait(c)
    BY <1>3, <2>2 DEF ConsumerWait
  <2>3. CASE ConsumerHasNew(c)
    BY <1>3, <2>3 DEF ConsumerHasNew
  <2>4. CASE ConsumerLock(c)
    BY <1>3, <2>4 DEF ConsumerLock
  <2>5. CASE ConsumerProcess(c)
    BY <1>3, <2>5 DEF ConsumerProcess
  <2>6. CASE ConsumerRemoveLock(c)
    BY <1>3, <2>6 DEF ConsumerRemoveLock
  <2>7. CASE ConsumerRemove(c)
    <3>1. FreeMutexInv' /\ (dmutex' = "dispatcher" => ~Outside')
      BY <1>3, <2>7 DEF ConsumerRemove
    <3>2. /\ RemoveDataFreeItem(cslot[c])
          /\ UNCHANGED <<fdata, dslot, Calling>> /\ (Waits => Waits')
      BY <1>3, <2>7 DEF ConsumerRemove
    <3>3. AllPlaced'
      BY <3>2, RemovePlaced
    <3> QED BY <3>1, <3>3
  <2>8. CASE ConsumerDone(c)
    BY <1>3, <2>8 DEF ConsumerDone
  <2> QED BY <1>3, <2>1, <2>2, <2>3, <2>4, <2>5, <2>6, <2>7, <2>8 DEF Consumer
<1>4. ASSUME NEW c \in Consumers, ConsumerCancelled(c) PROVE ReturnedInv'
  BY <1>4 DEF ConsumerCancelled
<1>5. CASE AddConsumer /\ spc = "idle" /\ UNCHANGED stopVars
  BY <1>5 DEF AddConsumer
<1>6. CASE AddConsumerSpawn /\ UNCHANGED stopVars
  BY <1>6 DEF AddConsumerSpawn
<1>7. CASE StopLock
  BY <1>7 DEF StopLock, vars
<1>8. CASE StopCancel
  BY <1>8 DEF StopCancel, vars
<1>9. CASE StopJoin
  BY <1>9 DEF StopJoin, vars
<1>10. CASE StopUnlock
  BY <1>10 DEF StopUnlock, vars
<1>11. CASE StopFlushLock
  BY <1>11 DEF StopFlushLock, vars
<1>12. CASE StopFlush
  BY <1>12 DEF StopFlush, vars
<1>13. CASE StopCancelDispatcher
  BY <1>13 DEF StopCancelDispatcher, vars
<1>14. CASE StopJoinDispatcher
  BY <1>14 DEF StopJoinDispatcher, vars
<1>15. CASE Run
  BY <1>15 DEF Run, vars
<1>16. CASE DispatcherCancelled
  BY <1>16 DEF DispatcherCancelled, vars
<1>17. CASE UNCHANGED lvars
  BY <1>17 DEF lvars, vars
<1> QED BY <1>1, <1>2, <1>3, <1>4, <1>5, <1>6, <1>7, <1>8, <1>9, <1>10, <1>11,
       <1>12, <1>13, <1>14, <1>15, <1>16, <1>17
   DEF LifecycleNext, DispatcherThread, ConsumerThread, Client, Stop

-----------------------------------------------------------------------------
(* The theorems.                                                           *)

LEMMA InitLife == LifecycleInit => LifeInv /\ ReturnedInv
<1> SUFFICES ASSUME LifecycleInit PROVE LifeInv /\ ReturnedInv
  OBVIOUS
<1> USE PcaAssumption DEF PcaAssumption, LifecycleInit, Init
<1>1. Holding = {} /\ Calling = {} /\ ~Waits
  <2>1. Holding = {} BY DEF Holding, Holds
  <2>2. Calling = {} BY DEF Calling, InHand
  <2> QED BY <2>1, <2>2 DEF Waits, Delivering, Waking
<1>2. Ranges /\ StopInv
  <2>1. 1 \in 1 .. N + 1 /\ 0 \in 0 .. N
    OBVIOUS
  <2> QED
   BY <2>1 DEF Ranges, StopInv, Consumers, DispatcherPc, ConsumerPc, FeederPc,
          StopPc
<1>3. GoneInv /\ MutexInv /\ WalkInv
  BY DEF GoneInv, Gone, MutexInv, WalkInv, Outside, Delivering, Waking,
         Handling,
         Consumers
<1>4. WakeInv /\ FlagInv
  BY DEF WakeInv, FlagInv, Delivering, Waking, Handling
<1>5. PlaceInv /\ EmptyInv
  BY <1>1 DEF PlaceInv, EmptyInv, Delivering
<1>6. CountInv
  <2>1. \A d \in Data : {c \in Holding : cslot[c] = d} = {}
    BY <1>1
  <2>2. \A d \in Data : refs[d] = 0
    OBVIOUS
  <2>3. \A d \in Data : Cardinality({c \in Holding : cslot[c] = d}) = 0
    BY <2>1, FS_EmptySet
  <2> QED BY <2>2, <2>3 DEF CountInv
<1>7. ReturnedInv
  BY DEF ReturnedInv, FreeMutexInv, AllPlaced
<1> QED BY <1>2, <1>3, <1>4, <1>5, <1>6, <1>7 DEF LifeInv, Control

LEMMA NextLife == LifeInv /\ [LifecycleNext]_lvars => LifeInv'
BY ControlKept, HoldersMove, CountKept, PlaceKept, EmptyKept DEF LifeInv

LEMMA SpecLife == LifecycleSpec => []LifeInv
BY InitLife, NextLife, PTL DEF LifecycleSpec

LEMMA SpecReturned ==
  ASSUME ~CallbackCancels PROVE LifecycleSpec => [](LifeInv /\ ReturnedInv)
<1>1. LifeInv /\ ReturnedInv /\ [LifecycleNext]_lvars => LifeInv' /\ ReturnedInv'
  BY NextLife, ReturnedKept
<1> QED BY InitLife, <1>1, PTL DEF LifecycleSpec

(* Cancelling consumers anywhere, in the client's callback too, leaves in  *)
(* the list only data that have not been given back, and everything a      *)
(* consumer that is alive holds.                                           *)
THEOREM ListedStaysOwned == LifecycleSpec => []ListedDataAreOwned
<1>1. LifeInv => ListedDataAreOwned
  <2> SUFFICES ASSUME LifeInv PROVE ListedDataAreOwned
    OBVIOUS
  <2>1. \A c \in Consumers : Holds(c) => refs[cslot[c]] > 0
    BY HolderListed DEF LifeInv, Holding
  <2> QED BY <2>1 DEF ListedDataAreOwned, LifeInv, PlaceInv
<1> QED BY SpecLife, <1>1, PTL

(* pca_dispatcher_stop, if no consumer can be cancelled inside a callback, *)
(* returns with no consumer, an empty list and every mutex free.           *)
THEOREM StopIsClean ==
  ASSUME ~CallbackCancels PROVE LifecycleSpec => []StopLeavesClean
<1>1. LifeInv /\ ReturnedInv => StopLeavesClean
  <2> SUFFICES ASSUME LifeInv, ReturnedInv, spc = "join_dispatcher", dpc = "dead"
               PROVE  /\ len = 0
                      /\ \A c \in Consumers : cpc[c] = "none" /\ cmutex[c] = "free"
                      /\ \A d \in Data : refs[d] = 0
                      /\ freeMutex = "free" /\ dmutex # "dispatcher"
    BY DEF StopLeavesClean
  <2>1. len = 0 /\ \A d \in Data : refs[d] = 0
    BY DEF LifeInv, Control, StopInv, EmptyInv
  <2>2. \A c \in Consumers : Gone(c)
    BY <2>1, PcaAssumption DEF PcaAssumption, Consumers, LifeInv, Control,
           GoneInv
  <2>3. freeMutex = "free" /\ dmutex # "dispatcher"
    BY <2>2 DEF ReturnedInv, FreeMutexInv, Gone, Outside
  <2> QED BY <2>1, <2>2, <2>3 DEF Gone
<1> QED BY SpecReturned, <1>1, PTL

(* What a stopped dispatcher has not given back is the datum in its        *)
(* mailbox, which the next run will dispatch, or one a feeder holds.       *)
THEOREM StopGivesBack ==
  ASSUME ~CallbackCancels PROVE LifecycleSpec => []StopReleases
<1>1. LifeInv /\ ReturnedInv => StopReleases
  <2> SUFFICES ASSUME LifeInv, ReturnedInv, dpc = "none", NEW d \in owned
               PROVE  \/ dnew /\ dsem = 1 /\ d = dslot
                      \/ \E f \in Feeders : InHand(f) /\ d = fdata[f]
    BY DEF StopReleases
  <2>1. d \in Data /\ refs[d] = 0
    BY DEF LifeInv, Control, Ranges, EmptyInv
  <2>2. Waits => dnew /\ dsem = 1
    BY DEF LifeInv, Control, WakeInv, Waits, Delivering, Waking
  <2> QED BY <2>1, <2>2 DEF ReturnedInv, AllPlaced, Calling
<1> QED BY SpecReturned, <1>1, PTL
=============================================================================
