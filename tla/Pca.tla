-------------------------------- MODULE Pca --------------------------------
(***************************************************************************)
(* The asynchronous producer/consumer dispatcher ("PCA") of                *)
(* src/common/producer_consumer_async.c: a one-slot mailbox in front of a  *)
(* dispatcher thread, which copies each datum into the one-slot mailboxes  *)
(* of the consumer threads of the same type.  A datum carries a callback   *)
(* that tells the client "every consumer is done with this buffer"; a      *)
(* reference-counted list decides when to run it.                          *)
(*                                                                         *)
(* Threads: the feeders (callers of pca_feed_dispatcher), the dispatcher   *)
(* thread, one thread per consumer and the client that adds consumers.     *)
(* Stopping, cancelling and restarting the threads are in PcaLifecycle;    *)
(* the statistics counters are in PcaStats.                                *)
(*                                                                         *)
(* A datum is named by its pointer (data_info->data, the key of the        *)
(* reference-counted list).  A step is what one thread does between two    *)
(* accesses to state that another thread can see in between; a critical    *)
(* section in which nothing can block or be observed is one step.          *)
(***************************************************************************)
EXTENDS Integers, FiniteSets

CONSTANTS
  N,             \* how many consumers the client may add
  Data,          \* the data pointers the client feeds
  Feeders,       \* the threads that call pca_feed_dispatcher
  Types,         \* the values of data_type
  DataType,      \* data_info.type of each datum
  ProcessorType, \* processor.data_type of each consumer
  SpawnMayFail   \* may pthread_create fail in pca_add_consumer_processor?

(* A consumer is its position in consumer_list: list_add_tail puts a new   *)
(* one at the end, so the list is 1..len.                                  *)
Consumers == 1..N

ASSUME PcaAssumption ==
  /\ N \in Nat
  /\ Data # {}
  /\ DataType \in [Data -> Types]
  /\ ProcessorType \in [Consumers -> Types]
  /\ SpawnMayFail \in BOOLEAN

VARIABLES
  running,   \* dispatcher->thread_info.is_running
  dmutex,    \* who holds dispatcher->thread_info.mutex_data
  dnew,      \* dispatcher->thread_info.has_new_data
  dslot,     \* dispatcher->thread_info.data_info
  dsem,      \* value of dispatcher->thread_info.sem_wakeup
  dpc,       \* where the dispatcher thread is
  pos,       \* its position in consumer_list (list_for_each)
  accepted,  \* data_feed: has some consumer taken the datum?
  listMutex, \* who holds dispatcher->consumer_mutex
  len,       \* length of consumer_list
  freeMutex, \* who holds dispatcher->data_free_mutex
  refs,      \* reference_count in data_free_list (0: not in the list)
  cmutex,    \* who holds consumer->thread_info.mutex_data
  need,      \* consumer->thread_info.need_unlock_data_mutex
  cnew,      \* consumer->thread_info.has_new_data
  cslot,     \* consumer->thread_info.data_info
  csem,      \* value of consumer->thread_info.sem_wakeup
  cpc,       \* where each consumer thread is ("none": not created)
  fpc,       \* where each feeder is in pca_feed_dispatcher
  fdata,     \* the datum it feeds
  apc,       \* where the client is in pca_add_consumer_processor
  owned      \* the data fed and not yet given back by their callback

fvars == <<fpc, fdata>>
slotVars == <<dnew, dslot, dsem>>
walkVars == <<pos, accepted, need>>
listVars == <<listMutex, len, apc>>
freeVars == <<freeMutex, refs>>
consVars == <<cmutex, cnew, cslot, csem, cpc>>
vars == <<running, dmutex, slotVars, dpc, walkVars, listVars, freeVars,
          consVars, fvars, owned>>

-----------------------------------------------------------------------------
(* What a thread may be doing, named for the next thing it will do.        *)

FeederPc == {"idle", "free_old", "store", "discard"}
DispatcherPc == {"start", "wait", "lock", "lock_list", "deliver", "remove_lock",
                 "remove", "add", "unlock", "has_new", "post", "free", "finish"}
ConsumerPc == {"none", "start", "wait", "has_new", "lock", "process",
               "remove_lock", "remove", "done"}

(* The first loop of pca_feed_consumers, which delivers with every mutex   *)
(* it took still held, and the second, which unlocks and wakes.            *)
Delivering == dpc \in {"deliver", "remove_lock", "remove", "add"}
Waking     == dpc \in {"unlock", "has_new", "post"}

(* The thread of c is between pthread_mutex_lock and pthread_mutex_unlock  *)
(* of its own mutex_data.                                                  *)
Handling(c) == cpc[c] \in {"process", "remove_lock", "remove", "done"}

Matches(c, d) == DataType[d] = ProcessorType[c]

-----------------------------------------------------------------------------
(* Mutants: forms the definitions below could have taken by a slip.  No    *)
(* action uses them; each shows that a property notices the slip.          *)

(* The callback runs at every removal, not at the last.                    *)
Slip_RemoveFreesAtOnce(d) ==
  IF refs[d] = 0
  THEN UNCHANGED <<refs, owned>>
  ELSE refs' = [refs EXCEPT ![d] = @ - 1] /\ owned' = owned \ {d}

(* sem_post whether or not the mailbox was full already.                   *)
Slip_StorePostsAlways(f) ==
  /\ fpc[f] = "store"
  /\ dslot' = fdata[f] /\ dsem' = 1 /\ dnew' = TRUE /\ dmutex' = "free"
  /\ fpc' = [fpc EXCEPT ![f] = "idle"]
  /\ UNCHANGED <<running, dpc, walkVars, listVars, freeVars, consVars, fdata, owned>>

(* The datum of a full mailbox is overwritten without being removed.       *)
Slip_TrylockKeepsOld ==
  /\ dpc = "deliver" /\ pos <= len
  /\ Matches(pos, dslot) /\ cmutex[pos] = "free"
  /\ cmutex' = [cmutex EXCEPT ![pos] = "dispatcher"]
  /\ need' = [need EXCEPT ![pos] = TRUE]
  /\ dpc' = "add"
  /\ UNCHANGED <<running, dmutex, slotVars, pos, accepted, listVars, freeVars,
                 cnew, cslot, csem, cpc, fvars, owned>>

(* The result of the trylock is not looked at.                             *)
Slip_TrylockIgnored ==
  /\ dpc = "deliver" /\ pos <= len
  /\ Matches(pos, dslot)
  /\ cmutex' = [cmutex EXCEPT ![pos] = "dispatcher"]
  /\ need' = [need EXCEPT ![pos] = TRUE]
  /\ dpc' = IF cnew[pos] THEN "remove_lock" ELSE "add"
  /\ UNCHANGED <<running, dmutex, slotVars, pos, accepted, listVars, freeVars,
                 cnew, cslot, csem, cpc, fvars, owned>>

(* A busy consumer is tried again instead of being skipped.                *)
Slip_SkipRetries ==
  /\ dpc = "deliver" /\ pos <= len
  /\ ~Matches(pos, dslot) \/ cmutex[pos] # "free"
  /\ pos' = IF Matches(pos, dslot) THEN pos ELSE pos + 1
  /\ UNCHANGED <<running, dmutex, slotVars, dpc, accepted, need, listVars,
                 freeVars, consVars, fvars, owned>>

(* data_feed is not set.                                                   *)
Slip_AddForgetsAccepted ==
  /\ dpc = "add" /\ freeMutex = "free"
  /\ refs' = [refs EXCEPT ![dslot] = @ + 1]
  /\ cslot' = [cslot EXCEPT ![pos] = dslot]
  /\ cnew' = [cnew EXCEPT ![pos] = TRUE]
  /\ pos' = pos + 1 /\ dpc' = "deliver"
  /\ UNCHANGED <<running, dmutex, slotVars, accepted, need, listVars, freeMutex,
                 cmutex, csem, cpc, fvars, owned>>

(* need_unlock_data_mutex is not reset.                                    *)
Slip_UnlockKeepsNeed ==
  /\ dpc = "unlock" /\ pos <= len
  /\ cmutex' = IF need[pos] THEN [cmutex EXCEPT ![pos] = "free"] ELSE cmutex
  /\ dpc' = "has_new"
  /\ UNCHANGED <<running, dmutex, slotVars, walkVars, listVars, freeVars,
                 cnew, cslot, csem, cpc, fvars, owned>>

(* A consumer that finished another datum meanwhile is not woken.          *)
Slip_HasNewOnlyIfAsleep ==
  /\ dpc = "has_new"
  /\ IF cnew[pos] /\ cpc[pos] = "wait" THEN dpc' = "post" /\ UNCHANGED pos
                  ELSE dpc' = "unlock" /\ pos' = pos + 1
  /\ UNCHANGED <<running, dmutex, slotVars, accepted, need, listVars, freeVars,
                 consVars, fvars, owned>>

(* sem_post without sem_getvalue.                                          *)
Slip_PostCounts ==
  /\ dpc = "post"
  /\ csem' = [csem EXCEPT ![pos] = @ + 1]
  /\ pos' = pos + 1 /\ dpc' = "unlock"
  /\ UNCHANGED <<running, dmutex, slotVars, accepted, need, listVars, freeVars,
                 cmutex, cnew, cslot, cpc, fvars, owned>>

(* The result of pca_feed_consumers is not looked at.                      *)
Slip_ReturnNeverFrees ==
  /\ dpc = "unlock" /\ pos > len
  /\ listMutex' = "free" /\ dnew' = FALSE /\ dpc' = "finish"
  /\ UNCHANGED <<running, dmutex, dslot, dsem, walkVars, len, apc, freeVars,
                 consVars, fvars, owned>>

-----------------------------------------------------------------------------
(* The reference-counted list of data to free.                             *)

AddDataFreeItem(d) == refs' = [refs EXCEPT ![d] = @ + 1]

(* At zero the item leaves the list and the callback gives the datum back. *)
RemoveDataFreeItem(d) ==
  IF refs[d] = 0
  THEN UNCHANGED <<refs, owned>>
  ELSE /\ refs' = [refs EXCEPT ![d] = @ - 1]
       /\ owned' = IF refs[d] = 1 THEN owned \ {d} ELSE owned

(* _pca_data_free: the consumed_callback of d.                             *)
DataFree(d) == owned' = owned \ {d}

-----------------------------------------------------------------------------
(* pca_feed_dispatcher, called by feeder f.                                *)

(* The client feeds a datum it owns; it may do so once the dispatcher      *)
(* thread has set is_running (the call polls until then).                  *)
FeedTrylock(f, d) ==
  /\ fpc[f] = "idle"
  /\ running
  /\ d \notin owned
  /\ owned' = owned \union {d}
  /\ fdata' = [fdata EXCEPT ![f] = d]
  /\ IF dmutex = "free"
     THEN /\ dmutex' = "feeder"
          /\ fpc' = [fpc EXCEPT ![f] = IF dnew THEN "free_old" ELSE "store"]
     ELSE /\ fpc' = [fpc EXCEPT ![f] = "discard"]
          /\ UNCHANGED dmutex
  /\ UNCHANGED <<running, slotVars, dpc, walkVars, listVars, freeVars, consVars>>

FeedFreeOld(f) ==
  /\ fpc[f] = "free_old"
  /\ DataFree(dslot)
  /\ fpc' = [fpc EXCEPT ![f] = "store"]
  /\ UNCHANGED <<running, dmutex, slotVars, dpc, walkVars, listVars, freeVars,
                 consVars, fdata>>

FeedStore(f) ==
  /\ fpc[f] = "store"
  /\ dslot' = fdata[f]
  /\ dsem' = IF ~dnew /\ dsem = 0 THEN 1 ELSE dsem
  /\ dnew' = TRUE
  /\ dmutex' = "free"
  /\ fpc' = [fpc EXCEPT ![f] = "idle"]
  /\ UNCHANGED <<running, dpc, walkVars, listVars, freeVars, consVars, fdata, owned>>

FeedDiscard(f) ==
  /\ fpc[f] = "discard"
  /\ DataFree(fdata[f])
  /\ fpc' = [fpc EXCEPT ![f] = "idle"]
  /\ UNCHANGED <<running, dmutex, slotVars, dpc, walkVars, listVars, freeVars,
                 consVars, fdata>>

Feed(f) ==
  \/ \E d \in Data : FeedTrylock(f, d)
  \/ FeedFreeOld(f) \/ FeedStore(f) \/ FeedDiscard(f)

-----------------------------------------------------------------------------
(* _pca_thread_dispatcher, with pca_feed_consumers inlined.                *)

DispatcherStart ==
  /\ dpc = "start"
  /\ running' = TRUE
  /\ dpc' = "wait"
  /\ UNCHANGED <<dmutex, slotVars, walkVars, listVars, freeVars, consVars, fvars, owned>>

DispatcherWait ==
  /\ dpc = "wait"
  /\ dsem > 0
  /\ dsem' = dsem - 1
  /\ dpc' = "lock"
  /\ UNCHANGED <<running, dmutex, dnew, dslot, walkVars, listVars, freeVars,
                 consVars, fvars, owned>>

DispatcherLock ==
  /\ dpc = "lock"
  /\ dmutex = "free"
  /\ dmutex' = "dispatcher"
  /\ dpc' = "lock_list"
  /\ UNCHANGED <<running, slotVars, walkVars, listVars, freeVars, consVars, fvars, owned>>

FeedConsumersLock ==
  /\ dpc = "lock_list"
  /\ listMutex = "free"
  /\ listMutex' = "dispatcher"
  /\ accepted' = FALSE
  /\ pos' = 1
  /\ dpc' = "deliver"
  /\ UNCHANGED <<running, dmutex, slotVars, len, apc, need, freeVars, consVars,
                 fvars, owned>>

(* The first loop: a consumer of another type, or one whose mutex_data is  *)
(* taken (it is handling an earlier datum), does not get this one.         *)
FeedConsumersSkip ==
  /\ dpc = "deliver"
  /\ pos <= len
  /\ ~Matches(pos, dslot) \/ cmutex[pos] # "free"
  /\ pos' = pos + 1
  /\ UNCHANGED <<running, dmutex, slotVars, dpc, accepted, need, listVars,
                 freeVars, consVars, fvars, owned>>

FeedConsumersTrylock ==
  /\ dpc = "deliver"
  /\ pos <= len
  /\ Matches(pos, dslot)
  /\ cmutex[pos] = "free"
  /\ cmutex' = [cmutex EXCEPT ![pos] = "dispatcher"]
  /\ need' = [need EXCEPT ![pos] = TRUE]
  /\ dpc' = IF cnew[pos] THEN "remove_lock" ELSE "add"
  /\ UNCHANGED <<running, dmutex, slotVars, pos, accepted, listVars, freeVars,
                 cnew, cslot, csem, cpc, fvars, owned>>

FeedConsumersRemoveLock ==
  /\ dpc = "remove_lock"
  /\ freeMutex = "free"
  /\ freeMutex' = "dispatcher"
  /\ dpc' = "remove"
  /\ UNCHANGED <<running, dmutex, slotVars, walkVars, listVars, refs, consVars,
                 fvars, owned>>

FeedConsumersRemove ==
  /\ dpc = "remove"
  /\ RemoveDataFreeItem(cslot[pos])
  /\ freeMutex' = "free"
  /\ dpc' = "add"
  /\ UNCHANGED <<running, dmutex, slotVars, walkVars, listVars, consVars, fvars>>

FeedConsumersAdd ==
  /\ dpc = "add"
  /\ freeMutex = "free"
  /\ AddDataFreeItem(dslot)
  /\ cslot' = [cslot EXCEPT ![pos] = dslot]
  /\ cnew' = [cnew EXCEPT ![pos] = TRUE]
  /\ accepted' = TRUE
  /\ pos' = pos + 1
  /\ dpc' = "deliver"
  /\ UNCHANGED <<running, dmutex, slotVars, need, listVars, freeMutex, cmutex,
                 csem, cpc, fvars, owned>>

FeedConsumersNextLoop ==
  /\ dpc = "deliver"
  /\ pos > len
  /\ pos' = 1
  /\ dpc' = "unlock"
  /\ UNCHANGED <<running, dmutex, slotVars, accepted, need, listVars, freeVars,
                 consVars, fvars, owned>>

(* The second loop; has_new_data is read without the mutex, the value of   *)
(* the semaphore after it.                                                 *)
FeedConsumersUnlock ==
  /\ dpc = "unlock"
  /\ pos <= len
  /\ need' = [need EXCEPT ![pos] = FALSE]
  /\ cmutex' = IF need[pos] THEN [cmutex EXCEPT ![pos] = "free"] ELSE cmutex
  /\ dpc' = "has_new"
  /\ UNCHANGED <<running, dmutex, slotVars, pos, accepted, listVars, freeVars,
                 cnew, cslot, csem, cpc, fvars, owned>>

FeedConsumersHasNew ==
  /\ dpc = "has_new"
  /\ IF cnew[pos] THEN dpc' = "post" /\ UNCHANGED pos
                  ELSE dpc' = "unlock" /\ pos' = pos + 1
  /\ UNCHANGED <<running, dmutex, slotVars, accepted, need, listVars, freeVars,
                 consVars, fvars, owned>>

FeedConsumersPost ==
  /\ dpc = "post"
  /\ csem' = [csem EXCEPT ![pos] = IF @ = 0 THEN 1 ELSE @]
  /\ pos' = pos + 1
  /\ dpc' = "unlock"
  /\ UNCHANGED <<running, dmutex, slotVars, accepted, need, listVars, freeVars,
                 cmutex, cnew, cslot, cpc, fvars, owned>>

FeedConsumersReturn ==
  /\ dpc = "unlock"
  /\ pos > len
  /\ listMutex' = "free"
  /\ dnew' = FALSE
  /\ dpc' = IF accepted THEN "finish" ELSE "free"
  /\ UNCHANGED <<running, dmutex, dslot, dsem, walkVars, len, apc, freeVars,
                 consVars, fvars, owned>>

(* No consumer took the datum: the dispatcher itself gives it back.        *)
DispatcherFree ==
  /\ dpc = "free"
  /\ DataFree(dslot)
  /\ dpc' = "finish"
  /\ UNCHANGED <<running, dmutex, slotVars, walkVars, listVars, freeVars,
                 consVars, fvars>>

DispatcherFinish ==
  /\ dpc = "finish"
  /\ dnew' = FALSE
  /\ dmutex' = "free"
  /\ dpc' = "wait"
  /\ UNCHANGED <<running, dslot, dsem, walkVars, listVars, freeVars, consVars,
                 fvars, owned>>

FeedConsumers ==
  \/ FeedConsumersLock
  \/ FeedConsumersSkip \/ FeedConsumersTrylock
  \/ FeedConsumersRemoveLock \/ FeedConsumersRemove \/ FeedConsumersAdd
  \/ FeedConsumersNextLoop
  \/ FeedConsumersUnlock \/ FeedConsumersHasNew \/ FeedConsumersPost
  \/ FeedConsumersReturn

Dispatcher ==
  \/ DispatcherStart \/ DispatcherWait \/ DispatcherLock
  \/ FeedConsumers
  \/ DispatcherFree \/ DispatcherFinish

-----------------------------------------------------------------------------
(* _pca_thread_consumer, the thread of consumer c.                         *)

ConsumerStep(c, from, to) ==
  /\ cpc[c] = from
  /\ cpc' = [cpc EXCEPT ![c] = to]
  /\ UNCHANGED <<running, dmutex, slotVars, dpc, walkVars, listVars, cslot, fvars>>

ConsumerStart(c) ==
  /\ ConsumerStep(c, "start", "wait")
  /\ UNCHANGED <<freeVars, cmutex, cnew, csem, owned>>

ConsumerWait(c) ==
  /\ ConsumerStep(c, "wait", "has_new")
  /\ csem[c] > 0
  /\ csem' = [csem EXCEPT ![c] = @ - 1]
  /\ UNCHANGED <<freeVars, cmutex, cnew, owned>>

(* has_new_data is read before the mutex is taken.                         *)
ConsumerHasNew(c) ==
  /\ ConsumerStep(c, "has_new", IF cnew[c] THEN "lock" ELSE "wait")
  /\ UNCHANGED <<freeVars, cmutex, cnew, csem, owned>>

ConsumerLock(c) ==
  /\ ConsumerStep(c, "lock", "process")
  /\ cmutex[c] = "free"
  /\ cmutex' = [cmutex EXCEPT ![c] = "consumer"]
  /\ UNCHANGED <<freeVars, cnew, csem, owned>>

(* The client's process function runs here, and returns.                   *)
ConsumerProcess(c) ==
  /\ ConsumerStep(c, "process", "remove_lock")
  /\ UNCHANGED <<freeVars, cmutex, cnew, csem, owned>>

ConsumerRemoveLock(c) ==
  /\ ConsumerStep(c, "remove_lock", "remove")
  /\ freeMutex = "free"
  /\ freeMutex' = "consumer"
  /\ UNCHANGED <<refs, cmutex, cnew, csem, owned>>

ConsumerRemove(c) ==
  /\ ConsumerStep(c, "remove", "done")
  /\ RemoveDataFreeItem(cslot[c])
  /\ freeMutex' = "free"
  /\ UNCHANGED <<cmutex, cnew, csem>>

ConsumerDone(c) ==
  /\ ConsumerStep(c, "done", "wait")
  /\ cnew' = [cnew EXCEPT ![c] = FALSE]
  /\ cmutex' = [cmutex EXCEPT ![c] = "free"]
  /\ UNCHANGED <<freeVars, csem, owned>>

Consumer(c) ==
  \/ ConsumerStart(c) \/ ConsumerWait(c) \/ ConsumerHasNew(c)
  \/ ConsumerLock(c) \/ ConsumerProcess(c)
  \/ ConsumerRemoveLock(c) \/ ConsumerRemove(c) \/ ConsumerDone(c)

-----------------------------------------------------------------------------
(* pca_add_consumer_processor: the new consumer is in the list, and gets   *)
(* data, before its thread exists; pca_remove_consumer_processor only      *)
(* takes and releases consumer_mutex, which is no step of its own.         *)

AddConsumer ==
  /\ apc = "idle"
  /\ listMutex = "free"
  /\ len < N
  /\ len' = len + 1
  /\ apc' = "spawn"
  /\ UNCHANGED <<running, dmutex, slotVars, dpc, walkVars, listMutex, freeVars,
                 consVars, fvars, owned>>

AddConsumerSpawn ==
  /\ apc = "spawn"
  /\ apc' = "idle"
  /\ \/ cpc' = [cpc EXCEPT ![len] = "start"]
     \/ SpawnMayFail /\ UNCHANGED cpc
  /\ UNCHANGED <<running, dmutex, slotVars, dpc, walkVars, listMutex, len,
                 freeVars, cmutex, cnew, cslot, csem, fvars, owned>>

-----------------------------------------------------------------------------
(* pca_dispatcher_create and pca_dispatcher_run have returned.  Memory the *)
(* code leaves unset until it is written (data_info) holds some datum.     *)
Init ==
  /\ running = FALSE
  /\ dmutex = "free" /\ dnew = FALSE /\ dslot \in Data /\ dsem = 0
  /\ dpc = "start" /\ pos = 1 /\ accepted = FALSE
  /\ listMutex = "free" /\ len = 0 /\ apc = "idle"
  /\ freeMutex = "free" /\ refs = [d \in Data |-> 0]
  /\ cmutex = [c \in Consumers |-> "free"]
  /\ need = [c \in Consumers |-> FALSE]
  /\ cnew = [c \in Consumers |-> FALSE]
  /\ cslot = [c \in Consumers |-> dslot]
  /\ csem = [c \in Consumers |-> 0]
  /\ cpc = [c \in Consumers |-> "none"]
  /\ fpc = [f \in Feeders |-> "idle"] /\ fdata = [f \in Feeders |-> dslot]
  /\ owned = {}

Next ==
  \/ \E f \in Feeders : Feed(f)
  \/ Dispatcher
  \/ \E c \in Consumers : Consumer(c)
  \/ AddConsumer \/ AddConsumerSpawn

Spec == Init /\ [][Next]_vars

-----------------------------------------------------------------------------
(* Every variable stays in its range: mutexes have at most the owners the  *)
(* code gives them, and both semaphores stay binary because every sem_post *)
(* is guarded by sem_getvalue.                                             *)
TypeOK ==
  /\ running \in BOOLEAN
  /\ dmutex \in {"free", "feeder", "dispatcher"}
  /\ dnew \in BOOLEAN /\ dslot \in Data /\ dsem \in {0, 1}
  /\ dpc \in DispatcherPc /\ pos \in 1 .. N + 1 /\ accepted \in BOOLEAN
  /\ listMutex \in {"free", "dispatcher"}
  /\ len \in 0..N /\ apc \in {"idle", "spawn"}
  /\ freeMutex \in {"free", "dispatcher", "consumer"}
  /\ refs \in [Data -> Nat]
  /\ cmutex \in [Consumers -> {"free", "dispatcher", "consumer"}]
  /\ need \in [Consumers -> BOOLEAN]
  /\ cnew \in [Consumers -> BOOLEAN]
  /\ cslot \in [Consumers -> Data]
  /\ csem \in [Consumers -> {0, 1}]
  /\ cpc \in [Consumers -> ConsumerPc]
  /\ fpc \in [Feeders -> FeederPc] /\ fdata \in [Feeders -> Data]
  /\ owned \in SUBSET Data

(* c has the datum of its mailbox and has not yet dropped its reference:   *)
(* after the removal, has_new_data lags behind.                            *)
Holds(c) == /\ cnew[c]
            /\ cpc[c] # "done"
            /\ ~(dpc = "add" /\ pos = c)

HoldersOf(d) == {c \in Consumers : Holds(c) /\ cslot[c] = d}

(* f has called pca_feed_dispatcher and its datum is in no mailbox yet.    *)
InHand(f) == fpc[f] # "idle"

(* The datum in the dispatcher's mailbox waits for the dispatcher, or no   *)
(* consumer has taken it so far.                                           *)
Pending == \/ /\ dnew
              /\ dpc \in {"start", "wait", "lock", "lock_list"}
              /\ \A f \in Feeders : ~(fpc[f] = "store" /\ dmutex = "feeder")
           \/ Delivering
           \/ (Waking \/ dpc = "free") /\ ~accepted

(* No datum is given back to the client while a consumer has it waiting in *)
(* its mailbox or is processing it: a buffer is never reused under a       *)
(* reader.  This is what the deferred unlocking of pca_feed_consumers is   *)
(* for.                                                                    *)
NoUseAfterRelease ==
  \A c \in Consumers : Holds(c) => cslot[c] \in owned

(* The reference count of a datum is the number of consumers that hold it, *)
(* across updates of a mailbox, concurrent removals and busy consumers.    *)
RefCountExact ==
  \A d \in Data : refs[d] = Cardinality(HoldersOf(d))

(* Every call of a callback gives back a datum the dispatcher still has:   *)
(* no datum is released twice, whichever of the five calls releases it.    *)
NoDoubleRelease ==
  /\ \A f \in Feeders :
       /\ fpc[f] = "free_old" => dslot \in owned /\ dslot # fdata[f]
       /\ fpc[f] = "discard" => fdata[f] \in owned
  /\ dpc = "free" => dslot \in owned
  /\ dpc = "remove" => refs[cslot[pos]] > 0 /\ cslot[pos] \in owned
  /\ \A c \in Consumers :
       cpc[c] = "remove" => refs[cslot[c]] > 0 /\ cslot[c] \in owned

(* No datum is forgotten: what is owned is in a feeder's hands, waits in   *)
(* the dispatcher's mailbox or is counted for a consumer, so that somebody *)
(* will call its callback.                                                 *)
NoLeak ==
  \A d \in owned :
    \/ \E f \in Feeders : InHand(f) /\ fdata[f] = d
    \/ Pending /\ dslot = d
    \/ refs[d] > 0

(* A consumer whose mailbox is full will look at it: it is awake, its      *)
(* semaphore is posted, or the dispatcher has still to visit it in its     *)
(* second loop.                                                            *)
NoLostWakeup ==
  \A c \in Consumers :
    cnew[c] => \/ csem[c] = 1
               \/ cpc[c] \notin {"none", "start", "wait"}
               \/ Delivering
               \/ Waking /\ pos <= c

(* The dispatcher thread, which does not look at has_new_data when it      *)
(* wakes, wakes exactly when its mailbox is full: it never dispatches a    *)
(* datum again that it already gave away.                                  *)
WakesForData ==
  /\ dsem = 1 => dnew
  /\ dpc \in {"lock", "lock_list"} \/ Delivering \/ Waking => dnew /\ dsem = 0
  /\ dnew /\ dpc \in {"start", "wait"} => dsem = 1
  /\ dpc \in {"free", "finish"} => ~dnew

(* The parts of MutexOwners, one for each mutex.                           *)
DispatcherMutex ==
  /\ dmutex = "dispatcher" <=> dpc \notin {"start", "wait", "lock"}
  /\ \A f \in Feeders : fpc[f] \in {"free_old", "store"} => dmutex = "feeder"
  /\ \A f, g \in Feeders :
       fpc[f] \in {"free_old", "store"} /\ fpc[g] \in {"free_old", "store"} => f = g

ListMutex == listMutex = "dispatcher" <=> Delivering \/ Waking

FreeMutex ==
  /\ freeMutex = "dispatcher" <=> dpc = "remove"
  /\ \A c \in Consumers : cpc[c] = "remove" => freeMutex = "consumer"
  /\ \A b, c \in Consumers : cpc[b] = "remove" /\ cpc[c] = "remove" => b = c

ConsumerMutex ==
  \A c \in Consumers :
    /\ cmutex[c] = "consumer" <=> Handling(c)
    /\ cmutex[c] = "dispatcher" <=> need[c]
    /\ need[c] => Delivering \/ Waking

(* Every mutex has the owner its program points say, so that at most one   *)
(* thread is in each critical section, and a dispatcher that has returned  *)
(* from pca_feed_consumers has released everything it took.                *)
MutexOwners == DispatcherMutex /\ ListMutex /\ FreeMutex /\ ConsumerMutex

(* "Use mutex to protect data can't be modify while handling"              *)
(* (producer_consumer_async.c:225): no step changes a consumer's mailbox   *)
(* while its thread handles it.                                            *)
StableWhileHandling ==
  [][\A c \in Consumers :
       Handling(c) => cslot'[c] = cslot[c] /\ (cnew'[c] \/ ~Handling(c)')]_vars

-----------------------------------------------------------------------------
(* Every thread that can take a step takes one; the client's process       *)
(* functions and callbacks return.  Nothing makes a feeder start a call,   *)
(* or the client add a consumer.  Strong fairness is needed in one place:  *)
(* a consumer blocked on data_free_mutex gets it if the mutex is free      *)
(* again and again, however often the others take it.                      *)
Fairness ==
  /\ \A f \in Feeders : WF_vars(FeedFreeOld(f) \/ FeedStore(f) \/ FeedDiscard(f))
  /\ WF_vars(Dispatcher)
  /\ WF_vars(AddConsumerSpawn)
  /\ \A c \in Consumers : WF_vars(Consumer(c)) /\ SF_vars(ConsumerRemoveLock(c))

FairSpec == Spec /\ Fairness

(* Every datum fed is eventually given back.                               *)
EventuallyReleased == \A d \in Data : d \in owned ~> d \notin owned
=============================================================================
