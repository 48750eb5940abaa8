---------------------------- MODULE PcaLifecycle ----------------------------
(***************************************************************************)
(* Starting and stopping the threads of Pca: pca_dispatcher_run,           *)
(* pca_dispatcher_stop and the flush of the list of data to free.  The     *)
(* threads are stopped with pthread_cancel, which takes effect at the      *)
(* next cancellation point (sem_wait, pthread_testcancel, or a call the    *)
(* client's functions make), wherever in its critical sections the thread  *)
(* is; pthread_mutex_lock is not a cancellation point.                     *)
(*                                                                         *)
(* One client thread adds consumers, stops and runs; the feeders may feed  *)
(* at any time.  pca_dispatcher_stop frees a list entry and then reads its *)
(* link; list_del leaves the link in place and the model follows it.       *)
(***************************************************************************)
EXTENDS Pca

(* Does the client's consumed_callback reach a cancellation point?  The    *)
(* one of the simulator calls printf.                                      *)
CONSTANT CallbackCancels

ASSUME LifecycleAssumption == CallbackCancels \in BOOLEAN

VARIABLES
  spc,      \* where the client is in pca_dispatcher_stop
  spos,     \* its position in consumer_list
  ccancel,  \* has pthread_cancel been called for the consumer?
  dcancel   \* has it been called for the dispatcher?

stopVars == <<spc, spos, ccancel, dcancel>>
lvars == <<vars, stopVars>>

StopPc == {"idle", "cancel", "join", "flush_lock", "flush",
           "cancel_dispatcher", "join_dispatcher"}

-----------------------------------------------------------------------------
(* A cancelled thread ends where it is and releases nothing: the mutexes   *)
(* it holds stay held, its mailbox and its items in the list stay.         *)

ConsumerCancelled(c) ==
  /\ ccancel[c]
  /\ \/ cpc[c] \in {"wait", "process", "remove_lock"}
     \/ cpc[c] = "remove" /\ refs[cslot[c]] = 1 /\ CallbackCancels
  /\ cpc' = [cpc EXCEPT ![c] = "dead"]
  /\ UNCHANGED <<running, dmutex, slotVars, dpc, walkVars, listVars, freeVars,
                 cmutex, cnew, cslot, csem, fvars, owned, stopVars>>

DispatcherCancelled ==
  /\ dcancel
  /\ \/ dpc = "wait"
     \/ dpc = "free" /\ CallbackCancels
  /\ dpc' = "dead"
  /\ UNCHANGED <<running, dmutex, slotVars, walkVars, listVars, freeVars,
                 consVars, fvars, owned, stopVars>>

-----------------------------------------------------------------------------
(* Mutants: consumer_mutex is not released; the flush keeps the items,     *)
(* only drops one reference of each, or does not call the callbacks.       *)
Slip_StopKeepsLock ==
  /\ spc = "cancel" /\ spos > len
  /\ len' = 0 /\ spc' = "flush_lock"
  /\ UNCHANGED <<running, dmutex, slotVars, dpc, walkVars, listMutex, apc, freeVars,
                 consVars, fvars, owned, spos, ccancel, dcancel>>

Slip_FlushKeepsItems ==
  /\ spc = "flush"
  /\ owned' = {d \in owned : refs[d] = 0}
  /\ freeMutex' = "free" /\ spc' = "cancel_dispatcher"
  /\ UNCHANGED <<running, dmutex, slotVars, dpc, walkVars, listVars, refs, consVars,
                 fvars, spos, ccancel, dcancel>>

Slip_FlushDropsOne ==
  /\ spc = "flush"
  /\ owned' = {d \in owned : refs[d] # 1}
  /\ refs' = [d \in Data |-> IF refs[d] = 0 THEN 0 ELSE refs[d] - 1]
  /\ freeMutex' = "free" /\ spc' = "cancel_dispatcher"
  /\ UNCHANGED <<running, dmutex, slotVars, dpc, walkVars, listVars, consVars,
                 fvars, spos, ccancel, dcancel>>

Slip_FlushWithoutCallback ==
  /\ spc = "flush"
  /\ refs' = [d \in Data |-> 0]
  /\ freeMutex' = "free" /\ spc' = "cancel_dispatcher"
  /\ UNCHANGED <<running, dmutex, slotVars, dpc, walkVars, listVars, consVars,
                 fvars, owned, spos, ccancel, dcancel>>

-----------------------------------------------------------------------------
(* pca_dispatcher_stop.                                                    *)

StopLock ==
  /\ spc = "idle" /\ apc = "idle"
  /\ dpc # "none"
  /\ listMutex = "free"
  /\ listMutex' = "client"
  /\ spc' = "cancel" /\ spos' = 1
  /\ UNCHANGED <<running, dmutex, slotVars, dpc, walkVars, len, apc, freeVars,
                 consVars, fvars, owned, ccancel, dcancel>>

StopCancel ==
  /\ spc = "cancel"
  /\ spos <= len
  /\ ccancel' = [ccancel EXCEPT ![spos] = TRUE]
  /\ spc' = "join"
  /\ UNCHANGED <<vars, spos, dcancel>>

(* pthread_join returns; the consumer leaves the list and its memory is    *)
(* freed: a consumer added later at this position starts afresh.           *)
StopJoin ==
  /\ spc = "join"
  /\ cpc[spos] = "dead"
  /\ cpc' = [cpc EXCEPT ![spos] = "none"]
  /\ cmutex' = [cmutex EXCEPT ![spos] = "free"]
  /\ need' = [need EXCEPT ![spos] = FALSE]
  /\ cnew' = [cnew EXCEPT ![spos] = FALSE]
  /\ csem' = [csem EXCEPT ![spos] = 0]
  /\ ccancel' = [ccancel EXCEPT ![spos] = FALSE]
  /\ spos' = spos + 1 /\ spc' = "cancel"
  /\ UNCHANGED <<running, dmutex, slotVars, dpc, pos, accepted, listVars,
                 freeVars, cslot, fvars, owned, dcancel>>

StopUnlock ==
  /\ spc = "cancel"
  /\ spos > len
  /\ len' = 0
  /\ listMutex' = "free"
  /\ spc' = "flush_lock"
  /\ UNCHANGED <<running, dmutex, slotVars, dpc, walkVars, apc, freeVars,
                 consVars, fvars, owned, spos, ccancel, dcancel>>

StopFlushLock ==
  /\ spc = "flush_lock"
  /\ freeMutex = "free"
  /\ freeMutex' = "client"
  /\ spc' = "flush"
  /\ UNCHANGED <<running, dmutex, slotVars, dpc, walkVars, listVars, refs,
                 consVars, fvars, owned, spos, ccancel, dcancel>>

(* Every item left in the list is given back, whatever its count.          *)
StopFlush ==
  /\ spc = "flush"
  /\ owned' = {d \in owned : refs[d] = 0}
  /\ refs' = [d \in Data |-> 0]
  /\ freeMutex' = "free"
  /\ spc' = "cancel_dispatcher"
  /\ UNCHANGED <<running, dmutex, slotVars, dpc, walkVars, listVars, consVars,
                 fvars, spos, ccancel, dcancel>>

StopCancelDispatcher ==
  /\ spc = "cancel_dispatcher"
  /\ dcancel' = TRUE
  /\ spc' = "join_dispatcher"
  /\ UNCHANGED <<vars, spos, ccancel>>

StopJoinDispatcher ==
  /\ spc = "join_dispatcher"
  /\ dpc = "dead"
  /\ dpc' = "none" /\ running' = FALSE
  /\ dcancel' = FALSE /\ spc' = "idle"
  /\ UNCHANGED <<dmutex, slotVars, walkVars, listVars, freeVars, consVars,
                 fvars, owned, spos, ccancel>>

Stop ==
  \/ StopLock \/ StopCancel \/ StopJoin \/ StopUnlock
  \/ StopFlushLock \/ StopFlush
  \/ StopCancelDispatcher \/ StopJoinDispatcher

(* pca_dispatcher_run, for a dispatcher that is not running.               *)
Run ==
  /\ spc = "idle"
  /\ dpc = "none"
  /\ dpc' = "start"
  /\ UNCHANGED <<running, dmutex, slotVars, walkVars, listVars, freeVars,
                 consVars, fvars, owned, stopVars>>

-----------------------------------------------------------------------------
LifecycleInit ==
  /\ Init
  /\ spc = "idle" /\ spos = 1
  /\ ccancel = [c \in Consumers |-> FALSE] /\ dcancel = FALSE

(* sem_wait acts on a pending cancellation before it takes the semaphore.  *)
DispatcherThread ==
  \/ ~(dcancel /\ dpc = "wait") /\ Dispatcher /\ UNCHANGED stopVars
  \/ DispatcherCancelled

ConsumerThread(c) ==
  \/ ~(ccancel[c] /\ cpc[c] = "wait") /\ Consumer(c) /\ UNCHANGED stopVars
  \/ ConsumerCancelled(c)

Client ==
  \/ spc = "idle" /\ AddConsumer /\ UNCHANGED stopVars
  \/ AddConsumerSpawn /\ UNCHANGED stopVars
  \/ Stop \/ Run

LifecycleNext ==
  \/ \E f \in Feeders : Feed(f) /\ UNCHANGED stopVars
  \/ DispatcherThread
  \/ \E c \in Consumers : ConsumerThread(c)
  \/ Client

LifecycleSpec == LifecycleInit /\ [][LifecycleNext]_lvars

(* Every thread that can take a step takes one; the dispatcher gets its    *)
(* own mutex if it is free again and again, however often the feeders take *)
(* it.  The client does not have to stop or run, but finishes a stop.      *)
LifecycleFairness ==
  /\ \A f \in Feeders :
       WF_lvars((FeedFreeOld(f) \/ FeedStore(f) \/ FeedDiscard(f))
                /\ UNCHANGED stopVars)
  /\ WF_lvars(DispatcherThread)
  /\ SF_lvars(DispatcherLock /\ UNCHANGED stopVars)
  /\ \A c \in Consumers : WF_lvars(ConsumerThread(c))
  /\ WF_lvars(AddConsumerSpawn /\ UNCHANGED stopVars)
  /\ WF_lvars(StopCancel \/ StopJoin \/ StopUnlock \/ StopFlushLock \/ StopFlush
              \/ StopCancelDispatcher \/ StopJoinDispatcher)

LifecycleFairSpec == LifecycleSpec /\ LifecycleFairness

-----------------------------------------------------------------------------
(* Stop, cancelling consumers in the middle of handling, gives no datum    *)
(* back twice and none that the dispatcher does not have: whatever is in   *)
(* the list is still owned, and what a live consumer holds is in the list. *)
ListedDataAreOwned ==
  /\ \A d \in Data : refs[d] > 0 => d \in owned
  /\ \A c \in Consumers :
       cpc[c] # "dead" /\ Holds(c) => refs[cslot[c]] > 0

(* A stop returns with no consumer left, nothing in the list and every     *)
(* mutex free, ready for the next run.                                     *)
StopLeavesClean ==
  spc = "join_dispatcher" /\ dpc = "dead" =>
    /\ len = 0 /\ \A c \in Consumers : cpc[c] = "none" /\ cmutex[c] = "free"
    /\ \A d \in Data : refs[d] = 0
    /\ freeMutex = "free" /\ dmutex # "dispatcher"

(* The only datum a stopped dispatcher still has is the one waiting in its *)
(* mailbox, which the next run dispatches, or one a feeder is feeding.     *)
StopReleases ==
  dpc = "none" =>
    \A d \in owned : \/ dnew /\ dsem = 1 /\ d = dslot
                     \/ \E f \in Feeders : InHand(f) /\ d = fdata[f]

(* A stop ends: "stop can remove all automatically"                        *)
(* (producer_consumer_async.c:409).                                        *)
StopReturns == spc # "idle" ~> spc = "idle"
=============================================================================
