------------------------------ MODULE CsiCamera ------------------------------
(***************************************************************************)
(* The simulator's camera, src/platform/simulator/csi_camera.c, from the   *)
(* moment a camera is open: channels, the threads that fill their frame    *)
(* buffers, the queue of events and the application that takes frames.     *)
(*                                                                         *)
(* The PCA dispatcher (module Pca) and the producer thread are represented *)
(* by what they do to a consumer: while the consumer is in the list its    *)
(* process function may be called with a picture, and it is called again   *)
(* and again while the producer feeds (EventuallyReleased of Pca).  Each   *)
(* mutex_chn is held from Fill to Announce by its consumer; every other    *)
(* critical section is one step.                                           *)
(***************************************************************************)
EXTENDS Integers, Sequences, FiniteSets

CONSTANTS
  Channels,  \* the channels the client uses, of CSI_CAMERA_CHANNEL_0 .. 2
  FrmCnt,    \* frm_cnt of every channel: every client asks for 4 of each
  MaxNew,    \* bound: the events of this run in g_camera_event
  MaxOld,    \* bound: the events of earlier runs kept in it, enough for
             \* one of each channel other than the one that starts
  MaxThreads \* bound: the dispatcher threads started and not stopped

ASSUME CsiCameraAssumption ==
  /\ FrmCnt \in Nat \ {0}
  /\ MaxNew \in Nat \ {0}
  /\ MaxOld \in Nat
  /\ MaxThreads \in Nat \ {0}
  /\ IsFiniteSet(Channels) /\ Cardinality(Channels) <= MaxOld + 1

VARIABLES
  status,       \* g_camera_channel_cfgs[].status
  slot,         \* g_frame_channel_infos[].frame_status
  bufs,         \* g_frame_channel_infos[].frame_bufs: NULL, allocated, freed
  subs,         \* g_camera_subscribe_event: the channels subscribed to
  events,       \* g_camera_event, the head first
  sem,          \* frame_csem
  feeding,      \* camera_ptid # -1: the producer thread runs
  listed,       \* the consumers in the dispatcher's list
  dispatchers,  \* how many dispatcher threads run
  cpc,          \* where each consumer is in its process function
  hpc, hchn,    \* where the application is in a start or stop, and of what
  rpc,          \* where the thread that takes events and frames is
  revent,       \* the channel of the event it has
  rleft,        \* the frames it still asks for
  raddr,        \* usr_addr[0] of its frame: a slot, or an address of none
  rtorn         \* has a frame been overwritten while it had it?

threadVars == <<feeding, listed, dispatchers>>
slotVars   == <<slot, bufs>>
readVars   == <<rpc, revent, rleft, raddr, rtorn>>
callVars   == <<hpc, hchn>>
vars == <<status, slotVars, subs, events, sem, threadVars, cpc, callVars, readVars>>

Slots == 1 .. FrmCnt
NoAddress == <<>>
Addresses == Channels \X Slots
AllIdle == [i \in Slots |-> "IDLE"]

(* An event carries the id FRAME_READY (ready) or, when no slot was idle,  *)
(* whatever the uninitialized tmp.id held.  old: from an earlier run.      *)
Event == [chn : Channels, ready : BOOLEAN, old : BOOLEAN]

New == {k \in 1 .. Len(events) : ~events[k].old}

(* mutex_chn[c] is free for another thread.                                *)
ChnFree(c) == cpc[c] \notin {"filled", "full"}

-----------------------------------------------------------------------------
(* What the calls do.                                                      *)

(* Mutant: an event joins the queue at its tail.                           *)
Slip_InsertBackward(e, queue) == Append(queue, e)

(* insert(..., LLIST_FORWARD): the newest event is the first to be fetched.*)
InsertForward(e, queue) == <<e>> \o queue

(* csi_camera_get_frame_count increments its index for each READY slot,    *)
(* and once more for every slot it looks at.                               *)
FrameCount(frames) ==
  LET from[i \in 1 .. FrmCnt + 2] ==
        IF i > FrmCnt THEN i - 1
        ELSE from[IF frames[i] = "READY" THEN i + 2 ELSE i + 1]
  IN  from[1]

ReadySlots(c) == {i \in Slots : slot[c][i] = "READY"}

(* channel_feeddata_thread_stop joins the producer, pca_dispatcher_stop    *)
(* cancels the consumers where they wait (their process functions have no  *)
(* cancellation point), and the newest dispatcher thread.                  *)
ThreadsStopped ==
  /\ \A c \in listed : cpc[c] = "wait"
  /\ feeding' = FALSE
  /\ listed' = {}
  /\ dispatchers' = dispatchers - 1

(* Mutant: camera_ptid is not looked at.                                   *)
Slip_StopAlways == ThreadsStopped

StopThreadsIfFed == IF feeding THEN ThreadsStopped ELSE UNCHANGED threadVars

(* What a new run leaves of the queue: its events are now old ones.        *)
Aged(queue) ==
  [k \in 1 .. (IF Len(queue) > MaxOld THEN MaxOld ELSE Len(queue)) |->
     [queue[k] EXCEPT !.old = TRUE]]

-----------------------------------------------------------------------------
(* Channels.  A start or a stop takes two steps: the consumers of other    *)
(* channels, or of the channel being stopped, run between them.            *)

(* Mutant: the threads are left running.                                   *)
Slip_OpenLeavesThreads(c) ==
  /\ hpc = "ready"
  /\ slot' = [d \in Channels |-> AllIdle]
  /\ bufs' = [d \in Channels |-> "null"]
  /\ status' = [status EXCEPT ![c] = "OPENED"]
  /\ UNCHANGED <<threadVars, subs, events, sem, cpc, callVars, readVars>>

(* csi_camera_channel_open resets the slots of every channel.              *)
csi_camera_channel_open(c) ==
  /\ hpc = "ready"
  /\ StopThreadsIfFed
  /\ slot' = [d \in Channels |-> AllIdle]
  /\ bufs' = [d \in Channels |-> "null"]
  /\ status' = [status EXCEPT ![c] = "OPENED"]
  /\ UNCHANGED <<subs, events, sem, cpc, callVars, readVars>>

csi_camera_channel_close(c) ==
  /\ hpc = "ready"
  /\ status' = [status EXCEPT ![c] = "CLOSED"]
  /\ UNCHANGED <<slotVars, subs, events, sem, threadVars, cpc, callVars, readVars>>

(* csi_camera_channel_start up to the allocation of the buffers.           *)
ChannelStartInit(c) ==
  /\ hpc = "ready" /\ dispatchers < MaxThreads
  /\ sem' = 0
  /\ events' = Aged(events)
  /\ slot' = [slot EXCEPT ![c] = AllIdle]
  /\ bufs' = [bufs EXCEPT ![c] = "allocated"]
  /\ hpc' = "start" /\ hchn' = c
  /\ UNCHANGED <<status, subs, threadVars, cpc, readVars>>

(* The rest: the producer is stopped if it runs, and started again after   *)
(* another consumer and another dispatcher thread.                         *)
ChannelStartRun ==
  /\ hpc = "start"
  /\ listed' = listed \union {hchn}
  /\ dispatchers' = dispatchers + 1
  /\ feeding' = TRUE
  /\ status' = [status EXCEPT ![hchn] = "RUNNING"]
  /\ hpc' = "ready"
  /\ UNCHANGED <<slotVars, subs, events, sem, cpc, hchn, readVars>>

(* csi_camera_channel_stop frees the buffers ...                           *)
ChannelStopFree(c) ==
  /\ hpc = "ready"
  /\ slot' = [slot EXCEPT ![c] = AllIdle]
  /\ bufs' = [bufs EXCEPT ![c] = IF @ = "null" THEN "null" ELSE "freed"]
  /\ hpc' = "stop" /\ hchn' = c
  /\ UNCHANGED <<status, subs, events, sem, threadVars, cpc, readVars>>

(* Mutant: the channel keeps its status.                                   *)
Slip_StopKeepsStatus ==
  /\ hpc = "stop"
  /\ StopThreadsIfFed
  /\ hpc' = "ready"
  /\ UNCHANGED <<status, slotVars, subs, events, sem, cpc, hchn, readVars>>

(* ... and then stops the threads, those of the other channels too.        *)
ChannelStopThreads ==
  /\ hpc = "stop"
  /\ StopThreadsIfFed
  /\ status' = [status EXCEPT ![hchn] = "OPENED"]
  /\ hpc' = "ready"
  /\ UNCHANGED <<slotVars, subs, events, sem, cpc, hchn, readVars>>

csi_camera_subscribe_event(c) ==
  /\ hpc = "ready"
  /\ subs' = subs \union {c}
  /\ UNCHANGED <<status, slotVars, events, sem, threadVars, cpc, callVars, readVars>>

csi_camera_unsubscribe_event(c) ==
  /\ hpc = "ready" /\ c \in subs
  /\ subs' = subs \ {c}
  /\ UNCHANGED <<status, slotVars, events, sem, threadVars, cpc, callVars, readVars>>

-----------------------------------------------------------------------------
(* A consumer: pca_consumer_process_chn0, 1 and 2.                         *)

(* It is called with a picture, and looks for a subscription.              *)
Deliver(c) ==
  /\ c \in listed /\ cpc[c] = "wait" /\ c \in subs
  /\ Cardinality(New) + Cardinality({d \in Channels : cpc[d] \in {"called", "filled", "full"}}) < MaxNew
  /\ cpc' = [cpc EXCEPT ![c] = "called"]
  /\ UNCHANGED <<status, slotVars, subs, events, sem, threadVars, callVars, readVars>>

(* Mutant: a picture goes to every slot.                                   *)
Slip_FillEvery(c) == Slots

(* The slots a picture is copied to.                                       *)
ToFill(c) == {i \in Slots : slot[c][i] = "IDLE"}

(* It takes mutex_chn and copies the picture, over what the application    *)
(* holds if it is one of these slots.                                      *)
Fill(c) ==
  /\ cpc[c] = "called"
  /\ slot' = [slot EXCEPT ![c] = [i \in Slots |-> IF i \in ToFill(c) THEN "READY" ELSE @[i]]]
  /\ cpc' = [cpc EXCEPT ![c] = IF ToFill(c) = {} THEN "full" ELSE "filled"]
  /\ rtorn' = (rtorn \/ (rpc = "held" /\ \E i \in ToFill(c) : raddr = <<c, i>>))
  /\ UNCHANGED <<status, bufs, subs, events, sem, threadVars, callVars,
                 rpc, revent, rleft, raddr>>

(* It inserts its event under mutex_event and releases mutex_chn.  The id  *)
(* of the event was set if a slot was filled, and is anything if not.      *)
Announce(c) ==
  /\ cpc[c] \in {"filled", "full"}
  /\ \E ready \in BOOLEAN :
       /\ cpc[c] = "filled" => ready
       /\ events' = InsertForward([chn |-> c, ready |-> ready, old |-> FALSE], events)
  /\ cpc' = [cpc EXCEPT ![c] = "announced"]
  /\ UNCHANGED <<status, slotVars, subs, sem, threadVars, callVars, readVars>>

(* Mutant: two posts for one event, as if a loop posted per slot filled.   *)
Slip_PostPerSlot(c) ==
  /\ cpc[c] = "announced"
  /\ sem' = sem + FrmCnt
  /\ cpc' = [cpc EXCEPT ![c] = "wait"]
  /\ UNCHANGED <<status, slotVars, subs, events, threadVars, callVars, readVars>>

Post(c) ==
  /\ cpc[c] = "announced"
  /\ sem' = sem + 1
  /\ cpc' = [cpc EXCEPT ![c] = "wait"]
  /\ UNCHANGED <<status, slotVars, subs, events, threadVars, callVars, readVars>>

-----------------------------------------------------------------------------
(* The thread that takes events and frames: csi_camera_get_event, and then *)
(* csi_camera_get_frame and csi_camera_put_frame as the applications of    *)
(* examples/camera call them, for one frame or for as many as              *)
(* csi_camera_get_frame_count says.                                        *)

(* sem_wait(&frame_csem), for a timeout of -1.                             *)
GetEventWait ==
  /\ rpc = "wait" /\ sem > 0
  /\ sem' = sem - 1
  /\ rpc' = "fetch"
  /\ UNCHANGED <<status, slotVars, subs, events, threadVars, cpc, callVars,
                 revent, rleft, raddr, rtorn>>

(* The head of the list leaves it; an empty list makes the call fail.      *)
GetEventFetch ==
  /\ rpc = "fetch"
  /\ IF events = <<>>
     THEN rpc' = "loop" /\ UNCHANGED <<events, revent>>
     ELSE /\ events' = Tail(events)
          /\ revent' = Head(events).chn
          /\ rpc' = IF Head(events).ready THEN "count" ELSE "loop"
  /\ UNCHANGED <<status, slotVars, subs, sem, threadVars, cpc, callVars,
                 rleft, raddr, rtorn>>

(* The frame of the call is a local variable: its address is not set, or   *)
(* what the last call left on the stack.                                   *)
CountFrames ==
  /\ rpc = "count" /\ ChnFree(revent)
  /\ rleft' \in {1, FrameCount(slot[revent])}
  /\ raddr' \in {NoAddress, raddr}
  /\ rpc' = "get"
  /\ UNCHANGED <<status, slotVars, subs, events, sem, threadVars, cpc, callVars,
                 revent, rtorn>>

(* The first READY slot.  It stays READY; without one the call fails and   *)
(* the address of the frame stays what it was.                             *)
csi_camera_get_frame ==
  /\ rpc = "get" /\ rleft > 0 /\ ChnFree(revent)
  /\ IF ReadySlots(revent) = {}
     THEN /\ rpc' = IF raddr = NoAddress THEN "get" ELSE "stale"
          /\ rleft' = IF raddr = NoAddress THEN rleft - 1 ELSE rleft
          /\ UNCHANGED raddr
     ELSE /\ raddr' = <<revent, CHOOSE i \in ReadySlots(revent) :
                                   \A j \in ReadySlots(revent) : i <= j>>
          /\ rpc' = "held"
          /\ UNCHANGED rleft
  /\ UNCHANGED <<status, slotVars, subs, events, sem, threadVars, cpc, callVars,
                 revent, rtorn>>

(* The slot whose buffer has the frame's address becomes IDLE.             *)
csi_camera_put_frame ==
  /\ rpc \in {"held", "stale"} /\ ChnFree(raddr[1])
  /\ slot' = IF bufs[raddr[1]] = "null" THEN slot
             ELSE [slot EXCEPT ![raddr[1]][raddr[2]] = "IDLE"]
  /\ rleft' = rleft - 1
  /\ rpc' = "get"
  /\ UNCHANGED <<status, bufs, subs, events, sem, threadVars, cpc, callVars,
                 revent, raddr, rtorn>>

FramesTaken ==
  /\ rpc = "get" /\ rleft = 0
  /\ rpc' = "loop"
  /\ UNCHANGED <<status, slotVars, subs, events, sem, threadVars, cpc, callVars,
                 revent, rleft, raddr, rtorn>>

Reader == \/ GetEventWait \/ GetEventFetch \/ CountFrames
          \/ csi_camera_get_frame \/ csi_camera_put_frame \/ FramesTaken

Consumer(c) == Deliver(c) \/ Fill(c) \/ Announce(c) \/ Post(c)

-----------------------------------------------------------------------------
(* The direct client, as examples/camera/camera_demo2.c: one thread that   *)
(* opens, subscribes, starts, takes frames and stops, and looks at the     *)
(* status of a channel before a call.                                      *)
NextEvent ==
  /\ rpc = "loop" /\ hpc = "ready"
  /\ rpc' = "wait"
  /\ UNCHANGED <<status, slotVars, subs, events, sem, threadVars, cpc, callVars,
                 revent, rleft, raddr, rtorn>>

Client ==
  \/ /\ rpc = "loop"
     /\ \E c \in Channels :
          \/ status[c] = "CLOSED" /\ csi_camera_channel_open(c)
          \/ status[c] = "OPENED" /\ csi_camera_channel_close(c)
          \/ status[c] = "OPENED" /\ ChannelStartInit(c)
          \/ status[c] = "RUNNING" /\ ChannelStopFree(c)
          \/ csi_camera_subscribe_event(c)
          \/ csi_camera_unsubscribe_event(c)
  \/ ChannelStartRun
  \/ ChannelStopThreads
  \/ NextEvent

(* After csi_camera_open.                                                  *)
CameraInit ==
  /\ status = [c \in Channels |-> "CLOSED"]
  /\ slot = [c \in Channels |-> AllIdle]
  /\ bufs = [c \in Channels |-> "null"]
  /\ subs = {} /\ events = <<>> /\ sem = 0
  /\ feeding = FALSE /\ listed = {} /\ dispatchers = 0
  /\ cpc = [c \in Channels |-> "wait"]
  /\ hpc = "ready" /\ hchn \in Channels
  /\ revent \in Channels /\ rleft = 0 /\ raddr = NoAddress
  /\ rtorn = FALSE

Init == CameraInit /\ rpc = "loop"

Next == Client \/ Reader \/ \E c \in Channels : Consumer(c)

Spec == Init /\ [][Next]_vars

-----------------------------------------------------------------------------
TypeOK ==
  /\ status \in [Channels -> {"CLOSED", "OPENED", "RUNNING"}]
  /\ slot \in [Channels -> [Slots -> {"IDLE", "READY"}]]
  /\ bufs \in [Channels -> {"null", "allocated", "freed"}]
  /\ subs \subseteq Channels /\ listed \subseteq Channels
  /\ events \in Seq(Event) /\ Len(events) <= MaxNew + MaxOld
  /\ sem \in 0 .. MaxNew + MaxOld
  /\ feeding \in BOOLEAN
  /\ dispatchers \in 0 .. MaxThreads
  /\ cpc \in [Channels -> {"wait", "called", "filled", "full", "announced"}]
  /\ hpc \in {"ready", "start", "stop"} /\ hchn \in Channels
  /\ rpc \in {"off", "loop", "wait", "fetch", "count", "get", "held", "stale"}
  /\ revent \in Channels
  /\ rleft \in 0 .. FrmCnt + 2
  /\ raddr \in Addresses \union {NoAddress}
  /\ rtorn \in BOOLEAN

(* Whoever returns from sem_wait finds an event: each post, the one that   *)
(* has been waited for and those still to come have an event of their own  *)
(* in the list, across the sem_init of every start.                        *)
EveryPostHasAnEvent ==
  sem + (IF rpc = "fetch" THEN 1 ELSE 0)
      + Cardinality({c \in Channels : cpc[c] = "announced"}) <= Len(events)

(* A consumer that may be called has buffers to fill, except while its     *)
(* channel is between freeing them and stopping the threads; and what a    *)
(* stop frees has not been freed before.                                   *)
BuffersAreThere ==
  \A c \in Channels :
    ~(hpc = "stop" /\ hchn = c) =>
      /\ c \in listed => bufs[c] = "allocated"
      /\ status[c] = "RUNNING" => bufs[c] # "freed"

(* A frame is not overwritten between csi_camera_get_frame and             *)
(* csi_camera_put_frame, although the first does not mark it as taken.     *)
HeldFrameIsWhole == ~rtorn

(* "Dispatcher thread is stopped" (producer_consumer_async.c:348): with    *)
(* the producer stopped no dispatcher thread is left.                      *)
NoDispatcherLeft == feeding \/ hpc # "ready" \/ dispatchers = 0
=============================================================================
