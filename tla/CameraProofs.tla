---------------------------- MODULE CameraProofs -----------------------------
(***************************************************************************)
(* Proofs about the simulator's camera (CsiCamera) and the session on top  *)
(* of it (CameraSession, CameraMenu), for every number of channels and of  *)
(* frame buffers.                                                          *)
(***************************************************************************)
EXTENDS CameraMenu, FiniteSetTheorems, WellFoundedInduction, TLAPS

-----------------------------------------------------------------------------
(* The inductive invariant of the direct client.                           *)

(* TypeOK but for the numbers: sem and rleft are natural numbers or not    *)
(* looked at, the length of the queue is free.                             *)
Shape ==
  /\ status \in [Channels -> {"CLOSED", "OPENED", "RUNNING"}]
  /\ slot \in [Channels -> [Slots -> {"IDLE", "READY"}]]
  /\ bufs \in [Channels -> {"null", "allocated", "freed"}]
  /\ subs \subseteq Channels /\ listed \subseteq Channels
  /\ events \in Seq(Event)
  /\ sem \in Nat
  /\ feeding \in BOOLEAN
  /\ dispatchers \in Nat /\ (feeding => dispatchers > 0)
  /\ cpc \in [Channels -> {"wait", "called", "filled", "full", "announced"}]
  /\ hpc \in {"ready", "start", "stop"} /\ hchn \in Channels
  /\ rpc \in {"off", "loop", "wait", "fetch", "count", "get", "held", "stale"}
  /\ revent \in Channels
  /\ raddr \in Addresses \union {NoAddress}
  /\ rpc \in {"held", "stale"} => raddr \in Addresses
  /\ rtorn \in BOOLEAN

(* The producer runs as long as a consumer is in the list, and only a      *)
(* consumer in the list is outside its wait.                               *)
ThreadsInv ==
  /\ listed # {} => feeding
  /\ \A c \in Channels : cpc[c] # "wait" => c \in listed

(* Only a channel that was started has its consumer in the list.           *)
ListedRun == \A c \in listed : status[c] = "RUNNING"

(* What a start has allocated is there until the channel has its consumer. *)
BufsInv == BuffersAreThere /\ (hpc = "start" => bufs[hchn] = "allocated")

(* What the application holds is READY, and so out of the producer's way.  *)
HeldInv ==
  /\ HeldFrameIsWhole
  /\ rpc = "held" => slot[raddr[1]][raddr[2]] = "READY"

DirectInv == /\ Shape /\ ThreadsInv /\ ListedRun /\ BufsInv /\ HeldInv
             /\ EveryPostHasAnEvent
-----------------------------------------------------------------------------
(* What the operations leave true, whoever calls them.                     *)

Operation ==
  \/ \E c \in Channels : \/ csi_camera_channel_open(c)
                         \/ csi_camera_channel_close(c)
                         \/ ChannelStartInit(c)
                         \/ ChannelStopFree(c)
                         \/ csi_camera_subscribe_event(c)
                         \/ csi_camera_unsubscribe_event(c)
                         \/ Consumer(c)
  \/ ChannelStartRun
  \/ ChannelStopThreads
  \/ NextEvent
  \/ Reader

(* A set of slots that is not empty has a first one.                       *)
LEMMA Smallest ==
  ASSUME NEW S \in SUBSET Nat, S # {}
  PROVE  \E i \in S : \A j \in S : i <= j
<1> DEFINE R == OpToRel(<, Nat)
<1>1. IsWellFoundedOn(R, Nat)
  BY NatLessThanWellFounded, Zenon
<1>2. \A i, j \in Nat : i < j => <<i, j>> \in R
  BY DEF OpToRel
<1> HIDE DEF R
<1>3. PICK i \in S : \A j \in S : <<j, i>> \notin R
  BY <1>1, WFMin
<1>4. \A j \in S : ~(j < i)
  BY <1>2, <1>3, Zenon
<1>5. \A j \in S : i <= j
  BY <1>4, SMT
<1> QED BY <1>5

FirstReady(c) == CHOOSE i \in ReadySlots(c) : \A j \in ReadySlots(c) : i <= j

LEMMA FirstReadyIsReady ==
  ASSUME NEW c \in Channels, ReadySlots(c) # {}
  PROVE  FirstReady(c) \in Slots /\ slot[c][FirstReady(c)] = "READY"
<1>1. ReadySlots(c) \subseteq Slots /\ Slots \subseteq Nat
  BY DEF ReadySlots, Slots
<1>2. \E i \in ReadySlots(c) : \A j \in ReadySlots(c) : i <= j
  BY <1>1, Smallest
<1>3. FirstReady(c) \in ReadySlots(c)
  BY <1>2 DEF FirstReady
<1> QED BY <1>3 DEF ReadySlots

LEMMA EventsType ==
  ASSUME events \in Seq(Event)
  PROVE  /\ Aged(events) \in Seq(Event)
         /\ \A c \in Channels, ready \in BOOLEAN :
              InsertForward([chn |-> c, ready |-> ready, old |-> FALSE], events)
                \in Seq(Event)
         /\ events # <<>> => Head(events) \in Event /\ Tail(events) \in Seq(Event)
<1> DEFINE n == IF Len(events) > MaxOld THEN MaxOld ELSE Len(events)
<1>1. Len(events) \in Nat /\ MaxOld \in Nat
  BY CsiCameraAssumption DEF CsiCameraAssumption
<1>1a. n \in Nat /\ n <= Len(events)
  BY <1>1
<1>2. \A k \in 1 .. n : [events[k] EXCEPT !.old = TRUE] \in Event
  <2>1. \A k \in 1 .. Len(events) : events[k] \in Event
    OBVIOUS
  <2>2. \A k \in 1 .. n : k \in 1 .. Len(events)
    BY <1>1, <1>1a
  <2>3. \A e \in Event : [e EXCEPT !.old = TRUE] \in Event
    BY DEF Event
  <2> QED BY <2>1, <2>2, <2>3
<1>3. Aged(events) \in Seq(Event)
  <2>1. Aged(events) = [k \in 1 .. n |-> [events[k] EXCEPT !.old = TRUE]]
    BY DEF Aged
  <2> HIDE DEF n
  <2> QED BY <1>1a, <1>2, <2>1
<1>4. ASSUME NEW c \in Channels, NEW ready \in BOOLEAN
      PROVE  InsertForward([chn |-> c, ready |-> ready, old |-> FALSE], events)
               \in Seq(Event)
  BY DEF InsertForward, Event
<1> QED BY <1>3, <1>4

LEMMA ThreadsStop ==
  ASSUME Shape, StopThreadsIfFed
  PROVE  /\ listed' \subseteq listed
         /\ feeding' \in BOOLEAN
         /\ dispatchers' \in Nat /\ (feeding' => dispatchers' > 0)
<1>1. CASE feeding
  <2>1. ThreadsStopped
    BY <1>1 DEF StopThreadsIfFed
  <2>2. dispatchers \in Nat /\ dispatchers > 0
    BY <1>1 DEF Shape
  <2>3. dispatchers' \in Nat
    BY <2>1, <2>2 DEF ThreadsStopped
  <2>4. listed' \subseteq listed /\ feeding' = FALSE
    BY <2>1 DEF ThreadsStopped
  <2>5. feeding' \in BOOLEAN /\ (feeding' => dispatchers' > 0)
    BY <2>4, Zenon
  <2> QED BY <2>3, <2>4, <2>5
<1>2. CASE ~feeding
  <2>1. UNCHANGED threadVars
    BY <1>2 DEF StopThreadsIfFed
  <2> QED BY <1>2, <2>1 DEF Shape, threadVars
<1> QED BY <1>1, <1>2

LEMMA NextShape == Shape /\ Operation => Shape'
<1> SUFFICES ASSUME Shape, Operation PROVE Shape'
  OBVIOUS
<1> USE DEF slotVars, threadVars, callVars, readVars
<1>0. AllIdle \in [Slots -> {"IDLE", "READY"}]
  BY DEF AllIdle
<1>1. ASSUME NEW c \in Channels, csi_camera_channel_open(c) PROVE Shape'
  BY <1>0, <1>1, ThreadsStop DEF csi_camera_channel_open, Shape
<1>2. ASSUME NEW c \in Channels, csi_camera_channel_close(c) PROVE Shape'
  BY <1>2 DEF csi_camera_channel_close, Shape
<1>3. ASSUME NEW c \in Channels, ChannelStartInit(c) PROVE Shape'
  BY <1>0, <1>3, EventsType DEF ChannelStartInit, Shape
<1>4. ASSUME NEW c \in Channels, ChannelStopFree(c) PROVE Shape'
  BY <1>0, <1>4 DEF ChannelStopFree, Shape
<1>5. ASSUME NEW c \in Channels,
             csi_camera_subscribe_event(c) \/ csi_camera_unsubscribe_event(c)
      PROVE  Shape'
  BY <1>5 DEF csi_camera_subscribe_event, csi_camera_unsubscribe_event, Shape
<1>6. ASSUME NEW c \in Channels, Consumer(c) PROVE Shape'
  <2>1. CASE Deliver(c) BY <2>1 DEF Deliver, Shape
  <2>2. CASE Fill(c)
    <3>1. slot' \in [Channels -> [Slots -> {"IDLE", "READY"}]]
      BY <2>2 DEF Fill, Shape
    <3>2. /\ cpc' \in [Channels -> {"wait", "called", "filled", "full", "announced"}]
          /\ rtorn' \in BOOLEAN
      BY <2>2 DEF Fill, Shape
    <3> QED BY <2>2, <3>1, <3>2 DEF Fill, Shape
  <2>3. CASE Announce(c)
    <3>1. events' \in Seq(Event)
      BY <2>3, EventsType DEF Announce, Shape
    <3> QED BY <2>3, <3>1 DEF Announce, Shape
  <2>4. CASE Post(c) BY <2>4 DEF Post, Shape
  <2> QED BY <1>6, <2>1, <2>2, <2>3, <2>4 DEF Consumer
<1>7. CASE ChannelStartRun
  BY <1>7 DEF ChannelStartRun, Shape
<1>8. CASE ChannelStopThreads
  BY <1>8, ThreadsStop DEF ChannelStopThreads, Shape
<1>9. CASE NextEvent
  BY <1>9 DEF NextEvent, Shape
<1>10. CASE Reader
  <2>1. CASE GetEventWait BY <2>1 DEF GetEventWait, Shape
  <2>2. CASE GetEventFetch
    <3>1. events # <<>> => Head(events).chn \in Channels
      BY EventsType DEF Shape, Event
    <3>2. events' \in Seq(Event)
      BY <2>2, EventsType DEF GetEventFetch, Shape
    <3> QED BY <2>2, <3>1, <3>2 DEF GetEventFetch, Shape
  <2>3. CASE CountFrames BY <2>3 DEF CountFrames, Shape
  <2>4. CASE csi_camera_get_frame
    <3>1. CASE ReadySlots(revent) = {}
      BY <2>4, <3>1 DEF csi_camera_get_frame, Shape
    <3>2. CASE ReadySlots(revent) # {}
      <4>1. revent \in Channels
        BY DEF Shape
      <4>2. raddr' = <<revent, FirstReady(revent)>> /\ rpc' = "held"
        BY <2>4, <3>2 DEF csi_camera_get_frame, FirstReady
      <4>3. raddr' \in Addresses
        BY <3>2, <4>1, <4>2, FirstReadyIsReady DEF Addresses
      <4> QED BY <2>4, <4>2, <4>3 DEF csi_camera_get_frame, Shape
    <3> QED BY <3>1, <3>2
  <2>5. CASE csi_camera_put_frame
    <3>1. slot' \in [Channels -> [Slots -> {"IDLE", "READY"}]]
      BY <2>5 DEF csi_camera_put_frame, Shape, Addresses
    <3> QED BY <2>5, <3>1 DEF csi_camera_put_frame, Shape
  <2>6. CASE FramesTaken BY <2>6 DEF FramesTaken, Shape
  <2> QED BY <1>10, <2>1, <2>2, <2>3, <2>4, <2>5, <2>6 DEF Reader
<1> QED BY <1>1, <1>2, <1>3, <1>4, <1>5, <1>6, <1>7, <1>8, <1>9, <1>10
        DEF Operation

-----------------------------------------------------------------------------
(* Once the threads are stopped no consumer is in the list or running.     *)
LEMMA ThreadsQuiet ==
  ASSUME Shape, ThreadsInv, StopThreadsIfFed
  PROVE  listed' = {} /\ feeding' = FALSE /\ \A c \in Channels : cpc[c] = "wait"
<1>1. CASE feeding
  <2>1. ThreadsStopped
    BY <1>1 DEF StopThreadsIfFed
  <2> QED BY <2>1 DEF ThreadsStopped, ThreadsInv
<1>2. CASE ~feeding
  <2>1. listed' = listed /\ feeding' = feeding
    BY <1>2 DEF StopThreadsIfFed, threadVars
  <2>2. listed = {}
    BY <1>2 DEF ThreadsInv
  <2>3. feeding' = FALSE
    BY <1>2, <2>1 DEF Shape
  <2> QED BY <2>1, <2>2, <2>3 DEF ThreadsInv
<1> QED BY <1>1, <1>2

LEMMA NextThreads == Shape /\ ThreadsInv /\ Operation => ThreadsInv'
<1> SUFFICES ASSUME Shape, ThreadsInv, Operation PROVE ThreadsInv'
  OBVIOUS
<1> USE DEF slotVars, threadVars, callVars, readVars
<1>1. ASSUME NEW c \in Channels, csi_camera_channel_open(c) PROVE ThreadsInv'
  BY <1>1, ThreadsQuiet DEF csi_camera_channel_open, ThreadsInv
<1>2. CASE ChannelStopThreads
  BY <1>2, ThreadsQuiet DEF ChannelStopThreads, ThreadsInv
<1>3. CASE ChannelStartRun
  <2>1. feeding' /\ listed \subseteq listed'
    BY <1>3 DEF ChannelStartRun
  <2> QED BY <1>3, <2>1 DEF ChannelStartRun, ThreadsInv
<1>4. ASSUME NEW c \in Channels, Consumer(c) PROVE ThreadsInv'
  <2>1. UNCHANGED <<feeding, listed>>
    BY <1>4 DEF Consumer, Deliver, Fill, Announce, Post
  <2>2. c \in listed
    BY <1>4 DEF Consumer, Deliver, Fill, Announce, Post, ThreadsInv
  <2>3. \A d \in Channels : d # c => cpc'[d] = cpc[d]
    BY <1>4 DEF Consumer, Deliver, Fill, Announce, Post, Shape
  <2> QED BY <2>1, <2>2, <2>3 DEF ThreadsInv
<1>5. ASSUME NEW c \in Channels,
             \/ csi_camera_channel_close(c) \/ ChannelStartInit(c)
             \/ ChannelStopFree(c) \/ csi_camera_subscribe_event(c)
             \/ csi_camera_unsubscribe_event(c)
      PROVE  ThreadsInv'
  BY <1>5 DEF csi_camera_channel_close, ChannelStartInit, ChannelStopFree,
              csi_camera_subscribe_event, csi_camera_unsubscribe_event, ThreadsInv
<1>6. CASE NextEvent
  BY <1>6 DEF NextEvent, ThreadsInv
<1>7. CASE Reader
  BY <1>7 DEF Reader, GetEventWait, GetEventFetch, CountFrames,
              csi_camera_get_frame, csi_camera_put_frame, FramesTaken, ThreadsInv
<1> QED BY <1>1, <1>2, <1>3, <1>4, <1>5, <1>6, <1>7 DEF Operation

(* The consumers and the threads that take frames and events do not touch  *)
(* what the application allocates, and it does not run in a critical step. *)
LEMMA NextBufs == Shape /\ ThreadsInv /\ BufsInv /\ Operation => BufsInv'
<1> SUFFICES ASSUME Shape, ThreadsInv, BufsInv, Operation PROVE BufsInv'
  OBVIOUS
<1> USE DEF slotVars, threadVars, callVars, readVars
<1>1. ASSUME NEW c \in Channels, csi_camera_channel_open(c) PROVE BufsInv'
  <2>1. listed' = {}
    BY <1>1, ThreadsQuiet DEF csi_camera_channel_open
  <2> QED BY <1>1, <2>1 DEF csi_camera_channel_open, BufsInv, BuffersAreThere
<1>2. CASE ChannelStopThreads
  <2>1. listed' = {}
    BY <1>2, ThreadsQuiet DEF ChannelStopThreads
  <2> QED BY <1>2, <2>1 DEF ChannelStopThreads, BufsInv, BuffersAreThere, Shape
<1>3. CASE ChannelStartRun
  BY <1>3 DEF ChannelStartRun, BufsInv, BuffersAreThere, Shape
<1>4. ASSUME NEW c \in Channels, csi_camera_channel_close(c) PROVE BufsInv'
  BY <1>4 DEF csi_camera_channel_close, BufsInv, BuffersAreThere, Shape
<1>5. ASSUME NEW c \in Channels, ChannelStartInit(c) PROVE BufsInv'
  BY <1>5 DEF ChannelStartInit, BufsInv, BuffersAreThere, Shape
<1>6. ASSUME NEW c \in Channels, ChannelStopFree(c) PROVE BufsInv'
  BY <1>6 DEF ChannelStopFree, BufsInv, BuffersAreThere, Shape
<1>7. ASSUME UNCHANGED <<status, bufs, listed, callVars>> PROVE BufsInv'
  BY <1>7 DEF BufsInv, BuffersAreThere
<1>8. ASSUME NEW c \in Channels,
             \/ csi_camera_subscribe_event(c) \/ csi_camera_unsubscribe_event(c)
             \/ Consumer(c)
      PROVE  BufsInv'
  BY <1>7, <1>8 DEF csi_camera_subscribe_event, csi_camera_unsubscribe_event,
                    Consumer, Deliver, Fill, Announce, Post
<1>9. CASE NextEvent \/ Reader
  BY <1>7, <1>9 DEF NextEvent, Reader, GetEventWait, GetEventFetch, CountFrames,
                    csi_camera_get_frame, csi_camera_put_frame, FramesTaken
<1> QED BY <1>1, <1>2, <1>3, <1>4, <1>5, <1>6, <1>8, <1>9 DEF Operation

-----------------------------------------------------------------------------
(* The rest depends on when the direct client makes its calls.             *)
LEMMA NextIsOperation == Next => Operation
BY DEF Next, Client, Operation

LEMMA NextListedRun ==
  Shape /\ ThreadsInv /\ ListedRun /\ Next => ListedRun'
<1> SUFFICES ASSUME Shape, ThreadsInv, ListedRun, Next PROVE ListedRun'
  OBVIOUS
<1> USE DEF slotVars, threadVars, callVars, readVars
<1>1. ASSUME NEW c \in Channels, csi_camera_channel_open(c) PROVE ListedRun'
  BY <1>1, ThreadsQuiet DEF csi_camera_channel_open, ListedRun
<1>2. CASE ChannelStopThreads
  BY <1>2, ThreadsQuiet DEF ChannelStopThreads, ListedRun
<1>3. CASE ChannelStartRun
  BY <1>3 DEF ChannelStartRun, ListedRun, Shape
<1>4. ASSUME NEW c \in Channels, status[c] = "OPENED", csi_camera_channel_close(c)
      PROVE  ListedRun'
  BY <1>4 DEF csi_camera_channel_close, ListedRun, Shape
<1>5. ASSUME UNCHANGED <<status, listed>> PROVE ListedRun'
  BY <1>5 DEF ListedRun
<1>6. ASSUME NEW c \in Channels,
             \/ csi_camera_subscribe_event(c) \/ csi_camera_unsubscribe_event(c)
             \/ ChannelStartInit(c) \/ ChannelStopFree(c) \/ Consumer(c)
      PROVE  ListedRun'
  BY <1>5, <1>6 DEF csi_camera_subscribe_event, csi_camera_unsubscribe_event,
                    ChannelStartInit, ChannelStopFree,
                    Consumer, Deliver, Fill, Announce, Post
<1>7. CASE NextEvent \/ Reader
  BY <1>5, <1>7 DEF NextEvent, Reader, GetEventWait, GetEventFetch, CountFrames,
                    csi_camera_get_frame, csi_camera_put_frame, FramesTaken
<1> QED BY <1>1, <1>2, <1>3, <1>4, <1>6, <1>7 DEF Next, Client

(* While the application holds a frame it makes no call but put_frame, and  *)
(* a consumer fills IDLE slots only.                                       *)
LEMMA NextHeld == Shape /\ HeldInv /\ Next => HeldInv'
<1> SUFFICES ASSUME Shape, HeldInv, Next PROVE HeldInv'
  OBVIOUS
<1> USE DEF slotVars, threadVars, callVars, readVars
<1>1. ASSUME rpc # "held", UNCHANGED readVars PROVE HeldInv'
  BY <1>1 DEF HeldInv, HeldFrameIsWhole
<1>2. ASSUME UNCHANGED <<slot, readVars>> PROVE HeldInv'
  BY <1>2 DEF HeldInv, HeldFrameIsWhole
<1>3. ASSUME rpc = "loop", NEW c \in Channels,
             \/ csi_camera_channel_open(c) \/ csi_camera_channel_close(c)
             \/ ChannelStartInit(c) \/ ChannelStopFree(c)
             \/ csi_camera_subscribe_event(c) \/ csi_camera_unsubscribe_event(c)
      PROVE  HeldInv'
  BY <1>1, <1>3 DEF csi_camera_channel_open, csi_camera_channel_close,
                    ChannelStartInit, ChannelStopFree,
                    csi_camera_subscribe_event, csi_camera_unsubscribe_event
<1>4. CASE ChannelStartRun \/ ChannelStopThreads
  BY <1>2, <1>4 DEF ChannelStartRun, ChannelStopThreads
<1>5. ASSUME rtorn' = rtorn, rpc' # "held" PROVE HeldInv'
  BY <1>5 DEF HeldInv, HeldFrameIsWhole
<1>6. CASE NextEvent
  BY <1>5, <1>6 DEF NextEvent
<1>7. ASSUME NEW c \in Channels, Consumer(c) PROVE HeldInv'
  <2>1. CASE Deliver(c) \/ Announce(c) \/ Post(c)
    BY <1>2, <2>1 DEF Deliver, Announce, Post
  <2>2. CASE Fill(c)
    <3>1. ASSUME rpc = "held", NEW i \in ToFill(c) PROVE raddr # <<c, i>>
      BY <3>1 DEF HeldInv, ToFill, Shape
    <3>2. rtorn' = FALSE
      BY <2>2, <3>1 DEF Fill, HeldInv, HeldFrameIsWhole, Shape
    <3>3. ASSUME rpc = "held" PROVE slot'[raddr[1]][raddr[2]] = "READY"
      <4>1. PICK d \in Channels, i \in Slots : raddr = <<d, i>>
        BY <3>3 DEF Shape, Addresses
      <4>2. slot[d][i] = "READY"
        BY <3>3, <4>1 DEF HeldInv
      <4>3. slot'[d][i] = "READY"
        BY <2>2, <4>2 DEF Fill, Shape
      <4> QED BY <4>1, <4>3
    <3>4. UNCHANGED <<rpc, raddr>>
      BY <2>2 DEF Fill
    <3> QED BY <3>2, <3>3, <3>4 DEF HeldInv, HeldFrameIsWhole
  <2> QED BY <1>7, <2>1, <2>2 DEF Consumer
<1>8. CASE Reader
  <2>1. CASE GetEventWait BY <1>5, <2>1 DEF GetEventWait
  <2>2. CASE GetEventFetch BY <1>5, <2>2 DEF GetEventFetch
  <2>3. CASE CountFrames BY <1>5, <2>3 DEF CountFrames
  <2>4. CASE csi_camera_put_frame BY <1>5, <2>4 DEF csi_camera_put_frame
  <2>5. CASE FramesTaken BY <1>5, <2>5 DEF FramesTaken
  <2>6. CASE csi_camera_get_frame
    <3>1. CASE ReadySlots(revent) = {}
      BY <1>5, <2>6, <3>1 DEF csi_camera_get_frame
    <3>2. CASE ReadySlots(revent) # {}
      <4>1. revent \in Channels
        BY DEF Shape
      <4>2. raddr' = <<revent, FirstReady(revent)>> /\ UNCHANGED <<slot, rtorn>>
        BY <2>6, <3>2 DEF csi_camera_get_frame, FirstReady
      <4>3. slot'[raddr'[1]][raddr'[2]] = "READY"
        BY <3>2, <4>1, <4>2, FirstReadyIsReady
      <4> QED BY <4>2, <4>3 DEF HeldInv, HeldFrameIsWhole
    <3> QED BY <3>1, <3>2
  <2> QED BY <1>8, <2>1, <2>2, <2>3, <2>4, <2>5, <2>6 DEF Reader
<1> QED BY <1>3, <1>4, <1>6, <1>7, <1>8 DEF Next, Client

-----------------------------------------------------------------------------
(* The posts and the events.                                               *)

(* The consumers that have inserted an event and not posted it yet.        *)
Announced == {c \in Channels : cpc[c] = "announced"}

LEMMA AnnouncedIsFinite ==
  /\ IsFiniteSet(Announced) /\ Cardinality(Announced) \in Nat
  /\ IsFiniteSet(Announced') /\ Cardinality(Announced') \in Nat
<1>1. Announced \subseteq Channels /\ Announced' \subseteq Channels
  BY DEF Announced
<1>2. IsFiniteSet(Channels)
  BY CsiCameraAssumption DEF CsiCameraAssumption
<1>3. IsFiniteSet(Announced) /\ IsFiniteSet(Announced')
  BY <1>1, <1>2, FS_Subset
<1> QED BY <1>3, FS_CardinalityType

(* A start keeps the events of the channels that may still be running: all *)
(* but the one that starts.                                                *)
LEMMA AgedIsEnough ==
  ASSUME events \in Seq(Event), NEW c \in Channels, c \notin Announced,
         Cardinality(Announced) <= Len(events)
  PROVE  Cardinality(Announced) <= Len(Aged(events))
<1>1. /\ IsFiniteSet(Channels) /\ MaxOld \in Nat
      /\ Cardinality(Channels) <= MaxOld + 1 /\ Cardinality(Channels) \in Nat
  BY CsiCameraAssumption, FS_CardinalityType DEF CsiCameraAssumption
<1>2. /\ IsFiniteSet(Channels \ {c})
      /\ Cardinality(Channels \ {c}) = Cardinality(Channels) - 1
  BY <1>1, FS_RemoveElement
<1>3. Announced \subseteq Channels \ {c}
  BY DEF Announced
<1>4. Cardinality(Announced) <= Cardinality(Channels \ {c})
  BY <1>2, <1>3, FS_Subset
<1>5. Cardinality(Announced) <= MaxOld
  BY <1>1, <1>2, <1>4, AnnouncedIsFinite
<1>6. Len(events) \in Nat
  OBVIOUS
<1>7. Len(Aged(events)) = IF Len(events) > MaxOld THEN MaxOld ELSE Len(events)
  BY <1>1, <1>6 DEF Aged
<1> QED BY <1>1, <1>5, <1>6, <1>7

LEMMA NextPost ==
  /\ Shape /\ ThreadsInv /\ ListedRun /\ EveryPostHasAnEvent
  /\ Next
  => EveryPostHasAnEvent'
<1> SUFFICES ASSUME Shape, ThreadsInv, ListedRun, EveryPostHasAnEvent, Next
             PROVE  EveryPostHasAnEvent'
  OBVIOUS
<1> USE DEF slotVars, threadVars, callVars, readVars
<1> DEFINE waited == IF rpc = "fetch" THEN 1 ELSE 0
<1>1. /\ sem \in Nat /\ Len(events) \in Nat /\ Cardinality(Announced) \in Nat
      /\ Cardinality(Announced') \in Nat
  BY AnnouncedIsFinite DEF Shape
<1>2. sem + waited + Cardinality(Announced) <= Len(events)
  BY DEF EveryPostHasAnEvent, Announced
<1>3. SUFFICES sem' + waited' + Cardinality(Announced') <= Len(events')
  BY DEF EveryPostHasAnEvent, Announced
<1>4. ASSUME UNCHANGED <<sem, events, cpc>>, waited' = waited
      PROVE  sem' + waited' + Cardinality(Announced') <= Len(events')
  BY <1>2, <1>4 DEF Announced
<1>5. ASSUME NEW c \in Channels,
             \/ csi_camera_channel_open(c) \/ csi_camera_channel_close(c)
             \/ ChannelStopFree(c)
             \/ csi_camera_subscribe_event(c) \/ csi_camera_unsubscribe_event(c)
      PROVE  sem' + waited' + Cardinality(Announced') <= Len(events')
  BY <1>4, <1>5 DEF csi_camera_channel_open, csi_camera_channel_close,
                    ChannelStopFree,
                    csi_camera_subscribe_event, csi_camera_unsubscribe_event
<1>6. CASE ChannelStartRun \/ ChannelStopThreads \/ NextEvent
  BY <1>4, <1>6 DEF ChannelStartRun, ChannelStopThreads, NextEvent
<1>7. ASSUME NEW c \in Channels, status[c] = "OPENED", rpc = "loop", ChannelStartInit(c)
      PROVE  sem' + waited' + Cardinality(Announced') <= Len(events')
  <2>1. c \notin Announced
    BY <1>7 DEF ListedRun, ThreadsInv, Announced
  <2>2. Cardinality(Announced) <= Len(events)
    BY <1>1, <1>2
  <2>3. Cardinality(Announced) <= Len(Aged(events))
    BY <2>1, <2>2, AgedIsEnough DEF Shape
  <2>4. sem' = 0 /\ waited' = 0 /\ Announced' = Announced /\ events' = Aged(events)
    BY <1>7 DEF ChannelStartInit, Announced
  <2> QED BY <1>1, <2>3, <2>4
<1>8. ASSUME NEW c \in Channels, Consumer(c)
      PROVE  sem' + waited' + Cardinality(Announced') <= Len(events')
  <2>1. CASE Deliver(c) \/ Fill(c)
    <3>1. Announced' = Announced /\ UNCHANGED <<sem, events>> /\ waited' = waited
      BY <2>1 DEF Deliver, Fill, Announced, Shape
    <3> QED BY <1>2, <3>1
  <2>2. CASE Announce(c)
    <3>1. c \notin Announced /\ Announced' = Announced \union {c}
      BY <2>2 DEF Announce, Announced, Shape
    <3>2. Cardinality(Announced') = Cardinality(Announced) + 1
      BY <3>1, AnnouncedIsFinite, FS_AddElement
    <3>3. Len(events') = Len(events) + 1
      BY <2>2 DEF Announce, InsertForward, Shape
    <3>4. sem' = sem /\ waited' = waited
      BY <2>2 DEF Announce
    <3> QED BY <1>1, <1>2, <3>2, <3>3, <3>4
  <2>3. CASE Post(c)
    <3>1. c \in Announced /\ Announced' = Announced \ {c}
      BY <2>3 DEF Post, Announced, Shape
    <3>2. Cardinality(Announced') = Cardinality(Announced) - 1
      BY <3>1, AnnouncedIsFinite, FS_RemoveElement
    <3>3. sem' = sem + 1 /\ waited' = waited /\ events' = events
      BY <2>3 DEF Post
    <3> QED BY <1>1, <1>2, <3>2, <3>3
  <2> QED BY <1>8, <2>1, <2>2, <2>3 DEF Consumer
<1>9. CASE Reader
  <2>1. CASE GetEventWait
    <3>1. /\ waited = 0 /\ waited' = 1 /\ sem > 0 /\ sem' = sem - 1
          /\ events' = events /\ Announced' = Announced
      BY <2>1 DEF GetEventWait, Announced
    <3> QED BY <1>1, <1>2, <3>1
  <2>2. CASE GetEventFetch
    <3>1. /\ waited = 1 /\ waited' = 0 /\ sem' = sem /\ Announced' = Announced
      BY <2>2 DEF GetEventFetch, Announced
    <3>2. events # <<>>
      BY <1>1, <1>2, <3>1
    <3>3. Len(events') = Len(events) - 1
      BY <2>2, <3>2 DEF GetEventFetch, Shape
    <3> QED BY <1>1, <1>2, <3>1, <3>3
  <2>3. CASE \/ CountFrames \/ csi_camera_get_frame \/ csi_camera_put_frame
             \/ FramesTaken
    BY <1>4, <2>3 DEF CountFrames, csi_camera_get_frame, csi_camera_put_frame,
                      FramesTaken
  <2> QED BY <1>9, <2>1, <2>2, <2>3 DEF Reader
<1> QED BY <1>5, <1>6, <1>7, <1>8, <1>9 DEF Next, Client

-----------------------------------------------------------------------------
(* The sizes: the queue, the dispatcher's threads, the frames to ask for.  *)

(* The consumers that have a picture and have not inserted its event yet,  *)
(* and the events of earlier runs.                                         *)
Pending == {c \in Channels : cpc[c] \in {"called", "filled", "full"}}
Old == {k \in 1 .. Len(events) : events[k].old}

SizesInv ==
  /\ Cardinality(New) + Cardinality(Pending) <= MaxNew
  /\ Cardinality(Old) <= MaxOld
  /\ dispatchers <= MaxThreads /\ (hpc = "start" => dispatchers < MaxThreads)
  /\ rleft \in 0 .. FrmCnt + 2
  /\ rpc \in {"held", "stale"} => rleft > 0

(* The slot csi_camera_get_frame_count looks at after slot i, and a        *)
(* function that counts from slot k on.                                    *)
NextSlot(frames, i) == IF frames[i] = "READY" THEN i + 2 ELSE i + 1

CountsFrom(f, k, frames) ==
  f = [i \in k .. FrmCnt + 2 |->
         IF i > FrmCnt THEN i - 1 ELSE f[NextSlot(frames, i)]]

(* The recursion is well founded: from the first slot from which there is  *)
(* such a function there would be one from the slot before it.             *)
LEMMA CountIsDefined ==
  ASSUME NEW frames
  PROVE  \E f : CountsFrom(f, 1, frames)
<1> DEFINE S == {k \in 1 .. FrmCnt + 1 : \E f : CountsFrom(f, k, frames)}
<1>1. FrmCnt \in Nat
  BY CsiCameraAssumption DEF CsiCameraAssumption
<1>2. CountsFrom([i \in FrmCnt + 1 .. FrmCnt + 2 |-> i - 1], FrmCnt + 1, frames)
  BY <1>1 DEF CountsFrom
<1>3. FrmCnt + 1 \in S
  BY <1>1, <1>2
<1>4. S \in SUBSET Nat
  BY <1>1
<1>5. PICK k \in S : \A j \in S : k <= j
  BY <1>3, <1>4, Smallest
<1>6. PICK f : CountsFrom(f, k, frames)
  OBVIOUS
<1>7. k \in Nat /\ k >= 1 /\ k <= FrmCnt + 1
  BY <1>1
<1>8. CASE k > 1
  <2> DEFINE g == [i \in k - 1 .. FrmCnt + 2 |->
                     IF i = k - 1 THEN f[NextSlot(frames, i)] ELSE f[i]]
  <2>1. NextSlot(frames, k - 1) \in {k, k + 1}
    BY <1>7 DEF NextSlot
  <2>2. \A i \in k .. FrmCnt : NextSlot(frames, i) \in k .. FrmCnt + 2
    BY <1>1, <1>7 DEF NextSlot
  <2>3. k - 1 .. FrmCnt + 2 = {k - 1} \union (k .. FrmCnt + 2) /\ k - 1 \notin k .. FrmCnt + 2
    BY <1>1, <1>7
  <2>4. \A i \in k .. FrmCnt + 2 : g[i] = f[i]
    BY <2>3
  <2>5. g[k - 1] = f[NextSlot(frames, k - 1)]
    BY <2>3
  <2>6. NextSlot(frames, k - 1) \in k .. FrmCnt + 2
    BY <1>1, <1>7, <2>1
  <2>7. \A i \in k .. FrmCnt + 2 :
          f[i] = IF i > FrmCnt THEN i - 1 ELSE f[NextSlot(frames, i)]
    BY <1>6 DEF CountsFrom
  <2>8. \A i \in k - 1 .. FrmCnt + 2 :
          g[i] = IF i > FrmCnt THEN i - 1 ELSE g[NextSlot(frames, i)]
    <3> SUFFICES ASSUME NEW i \in k - 1 .. FrmCnt + 2
                 PROVE  g[i] = IF i > FrmCnt THEN i - 1 ELSE g[NextSlot(frames, i)]
      OBVIOUS
    <3>1. i \in Int /\ (i # k - 1 => i \in k .. FrmCnt + 2)
      BY <1>1, <1>7
    <3> HIDE DEF g
    <3>2. CASE i = k - 1
      <4>1. ~(i > FrmCnt)
        BY <1>1, <1>7, <3>2
      <4> QED BY <2>4, <2>5, <2>6, <3>2, <4>1
    <3>3. CASE i # k - 1 /\ i > FrmCnt
      BY <2>4, <2>7, <3>1, <3>3
    <3>4. CASE i # k - 1 /\ ~(i > FrmCnt)
      <4>1. i \in k .. FrmCnt
        BY <1>1, <1>7, <3>1, <3>4
      <4> QED BY <2>2, <2>4, <2>7, <3>1, <3>4, <4>1
    <3> QED BY <3>2, <3>3, <3>4
  <2>9. CountsFrom(g, k - 1, frames)
    BY <2>8, Zenon DEF CountsFrom
  <2>10. k - 1 \in S
    BY <1>1, <1>7, <1>8, <2>9
  <2> QED BY <1>5, <1>7, <2>10
<1>9. CASE k = 1
  BY <1>6, <1>9
<1> QED BY <1>7, <1>8, <1>9

(* A count of its own, since the last slot with a value out of the range   *)
(* would have it from a later slot.                                        *)
LEMMA CountsInRange ==
  ASSUME NEW frames, NEW f, CountsFrom(f, 1, frames)
  PROVE  f[1] \in 0 .. FrmCnt + 1
<1> DEFINE Out == {i \in 1 .. FrmCnt + 2 : f[i] \notin 0 .. FrmCnt + 1}
           Left == {FrmCnt + 2 - i : i \in Out}
<1>1. FrmCnt \in Nat \ {0}
  BY CsiCameraAssumption DEF CsiCameraAssumption
<1>2. \A i \in 1 .. FrmCnt + 2 :
        f[i] = IF i > FrmCnt THEN i - 1 ELSE f[NextSlot(frames, i)]
  BY DEF CountsFrom
<1>3. ASSUME Out # {} PROVE FALSE
  <2>1. Left \in SUBSET Nat /\ Left # {}
    BY <1>1, <1>3
  <2>2. PICK n \in Left : \A m \in Left : n <= m
    BY <2>1, Smallest
  <2>3. PICK i \in Out : n = FrmCnt + 2 - i
    OBVIOUS
  <2>4. i \in 1 .. FrmCnt + 2 /\ f[i] \notin 0 .. FrmCnt + 1
    OBVIOUS
  <2>5. ASSUME i > FrmCnt PROVE FALSE
    <3>1. f[i] = i - 1
      BY <1>2, <2>4, <2>5
    <3> QED BY <1>1, <2>4, <2>5, <3>1
  <2>6. f[i] = f[NextSlot(frames, i)]
    BY <1>2, <2>4, <2>5
  <2>7. NextSlot(frames, i) \in 1 .. FrmCnt + 2 /\ NextSlot(frames, i) > i
    BY <1>1, <2>4, <2>5 DEF NextSlot
  <2>8. FrmCnt + 2 - NextSlot(frames, i) \in Left
    BY <2>4, <2>6, <2>7
  <2>9. n <= FrmCnt + 2 - NextSlot(frames, i)
    BY <2>2, <2>8
  <2> HIDE DEF Left, Out
  <2> QED BY <1>1, <2>3, <2>4, <2>7, <2>9
<1> QED BY <1>1, <1>3

(* csi_camera_get_frame_count counts at most one slot too many.            *)
LEMMA FrameCountRange ==
  ASSUME NEW frames
  PROVE  FrameCount(frames) \in 0 .. FrmCnt + 1
<1> DEFINE f == CHOOSE g : CountsFrom(g, 1, frames)
<1>1. CountsFrom(f, 1, frames)
  BY CountIsDefined
<1>2. FrameCount(frames) = f[1]
  BY DEF FrameCount, CountsFrom, NextSlot
<1> HIDE DEF f
<1> QED BY <1>1, <1>2, CountsInRange

Shifted(S, d) == {k + d : k \in S}

LEMMA ShiftedIsNoLarger ==
  ASSUME NEW S, IsFiniteSet(S), NEW d
  PROVE  /\ IsFiniteSet(Shifted(S, d))
         /\ Cardinality(Shifted(S, d)) <= Cardinality(S)
<1> DEFINE f == [k \in S |-> k + d]
<1>1. f \in Surjection(S, Shifted(S, d))
  BY DEF Surjection, Shifted
<1> HIDE DEF f
<1> QED BY <1>1, FS_Surjection

LEMMA SizesAreFinite ==
  ASSUME Len(events) \in Nat
  PROVE  /\ New \subseteq Nat \ {0} /\ IsFiniteSet(New) /\ Cardinality(New) \in Nat
         /\ Old \subseteq Nat \ {0} /\ IsFiniteSet(Old) /\ Cardinality(Old) \in Nat
         /\ IsFiniteSet(Pending) /\ Cardinality(Pending) \in Nat
<1>1. IsFiniteSet(1 .. Len(events))
  BY FS_Interval
<1>2. New \subseteq 1 .. Len(events) /\ Old \subseteq 1 .. Len(events)
  BY DEF New, Old
<1>3. IsFiniteSet(New) /\ IsFiniteSet(Old)
  BY <1>1, <1>2, FS_Subset
<1>4. IsFiniteSet(Pending)
  BY CsiCameraAssumption, FS_Subset DEF CsiCameraAssumption, Pending
<1> QED BY <1>2, <1>3, <1>4, FS_CardinalityType

(* Every event is of this run or of an earlier one.                        *)
LEMMA EventsAreCounted ==
  ASSUME events \in Seq(Event)
  PROVE  Len(events) <= Cardinality(New) + Cardinality(Old)
<1>1. Len(events) \in Nat
  OBVIOUS
<1>2. 1 .. Len(events) = New \union Old
  BY DEF New, Old
<1>3. Cardinality(New \union Old) = Len(events)
  <2>1. \A n \in Nat : Cardinality(1 .. n) = n
    BY FS_Interval
  <2> QED BY <1>1, <1>2, <2>1
<1>4. IsFiniteSet(New) /\ IsFiniteSet(Old) /\ Cardinality(New) \in Nat /\ Cardinality(Old) \in Nat
  BY <1>1, SizesAreFinite
<1>5. Cardinality(New \union Old)
        = Cardinality(New) + Cardinality(Old) - Cardinality(New \cap Old)
  BY <1>4, FS_Union
<1>6. Cardinality(New \cap Old) \in Nat
  BY <1>4, FS_Subset, FS_CardinalityType
<1> QED BY <1>1, <1>3, <1>4, <1>5, <1>6

(* An event that is inserted, and one that is fetched.                     *)
LEMMA InsertCounts ==
  ASSUME events \in Seq(Event), events' \in Seq(Event),
         NEW e \in Event, ~e.old, events' = InsertForward(e, events)
  PROVE  /\ Cardinality(New') <= Cardinality(New) + 1
         /\ Cardinality(Old') <= Cardinality(Old)
<1>1. /\ Len(events) \in Nat /\ Len(events') = Len(events) + 1
      /\ events'[1] = e
      /\ \A k \in 2 .. Len(events') : events'[k] = events[k - 1]
  BY DEF InsertForward
<1>1a. Len(events) \in Nat /\ Len(events') \in Nat
  BY <1>1
<1>2. \A k \in 1 .. Len(events') :
        k = 1 \/ (k - 1 \in 1 .. Len(events) /\ events'[k] = events[k - 1])
  BY <1>1
<1> DEFINE N == Shifted(New, 1)
           O == Shifted(Old, 1)
<1>3. /\ IsFiniteSet(N) /\ Cardinality(N) <= Cardinality(New)
      /\ IsFiniteSet(O) /\ Cardinality(O) <= Cardinality(Old)
  BY <1>1a, SizesAreFinite, ShiftedIsNoLarger
<1>4. New' \subseteq N \union {1}
  <2> SUFFICES ASSUME NEW k \in New' PROVE k \in N \union {1}
    OBVIOUS
  <2>1. k \in 1 .. Len(events') /\ ~events'[k].old
    BY DEF New
  <2>2. k # 1 => k - 1 \in New
    BY <1>2, <2>1 DEF New
  <2>3. k \in Int /\ k = (k - 1) + 1
    BY <1>1, <2>1
  <2> QED BY <2>2, <2>3 DEF Shifted
<1>5. Old' \subseteq O
  <2> SUFFICES ASSUME NEW k \in Old' PROVE k \in O
    OBVIOUS
  <2>1. k \in 1 .. Len(events') /\ events'[k].old
    BY DEF Old
  <2>2. k # 1
    BY <1>1, <2>1
  <2>3. k - 1 \in Old
    BY <1>2, <2>1, <2>2 DEF Old
  <2>4. k \in Int /\ k = (k - 1) + 1
    BY <1>1, <2>1
  <2> QED BY <2>3, <2>4 DEF Shifted
<1> HIDE DEF N, O
<1>6. IsFiniteSet(N \union {1}) /\ Cardinality(N \union {1}) <= Cardinality(N) + 1
  <2>1. Cardinality(N) \in Nat
    BY <1>3, FS_CardinalityType
  <2>2. IsFiniteSet(N \union {1})
    BY <1>3, FS_AddElement
  <2>3. Cardinality(N \union {1}) = IF 1 \in N THEN Cardinality(N) ELSE Cardinality(N) + 1
    BY <1>3, FS_AddElement
  <2> QED BY <2>1, <2>2, <2>3
<1>7. Cardinality(New') <= Cardinality(N \union {1}) /\ Cardinality(Old') <= Cardinality(O)
  BY <1>3, <1>4, <1>5, <1>6, FS_Subset
<1>8. /\ Cardinality(New) \in Nat /\ Cardinality(Old) \in Nat
      /\ Cardinality(N) \in Nat /\ Cardinality(O) \in Nat
      /\ Cardinality(N \union {1}) \in Nat
  BY <1>1a, <1>3, <1>6, SizesAreFinite, FS_CardinalityType
<1>9. IsFiniteSet(New') /\ IsFiniteSet(Old')
  BY <1>3, <1>4, <1>5, <1>6, FS_Subset
<1>10. Cardinality(New') \in Nat /\ Cardinality(Old') \in Nat
  BY <1>9, FS_CardinalityType
<1> QED BY <1>3, <1>6, <1>7, <1>8, <1>10

LEMMA FetchCounts ==
  ASSUME events \in Seq(Event), events' \in Seq(Event), events # <<>>,
         events' = Tail(events)
  PROVE  /\ Cardinality(New') <= Cardinality(New)
         /\ Cardinality(Old') <= Cardinality(Old)
<1>1. /\ Len(events) \in Nat /\ Len(events) > 0 /\ Len(events') = Len(events) - 1
      /\ \A k \in 1 .. Len(events') : events'[k] = events[k + 1]
  OBVIOUS
<1>1a. Len(events) \in Nat /\ Len(events') \in Nat
  BY <1>1
<1>2. \A k \in 1 .. Len(events') :
        k + 1 \in 1 .. Len(events) /\ events'[k] = events[k + 1] /\ k = (k + 1) + (-1)
  BY <1>1
<1> DEFINE N == Shifted(New, -1)
           O == Shifted(Old, -1)
<1>3. /\ IsFiniteSet(N) /\ Cardinality(N) <= Cardinality(New)
      /\ IsFiniteSet(O) /\ Cardinality(O) <= Cardinality(Old)
  BY <1>1a, SizesAreFinite, ShiftedIsNoLarger
<1>4. New' \subseteq N
  BY <1>2 DEF New, Shifted
<1>5. Old' \subseteq O
  BY <1>2 DEF Old, Shifted
<1> HIDE DEF N, O
<1>6. /\ IsFiniteSet(New') /\ IsFiniteSet(Old')
      /\ Cardinality(New') <= Cardinality(N) /\ Cardinality(Old') <= Cardinality(O)
  BY <1>3, <1>4, <1>5, FS_Subset
<1>7. /\ Cardinality(New) \in Nat /\ Cardinality(Old) \in Nat
      /\ Cardinality(N) \in Nat /\ Cardinality(O) \in Nat
      /\ Cardinality(New') \in Nat /\ Cardinality(Old') \in Nat
  BY <1>1a, <1>3, <1>6, SizesAreFinite, FS_CardinalityType
<1> QED BY <1>3, <1>6, <1>7

(* What a start leaves is old, and not more than MaxOld.                   *)
LEMMA AgedCounts ==
  ASSUME events \in Seq(Event), events' = Aged(events)
  PROVE  New' = {} /\ Cardinality(Old') <= MaxOld
<1> DEFINE n == IF Len(events) > MaxOld THEN MaxOld ELSE Len(events)
<1>1. Len(events) \in Nat /\ MaxOld \in Nat
  BY CsiCameraAssumption DEF CsiCameraAssumption
<1>2. n \in Nat /\ n <= Len(events) /\ n <= MaxOld
  BY <1>1
<1>3. events' = [k \in 1 .. n |-> [events[k] EXCEPT !.old = TRUE]]
  BY DEF Aged
<1> HIDE DEF n
<1>4. \A k \in 1 .. n : events[k] \in Event
  <2>1. \A k \in 1 .. Len(events) : events[k] \in Event
    OBVIOUS
  <2>2. \A k \in 1 .. n : k \in 1 .. Len(events)
    BY <1>1, <1>2
  <2> QED BY <2>1, <2>2
<1>5. \A e \in Event : [e EXCEPT !.old = TRUE].old = TRUE
  BY DEF Event
<1>6. Len(events') = n
  BY <1>2, <1>3
<1>7. \A k \in 1 .. Len(events') : events'[k].old = TRUE
  BY <1>3, <1>4, <1>5, <1>6
<1>8. New' = {} /\ Old' \subseteq 1 .. n
  BY <1>6, <1>7 DEF New, Old
<1>9. IsFiniteSet(1 .. n) /\ Cardinality(1 .. n) = n
  BY <1>2, FS_Interval
<1>10. IsFiniteSet(Old') /\ Cardinality(Old') <= n
  BY <1>8, <1>9, FS_Subset
<1>11. Cardinality(Old') \in Nat
  BY <1>10, FS_CardinalityType
<1> QED BY <1>1, <1>2, <1>8, <1>10, <1>11

(* What neither the consumers nor the event thread change.                 *)
LEMMA ReaderKeeps ==
  Reader => UNCHANGED <<status, threadVars, callVars>> /\ rpc # "off" /\ rpc' # "off"
BY DEF Reader, GetEventWait, GetEventFetch, CountFrames, csi_camera_get_frame,
       csi_camera_put_frame, FramesTaken, readVars

LEMMA ConsumerKeeps ==
  ASSUME NEW c \in Channels, Consumer(c)
  PROVE  UNCHANGED <<status, threadVars, callVars, rpc>>
BY DEF Consumer, Deliver, Fill, Announce, Post, readVars

LEMMA NextSizes == Shape /\ SizesInv /\ Operation => SizesInv'
<1> SUFFICES ASSUME Shape, SizesInv, Operation PROVE SizesInv'
  OBVIOUS
<1> USE DEF slotVars, threadVars, callVars, readVars
<1> DEFINE Queue == /\ Cardinality(New) + Cardinality(Pending) <= MaxNew
                    /\ Cardinality(Old) <= MaxOld
           Threads == /\ dispatchers <= MaxThreads
                      /\ hpc = "start" => dispatchers < MaxThreads
           Asked == /\ rleft \in 0 .. FrmCnt + 2
                    /\ rpc \in {"held", "stale"} => rleft > 0
<1>0. /\ FrmCnt \in Nat /\ MaxNew \in Nat /\ MaxOld \in Nat /\ MaxThreads \in Nat
      /\ Len(events) \in Nat /\ dispatchers \in Nat
  BY CsiCameraAssumption DEF CsiCameraAssumption, Shape
<1>0a. Queue /\ Threads /\ Asked
  BY DEF SizesInv
<1>0b. Cardinality(New) \in Nat /\ Cardinality(Old) \in Nat /\ Cardinality(Pending) \in Nat
       /\ IsFiniteSet(Pending)
  BY <1>0, SizesAreFinite
<1>0c. events' \in Seq(Event)
  BY NextShape DEF Shape
<1>1. ASSUME UNCHANGED <<events, cpc>> PROVE Queue'
  BY <1>0a, <1>1 DEF New, Old, Pending
<1>2. ASSUME UNCHANGED <<dispatchers, hpc>> PROVE Threads'
  BY <1>0a, <1>2
<1>3. ASSUME UNCHANGED <<rleft, rpc>> PROVE Asked'
  BY <1>0a, <1>3
<1>4. ASSUME StopThreadsIfFed, hpc' = "ready" PROVE Threads'
  <2>1. dispatchers' \in {dispatchers, dispatchers - 1}
    BY <1>4 DEF StopThreadsIfFed, ThreadsStopped
  <2> QED BY <1>0, <1>0a, <1>4, <2>1
<1>5. ASSUME NEW c \in Channels,
             \/ csi_camera_channel_close(c)
             \/ csi_camera_subscribe_event(c) \/ csi_camera_unsubscribe_event(c)
      PROVE  SizesInv'
  <2>1. UNCHANGED <<events, cpc, dispatchers, hpc, rleft, rpc>>
    BY <1>5 DEF csi_camera_channel_close, csi_camera_subscribe_event,
                csi_camera_unsubscribe_event
  <2> QED BY <1>1, <1>2, <1>3, <2>1 DEF SizesInv
<1>6. ASSUME NEW c \in Channels, csi_camera_channel_open(c) PROVE SizesInv'
  <2>1. UNCHANGED <<events, cpc, rleft, rpc>> /\ StopThreadsIfFed /\ hpc' = "ready"
    BY <1>6 DEF csi_camera_channel_open
  <2> QED BY <1>1, <1>3, <1>4, <2>1 DEF SizesInv
<1>7. CASE ChannelStopThreads
  <2>1. UNCHANGED <<events, cpc, rleft, rpc>> /\ StopThreadsIfFed /\ hpc' = "ready"
    BY <1>7 DEF ChannelStopThreads
  <2> QED BY <1>1, <1>3, <1>4, <2>1 DEF SizesInv
<1>8. ASSUME NEW c \in Channels, ChannelStopFree(c) PROVE SizesInv'
  <2>1. UNCHANGED <<events, cpc, dispatchers, rleft, rpc>> /\ hpc' = "stop"
    BY <1>8 DEF ChannelStopFree
  <2> QED BY <1>0a, <1>1, <1>3, <2>1 DEF SizesInv
<1>9. CASE ChannelStartRun
  <2>1. UNCHANGED <<events, cpc, rleft, rpc>> /\ hpc = "start" /\ hpc' = "ready"
        /\ dispatchers' = dispatchers + 1
    BY <1>9 DEF ChannelStartRun
  <2>2. dispatchers < MaxThreads
    BY <1>0a, <2>1
  <2>3. Threads'
    BY <1>0, <2>1, <2>2
  <2> QED BY <1>1, <1>3, <2>1, <2>3 DEF SizesInv
<1>10. ASSUME NEW c \in Channels, ChannelStartInit(c) PROVE SizesInv'
  <2>1. /\ UNCHANGED <<cpc, dispatchers, rleft, rpc>>
        /\ dispatchers < MaxThreads /\ events' = Aged(events)
    BY <1>10 DEF ChannelStartInit
  <2>2. New' = {} /\ Cardinality(Old') <= MaxOld
    BY <2>1, AgedCounts DEF Shape
  <2>3. Cardinality(New') = 0
    BY <2>2, FS_EmptySet
  <2>4. Pending' = Pending
    BY <2>1 DEF Pending
  <2>5. Queue'
    BY <1>0, <1>0a, <1>0b, <2>2, <2>3, <2>4
  <2>6. Threads'
    BY <1>0a, <2>1
  <2> QED BY <1>3, <2>1, <2>5, <2>6 DEF SizesInv
<1>11. CASE NextEvent
  <2>1. UNCHANGED <<events, cpc, dispatchers, hpc, rleft>> /\ rpc' = "wait"
    BY <1>11 DEF NextEvent
  <2> QED BY <1>0a, <1>1, <1>2, <2>1 DEF SizesInv
<1>12. ASSUME NEW c \in Channels, Consumer(c) PROVE SizesInv'
  <2>1. Threads' /\ Asked'
    BY <1>2, <1>3, <1>12 DEF Consumer, Deliver, Fill, Announce, Post
  <2>2. CASE Deliver(c)
    <3>1. Cardinality(New) + Cardinality(Pending) < MaxNew
      BY <2>2 DEF Deliver, Pending
    <3>2. Pending' = Pending \union {c} /\ events' = events
      BY <2>2 DEF Deliver, Pending, Shape
    <3>3. Cardinality(Pending') <= Cardinality(Pending) + 1
      BY <1>0b, <3>2, FS_AddElement
    <3>4. Cardinality(Pending') \in Nat
      BY <1>0b, <3>2, FS_AddElement, FS_CardinalityType
    <3>5. New' = New /\ Old' = Old
      BY <3>2 DEF New, Old
    <3>6. Queue'
      BY <1>0, <1>0a, <1>0b, <3>1, <3>3, <3>4, <3>5
    <3> QED BY <2>1, <3>6 DEF SizesInv
  <2>3. CASE Fill(c)
    <3>1. Pending' = Pending /\ New' = New /\ Old' = Old
      BY <2>3 DEF Fill, Pending, New, Old, Shape
    <3> QED BY <1>0a, <2>1, <3>1 DEF SizesInv
  <2>4. CASE Announce(c)
    <3>1. c \in Pending /\ Pending' = Pending \ {c}
      BY <2>4 DEF Announce, Pending, Shape
    <3>2. Cardinality(Pending') = Cardinality(Pending) - 1
      BY <1>0b, <3>1, FS_RemoveElement
    <3>3. PICK ready \in BOOLEAN :
            events' = InsertForward([chn |-> c, ready |-> ready, old |-> FALSE], events)
      BY <2>4 DEF Announce
    <3>4. Cardinality(New') <= Cardinality(New) + 1 /\ Cardinality(Old') <= Cardinality(Old)
      <4>1. [chn |-> c, ready |-> ready, old |-> FALSE] \in Event
        BY DEF Event
      <4>2. ~[chn |-> c, ready |-> ready, old |-> FALSE].old
        OBVIOUS
      <4> HIDE DEF Queue, Threads, Asked
      <4> QED BY <1>0c, <3>3, <4>1, <4>2, InsertCounts DEF Shape
    <3>5. Cardinality(New') \in Nat /\ Cardinality(Old') \in Nat
      <4>1. Len(events') \in Nat
        BY <1>0c
      <4>2. IsFiniteSet(1 .. Len(events'))
        BY <4>1, FS_Interval
      <4>3. New' \subseteq 1 .. Len(events') /\ Old' \subseteq 1 .. Len(events')
        BY DEF New, Old
      <4> QED BY <4>2, <4>3, FS_Subset, FS_CardinalityType
    <3>6. Queue'
      BY <1>0, <1>0a, <1>0b, <3>2, <3>4, <3>5
    <3> QED BY <2>1, <3>6 DEF SizesInv
  <2>5. CASE Post(c)
    <3>1. Pending' = Pending /\ New' = New /\ Old' = Old
      BY <2>5 DEF Post, Pending, New, Old, Shape
    <3> QED BY <1>0a, <2>1, <3>1 DEF SizesInv
  <2> QED BY <1>12, <2>2, <2>3, <2>4, <2>5 DEF Consumer
<1>13. CASE Reader
  <2>1. Threads'
    BY <1>2, <1>13, ReaderKeeps
  <2>2. CASE GetEventWait
    BY <1>0a, <1>1, <2>1, <2>2 DEF GetEventWait, SizesInv
  <2>3. CASE GetEventFetch
    <3>1. Asked' /\ cpc' = cpc
      BY <1>0a, <2>3 DEF GetEventFetch
    <3>2. CASE events = <<>>
      BY <1>1, <2>1, <2>3, <3>1, <3>2 DEF GetEventFetch, SizesInv
    <3>3. CASE events # <<>>
      <4>1. events' = Tail(events)
        BY <2>3, <3>3 DEF GetEventFetch
      <4>2. Cardinality(New') <= Cardinality(New) /\ Cardinality(Old') <= Cardinality(Old)
        <5> HIDE DEF Queue, Threads, Asked
        <5> QED BY <1>0c, <3>3, <4>1, FetchCounts DEF Shape
      <4>3. Cardinality(New') \in Nat /\ Cardinality(Old') \in Nat
        <5>1. Len(events') \in Nat
          BY <1>0c
        <5>2. IsFiniteSet(1 .. Len(events'))
          BY <5>1, FS_Interval
        <5>3. New' \subseteq 1 .. Len(events') /\ Old' \subseteq 1 .. Len(events')
          BY DEF New, Old
        <5> QED BY <5>2, <5>3, FS_Subset, FS_CardinalityType
      <4>4. Pending' = Pending
        BY <3>1 DEF Pending
      <4>5. Queue'
        BY <1>0, <1>0a, <1>0b, <4>2, <4>3, <4>4
      <4> QED BY <2>1, <3>1, <4>5 DEF SizesInv
    <3> QED BY <3>2, <3>3
  <2>4. CASE CountFrames
    <3>1. rleft' \in {1, FrameCount(slot[revent])} /\ rpc' = "get"
          /\ UNCHANGED <<events, cpc>>
      BY <2>4 DEF CountFrames
    <3>2. rleft' \in 0 .. FrmCnt + 1
      <4>1. FrameCount(slot[revent]) \in 0 .. FrmCnt + 1
        BY FrameCountRange
      <4> QED BY <1>0, <3>1, <4>1
    <3> QED BY <1>0, <1>1, <2>1, <3>1, <3>2 DEF SizesInv
  <2>5. CASE csi_camera_get_frame
    <3>1. rleft > 0 /\ UNCHANGED <<events, cpc>> /\ rpc' \in {"get", "stale", "held"}
          /\ (rleft' = rleft \/ (rleft' = rleft - 1 /\ rpc' = "get"))
      BY <2>5 DEF csi_camera_get_frame
    <3>2. Asked'
      BY <1>0, <1>0a, <3>1
    <3> QED BY <1>1, <2>1, <3>1, <3>2 DEF SizesInv
  <2>6. CASE csi_camera_put_frame
    <3>1. rleft > 0 /\ UNCHANGED <<events, cpc>> /\ rpc' = "get" /\ rleft' = rleft - 1
      BY <1>0a, <2>6 DEF csi_camera_put_frame
    <3>2. Asked'
      BY <1>0, <1>0a, <3>1
    <3> QED BY <1>1, <2>1, <3>1, <3>2 DEF SizesInv
  <2>7. CASE FramesTaken
    <3>1. UNCHANGED <<events, cpc, rleft>> /\ rpc' = "loop"
      BY <2>7 DEF FramesTaken
    <3> QED BY <1>0a, <1>1, <2>1, <3>1 DEF SizesInv
  <2> QED BY <1>13, <2>2, <2>3, <2>4, <2>5, <2>6, <2>7 DEF Reader
<1> QED BY <1>5, <1>6, <1>7, <1>8, <1>9, <1>10, <1>11, <1>12, <1>13 DEF Operation

-----------------------------------------------------------------------------
LEMMA InitShape == CameraInit /\ rpc \in {"loop", "off"} => Shape /\ ThreadsInv
<1> SUFFICES ASSUME CameraInit, rpc \in {"loop", "off"} PROVE Shape /\ ThreadsInv
  OBVIOUS
<1>1. AllIdle \in [Slots -> {"IDLE", "READY"}]
  BY DEF AllIdle
<1>2. /\ status \in [Channels -> {"CLOSED", "OPENED", "RUNNING"}]
      /\ slot \in [Channels -> [Slots -> {"IDLE", "READY"}]]
      /\ bufs \in [Channels -> {"null", "allocated", "freed"}]
      /\ cpc \in [Channels -> {"wait", "called", "filled", "full", "announced"}]
  BY <1>1 DEF CameraInit
<1>3. feeding = FALSE /\ rtorn = FALSE
  BY DEF CameraInit
<1>4. feeding \in BOOLEAN /\ rtorn \in BOOLEAN /\ (feeding => dispatchers > 0)
  BY <1>3, Zenon
<1>5. subs = {} /\ events = <<>> /\ sem = 0 /\ listed = {} /\ dispatchers = 0
  BY DEF CameraInit
<1>6. /\ hpc = "ready" /\ hchn \in Channels
      /\ revent \in Channels /\ raddr = NoAddress
  BY DEF CameraInit
<1> QED BY <1>2, <1>4, <1>5, <1>6 DEF Shape, CameraInit, ThreadsInv

LEMMA InitSizes == CameraInit /\ rpc \in {"loop", "off"} => SizesInv
<1> SUFFICES ASSUME CameraInit, rpc \in {"loop", "off"} PROVE SizesInv
  OBVIOUS
<1>1. New = {} /\ Old = {} /\ Pending = {}
  BY DEF CameraInit, New, Old, Pending
<1>2. Cardinality(New) = 0 /\ Cardinality(Old) = 0 /\ Cardinality(Pending) = 0
  BY <1>1, FS_EmptySet
<1>3. FrmCnt \in Nat /\ MaxNew \in Nat /\ MaxOld \in Nat /\ MaxThreads \in Nat
  BY CsiCameraAssumption DEF CsiCameraAssumption
<1>4. dispatchers = 0 /\ hpc = "ready" /\ rleft = 0
  BY DEF CameraInit
<1> QED BY <1>2, <1>3, <1>4 DEF SizesInv

QueueBounded == Len(events) <= MaxNew + MaxOld

LEMMA SizesBoundQueue ==
  ASSUME Shape, SizesInv
  PROVE  QueueBounded
<1>1. Len(events) \in Nat /\ MaxNew \in Nat /\ MaxOld \in Nat
  BY CsiCameraAssumption DEF CsiCameraAssumption, Shape
<1>2. /\ Cardinality(New) \in Nat /\ Cardinality(Old) \in Nat
      /\ Cardinality(Pending) \in Nat
  BY <1>1, SizesAreFinite
<1>3. Len(events) <= Cardinality(New) + Cardinality(Old)
  BY EventsAreCounted DEF Shape
<1> QED BY <1>1, <1>2, <1>3 DEF SizesInv, QueueBounded

(* The types and the numbers together are TypeOK.                          *)
LEMMA TypesFromParts ==
  ASSUME Shape, SizesInv, sem <= MaxNew + MaxOld
  PROVE  TypeOK
<1>1. Len(events) \in Nat /\ dispatchers \in Nat /\ sem \in Nat
  BY DEF Shape
<1>2. FrmCnt \in Nat /\ MaxNew \in Nat /\ MaxOld \in Nat /\ MaxThreads \in Nat
  BY CsiCameraAssumption DEF CsiCameraAssumption
<1>3. Len(events) <= MaxNew + MaxOld
  BY SizesBoundQueue DEF QueueBounded
<1>4. sem \in 0 .. MaxNew + MaxOld /\ dispatchers \in 0 .. MaxThreads
  BY <1>1, <1>2 DEF SizesInv
<1>5. rleft \in 0 .. FrmCnt + 2
  BY DEF SizesInv
<1>6. feeding \in BOOLEAN /\ rtorn \in BOOLEAN
  BY DEF Shape
<1> QED BY <1>3, <1>4, <1>5, <1>6 DEF TypeOK, Shape

LEMMA InitDirect == Init => DirectInv
<1> SUFFICES ASSUME Init PROVE DirectInv
  OBVIOUS
<1>1. Shape /\ ThreadsInv
  BY InitShape DEF Init
<1>2. ListedRun
  BY DEF Init, CameraInit, ListedRun
<1>3. BufsInv /\ HeldInv
  BY DEF Init, CameraInit, BufsInv, BuffersAreThere, HeldInv, HeldFrameIsWhole
<1>4. EveryPostHasAnEvent
  <2>1. Announced = {}
    BY DEF Init, CameraInit, Announced
  <2>2. Cardinality(Announced) = 0
    BY <2>1, FS_EmptySet
  <2> QED BY <2>2 DEF Init, CameraInit, EveryPostHasAnEvent, Announced
<1> QED BY <1>1, <1>2, <1>3, <1>4 DEF DirectInv

LEMMA NextDirect == DirectInv /\ [Next]_vars => DirectInv'
<1> SUFFICES ASSUME DirectInv, [Next]_vars PROVE DirectInv'
  OBVIOUS
<1>1. CASE Next
  BY <1>1, NextIsOperation, NextShape, NextThreads, NextBufs, NextListedRun,
     NextHeld, NextPost DEF DirectInv
<1>2. CASE UNCHANGED vars
  <2> USE <1>2 DEF vars, slotVars, threadVars, callVars, readVars
  <2>1. Shape' /\ ThreadsInv' /\ ListedRun'
    BY DEF DirectInv, Shape, ThreadsInv, ListedRun
  <2>2. BufsInv' /\ HeldInv'
    BY DEF DirectInv, BufsInv, BuffersAreThere, HeldInv, HeldFrameIsWhole
  <2>3. EveryPostHasAnEvent'
    BY DEF DirectInv, EveryPostHasAnEvent
  <2> QED BY <2>1, <2>2, <2>3 DEF DirectInv
<1> QED BY <1>1, <1>2

LEMMA SpecDirect == Spec => []DirectInv
BY InitDirect, NextDirect, PTL DEF Spec

(* A consumer that may be called has buffers to fill, except while its     *)
(* channel is being stopped: producer_consumer threads and channel_start   *)
(* or channel_stop in any order.                                           *)
THEOREM BuffersOutliveTheirConsumer == Spec => []BuffersAreThere
<1>1. DirectInv => BuffersAreThere
  BY DEF DirectInv, BufsInv
<1> QED BY <1>1, SpecDirect, PTL

(* No picture is copied over a frame between csi_camera_get_frame, which   *)
(* does not mark it, and csi_camera_put_frame.                             *)
THEOREM HeldFramesAreNotOverwritten == Spec => []HeldFrameIsWhole
<1>1. DirectInv => HeldFrameIsWhole
  BY DEF DirectInv, HeldInv
<1> QED BY <1>1, SpecDirect, PTL

(* csi_camera_get_event finds an event whenever sem_wait returns, also     *)
(* when a start of another channel has set the semaphore to zero between   *)
(* the insertion of an event and its post.                                 *)
THEOREM EventsMatchPosts == Spec => []EveryPostHasAnEvent
<1>1. DirectInv => EveryPostHasAnEvent
  BY DEF DirectInv
<1> QED BY <1>1, SpecDirect, PTL

(* The variables of the camera keep their types and the numbers that stand *)
(* for resources stay within what the code holds of them: the events of a  *)
(* run that are in g_camera_event or on their way to it, frame_csem, and   *)
(* what csi_camera_get_frame_count makes the application ask for.          *)
THEOREM CameraTypes == Spec => []TypeOK
<1>1. Init => SizesInv
  BY InitSizes DEF Init
<1>2. DirectInv /\ SizesInv /\ [Next]_vars => SizesInv'
  <2>1. CASE UNCHANGED vars
    BY <2>1 DEF vars, readVars, threadVars, callVars, SizesInv, New, Old, Pending
  <2> QED BY <2>1, NextIsOperation, NextSizes DEF DirectInv
<1>3. DirectInv /\ SizesInv => TypeOK
  <2> SUFFICES ASSUME DirectInv, SizesInv PROVE TypeOK
    OBVIOUS
  <2>1. /\ sem \in Nat /\ Len(events) \in Nat /\ Cardinality(Announced) \in Nat
        /\ MaxNew \in Nat /\ MaxOld \in Nat
    BY AnnouncedIsFinite, CsiCameraAssumption DEF DirectInv, Shape, CsiCameraAssumption
  <2>2. sem <= Len(events)
    BY <2>1 DEF DirectInv, EveryPostHasAnEvent, Announced
  <2>3. Len(events) <= MaxNew + MaxOld
    BY SizesBoundQueue DEF DirectInv, QueueBounded
  <2>4. sem <= MaxNew + MaxOld
    BY <2>1, <2>2, <2>3
  <2> QED BY <2>4, TypesFromParts DEF DirectInv
<1> QED BY <1>1, <1>2, <1>3, SpecDirect, PTL DEF Spec

-----------------------------------------------------------------------------
(* The session, used from the menu: its inductive invariant.               *)

(* Nothing runs in the HAL, and no event thread above it.                  *)
Quiet == listed = {} /\ feeding = FALSE /\ rpc = "off"

(* Where the HAL and the event thread are at each step of a call.          *)
CallInv ==
  /\ mpc \in {"ready", "create", "join"} => hpc = "ready"
  /\ mpc = "ready" /\ state # "RUNNING" => Quiet
  /\ mpc = "ready" /\ state = "RUNNING" => rpc # "off" /\ flag = TRUE
  /\ mpc = "start" => hpc = "start" /\ hchn = mchn /\ Configurable /\ Quiet
  /\ mpc = "create" => Configurable /\ rpc = "off"
  /\ mpc = "join" => state = "RUNNING"
  /\ mpc = "stop" => hpc = "stop" /\ hchn = mchn /\ state = "RUNNING" /\ rpc = "off"

SessionShape ==
  /\ Shape
  /\ state \in {"CLOSED", "OPENED", "MODE_SET", "RUNNING"}
  /\ flag \in BOOLEAN
  /\ mpc \in {"ready", "start", "create", "join", "stop"} /\ mchn \in Channels

SessionInv == SessionShape /\ ThreadsInv /\ CallInv

(* The events of this run are the first ones of the list, and while events *)
(* are taken or a call is under way there are enough of them.              *)
NewFirst(n) ==
  /\ n \in 0 .. Len(events)
  /\ \A k \in 1 .. Len(events) : ~events[k].old <=> k <= n
  /\ rpc # "off" \/ mpc # "ready" =>
       sem + (IF rpc = "fetch" THEN 1 ELSE 0) + Cardinality(Announced) <= n

NewestFirst == \E n \in Nat : NewFirst(n)

(* Channel c runs, and nothing else; or nothing runs.                      *)
Runs(c) == /\ listed = {c} /\ feeding = TRUE /\ dispatchers = 1
           /\ \A d \in Channels : status[d] = "RUNNING" <=> d = c

Idle == /\ listed = {} /\ feeding = FALSE /\ dispatchers = 0
        /\ \A d \in Channels : status[d] # "RUNNING"

CurrentInv ==
  /\ mpc = "ready" /\ state = "RUNNING" =>
       /\ \E c \in Channels : Runs(c)
       /\ rpc # "off" /\ flag = TRUE
  /\ mpc = "ready" /\ state # "RUNNING" => Idle
  /\ mpc = "start" => Idle
  /\ mpc \in {"create", "join", "stop"} => Runs(mchn)

-----------------------------------------------------------------------------
(* What the menu's buttons do to the HAL and to the session's state.       *)
LEMMA ShownIsStatus ==
  ASSUME NEW c \in Shown
  PROVE  c \in Channels /\ Queried[c] = status[c]
BY DEF Shown, Queried, Table

Answer ==
  mpc = "ready" /\ UNCHANGED <<vars, state, flag, mpc, mchn>>

Configure ==
  /\ mpc = "ready" /\ state # "RUNNING" /\ state' \in {"OPENED", "MODE_SET"}
  /\ UNCHANGED <<vars, flag, mpc, mchn>>

CloseCamera ==
  /\ mpc = "ready" /\ state # "RUNNING" /\ state' = "CLOSED"
  /\ subs' = {} /\ events' = <<>>
  /\ UNCHANGED <<status, slotVars, sem, threadVars, cpc, callVars, readVars,
                 flag, mpc, mchn>>

Subscribe ==
  /\ mpc = "ready" /\ subs' \subseteq Channels
  /\ UNCHANGED <<status, slotVars, events, sem, threadVars, cpc, callVars, readVars,
                 state, flag, mpc, mchn>>

OpenChannel(c) ==
  /\ mpc = "ready" /\ (state = "RUNNING" => OpensWhileRunning)
  /\ csi_camera_channel_open(c)
  /\ UNCHANGED <<state, flag, mpc, mchn>>

CloseChannel(c) ==
  /\ mpc = "ready" /\ status[c] = "OPENED"
  /\ csi_camera_channel_close(c)
  /\ UNCHANGED <<state, flag, mpc, mchn>>

Start(c) ==
  /\ mpc = "ready" /\ Configurable
  /\ ChannelStartInit(c)
  /\ mpc' = "start" /\ mchn' = c
  /\ UNCHANGED <<state, flag>>

Stop(c) ==
  /\ mpc = "ready" /\ state = "RUNNING" /\ status[c] = "RUNNING"
  /\ flag' = FALSE /\ mpc' = "join" /\ mchn' = c
  /\ UNCHANGED <<vars, state>>

TestFlag ==
  /\ rpc = "loop" /\ rpc' = IF flag THEN "wait" ELSE "off"
  /\ UNCHANGED <<status, slotVars, subs, events, sem, threadVars, cpc, callVars,
                 revent, rleft, raddr, rtorn, state, flag, mpc, mchn>>

Read == Reader /\ UNCHANGED <<state, flag, mpc, mchn>>

Consume == \E c \in Channels : Consumer(c) /\ UNCHANGED <<state, flag, mpc, mchn>>

MenuStep ==
  \/ Answer \/ Configure \/ CloseCamera \/ Subscribe
  \/ \E c \in Channels : OpenChannel(c) \/ CloseChannel(c) \/ Start(c) \/ Stop(c)
  \/ StartedInHal \/ CreateEventThread \/ JoinEventThread \/ StoppedInHal
  \/ TestFlag \/ do_channel_event_action \/ Read
  \/ Consume

LEMMA MenuSteps == MenuNext => MenuStep
<1>1. ASSUME menu_camera_process PROVE Answer \/ Configure \/ CloseCamera
  BY <1>1 DEF menu_camera_process, dialog_camera_list, dialog_camera_open,
              dialog_camera_set_mode, dialog_camera_close, CameraOpened,
              camera_query_list, camera_open, camera_set_mode, camera_close,
              Configurable, Answer, Configure, CloseCamera
<1>2. ASSUME menu_channel_process
      PROVE  Answer \/ \E c \in Channels : OpenChannel(c) \/ CloseChannel(c)
  <2>1. CASE dialog_channel_list
    BY <2>1 DEF dialog_channel_list, camera_channel_query_list, Answer
  <2>2. ASSUME NEW c \in ToOpen, state = "RUNNING" => OpensWhileRunning,
               dialog_channel_open(c)
        PROVE  \E d \in Channels : OpenChannel(d)
    <3>1. c \in Channels
      BY ShownIsStatus DEF ToOpen
    <3>2. OpenChannel(c)
      BY <2>2 DEF dialog_channel_open, camera_channel_open, OpenChannel
    <3> QED BY <3>1, <3>2
  <2>3. ASSUME NEW c \in ToClose, camera_channel_close(c, Queried)
        PROVE  \E d \in Channels : CloseChannel(d)
    <3>1. c \in Channels /\ Queried[c] = status[c]
      BY ShownIsStatus DEF ToClose
    <3>2. CloseChannel(c)
      BY <2>3, <3>1 DEF camera_channel_close, CloseChannel
    <3> QED BY <3>1, <3>2
  <2> QED BY <1>2, <2>1, <2>2, <2>3 DEF menu_channel_process
<1>3. ASSUME menu_event_run_process
      PROVE  Subscribe \/ \E c \in Channels : Start(c) \/ Stop(c)
  <2>1. CASE dialog_event_subscribe_action_list
    BY <2>1 DEF dialog_event_subscribe_action_list, camera_subscribe_event, Subscribe
  <2>2. ASSUME NEW c \in Shown, Queried[c] = "OPENED", StartChannel(c, Queried)
        PROVE  \E d \in Channels : Start(d)
    BY <2>2, ShownIsStatus DEF StartChannel, Start
  <2>3. ASSUME NEW c \in Shown, Queried[c] = "RUNNING", StopChannel(c, Queried)
        PROVE  \E d \in Channels : Stop(d)
    BY <2>3, ShownIsStatus DEF StopChannel, Stop
  <2> QED BY <1>3, <2>1, <2>2, <2>3 DEF menu_event_run_process, dialog_channel_run
<1>4. ASSUME MenuEventThread PROVE TestFlag \/ do_channel_event_action \/ Read
  BY <1>4 DEF MenuEventThread, EventThread, TestFlag, Read
<1>5. ASSUME NEW c \in Channels, SessionConsumer(c) PROVE Consume
  BY <1>5 DEF SessionConsumer, Consume
<1> QED BY <1>1, <1>2, <1>3, <1>4, <1>5 DEF MenuNext, Menu, InsideCall, MenuStep

-----------------------------------------------------------------------------
LEMMA MenuKeepsShape == SessionShape /\ ThreadsInv /\ MenuStep => SessionShape'
<1> SUFFICES ASSUME SessionShape, ThreadsInv, MenuStep PROVE SessionShape'
  OBVIOUS
<1> USE DEF slotVars, threadVars, callVars, readVars
<1>1. Operation => Shape'
  BY NextShape DEF SessionShape
<1>2. ASSUME UNCHANGED vars PROVE Shape'
  BY <1>2 DEF vars, SessionShape, Shape
<1>3. CASE Answer \/ Configure
  BY <1>2, <1>3 DEF Answer, Configure, SessionShape
<1>4. CASE CloseCamera
  BY <1>4 DEF CloseCamera, SessionShape, Shape
<1>5. CASE Subscribe
  BY <1>5 DEF Subscribe, SessionShape, Shape
<1>6. ASSUME NEW c \in Channels, OpenChannel(c) \/ CloseChannel(c) \/ Start(c)
      PROVE  SessionShape'
  <2>1. Operation
    BY <1>6 DEF OpenChannel, CloseChannel, Start, Operation
  <2> QED BY <1>1, <1>6, <2>1 DEF OpenChannel, CloseChannel, Start, SessionShape
<1>7. ASSUME NEW c \in Channels, Stop(c) PROVE SessionShape'
  BY <1>2, <1>7 DEF Stop, SessionShape
<1>8. CASE StartedInHal \/ JoinEventThread \/ StoppedInHal
  <2>1. mchn \in Channels
    BY DEF SessionShape
  <2>2. Operation
    BY <1>8, <2>1 DEF StartedInHal, JoinEventThread, StoppedInHal, Operation
  <2> QED BY <1>1, <1>8, <2>2 DEF StartedInHal, JoinEventThread, StoppedInHal, SessionShape
<1>9. CASE CreateEventThread
  BY <1>9 DEF CreateEventThread, SessionShape, Shape
<1>10. CASE TestFlag
  BY <1>10 DEF TestFlag, SessionShape, Shape
<1>11. CASE do_channel_event_action
  BY <1>11 DEF do_channel_event_action, SessionShape, Shape
<1>12. CASE Read \/ Consume
  <2>1. Operation
    BY <1>12 DEF Read, Consume, Operation
  <2> QED BY <1>1, <1>12, <2>1 DEF Read, Consume, SessionShape
<1> QED BY <1>3, <1>4, <1>5, <1>6, <1>7, <1>8, <1>9, <1>10, <1>11, <1>12 DEF MenuStep

LEMMA MenuKeepsThreads == SessionShape /\ ThreadsInv /\ MenuStep => ThreadsInv'
<1> SUFFICES ASSUME SessionShape, ThreadsInv, MenuStep PROVE ThreadsInv'
  OBVIOUS
<1> USE DEF slotVars, threadVars, callVars, readVars
<1>1. Operation => ThreadsInv'
  BY NextThreads DEF SessionShape
<1>2. ASSUME UNCHANGED <<feeding, listed, cpc>> PROVE ThreadsInv'
  BY <1>2 DEF ThreadsInv
<1>3. CASE Answer \/ Configure \/ CloseCamera \/ Subscribe
  BY <1>2, <1>3 DEF Answer, Configure, CloseCamera, Subscribe, vars
<1>4. ASSUME NEW c \in Channels, OpenChannel(c) \/ CloseChannel(c) \/ Start(c)
      PROVE  ThreadsInv'
  BY <1>1, <1>4 DEF OpenChannel, CloseChannel, Start, Operation
<1>5. ASSUME NEW c \in Channels, Stop(c) PROVE ThreadsInv'
  BY <1>2, <1>5 DEF Stop, vars
<1>6. CASE StartedInHal \/ JoinEventThread \/ StoppedInHal
  <2>1. mchn \in Channels
    BY DEF SessionShape
  <2> QED BY <1>1, <1>6, <2>1 DEF StartedInHal, JoinEventThread, StoppedInHal, Operation
<1>7. CASE CreateEventThread \/ TestFlag \/ do_channel_event_action
  BY <1>2, <1>7 DEF CreateEventThread, TestFlag, do_channel_event_action
<1>8. CASE Read \/ Consume
  BY <1>1, <1>8 DEF Read, Consume, Operation
<1> QED BY <1>3, <1>4, <1>5, <1>6, <1>7, <1>8 DEF MenuStep

LEMMA MenuKeepsCall == SessionInv /\ MenuStep => CallInv'
<1> SUFFICES ASSUME SessionInv, MenuStep PROVE CallInv'
  OBVIOUS
<1> USE DEF slotVars, threadVars, callVars, readVars
<1>1. CASE Answer \/ Configure \/ CloseCamera \/ Subscribe
  BY <1>1 DEF Answer, Configure, CloseCamera, Subscribe, vars, SessionInv, CallInv,
              Quiet, Configurable
<1>2. ASSUME NEW c \in Channels, OpenChannel(c) PROVE CallInv'
  <2>1. listed' = {} /\ feeding' = FALSE
    BY <1>2, ThreadsQuiet
       DEF OpenChannel, csi_camera_channel_open, SessionInv, SessionShape
  <2> QED BY <1>2, <2>1 DEF OpenChannel, csi_camera_channel_open, SessionInv, CallInv,
                            Quiet
<1>3. ASSUME NEW c \in Channels, CloseChannel(c) PROVE CallInv'
  BY <1>3 DEF CloseChannel, csi_camera_channel_close, SessionInv, CallInv, Quiet
<1>4. ASSUME NEW c \in Channels, Start(c) PROVE CallInv'
  BY <1>4 DEF Start, ChannelStartInit, SessionInv, CallInv, Quiet, Configurable
<1>5. ASSUME NEW c \in Channels, Stop(c) PROVE CallInv'
  BY <1>5 DEF Stop, vars, SessionInv, CallInv
<1>6. CASE StartedInHal
  BY <1>6 DEF StartedInHal, ChannelStartRun, SessionInv, CallInv, Quiet, Configurable
<1>7. CASE CreateEventThread
  BY <1>7 DEF CreateEventThread, SessionInv, CallInv
<1>8. CASE JoinEventThread
  BY <1>8 DEF JoinEventThread, ChannelStopFree, SessionInv, CallInv
<1>9. CASE StoppedInHal
  <2>1. listed' = {} /\ feeding' = FALSE
    BY <1>9, ThreadsQuiet
       DEF StoppedInHal, ChannelStopThreads, SessionInv, SessionShape
  <2> QED BY <1>9, <2>1 DEF StoppedInHal, ChannelStopThreads, SessionInv, CallInv, Quiet
<1>10. CASE TestFlag \/ do_channel_event_action
  BY <1>10 DEF TestFlag, do_channel_event_action, SessionInv, CallInv, Quiet,
               Configurable
<1>11. CASE Read
  BY <1>11, ReaderKeeps DEF Read, SessionInv, CallInv, Quiet
<1>12. CASE Consume
  BY <1>12, ConsumerKeeps DEF Consume, SessionInv, CallInv, Quiet, Configurable
<1> QED BY <1>1, <1>2, <1>3, <1>4, <1>5, <1>6, <1>7, <1>8, <1>9, <1>10, <1>11, <1>12
        DEF MenuStep

LEMMA InitSession == SessionInit => SessionInv
<1> SUFFICES ASSUME SessionInit PROVE SessionInv
  OBVIOUS
<1>1. Shape /\ ThreadsInv
  BY InitShape DEF SessionInit
<1>2. flag \in BOOLEAN
  BY Zenon DEF SessionInit
<1>3. SessionShape
  BY <1>1, <1>2 DEF SessionInit, SessionShape
<1>4. CallInv
  BY DEF SessionInit, CameraInit, CallInv, Quiet
<1> QED BY <1>1, <1>3, <1>4 DEF SessionInv

LEMMA NextSession == SessionInv /\ [MenuNext]_svars => SessionInv'
<1> SUFFICES ASSUME SessionInv, [MenuNext]_svars PROVE SessionInv'
  OBVIOUS
<1>1. CASE MenuNext
  BY <1>1, MenuSteps, MenuKeepsShape, MenuKeepsThreads, MenuKeepsCall DEF SessionInv
<1>2. CASE UNCHANGED svars
  BY <1>2 DEF svars, vars, slotVars, threadVars, callVars, readVars, SessionInv,
              SessionShape, Shape, ThreadsInv, CallInv, Quiet, Configurable
<1> QED BY <1>1, <1>2

LEMMA SpecSession == MenuSpec => []SessionInv
BY InitSession, NextSession, PTL DEF MenuSpec

-----------------------------------------------------------------------------
(* The event thread and the events of earlier runs.                        *)

LEMMA MenuKeepsNewest == SessionInv /\ NewestFirst /\ MenuStep => NewestFirst'
<1> SUFFICES ASSUME SessionInv, NewestFirst, MenuStep PROVE NewestFirst'
  OBVIOUS
<1> USE DEF slotVars, threadVars, callVars, readVars
<1> DEFINE waited == IF rpc = "fetch" THEN 1 ELSE 0
           taken == rpc # "off" \/ mpc # "ready"
<1>0. PICK n \in Nat : NewFirst(n)
  BY DEF NewestFirst
<1>0a. /\ n <= Len(events)
       /\ \A k \in 1 .. Len(events) : ~events[k].old <=> k <= n
       /\ taken => sem + waited + Cardinality(Announced) <= n
  BY <1>0 DEF NewFirst
<1>0b. /\ events \in Seq(Event) /\ Len(events) \in Nat /\ sem \in Nat
       /\ Cardinality(Announced) \in Nat /\ Cardinality(Announced') \in Nat
  BY AnnouncedIsFinite DEF SessionInv, SessionShape, Shape
<1>1. ASSUME UNCHANGED events,
             taken' => /\ taken
                       /\ sem' + waited' + Cardinality(Announced')
                            = sem + waited + Cardinality(Announced)
      PROVE  NewestFirst'
  <2>1. NewFirst(n)'
    BY <1>0, <1>0a, <1>1 DEF NewFirst
  <2> QED BY <2>1 DEF NewestFirst
<1>2. ASSUME UNCHANGED <<events, sem, cpc, rpc>>, taken' => taken
      PROVE  NewestFirst'
  BY <1>1, <1>2 DEF Announced
<1>3. CASE Answer \/ Configure \/ Subscribe
  BY <1>2, <1>3 DEF Answer, Configure, Subscribe, vars
<1>4. CASE CloseCamera
  <2>1. events' = <<>> /\ rpc' = "off" /\ mpc' = "ready"
    BY <1>4 DEF CloseCamera, SessionInv, CallInv, Quiet
  <2>2. NewFirst(0)'
    BY <2>1 DEF NewFirst
  <2> QED BY <2>2 DEF NewestFirst
<1>5. ASSUME NEW c \in Channels, OpenChannel(c) \/ CloseChannel(c) \/ Stop(c)
      PROVE  NewestFirst'
  BY <1>2, <1>5 DEF OpenChannel, csi_camera_channel_open, CloseChannel,
                    csi_camera_channel_close, Stop, vars, SessionInv, CallInv
<1>6. ASSUME NEW c \in Channels, Start(c) PROVE NewestFirst'
  <2>1. events' = Aged(events) /\ sem' = 0 /\ rpc' = "off" /\ cpc' = cpc
    BY <1>6 DEF Start, ChannelStartInit, SessionInv, CallInv, Quiet, Configurable
  <2>2. Announced' = {}
    BY <1>6, <2>1 DEF Start, SessionInv, CallInv, Quiet, Configurable, ThreadsInv,
                      Announced
  <2>3. Cardinality(Announced') = 0
    BY <2>2, FS_EmptySet
  <2>4. \A k \in 1 .. Len(Aged(events)) : Aged(events)[k].old
    <3> DEFINE m == IF Len(events) > MaxOld THEN MaxOld ELSE Len(events)
    <3>1. MaxOld \in Nat
      BY CsiCameraAssumption DEF CsiCameraAssumption
    <3>2. m \in Nat /\ m <= Len(events)
      BY <1>0b, <3>1
    <3>3. Aged(events) = [k \in 1 .. m |-> [events[k] EXCEPT !.old = TRUE]]
      BY DEF Aged
    <3>4. \A k \in 1 .. m : events[k] \in Event
      <4>1. \A k \in 1 .. Len(events) : events[k] \in Event
        BY <1>0b
      <4>2. \A k \in 1 .. m : k \in 1 .. Len(events)
        BY <1>0b, <3>2
      <4> QED BY <4>1, <4>2
    <3>5. \A e \in Event : [e EXCEPT !.old = TRUE].old = TRUE
      BY DEF Event
    <3> HIDE DEF m
    <3>6. Len(Aged(events)) = m
      BY <3>2, <3>3
    <3> QED BY <3>3, <3>4, <3>5, <3>6
  <2>5. Len(events') \in Nat
    BY <1>0b, <2>1, EventsType
  <2>6. NewFirst(0)'
    BY <2>1, <2>3, <2>4, <2>5 DEF NewFirst
  <2> QED BY <2>6 DEF NewestFirst
<1>7. CASE StartedInHal \/ JoinEventThread \/ StoppedInHal
  BY <1>2, <1>7 DEF StartedInHal, ChannelStartRun, JoinEventThread, ChannelStopFree,
                    StoppedInHal, ChannelStopThreads
<1>8. CASE CreateEventThread
  <2>1. UNCHANGED <<events, sem>> /\ Announced' = Announced /\ taken
        /\ waited = 0 /\ waited' = 0
    BY <1>8 DEF CreateEventThread, Announced
  <2> QED BY <1>1, <2>1
<1>9. CASE TestFlag \/ do_channel_event_action
  <2>1. UNCHANGED <<events, sem>> /\ Announced' = Announced /\ taken
        /\ waited = 0 /\ waited' = 0
    BY <1>9 DEF TestFlag, do_channel_event_action, Announced
  <2> QED BY <1>1, <2>1
<1>10. CASE Read
  <2>0. taken
    BY <1>10, ReaderKeeps DEF Read
  <2>1. CASE GetEventWait
    <3>1. /\ waited = 0 /\ waited' = 1 /\ sem' = sem - 1
          /\ events' = events /\ Announced' = Announced
      BY <2>1 DEF GetEventWait, Announced
    <3> QED BY <1>0b, <1>1, <2>0, <3>1
  <2>2. CASE GetEventFetch
    <3>1. waited = 1 /\ waited' = 0 /\ sem' = sem /\ Announced' = Announced
      BY <2>2 DEF GetEventFetch, Announced
    <3>2. n >= 1 /\ n <= Len(events) /\ events # <<>>
      BY <1>0a, <1>0b, <2>0, <3>1
    <3>3. events' = Tail(events)
      BY <2>2, <3>2 DEF GetEventFetch
    <3>4. Len(events') = Len(events) - 1
      BY <1>0b, <3>2, <3>3
    <3>5. \A k \in 1 .. Len(events') : events'[k] = events[k + 1] /\ k + 1 \in 1 .. Len(events)
      BY <1>0b, <3>2, <3>3, <3>4
    <3>6. \A k \in 1 .. Len(events') : ~events'[k].old <=> k <= n - 1
      BY <1>0a, <1>0b, <3>4, <3>5
    <3>7. sem' + waited' + Cardinality(Announced') <= n - 1
      BY <1>0a, <1>0b, <2>0, <3>1
    <3>8. n - 1 \in Nat /\ n - 1 <= Len(events')
      BY <3>2, <3>4, <1>0b
    <3>9. NewFirst(n - 1)'
      BY <3>4, <3>6, <3>7, <3>8, <1>0b DEF NewFirst
    <3> QED BY <3>8, <3>9 DEF NewestFirst
  <2>3. CASE \/ CountFrames \/ csi_camera_get_frame \/ csi_camera_put_frame
             \/ FramesTaken
    <3>1. UNCHANGED <<events, sem>> /\ Announced' = Announced
          /\ waited = 0 /\ waited' = 0
      BY <2>3 DEF CountFrames, csi_camera_get_frame, csi_camera_put_frame,
                  FramesTaken, Announced
    <3> QED BY <1>1, <2>0, <3>1
  <2> QED BY <1>10, <2>1, <2>2, <2>3 DEF Read, Reader
<1>11. CASE Consume
  <2>0. PICK c \in Channels : Consumer(c) /\ UNCHANGED mpc
    BY <1>11 DEF Consume
  <2>1. UNCHANGED rpc /\ taken' = taken /\ waited' = waited
    BY <2>0, ConsumerKeeps
  <2>2. CASE Deliver(c) \/ Fill(c)
    <3>1. Announced' = Announced /\ UNCHANGED <<sem, events>>
      BY <2>2 DEF Deliver, Fill, Announced, SessionInv, SessionShape, Shape
    <3> QED BY <1>1, <2>1, <3>1
  <2>3. CASE Announce(c)
    <3>1. c \notin Announced /\ Announced' = Announced \union {c}
      BY <2>3 DEF Announce, Announced, SessionInv, SessionShape, Shape
    <3>2. Cardinality(Announced') = Cardinality(Announced) + 1
      BY <3>1, AnnouncedIsFinite, FS_AddElement
    <3>3. PICK ready \in BOOLEAN :
            events' = InsertForward([chn |-> c, ready |-> ready, old |-> FALSE], events)
      BY <2>3 DEF Announce
    <3>4. /\ Len(events') = Len(events) + 1
          /\ events'[1] = [chn |-> c, ready |-> ready, old |-> FALSE]
          /\ \A k \in 2 .. Len(events') : events'[k] = events[k - 1]
      BY <1>0b, <3>3 DEF InsertForward
    <3>5. events'[1].old = FALSE
      BY <3>4
    <3>6. \A k \in 1 .. Len(events') : ~events'[k].old <=> k <= n + 1
      <4> SUFFICES ASSUME NEW k \in 1 .. Len(events')
                   PROVE  ~events'[k].old <=> k <= n + 1
        OBVIOUS
      <4>1. CASE k = 1
        BY <3>5, <4>1
      <4>2. CASE k # 1
        <5>1. k - 1 \in 1 .. Len(events) /\ events'[k] = events[k - 1]
          BY <1>0b, <3>4, <4>2
        <5>2. ~events[k - 1].old <=> k - 1 <= n
          BY <1>0a, <5>1
        <5> QED BY <5>1, <5>2
      <4> QED BY <4>1, <4>2
    <3>7. sem' = sem
      BY <2>3 DEF Announce
    <3>8. taken' => sem' + waited' + Cardinality(Announced') <= n + 1
      BY <1>0a, <1>0b, <2>1, <3>2, <3>7
    <3>9. NewFirst(n + 1)'
      BY <1>0a, <1>0b, <3>4, <3>6, <3>8 DEF NewFirst
    <3> QED BY <3>9 DEF NewestFirst
  <2>4. CASE Post(c)
    <3>1. c \in Announced /\ Announced' = Announced \ {c}
      BY <2>4 DEF Post, Announced, SessionInv, SessionShape, Shape
    <3>2. Cardinality(Announced') = Cardinality(Announced) - 1
      BY <3>1, AnnouncedIsFinite, FS_RemoveElement
    <3>3. sem' = sem + 1 /\ events' = events
      BY <2>4 DEF Post
    <3> QED BY <1>0b, <1>1, <2>1, <3>2, <3>3
  <2> QED BY <2>0, <2>2, <2>3, <2>4 DEF Consumer
<1> QED BY <1>3, <1>4, <1>5, <1>6, <1>7, <1>8, <1>9, <1>10, <1>11 DEF MenuStep

LEMMA InitNewest == SessionInit => NewestFirst
<1>1. ASSUME SessionInit PROVE NewFirst(0)
  <2>1. Announced = {}
    BY <1>1 DEF SessionInit, CameraInit, Announced
  <2>2. Cardinality(Announced) = 0
    BY <2>1, FS_EmptySet
  <2> QED BY <1>1, <2>2 DEF SessionInit, CameraInit, NewFirst
<1> QED BY <1>1 DEF NewestFirst

LEMMA NextNewest == SessionInv /\ NewestFirst /\ [MenuNext]_svars => NewestFirst'
<1>1. CASE UNCHANGED svars
  BY <1>1 DEF svars, vars, readVars, NewestFirst, NewFirst, Announced
<1> QED BY <1>1, MenuSteps, MenuKeepsNewest

(* The event thread never takes an event of an earlier run and never finds *)
(* the list empty, whatever the menu does: channels started and stopped,   *)
(* sessions closed and opened again, with events left in the list.         *)
THEOREM EventsTakenAreOfThisRun == MenuSpec => []EventsAreOfThisRun
<1>1. SessionInv /\ NewestFirst => EventsAreOfThisRun
  <2> SUFFICES ASSUME SessionInv, NewestFirst, rpc = "fetch"
               PROVE  events # <<>> /\ ~Head(events).old
    BY DEF EventsAreOfThisRun
  <2>1. PICK n \in Nat : NewFirst(n)
    BY DEF NewestFirst
  <2>2. /\ events \in Seq(Event) /\ Len(events) \in Nat /\ sem \in Nat
        /\ Cardinality(Announced) \in Nat
    BY AnnouncedIsFinite DEF SessionInv, SessionShape, Shape
  <2>3. n >= 1 /\ n <= Len(events)
    BY <2>1, <2>2 DEF NewFirst
  <2>4. ~events[1].old
    BY <2>1, <2>2, <2>3 DEF NewFirst
  <2> QED BY <2>2, <2>3, <2>4
<1> QED BY <1>1, InitNewest, NextNewest, SpecSession, PTL DEF MenuSpec

-----------------------------------------------------------------------------
(* The types of the session's variables, and the semaphore of the HAL.     *)

SessionTypes ==
  /\ infos \in BOOLEAN /\ initReady \in BOOLEAN
  /\ cached \in [Table -> {"INVALID", "CLOSED", "OPENED", "RUNNING"}]

LEMMA QueriedType ==
  ASSUME Shape
  PROVE  Queried \in [Table -> {"INVALID", "CLOSED", "OPENED", "RUNNING"}]
<1>1. \A c \in Table : c \in Unsupported \/ c \in Channels
  BY DEF Table
<1> QED BY <1>1 DEF Shape, Queried

LEMMA MenuKeepsTypes == SessionInv /\ SessionTypes /\ MenuNext => SessionTypes'
<1> SUFFICES ASSUME SessionInv, SessionTypes, MenuNext PROVE SessionTypes'
  OBVIOUS
<1> DEFINE Copies == [Table -> {"INVALID", "CLOSED", "OPENED", "RUNNING"}]
<1>1. Queried \in Copies /\ NothingCached \in Copies
  BY QueriedType DEF SessionInv, SessionShape, NothingCached
<1>2. \A c \in Channels : status'[c] \in {"CLOSED", "OPENED", "RUNNING"}
  <2>1. Shape'
    BY MenuSteps, MenuKeepsShape DEF SessionInv, SessionShape
  <2> QED BY <2>1 DEF Shape
<1>3. ASSUME UNCHANGED <<infos, initReady, cached>> PROVE SessionTypes'
  BY <1>3 DEF SessionTypes
<1>4. ASSUME cached' \in Copies, infos' \in BOOLEAN, initReady' \in BOOLEAN
      PROVE  SessionTypes'
  BY <1>4 DEF SessionTypes
<1>5. infos \in BOOLEAN /\ cached \in Copies /\ initReady \in BOOLEAN
  BY DEF SessionTypes
<1> HIDE DEF Copies
<1>6. ASSUME menu_camera_process PROVE SessionTypes'
  <2>1. CASE camera_query_list
    <3>1. infos' = TRUE /\ UNCHANGED <<initReady, cached>>
      BY <2>1 DEF camera_query_list
    <3> QED BY <1>4, <1>5, <3>1
  <2>2. CASE camera_open \/ camera_set_mode
    BY <1>3, <2>2 DEF camera_open, camera_set_mode
  <2>3. CASE camera_close
    <3>1. infos' = FALSE /\ initReady' = FALSE /\ cached' = NothingCached
      BY <2>3 DEF camera_close
    <3> QED BY <1>1, <1>4, <3>1
  <2> QED BY <1>6, <2>1, <2>2, <2>3
          DEF menu_camera_process, dialog_camera_list, dialog_camera_open,
              dialog_camera_set_mode, dialog_camera_close
<1>7. ASSUME menu_channel_process PROVE SessionTypes'
  <2>1. CASE dialog_channel_list
    <3>1. cached' = Queried /\ initReady' = TRUE /\ UNCHANGED infos
      BY <2>1 DEF dialog_channel_list, camera_channel_query_list
    <3> QED BY <1>1, <1>4, <1>5, <3>1
  <2>2. ASSUME NEW c \in ToOpen, dialog_channel_open(c) PROVE SessionTypes'
    <3>1. c \in Channels
      BY ShownIsStatus DEF ToOpen
    <3>2. cached' = [Queried EXCEPT ![c] = status'[c]] /\ initReady' = TRUE
          /\ UNCHANGED infos
      BY <2>2 DEF dialog_channel_open, camera_channel_open
    <3>3. cached' \in Copies
      BY <1>1, <1>2, <3>1, <3>2 DEF Copies
    <3> QED BY <1>4, <1>5, <3>2, <3>3
  <2>3. ASSUME NEW c \in ToClose, camera_channel_close(c, Queried) PROVE SessionTypes'
    <3>1. cached' = Queried /\ initReady' = TRUE /\ UNCHANGED infos
      BY <2>3 DEF camera_channel_close
    <3> QED BY <1>1, <1>4, <1>5, <3>1
  <2> QED BY <1>7, <2>1, <2>2, <2>3 DEF menu_channel_process
<1>8. ASSUME menu_event_run_process PROVE SessionTypes'
  <2>1. CASE dialog_event_subscribe_action_list
    BY <1>3, <2>1 DEF dialog_event_subscribe_action_list, camera_subscribe_event
  <2>2. ASSUME NEW c, StartChannel(c, Queried) \/ StopChannel(c, Queried)
        PROVE  SessionTypes'
    <3>1. cached' = Queried /\ initReady' = TRUE /\ UNCHANGED infos
      BY <2>2 DEF StartChannel, StopChannel
    <3> QED BY <1>1, <1>4, <1>5, <3>1
  <2> QED BY <1>8, <2>1, <2>2 DEF menu_event_run_process, dialog_channel_run
<1>9. CASE InsideCall
  BY <1>3, <1>9 DEF InsideCall, StartedInHal, CreateEventThread, JoinEventThread,
                    StoppedInHal
<1>10. CASE MenuEventThread
  BY <1>3, <1>10 DEF MenuEventThread, EventThread, do_channel_event_action
<1>11. ASSUME NEW c \in Channels, SessionConsumer(c) PROVE SessionTypes'
  BY <1>3, <1>11 DEF SessionConsumer
<1> QED BY <1>6, <1>7, <1>8, <1>9, <1>10, <1>11 DEF MenuNext, Menu

LEMMA MenuKeepsSizes == SessionInv /\ SizesInv /\ MenuStep => SizesInv'
<1> SUFFICES ASSUME SessionInv, SizesInv, MenuStep PROVE SizesInv'
  OBVIOUS
<1> USE DEF slotVars, threadVars, callVars, readVars
<1>1. Operation => SizesInv'
  BY NextSizes DEF SessionInv, SessionShape
<1>2. ASSUME UNCHANGED <<events, cpc, dispatchers, hpc, rleft>>,
             rpc' = rpc \/ rpc' \notin {"held", "stale"}
      PROVE  SizesInv'
  BY <1>2 DEF SizesInv, New, Old, Pending
<1>3. CASE Answer \/ Configure \/ Subscribe
  BY <1>2, <1>3 DEF Answer, Configure, Subscribe, vars
<1>4. CASE CloseCamera
  <2>1. events' = <<>> /\ UNCHANGED <<cpc, dispatchers, hpc, rleft, rpc>>
    BY <1>4 DEF CloseCamera
  <2>2. New' = {} /\ Old' = {} /\ Pending' = Pending
    BY <2>1 DEF New, Old, Pending
  <2>3. Cardinality(New') = 0 /\ Cardinality(Old') = 0
    BY <2>2, FS_EmptySet
  <2>4. /\ MaxOld \in Nat /\ MaxNew \in Nat /\ Cardinality(New) \in Nat
        /\ Cardinality(Pending) \in Nat
    BY CsiCameraAssumption, SizesAreFinite
       DEF CsiCameraAssumption, SessionInv, SessionShape, Shape
  <2>5. Cardinality(New') + Cardinality(Pending') <= MaxNew /\ Cardinality(Old') <= MaxOld
    BY <2>2, <2>3, <2>4 DEF SizesInv
  <2> QED BY <2>1, <2>5 DEF SizesInv
<1>5. ASSUME NEW c \in Channels, OpenChannel(c) \/ CloseChannel(c) \/ Start(c)
      PROVE  SizesInv'
  BY <1>1, <1>5 DEF OpenChannel, CloseChannel, Start, Operation
<1>6. ASSUME NEW c \in Channels, Stop(c) PROVE SizesInv'
  BY <1>2, <1>6 DEF Stop, vars
<1>7. CASE StartedInHal \/ JoinEventThread \/ StoppedInHal
  <2>1. mchn \in Channels
    BY DEF SessionInv, SessionShape
  <2> QED BY <1>1, <1>7, <2>1 DEF StartedInHal, JoinEventThread, StoppedInHal, Operation
<1>8. CASE CreateEventThread
  BY <1>2, <1>8 DEF CreateEventThread
<1>9. CASE do_channel_event_action
  <2>1. UNCHANGED <<events, cpc, dispatchers, hpc>>
    BY <1>9 DEF do_channel_event_action
  <2>2. CASE rpc' = "loop" /\ UNCHANGED rleft
    BY <1>2, <2>1, <2>2
  <2>3. CASE rleft' = FrameCount(slot[revent]) + 1 /\ rpc' = "get"
    <3>1. FrameCount(slot[revent]) \in 0 .. FrmCnt + 1
      BY FrameCountRange
    <3>2. FrmCnt \in Nat
      BY CsiCameraAssumption DEF CsiCameraAssumption
    <3>3. rleft' \in 0 .. FrmCnt + 2
      BY <2>3, <3>1, <3>2
    <3> QED BY <2>1, <2>3, <3>3 DEF SizesInv, New, Old, Pending
  <2> QED BY <1>9, <2>2, <2>3 DEF do_channel_event_action
<1>10. CASE Read \/ Consume
  BY <1>1, <1>10 DEF Read, Consume, Operation
<1>11. CASE TestFlag
  BY <1>2, <1>11 DEF TestFlag
<1> QED BY <1>3, <1>4, <1>5, <1>6, <1>7, <1>8, <1>9, <1>10, <1>11 DEF MenuStep

LEMMA MenuKeepsSem ==
  ASSUME SessionInv, sem <= MaxNew + MaxOld, MenuStep,
         SessionInv', NewestFirst', QueueBounded'
  PROVE  sem' <= MaxNew + MaxOld
<1> USE DEF slotVars, threadVars, callVars, readVars
<1>1. /\ sem' \in Nat /\ Len(events') \in Nat /\ Cardinality(Announced') \in Nat
      /\ MaxNew \in Nat /\ MaxOld \in Nat
  BY AnnouncedIsFinite, CsiCameraAssumption
     DEF CsiCameraAssumption, SessionInv, SessionShape, Shape
<1>2. CASE rpc' # "off" \/ mpc' # "ready"
  <2>1. PICK n \in Nat : NewFirst(n)'
    BY DEF NewestFirst
  <2>2. sem' <= n /\ n <= Len(events')
    BY <1>1, <1>2, <2>1 DEF NewFirst
  <2> QED BY <1>1, <2>2 DEF QueueBounded
<1>3. CASE rpc' = "off" /\ mpc' = "ready"
  <2>1. CASE UNCHANGED sem
    BY <2>1
  <2>2. CASE Answer \/ Configure \/ CloseCamera \/ Subscribe
    BY <2>1, <2>2 DEF Answer, Configure, CloseCamera, Subscribe, vars
  <2>3. ASSUME NEW c \in Channels, OpenChannel(c) \/ CloseChannel(c) \/ Stop(c)
        PROVE  UNCHANGED sem
    BY <2>3 DEF OpenChannel, csi_camera_channel_open, CloseChannel,
                csi_camera_channel_close, Stop, vars
  <2>4. ASSUME NEW c \in Channels, Start(c) PROVE FALSE
    BY <1>3, <2>4 DEF Start
  <2>5. CASE \/ StartedInHal \/ CreateEventThread \/ JoinEventThread \/ StoppedInHal
             \/ TestFlag \/ do_channel_event_action
    BY <2>1, <2>5 DEF StartedInHal, ChannelStartRun, CreateEventThread, JoinEventThread,
          ChannelStopFree, StoppedInHal, ChannelStopThreads, TestFlag,
          do_channel_event_action
  <2>6. CASE Read
    BY <1>3, <2>6, ReaderKeeps DEF Read
  <2>7. CASE Consume
    <3>1. PICK c \in Channels : Consumer(c) /\ UNCHANGED <<state, mpc>>
      BY <2>7 DEF Consume
    <3>2. rpc = "off" /\ mpc = "ready"
      BY <1>3, <3>1, ConsumerKeeps
    <3>3. listed = {} /\ cpc[c] = "wait"
      BY <3>2 DEF SessionInv, CallInv, Quiet, ThreadsInv
    <3> QED BY <3>1, <3>3 DEF Consumer, Deliver, Fill, Announce, Post
  <2> QED BY <2>1, <2>2, <2>3, <2>4, <2>5, <2>6, <2>7 DEF MenuStep
<1> QED BY <1>2, <1>3

(* The session's variables and those of the camera under it keep their     *)
(* types and bounds, whatever the menu does; frame_csem too, although a    *)
(* camera_close leaves it as it is and destroys the list.                  *)
THEOREM SessionTypesHold == MenuSpec => []SessionTypeOK
<1> DEFINE Inv == SessionInv /\ NewestFirst /\ SessionTypes /\ SizesInv
           Sem == sem <= MaxNew + MaxOld
<1>1. SessionInit => Inv /\ Sem
  <2> SUFFICES ASSUME SessionInit PROVE Inv /\ Sem
    OBVIOUS
  <2>1. SessionInv /\ NewestFirst
    BY InitSession, InitNewest
  <2>2. SizesInv
    BY InitSizes DEF SessionInit
  <2>3. infos \in BOOLEAN /\ initReady \in BOOLEAN
    BY Zenon DEF SessionInit
  <2>4. SessionTypes
    BY <2>3 DEF SessionInit, SessionTypes, NothingCached
  <2>5. sem = 0 /\ MaxNew \in Nat /\ MaxOld \in Nat
    BY CsiCameraAssumption DEF CsiCameraAssumption, SessionInit, CameraInit
  <2> QED BY <2>1, <2>2, <2>4, <2>5
<1>2. Inv /\ [MenuNext]_svars => Inv'
  <2> SUFFICES ASSUME Inv, [MenuNext]_svars PROVE Inv'
    OBVIOUS
  <2>1. SessionInv' /\ NewestFirst'
    BY NextSession, NextNewest
  <2>2. CASE MenuNext
    <3>1. SizesInv'
      BY <2>2, MenuSteps, MenuKeepsSizes
    <3>2. SessionTypes'
      BY <2>2, MenuKeepsTypes
    <3> QED BY <2>1, <3>1, <3>2
  <2>3. CASE UNCHANGED svars
    <3>1. SizesInv'
      BY <2>3 DEF svars, vars, readVars, threadVars, callVars, SizesInv, New, Old, Pending
    <3>2. SessionTypes'
      BY <2>3 DEF svars, SessionTypes
    <3> QED BY <2>1, <3>1, <3>2
  <2> QED BY <2>2, <2>3
<1>3. Inv => QueueBounded
  BY SizesBoundQueue DEF SessionInv, SessionShape
<1>4. Inv /\ Sem /\ Inv' /\ QueueBounded' /\ [MenuNext]_svars => Sem'
  <2>1. CASE UNCHANGED svars
    BY <2>1 DEF svars, vars
  <2> QED BY <2>1, MenuSteps, MenuKeepsSem
<1>5. Inv /\ Sem => SessionTypeOK
  <2> SUFFICES ASSUME Inv, Sem PROVE SessionTypeOK
    OBVIOUS
  <2>1. TypeOK
    BY TypesFromParts DEF SessionInv, SessionShape
  <2>2. infos \in BOOLEAN /\ initReady \in BOOLEAN /\ flag \in BOOLEAN
    BY DEF SessionTypes, SessionInv, SessionShape
  <2> QED BY <2>1, <2>2 DEF SessionTypeOK, SessionTypes, SessionInv, SessionShape
<1> HIDE DEF Inv, Sem
<1> QED BY <1>1, <1>2, <1>3, <1>4, <1>5, PTL DEF MenuSpec

-----------------------------------------------------------------------------
(* The state of the session and that of the HAL.                           *)

LEMMA MenuKeepsCurrent ==
  ASSUME ~OpensWhileRunning
  PROVE  SessionInv /\ CurrentInv /\ MenuStep => CurrentInv'
<1> SUFFICES ASSUME SessionInv, CurrentInv, MenuStep PROVE CurrentInv'
  OBVIOUS
<1> USE DEF slotVars, threadVars, callVars, readVars
<1>1. CASE Answer \/ Configure \/ CloseCamera \/ Subscribe
  BY <1>1 DEF Answer, Configure, CloseCamera, Subscribe, vars, CurrentInv, Runs, Idle
<1>2. ASSUME NEW c \in Channels, OpenChannel(c) PROVE CurrentInv'
  <2>1. state # "RUNNING" /\ state' # "RUNNING" /\ mpc = "ready" /\ mpc' = "ready"
    BY <1>2 DEF OpenChannel
  <2>2. Idle
    BY <2>1 DEF CurrentInv
  <2>3. UNCHANGED threadVars
    BY <1>2, <2>2 DEF OpenChannel, csi_camera_channel_open, StopThreadsIfFed, Idle
  <2>4. Idle'
    BY <1>2, <2>2, <2>3 DEF OpenChannel, csi_camera_channel_open, Idle, SessionInv,
                            SessionShape, Shape
  <2> QED BY <2>1, <2>4 DEF CurrentInv
<1>3. ASSUME NEW c \in Channels, CloseChannel(c) PROVE CurrentInv'
  <2>1. \A d \in Channels : status'[d] = "RUNNING" <=> status[d] = "RUNNING"
    BY <1>3 DEF CloseChannel, csi_camera_channel_close, SessionInv, SessionShape, Shape
  <2> QED BY <1>3, <2>1 DEF CloseChannel, csi_camera_channel_close, CurrentInv, Runs, Idle
<1>4. ASSUME NEW c \in Channels, Start(c) PROVE CurrentInv'
  BY <1>4 DEF Start, ChannelStartInit, CurrentInv, Configurable, Idle
<1>5. ASSUME NEW c \in Channels, Stop(c) PROVE CurrentInv'
  BY <1>5 DEF Stop, vars, CurrentInv, Runs
<1>6. CASE StartedInHal
  <2>1. Idle /\ hchn = mchn
    BY <1>6 DEF StartedInHal, CurrentInv, SessionInv, CallInv
  <2>2. Runs(mchn)'
    BY <1>6, <2>1 DEF StartedInHal, ChannelStartRun, Idle, Runs, SessionInv,
                      SessionShape, Shape
  <2> QED BY <1>6, <2>2 DEF StartedInHal, CurrentInv
<1>7. CASE CreateEventThread
  <2>1. Runs(mchn) /\ mchn \in Channels
    BY <1>7 DEF CreateEventThread, CurrentInv, SessionInv, SessionShape
  <2>2. Runs(mchn)'
    BY <1>7, <2>1 DEF CreateEventThread, Runs
  <2> QED BY <1>7, <2>1, <2>2 DEF CreateEventThread, CurrentInv
<1>8. CASE JoinEventThread
  BY <1>8 DEF JoinEventThread, ChannelStopFree, CurrentInv, Runs
<1>9. CASE StoppedInHal
  <2>1. Runs(mchn) /\ hchn = mchn /\ mchn \in Channels
    BY <1>9 DEF StoppedInHal, CurrentInv, SessionInv, CallInv, SessionShape
  <2>2. ThreadsStopped
    BY <1>9, <2>1 DEF StoppedInHal, ChannelStopThreads, StopThreadsIfFed, Runs
  <2>3. status' = [status EXCEPT ![mchn] = "OPENED"]
    BY <1>9, <2>1 DEF StoppedInHal, ChannelStopThreads
  <2>4. Idle'
    BY <2>1, <2>2, <2>3 DEF ThreadsStopped, Runs, Idle, SessionInv, SessionShape, Shape
  <2> QED BY <1>9, <2>4 DEF StoppedInHal, CurrentInv
<1>10. CASE TestFlag \/ do_channel_event_action
  BY <1>10 DEF TestFlag, do_channel_event_action, CurrentInv, Runs, Idle
<1>11. CASE Read
  BY <1>11, ReaderKeeps DEF Read, CurrentInv, Runs, Idle
<1>12. CASE Consume
  BY <1>12, ConsumerKeeps DEF Consume, CurrentInv, Runs, Idle
<1> QED BY <1>1, <1>2, <1>3, <1>4, <1>5, <1>6, <1>7, <1>8, <1>9, <1>10, <1>11, <1>12
        DEF MenuStep

(* A user who opens no channel while one runs always finds the session in  *)
(* the state the HAL is in, between any two calls.                         *)
THEOREM SessionStateIsTheHals ==
  ASSUME ~OpensWhileRunning
  PROVE  MenuSpec => []StateIsCurrent
<1>1. SessionInit => CurrentInv
  BY DEF SessionInit, CameraInit, CurrentInv, Idle
<1>2. SessionInv /\ CurrentInv /\ [MenuNext]_svars => CurrentInv'
  <2>1. ASSUME CurrentInv, UNCHANGED svars PROVE CurrentInv'
    BY <2>1 DEF svars, vars, threadVars, readVars, CurrentInv, Runs, Idle
  <2> QED BY <2>1, MenuSteps, MenuKeepsCurrent
<1>3. SessionInv /\ CurrentInv => StateIsCurrent
  <2> SUFFICES ASSUME SessionInv, CurrentInv, mpc = "ready"
               PROVE  /\ state = "RUNNING" <=> feeding
                      /\ state = "RUNNING" <=> rpc # "off"
                      /\ listed = {c \in Channels : status[c] = "RUNNING"}
                      /\ IF state = "RUNNING"
                         THEN dispatchers = 1 /\ Cardinality(listed) = 1
                         ELSE dispatchers = 0 /\ listed = {}
    BY DEF StateIsCurrent
  <2>1. CASE state = "RUNNING"
    <3>1. PICK c \in Channels : Runs(c)
      BY <2>1 DEF CurrentInv
    <3>2. rpc # "off"
      BY <2>1 DEF CurrentInv
    <3>3. Cardinality(listed) = 1
      BY <3>1, FS_Singleton DEF Runs
    <3>4. feeding
      BY <3>1 DEF Runs
    <3>5. listed = {d \in Channels : status[d] = "RUNNING"} /\ dispatchers = 1
      BY <3>1 DEF Runs
    <3> QED BY <2>1, <3>2, <3>3, <3>4, <3>5
  <2>2. CASE state # "RUNNING"
    <3>1. Idle /\ Quiet
      BY <2>2 DEF CurrentInv, SessionInv, CallInv
    <3>2. ~feeding /\ rpc = "off"
      BY <3>1 DEF Quiet
    <3>3. /\ listed = {d \in Channels : status[d] = "RUNNING"}
          /\ dispatchers = 0 /\ listed = {}
      BY <3>1 DEF Idle
    <3> QED BY <2>2, <3>2, <3>3
  <2> QED BY <2>1, <2>2
<1> QED BY <1>1, <1>2, <1>3, SpecSession, PTL DEF MenuSpec

=============================================================================
