---------------------------- MODULE CameraSession ----------------------------
(***************************************************************************)
(* The session library, src/lib_camera/camera_manager.c, over the          *)
(* simulator's camera (CsiCamera): the state of the session, its copy of   *)
(* the channels' status, and the event thread, which is the reader of      *)
(* CsiCamera.  The session's calls come from one thread (CameraMenu); a    *)
(* call that is refused changes nothing and is no step.  Modes, properties *)
(* and capabilities, which the HAL answers without changing a channel, are *)
(* left out except for set_mode, which changes the session's state.        *)
(***************************************************************************)
EXTENDS CsiCamera

CONSTANT Unsupported  \* channels of the session's table the HAL does not have

ASSUME CameraSessionAssumption == Unsupported \intersect Channels = {}

VARIABLES
  state,      \* session->state
  infos,      \* CAMERA_INFOS_READY of session->info_status
  initReady,  \* CHANNEL_INIT_READY of session->info_status
  cached,     \* session->chn_cfg[].status
  flag,       \* camera_thread_flag
  mpc,        \* where the client is in camera_channel_start or _stop
  mchn        \* the channel of that call

svars == <<vars, state, infos, initReady, cached, flag, mpc, mchn>>

Table == Channels \union Unsupported
NothingCached == [c \in Table |-> "INVALID"]

(* _CHECK_STATE_RETURN of the calls that configure a session, and of those *)
(* that are also allowed while it runs.                                    *)
Configurable == state \in {"OPENED", "MODE_SET"}
Usable == state \in {"OPENED", "MODE_SET", "RUNNING"}

-----------------------------------------------------------------------------
(* The camera.                                                             *)

(* A failing csi_camera_query_list is reported as ready as well.           *)
camera_query_list ==
  /\ mpc = "ready" /\ ~infos
  /\ infos' = TRUE
  /\ UNCHANGED <<vars, state, initReady, cached, flag, mpc, mchn>>

(* csi_camera_open makes new lists and a new dispatcher; the status of the *)
(* channels is static in the HAL and is what the last session left.        *)
camera_open ==
  /\ mpc = "ready" /\ infos
  /\ state' = "OPENED"
  /\ UNCHANGED <<vars, infos, initReady, cached, flag, mpc, mchn>>

(* csi_camera_close destroys the lists.                                    *)
camera_close ==
  /\ mpc = "ready"
  /\ subs' = {} /\ events' = <<>>
  /\ state' = "CLOSED"
  /\ infos' = FALSE /\ initReady' = FALSE
  /\ cached' = NothingCached
  /\ UNCHANGED <<status, slotVars, sem, threadVars, cpc, callVars, readVars,
                 flag, mpc, mchn>>

camera_set_mode ==
  /\ mpc = "ready" /\ Configurable
  /\ state' = "MODE_SET"
  /\ UNCHANGED <<vars, infos, initReady, cached, flag, mpc, mchn>>

-----------------------------------------------------------------------------
(* The channels.                                                           *)

(* camera_channel_query_list: the first call takes every status from the   *)
(* HAL, whose query fails for channels it does not have; the later ones    *)
(* skip the channels that are INVALID.                                     *)
Queried ==
  [c \in Table |->
     IF c \in Unsupported \/ (initReady /\ cached[c] = "INVALID")
     THEN "INVALID" ELSE status[c]]

camera_channel_query_list ==
  /\ mpc = "ready" /\ Usable
  /\ cached' = Queried /\ initReady' = TRUE
  /\ UNCHANGED <<vars, state, infos, flag, mpc, mchn>>

(* Below, chn_cfg is the session's copy at the call: what a query has just *)
(* made of it.  A channel that is not CLOSED there is refused; the copy of *)
(* the channel is updated from the HAL.                                    *)
camera_channel_open(c, chn_cfg) ==
  /\ mpc = "ready" /\ Usable
  /\ chn_cfg[c] = "CLOSED"
  /\ csi_camera_channel_open(c)
  /\ cached' = [chn_cfg EXCEPT ![c] = status'[c]]
  /\ initReady' = TRUE
  /\ UNCHANGED <<state, infos, flag, mpc, mchn>>

(* The copy is not updated.                                                *)
camera_channel_close(c, chn_cfg) ==
  /\ mpc = "ready" /\ Usable
  /\ chn_cfg[c] = "OPENED"
  /\ csi_camera_channel_close(c)
  /\ cached' = chn_cfg /\ initReady' = TRUE
  /\ UNCHANGED <<state, infos, flag, mpc, mchn>>

(* camera_subscribe_event subscribes to what the client wants of the       *)
(* channels that are OPENED in the copy, and unsubscribes from the rest of *)
(* these.                                                                  *)
camera_subscribe_event(wanted) ==
  /\ mpc = "ready" /\ Configurable
  /\ subs' = {c \in Channels : IF cached[c] = "OPENED" THEN c \in wanted ELSE c \in subs}
  /\ UNCHANGED <<status, slotVars, events, sem, threadVars, cpc, callVars, readVars,
                 state, infos, initReady, cached, flag, mpc, mchn>>

-----------------------------------------------------------------------------
(* camera_channel_start: the HAL's start, then the event thread.           *)
StartChannel(c, chn_cfg) ==
  /\ mpc = "ready" /\ Configurable
  /\ ChannelStartInit(c)
  /\ cached' = chn_cfg /\ initReady' = TRUE
  /\ mpc' = "start" /\ mchn' = c
  /\ UNCHANGED <<state, infos, flag>>

StartedInHal ==
  /\ mpc = "start"
  /\ ChannelStartRun
  /\ mpc' = "create"
  /\ UNCHANGED <<state, infos, initReady, cached, flag, mchn>>

CreateEventThread ==
  /\ mpc = "create" /\ rpc = "off"
  /\ flag' = TRUE
  /\ rpc' = "loop"
  /\ state' = "RUNNING"
  /\ mpc' = "ready"
  /\ UNCHANGED <<status, slotVars, subs, events, sem, threadVars, cpc, callVars,
                 revent, rleft, raddr, rtorn, infos, initReady, cached, mchn>>

(* Mutant: the producer and the consumers are stopped first.               *)
Slip_StopHalFirst(c, chn_cfg) ==
  /\ mpc = "ready" /\ state = "RUNNING"
  /\ ThreadsStopped
  /\ flag' = FALSE
  /\ cached' = chn_cfg /\ initReady' = TRUE
  /\ mpc' = "join" /\ mchn' = c
  /\ UNCHANGED <<status, slotVars, subs, events, sem, cpc, callVars, readVars,
                 state, infos>>

(* camera_channel_stop: the event thread is told to end and joined ...     *)
StopChannel(c, chn_cfg) ==
  /\ mpc = "ready" /\ state = "RUNNING"
  /\ flag' = FALSE
  /\ cached' = chn_cfg /\ initReady' = TRUE
  /\ mpc' = "join" /\ mchn' = c
  /\ UNCHANGED <<vars, state, infos>>

JoinEventThread ==
  /\ mpc = "join" /\ rpc = "off"
  /\ ChannelStopFree(mchn)
  /\ mpc' = "stop"
  /\ UNCHANGED <<state, infos, initReady, cached, flag, mchn>>

(* ... and then the HAL stopped.  A mode that was set is forgotten.        *)
StoppedInHal ==
  /\ mpc = "stop"
  /\ ChannelStopThreads
  /\ state' = "OPENED"
  /\ mpc' = "ready"
  /\ UNCHANGED <<infos, initReady, cached, flag, mchn>>

(* camera_event_action_thread tests the flag between two events.           *)
EventThread ==
  \/ /\ rpc = "loop"
     /\ rpc' = IF flag THEN "wait" ELSE "off"
     /\ UNCHANGED <<status, slotVars, subs, events, sem, threadVars, cpc, callVars,
                    revent, rleft, raddr, rtorn>>
     /\ UNCHANGED <<state, infos, initReady, cached, flag, mpc, mchn>>
  \/ Reader /\ UNCHANGED <<state, infos, initReady, cached, flag, mpc, mchn>>

SessionConsumer(c) ==
  Consumer(c) /\ UNCHANGED <<state, infos, initReady, cached, flag, mpc, mchn>>

-----------------------------------------------------------------------------
SessionInit ==
  /\ CameraInit /\ rpc = "off"
  /\ state = "CLOSED" /\ infos = FALSE /\ initReady = FALSE
  /\ cached = NothingCached
  /\ flag = TRUE
  /\ mpc = "ready" /\ mchn \in Channels

(* The steps inside a call that has begun.                                 *)
InsideCall == StartedInHal \/ CreateEventThread \/ JoinEventThread \/ StoppedInHal

-----------------------------------------------------------------------------
SessionTypeOK ==
  /\ TypeOK
  /\ state \in {"CLOSED", "OPENED", "MODE_SET", "RUNNING"}
  /\ infos \in BOOLEAN /\ initReady \in BOOLEAN /\ flag \in BOOLEAN
  /\ cached \in [Table -> {"INVALID", "CLOSED", "OPENED", "RUNNING"}]
  /\ mpc \in {"ready", "start", "create", "join", "stop"} /\ mchn \in Channels

(* Between two calls the session is RUNNING exactly when the HAL is: one   *)
(* channel is RUNNING and has its consumer, fed by one producer through    *)
(* one dispatcher thread, and one event thread takes its events.  "camera  *)
(* current state" (camera_manager.h:78).                                   *)
StateIsCurrent ==
  mpc = "ready" =>
    /\ state = "RUNNING" <=> feeding
    /\ state = "RUNNING" <=> rpc # "off"
    /\ listed = {c \in Channels : status[c] = "RUNNING"}
    /\ IF state = "RUNNING"
       THEN dispatchers = 1 /\ Cardinality(listed) = 1
       ELSE dispatchers = 0 /\ listed = {}

(* The event thread never takes an event of an earlier run, although they  *)
(* are still in the list, and never finds the list empty: frame_csem       *)
(* counts the posts of this run only, and the newest event comes first.    *)
EventsAreOfThisRun == rpc = "fetch" => events # <<>> /\ ~Head(events).old

(* camera_channel_stop of a channel that is subscribed to returns.  The    *)
(* event thread it joins waits without a timeout: it looks at its flag     *)
(* only after the next event, which the producer must still bring about.   *)
StopReturns == (mpc = "join" /\ mchn \in subs) ~> (mpc = "ready")
=============================================================================
