----------------------------- MODULE CameraHal ------------------------------
(***************************************************************************)
(* The camera HAL as an application sees it through csi_camera.h: handles, *)
(* channels, an event handle with its subscriptions, frames that become    *)
(* ready and the events that say so.  CsiCamera models the inside of one   *)
(* implementation; here events come in order and the camera never loses a  *)
(* frame it has announced.                                                 *)
(***************************************************************************)
EXTENDS Naturals, Sequences, FiniteSets

CONSTANTS
  Camera, Channel,
  MaxReady  \* bound on the frames ready on a channel

VARIABLES
  camera,  \* camera[c]: "closed" or "open"
  chn,     \* chn[c][n]: "closed", "opened" or "running"
  handle,  \* handle[c]: the event handle, "none", "live" or "gone"
  subs,    \* subs[c]: what is subscribed to, channels and "camera"
  events,  \* events[c]: the events not taken yet
  ready,   \* ready[c][n]: the frames ready
  news     \* the camera's own events so far

halVars == <<camera, chn, handle, subs, events, ready, news>>

HalInit ==
  /\ camera = [c \in Camera |-> "closed"]
  /\ chn = [c \in Camera |-> [n \in Channel |-> "closed"]]
  /\ handle = [c \in Camera |-> "none"]
  /\ subs = [c \in Camera |-> {}]
  /\ events = [c \in Camera |-> <<>>]
  /\ ready = [c \in Camera |-> [n \in Channel |-> 0]]
  /\ news = 0

csi_camera_open(c) ==
  /\ camera' = [camera EXCEPT ![c] = "open"]
  /\ UNCHANGED <<chn, handle, subs, events, ready, news>>

csi_camera_close(c) ==
  /\ camera' = [camera EXCEPT ![c] = "closed"]
  /\ UNCHANGED <<chn, handle, subs, events, ready, news>>

SetChannels(c, which, status) ==
  /\ chn' = [chn EXCEPT ![c] = [n \in Channel |-> IF n \in which THEN status ELSE @[n]]]
  /\ ready' = [ready EXCEPT ![c] = [n \in Channel |-> IF n \in which THEN 0 ELSE @[n]]]
  /\ UNCHANGED <<camera, handle, subs, events, news>>

csi_camera_create_event(c) ==
  /\ handle' = [handle EXCEPT ![c] = "live"]
  /\ subs' = [subs EXCEPT ![c] = {}]
  /\ UNCHANGED <<camera, chn, events, ready, news>>

csi_camera_destory_event(c) ==
  /\ handle' = [handle EXCEPT ![c] = "gone"]
  /\ subs' = [subs EXCEPT ![c] = {}]
  /\ UNCHANGED <<camera, chn, events, ready, news>>

csi_camera_subscribe_event(c, what) ==
  /\ subs' = [subs EXCEPT ![c] = @ \cup {what}]
  /\ UNCHANGED <<camera, chn, handle, events, ready, news>>

csi_camera_unsubscribe_event(c, what) ==
  /\ subs' = [subs EXCEPT ![c] = @ \ {what}]
  /\ UNCHANGED <<camera, chn, handle, events, ready, news>>

(* Without a timeout: only with an event.                                  *)
csi_camera_get_event(c) ==
  /\ events[c] # <<>>
  /\ events' = [events EXCEPT ![c] = Tail(@)]
  /\ UNCHANGED <<camera, chn, handle, subs, ready, news>>

csi_camera_get_frame(c, n) ==
  /\ ready' = [ready EXCEPT ![c][n] = IF @ = 0 THEN 0 ELSE @ - 1]
  /\ UNCHANGED <<camera, chn, handle, subs, events, news>>

Announce(c, event) == events' = [events EXCEPT ![c] = Append(@, event)]
Pending(c, n) == Cardinality({i \in DOMAIN events[c] : events[c][i] = n})

(* A frame becomes ready on a running channel.                             *)
FrameReady(c, n) ==
  /\ chn[c][n] = "running"
  /\ ready[c][n] < MaxReady /\ Pending(c, n) < MaxReady
  /\ ready' = [ready EXCEPT ![c][n] = @ + 1]
  /\ IF n \in subs[c] THEN Announce(c, n) ELSE UNCHANGED events
  /\ UNCHANGED <<camera, chn, handle, subs, news>>

(* The camera warns, or has an error or a frame too many.                  *)
CameraNews(c) ==
  /\ "camera" \in subs[c] /\ camera[c] = "open"
  /\ news' = news + 1
  /\ \E event \in {"warning", "error"} : Announce(c, event)
  /\ UNCHANGED <<camera, chn, handle, subs, ready>>
=============================================================================
