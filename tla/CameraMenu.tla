----------------------------- MODULE CameraMenu ------------------------------
(***************************************************************************)
(* examples/camera/camera_demo3.c: a session used from a menu.  One thread *)
(* runs the menu and its dialogs, one at a time; a dialog reads what the   *)
(* session knows, offers what can be selected and makes the call of the    *)
(* button the user presses.  A dialog that shows something, is cancelled   *)
(* or refuses changes nothing.  The event thread calls do_channel_event_   *)
(* action for each event.  When the menu is left the process ends.         *)
(***************************************************************************)
EXTENDS CameraSession

CONSTANT OpensWhileRunning  \* does the user open a channel while one runs?

ASSUME CameraMenuAssumption == OpensWhileRunning \in BOOLEAN

-----------------------------------------------------------------------------
(* The menu of the camera.                                                 *)

CameraOpened == state # "CLOSED"  \* camera_handle # NULL

dialog_camera_list == camera_query_list

(* The cameras are queried, and the one that is selected is opened unless  *)
(* there is one open.                                                      *)
dialog_camera_open == ~CameraOpened /\ (camera_query_list \/ camera_open)

(* The modes that are listed are those of a session that does not run.     *)
dialog_camera_set_mode == CameraOpened /\ camera_set_mode

(* The dialog asks whether the user is sure, not whether a channel runs:   *)
(* this user looks before answering yes.                                   *)
dialog_camera_close == CameraOpened /\ state # "RUNNING" /\ camera_close

menu_camera_process ==
  \/ dialog_camera_list \/ dialog_camera_open
  \/ dialog_camera_set_mode \/ dialog_camera_close

-----------------------------------------------------------------------------
(* The menu of the channels.  Each dialog begins with                      *)
(* camera_channel_query_list and leaves out what is INVALID.               *)
Shown == {c \in Table : CameraOpened /\ Queried[c] # "INVALID"}

dialog_channel_list == camera_channel_query_list

(* dialog_channel_select, to close or to open.                             *)
ToClose == {c \in Shown : Queried[c] # "RUNNING"}
ToOpen == {c \in Shown : Queried[c] \notin {"OPENED", "RUNNING"}}

(* What is configured goes to a copy, which the button "Open" opens.       *)
dialog_channel_open(c) == camera_channel_open(c, Queried)

menu_channel_process ==
  \/ dialog_channel_list
  \/ \E c \in ToOpen :
       (state = "RUNNING" => OpensWhileRunning) /\ dialog_channel_open(c)
  \/ \E c \in ToClose : camera_channel_close(c, Queried)

-----------------------------------------------------------------------------
(* The menu of events: which are subscribed to is set in one dialog and    *)
(* applied by the button of another, for the channels as the session last  *)
(* saw them; channels are started and stopped.                             *)
dialog_event_subscribe_action_channel == SUBSET Channels

dialog_event_subscribe_action_list ==
  \E wanted \in dialog_event_subscribe_action_channel : camera_subscribe_event(wanted)

dialog_channel_run ==
  \E c \in Shown :
    \/ Queried[c] = "OPENED" /\ StartChannel(c, Queried)
    \/ Queried[c] = "RUNNING" /\ StopChannel(c, Queried)

menu_event_run_process == dialog_event_subscribe_action_list \/ dialog_channel_run

(* What the event thread does at a frame event: nothing, or it logs;       *)
(* captures the frames counted or displays one (CountFrames); or captures  *)
(* and then displays one more.                                             *)
do_channel_event_action ==
  /\ rpc = "count"
  /\ \/ /\ rpc' = "loop"
        /\ UNCHANGED <<rleft, raddr>>
     \/ /\ ChnFree(revent)
        /\ rleft' = FrameCount(slot[revent]) + 1
        /\ raddr' \in {NoAddress, raddr}
        /\ rpc' = "get"
  /\ UNCHANGED <<status, slotVars, subs, events, sem, threadVars, cpc, callVars,
                 revent, rtorn, state, infos, initReady, cached, flag, mpc, mchn>>

-----------------------------------------------------------------------------
Menu == menu_camera_process \/ menu_channel_process \/ menu_event_run_process

MenuEventThread == EventThread \/ do_channel_event_action

MenuNext ==
  \/ Menu
  \/ InsideCall
  \/ MenuEventThread
  \/ \E c \in Channels : SessionConsumer(c)

MenuSpec == SessionInit /\ [][MenuNext]_svars

(* Threads that can run do, and a consumer is given pictures as long as    *)
(* the producer feeds: it loops without blocking, and EventuallyReleased   *)
(* of Pca says that the dispatcher goes on.  The event thread contends     *)
(* with consumers for mutex_chn, which they release between two pictures.  *)
(* Nothing makes the user do anything.                                     *)
MenuFairness ==
  /\ WF_svars(InsideCall)
  /\ SF_svars(MenuEventThread)
  /\ \A c \in Channels : WF_svars(SessionConsumer(c) /\ (feeding \/ cpc[c] # "wait"))

MenuFairSpec == MenuSpec /\ MenuFairness
=============================================================================
