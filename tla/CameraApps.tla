----------------------------- MODULE CameraApps -----------------------------
(***************************************************************************)
(* The camera's example programs that call the HAL themselves:             *)
(* cam_demo_simple, camera_test1, camera_demo1, camera_demo2, camera_demo4, *)
(* cam_demo_ir (a thread for each channel behind a queue) and              *)
(* cam_demo_multi (a thread for each camera).  One of them runs, on a      *)
(* camera that produces frames and now and then news of its own, beside    *)
(* the process that displays.                                              *)
(*                                                                         *)
(* A program is a record of tables: the calls of its setup, of the body of *)
(* its loop and of its end, and a program for each thread it creates.      *)
(***************************************************************************)
EXTENDS CameraHal, EventQueue, DisplayPlink

CONSTANTS
  Limit,     \* a limit on the frames a program is given
  Scenarios  \* which program runs, with which limit, among how many events
             \* of the camera's own, displaying what

ASSUME AppsAssumption ==
  /\ Camera = {0, 1} /\ Channel = {"channel0", "channel1"} /\ Queue = Channel
  /\ Scenarios \subseteq [name : STRING, lim : {0, Limit}, news : Nat, format : STRING]

Thread == {"main", "w0", "w1"}

VARIABLES
  app,    \* the program and its arguments
  pc,     \* pc[t]: where t is: a table and the row in it
  ev,     \* ev[t]: the event t is handling
  left,   \* left[t]: how many frames t still wants to get
  holds,  \* holds[t]: "frame", "stale" (get_frame had none) or "none"
  item,   \* item[t]: the queue item t has in its hands
  count,  \* count[t]: the frames or events t has counted
  quit,   \* quit[t]: t is told to leave its loop
  ctx     \* ctx[c]: cam_demo_multi's camera_ctx_t: "none", "live", "freed"

locals == <<ev, left, holds, item, count, quit, ctx>>
cameraAppVars == <<halVars, queueVars, plinkVars, app, pc, locals>>

-----------------------------------------------------------------------------
(* The programs.  Do: the result is not looked at, and the call is taken   *)
(* to succeed; Or: a failure leads to the table "to", to the end of the    *)
(* thread or to the exit of the process.                                   *)

Or(op, c, n, to) == [op |-> op, c |-> c, n |-> n, to |-> to]
Do(op, c, n) == Or(op, c, n, "none")

(* The frames an event announces: the rows between get and put.            *)
Frames(c, n, handle_frame) ==
  <<Do("event", c, "none"), Do("count", c, n), Do("get", c, n)>> \o handle_frame
    \o <<Do("put", c, n)>>

Created(c) == <<Do("create_event", c, "none"), Do("subscribe", c, "camera")>>
Closed(c, n) == <<Do("channel_close", c, n), Do("close", c, "none")>>

simple_find == <<Or("find", 0, "none", "exit")>>
simple_open == <<Do("open", 0, "none")>>
simple_channel ==
  <<Or("query", 0, "channel0", "exit"), Or("channel_open", 0, "channel0", "exit"),
    Or("plink", 0, "none", "exit")>> \o Created(0)
    \o <<Do("subscribe", 0, "channel0"), Do("start", 0, "channel0")>>
simple_dump_camera_frame == <<Or("dump", 0, "none", "exit")>>
simple_loop ==
  <<Do("while", 0, "none")>>
    \o Frames(0, "channel0", simple_dump_camera_frame \o <<Do("display", 0, "none")>>)
simple_finish ==
  <<Do("stop", 0, "channel0"), Do("unsubscribe", 0, "channel0"),
    Do("destroy_event", 0, "none")>> \o Closed(0, "channel0")

test1_open == <<Or("options", 0, "none", "exit"), Do("open", 0, "none")>>
test1_channel ==
  <<Or("query", 0, "channel0", "exit"), Do("channel_open", 0, "channel0")>>
    \o Created(0) \o <<Do("subscribe", 0, "channel0"), Do("start", 0, "channel0")>>
test1_save == <<Do("dump", 0, "none")>>
test1_loop == <<Do("while", 0, "none")>> \o Frames(0, "channel0", test1_save)
test1_finish == simple_finish

(* The loop never ends; what follows it in the source is never reached.    *)
demo1_open == <<Or("find", 0, "none", "exit"), Do("open", 0, "none")>>
demo1_channel == test1_channel
demo1_loop == Frames(0, "channel0", <<>>)

(* Every result but two is left alone, and so is what follows its endless  *)
(* loop.  Only on the simulator is a frame put back; elsewhere it is only  *)
(* released.                                                               *)
demo2_find == <<Or("find", 0, "none", "exit"), Do("caps", 0, "none")>>
demo2_settings ==
  <<Do("open", 0, "none"), Do("modes", 0, "none"), Do("set_mode", 0, "none"), Do("properties", 0, "none")>>
demo2_channels ==
  <<Or("query", 0, "channel0", "exit"),
    Do("channel_open", 0, "channel0"), Do("channel_open", 0, "channel1")>> \o Created(0)
    \o <<Do("subscribe", 0, "channel0"), Do("subscribe", 0, "channel1"),
         Do("start", 0, "channel0"), Do("start", 0, "channel1")>>
demo2_dump_camera_meta == <<Do("dump", 0, "none")>>
demo2_loop == Frames(0, "none", demo2_dump_camera_meta)

(* "if (i = 0)": the for loop starts over and over, each time a second     *)
(* later a thread for the second channel_control; the model has two.  Of   *)
(* channel 1 it subscribes to the event type 1, which is channel 0's.      *)
demo4_open == <<Or("find", 0, "none", "exit"), Do("open", 0, "none"), Do("spawn", 0, "w0")>>
demo4_loop == <<Do("spawn", 0, "w1")>>
demo4_channel_thread ==
  [setup |-> <<Or("channel_open", 0, "channel1", "ended")>> \o Created(0)
               \o <<Do("subscribe", 0, "channel0")>>,
   loop |-> <<Do("while", 0, "none"), Do("poll", 0, "none"), Do("count", 0, "channel1"),
              Do("get", 0, "channel1"), Do("put", 0, "channel1")>>]

ir_open == <<Or("options", 0, "none", "exit"), Or("find", 0, "none", "exit"), Do("open", 0, "none")>>
(* Mutant: copied and not changed, the second subscription is the first.   *)
Slip_SubscribeTwice ==
  <<Do("channel_open", 0, "channel0"), Do("channel_open", 0, "channel1")>>
    \o Created(0)
    \o <<Do("subscribe", 0, "channel0"), Do("spawn", 0, "w0"),
         Do("subscribe", 0, "channel0"), Do("spawn", 0, "w1")>>

ir_channels ==
  <<Do("channel_open", 0, "channel0"), Do("channel_open", 0, "channel1")>>
    \o Created(0)
    \o <<Do("subscribe", 0, "channel0"), Do("spawn", 0, "w0"),
         Do("subscribe", 0, "channel1"), Do("spawn", 0, "w1")>>
ir_start == <<Do("dsp", 0, "none"), Do("start", 0, "channel0"), Do("start", 0, "channel1")>>
ir_loop == <<Do("malloc", 0, "none"), Do("event", 0, "none"), Do("route", 0, "none"), Do("while", 0, "none")>>
ir_close ==
  <<Do("unsubscribe", 0, "channel0"), Do("unsubscribe", 0, "channel1"),
    Do("unsubscribe", 0, "camera"), Do("destroy_event", 0, "none")>>
    \o Closed(0, "channel0")
Stops == <<Do("stop", 0, "channel0"), Do("stop", 0, "channel1")>>
Quits == <<Do("quit", 0, "w0"), Do("quit", 0, "w1")>>
Joins == <<Do("join", 0, "w0"), Do("join", 0, "w1")>>

(* Mutant: the threads are not joined.                                     *)
Slip_NoJoin == Stops \o Quits \o ir_close

ir_finish == Stops \o Quits \o Joins \o ir_close
camera_channle_process(n) ==
  <<Do("peek", 0, n), Do("dequeue", 0, n), Do("count", 0, n),
    Do("get", 0, n), Do("put", 0, n), Do("free", 0, n)>>

(* Camera 0 has one channel, camera 1 two and the dsp algorithms.          *)
parseParams == [c \in Camera |-> IF c = 0 THEN <<"channel0">> ELSE <<"channel0", "channel1">>]
Each(op, c, to) == [i \in 1 .. Len(parseParams[c]) |-> Or(op, c, parseParams[c][i], to)]
multi_camera_open(c, w, ONE_ERR, TWO_ERR) ==
  <<Do("ctx", c, "live"), Or("open", c, "none", ONE_ERR)>> \o Each("channel_open", c, TWO_ERR)
    \o <<Or("create_event", c, "none", TWO_ERR), Or("subscribe", c, "camera", TWO_ERR)>>
    \o Each("subscribe", c, TWO_ERR) \o <<Or("spawn", c, w, TWO_ERR)>>
multi_dsp(c, TWO_ERR) == IF c = 1 THEN <<Or("dsp", c, "none", TWO_ERR)>> ELSE <<>>
camera_start_all(c) == Each("start", c, "none")
multi_two_err(c) == <<Do("close_opened", c, "none"), Do("close", c, "none")>>
multi_one_err(c) == <<Do("ctx", c, "freed")>>
(* The last subscription alone is taken back; the channels still run.      *)
camera_close(c, w) ==
  <<Do("given", c, "none"), Do("join", c, w),
    Do("unsubscribe", c, parseParams[c][Len(parseParams[c])]),
    Do("destroy_event", c, "none")>> \o Each("channel_close", c, "none")
    \o <<Do("close", c, "none"), Do("ctx", c, "freed")>>
multi_dump_camera_frame(c) == <<Do("dump", c, "none")>>
camera_event_thread(c) == <<Do("while", c, "none")>> \o Frames(c, "none", multi_dump_camera_frame(c))

Worker(code) == [loop |-> code]
Programs ==
  [cam_demo_simple |->
     [main |-> [setup |-> simple_find \o simple_open \o simple_channel,
                loop |-> simple_loop, finish |-> simple_finish]],
   camera_test1 |->
     [main |-> [setup |-> test1_open \o test1_channel, loop |-> test1_loop,
                finish |-> test1_finish]],
   camera_demo1 |-> [main |-> [setup |-> demo1_open \o demo1_channel, loop |-> demo1_loop]],
   camera_demo2 |->
     [main |-> [setup |-> demo2_find \o demo2_settings \o demo2_channels, loop |-> demo2_loop]],
   camera_demo4 |->
     [main |-> [setup |-> demo4_open, loop |-> demo4_loop],
      w0 |-> demo4_channel_thread, w1 |-> demo4_channel_thread],
   cam_demo_ir |->
     [main |-> [setup |-> ir_open \o ir_channels \o ir_start, loop |-> ir_loop,
                finish |-> ir_finish],
      w0 |-> Worker(camera_channle_process("channel0")),
      w1 |-> Worker(camera_channle_process("channel1"))],
   cam_demo_multi |->
     [main |-> [setup |-> multi_camera_open(0, "w0", "one_err0", "two_err0") \o camera_start_all(0)
                            \o multi_camera_open(1, "w1", "one_err1", "two_err1")
                            \o multi_dsp(1, "two_err1") \o camera_start_all(1),
                loop |-> <<Do("while", 0, "none")>>,
                two_err0 |-> multi_two_err(0), one_err0 |-> multi_one_err(0),
                two_err1 |-> multi_two_err(1), one_err1 |-> multi_one_err(1),
                finish |-> camera_close(0, "w0"), finish1 |-> camera_close(1, "w1")],
      w0 |-> Worker(camera_event_thread(0)), w1 |-> Worker(camera_event_thread(1))]]

(* The table that follows each; the process ends after a table that none   *)
(* of its program's follows.                                               *)
Follows ==
  [setup |-> "loop", loop |-> "loop", two_err0 |-> "one_err0", one_err0 |-> "finish",
   two_err1 |-> "one_err1", one_err1 |-> "finish", finish |-> "finish1",
   finish1 |-> "ended"]

-----------------------------------------------------------------------------
(* Running a program.                                                      *)

Code(t) == Programs[app.name][t]
Place(table, at) == [table |-> table, at |-> at]
Ended == Place("ended", 0)
Off == {"none", "ended"}
Runs(t) == pc[t].table \notin Off

(* The row t is at.                                                        *)
Here(t) == IF Runs(t) THEN Code(t)[pc[t].table][pc[t].at] ELSE Do("none", 0, "none")
At(t, op) == Here(t).op = op

Table(t, table) == IF table \in DOMAIN Code(t) THEN Place(table, 1) ELSE Ended
After(t, p) ==
  IF p.at < Len(Code(t)[p.table]) THEN Place(p.table, p.at + 1)
  ELSE Table(t, Follows[p.table])
RowOf(t, op) ==
  Place(pc[t].table, CHOOSE i \in DOMAIN Code(t)[pc[t].table] :
                       Code(t)[pc[t].table][i].op = op)

(* With its main thread the process ends.                                  *)
GoTo(t, p) ==
  pc' = IF t = "main" /\ p = Ended THEN [s \in Thread |-> Ended]
        ELSE [pc EXCEPT ![t] = p]
Go(t) == GoTo(t, After(t, pc[t]))

(* Calls that change nothing these programs look at.                       *)
Nothing(t) ==
  /\ Here(t).op \in {"find", "options", "caps", "modes", "set_mode", "properties", "query",
                     "plink", "dsp", "dump"}
  /\ Go(t)
  /\ UNCHANGED <<halVars, queueVars, plinkVars, locals>>

Fails(t) ==
  /\ Here(t).to # "none"
  /\ GoTo(t, Table(t, Here(t).to))
  /\ UNCHANGED <<halVars, queueVars, plinkVars, locals>>

HalCall(t) ==
  LET c == Here(t).c  n == Here(t).n
      Opened == {m \in Channel : chn[c][m] # "closed"}
  IN  /\ Here(t).op \in {"open", "close", "channel_open", "start", "stop", "channel_close",
                         "close_opened", "create_event", "destroy_event", "subscribe",
                         "unsubscribe"}
      /\ \/ At(t, "open") /\ csi_camera_open(c)
         \/ At(t, "close") /\ csi_camera_close(c)
         \/ At(t, "channel_open") /\ SetChannels(c, {n}, "opened")
         \/ At(t, "start") /\ SetChannels(c, {n}, "running")
         \/ At(t, "stop") /\ SetChannels(c, {n}, "opened")
         \/ At(t, "channel_close") /\ SetChannels(c, {n}, "closed")
         \/ At(t, "close_opened") /\ SetChannels(c, Opened, "closed")
         \/ At(t, "create_event") /\ csi_camera_create_event(c)
         \/ At(t, "destroy_event") /\ csi_camera_destory_event(c)
         \/ At(t, "subscribe") /\ csi_camera_subscribe_event(c, n)
         \/ At(t, "unsubscribe") /\ csi_camera_unsubscribe_event(c, n)
      /\ Go(t)
      /\ UNCHANGED <<queueVars, plinkVars, locals>>

(* A thread that camera_demo4 creates over and over is the same in the     *)
(* model, once it has ended.                                               *)
Spawn(t) ==
  LET w == Here(t).n IN
  /\ At(t, "spawn")
  /\ pc' = [pc EXCEPT ![t] = After(t, pc[t]),
                      ![w] = IF Runs(w) THEN @
                             ELSE IF "setup" \in DOMAIN Code(w) THEN Place("setup", 1)
                             ELSE Place("loop", 1)]
  /\ UNCHANGED <<halVars, queueVars, plinkVars, locals>>

Join(t) ==
  /\ At(t, "join") /\ pc[Here(t).n] = Ended
  /\ Go(t)
  /\ UNCHANGED <<halVars, queueVars, plinkVars, locals>>

Quit(t) ==
  /\ At(t, "quit") /\ quit' = [quit EXCEPT ![Here(t).n] = TRUE]
  /\ Go(t)
  /\ UNCHANGED <<halVars, queueVars, plinkVars, ev, left, holds, item, count, ctx>>

Context(t) ==
  /\ At(t, "ctx") /\ ctx' = [ctx EXCEPT ![Here(t).c] = Here(t).n]
  /\ Go(t)
  /\ UNCHANGED <<halVars, queueVars, plinkVars, ev, left, holds, item, count, quit>>

Given(t) ==
  /\ At(t, "given")
  /\ IF ctx[Here(t).c] = "live" THEN Go(t)
     ELSE GoTo(t, Table(t, Follows[pc[t].table]))
  /\ UNCHANGED <<halVars, queueVars, plinkVars, locals>>

(* Whether t leaves its loop.  cam_demo_simple looks at the limit for the  *)
(* next round; camera_test1 counts down from it, past zero, and ends even  *)
(* when none is given; cam_demo_multi is given none.  A thread that reads  *)
(* its camera_ctx_t after a free reads anything.                           *)
PastLimit(t) == count[t] > app.lim
Leaves(t) ==
  CASE t # "main" -> IF ctx[Here(t).c] = "freed" THEN BOOLEAN ELSE {quit[t]}
    [] app.name = "cam_demo_simple" -> {quit[t]}
    [] app.name = "camera_test1" -> {PastLimit(t)}
    [] app.name = "cam_demo_ir" -> {app.lim > 0 /\ PastLimit("w0") /\ PastLimit("w1")}
    [] OTHER -> {FALSE}

While(t) ==
  /\ At(t, "while")
  /\ \E leaves \in Leaves(t) :
       IF leaves THEN GoTo(t, Table(t, "finish")) /\ UNCHANGED quit
       ELSE /\ Go(t)
            /\ quit' = IF app.name = "cam_demo_simple"
                       THEN [quit EXCEPT ![t] = app.lim # 0 /\ PastLimit(t)] ELSE quit
  /\ UNCHANGED <<halVars, queueVars, plinkVars, ev, left, holds, item, count, ctx>>

Take(t, event) == ev' = [ev EXCEPT ![t] = event]

(* Without an end to the wait.  The main thread of cam_demo_ir has the     *)
(* event written into an item.                                             *)
Event(t) ==
  LET event == Head(events[Here(t).c]) IN
  /\ At(t, "event") /\ csi_camera_get_event(Here(t).c)
  /\ Take(t, event)
  /\ IF item[t] = NULL THEN UNCHANGED queueVars ELSE Fill(item[t], event)
  /\ Go(t)
  /\ UNCHANGED <<plinkVars, left, holds, item, count, quit, ctx>>

(* camera_demo4 waits 100 ms and does not look at whether there was one:   *)
(* its event is then what it was, or uninitialised.                        *)
Poll(t) ==
  /\ At(t, "poll")
  /\ \/ csi_camera_get_event(Here(t).c) /\ Take(t, Head(events[Here(t).c]))
     \/ \E event \in Channel \cup {"warning", "error"} : Take(t, event) /\ UNCHANGED halVars
  /\ Go(t)
  /\ UNCHANGED <<queueVars, plinkVars, left, holds, item, count, quit, ctx>>

(* The events after which a program looks for frames.  The warning has the *)
(* number of a frame event, and the switch of camera_demo1 and of          *)
(* camera_demo2 falls through to channel 0's; camera_demo4 compares the    *)
(* type of an event with the number of its channel, and 1 is the type of   *)
(* an event of channel 0.                                                  *)
Announcing ==
  CASE app.name \in {"camera_demo1", "camera_demo2"} -> Channel \cup {"warning"}
    [] app.name = "camera_demo4" -> {"channel0"}
    [] OTHER -> Channel
OfChannel(t) ==
  IF Here(t).n # "none" THEN Here(t).n ELSE IF ev[t] = "warning" THEN "channel0" ELSE ev[t]

(* How many of the frames ready it gets: camera_demo2 one of channel 0,    *)
(* whatever the count.                                                     *)
Wants(t) ==
  IF app.name = "camera_demo2" /\ OfChannel(t) = "channel0" THEN 1
  ELSE ready[Here(t).c][OfChannel(t)]

(* A program given no limit does not look at what it counts, except        *)
(* camera_test1; no count matters past the limit.                          *)
Limited == app.lim > 0 \/ app.name = "camera_test1"
Counted(t) == IF Limited /\ ~PastLimit(t) THEN [count EXCEPT ![t] = @ + 1] ELSE count

(* To the first of n frames, or past the row that puts the last one back.  *)
ToFrames(t, n) ==
  /\ left' = [left EXCEPT ![t] = n]
  /\ IF n > 0 THEN GoTo(t, RowOf(t, "get")) /\ UNCHANGED ev
     ELSE GoTo(t, After(t, RowOf(t, "put"))) /\ Take(t, "none")

Count(t) ==
  LET looks == ev[t] \in Announcing IN
  /\ At(t, "count")
  /\ ToFrames(t, IF looks THEN Wants(t) ELSE 0)
  /\ count' = IF looks /\ app.name = "cam_demo_simple" THEN Counted(t) ELSE count
  /\ UNCHANGED <<halVars, queueVars, plinkVars, holds, item, quit, ctx>>

(* csi_camera_get_frame is not checked either.                             *)
Get(t) ==
  LET c == Here(t).c  n == OfChannel(t) IN
  /\ At(t, "get") /\ csi_camera_get_frame(c, n)
  /\ holds' = [holds EXCEPT ![t] = IF ready[c][n] > 0 THEN "frame" ELSE "stale"]
  /\ count' = IF app.name \in {"camera_test1", "cam_demo_ir"} THEN Counted(t) ELSE count
  /\ Go(t)
  /\ UNCHANGED <<queueVars, plinkVars, ev, left, item, quit, ctx>>

(* camera_test1 releases the frame without putting it back.                *)
Put(t) ==
  /\ At(t, "put") /\ holds' = [holds EXCEPT ![t] = "none"]
  /\ ToFrames(t, left[t] - 1)
  /\ UNCHANGED <<halVars, queueVars, plinkVars, item, count, quit, ctx>>

Display(t) ==
  /\ At(t, "display")
  /\ IF app.format = "none" THEN UNCHANGED plinkVars ELSE display_camera_frame(app.format)
  /\ Go(t)
  /\ UNCHANGED <<halVars, queueVars, locals>>

Hold(t, i) == item' = [item EXCEPT ![t] = i]

Malloc(t) ==
  /\ At(t, "malloc")
  /\ Item \ heap # {}
  /\ LET i == CHOOSE j \in Item \ heap : TRUE IN Allocate(i) /\ Hold(t, i)
  /\ Go(t)
  /\ UNCHANGED <<halVars, plinkVars, ev, left, holds, count, quit, ctx>>

(* A frame event goes to its channel's queue.  A warning, which has the    *)
(* number of one, goes to channel_ctx[-1]: the item is lost, or the        *)
(* process.  Other events are freed.                                       *)
Route(t) ==
  /\ At(t, "route")
  /\ \/ ev[t] \in Channel /\ enqueue_event(ev[t], item[t]) /\ Go(t)
     \/ ev[t] = "warning" /\ UNCHANGED queueVars /\ (Go(t) \/ GoTo(t, Ended))
     \/ ev[t] = "error" /\ Free(item[t]) /\ Go(t)
  /\ Hold(t, NULL) /\ Take(t, "none")
  /\ UNCHANGED <<halVars, plinkVars, left, holds, count, quit, ctx>>

(* The thread looks whether it is to leave (the head may be read at once:  *)
(* only this thread takes items), dequeue_event reads the head and only    *)
(* then takes the lock, in vain when there was none.                       *)
Peek(t) ==
  LET i == head[Here(t).n] IN
  /\ At(t, "peek")
  /\ Hold(t, IF quit[t] THEN NULL ELSE i)
  /\ IF quit[t] THEN GoTo(t, Ended)
     ELSE IF i = NULL THEN UNCHANGED pc
     ELSE Go(t)
  /\ UNCHANGED <<halVars, queueVars, plinkVars, ev, left, holds, count, quit, ctx>>

Dequeue(t) ==
  /\ At(t, "dequeue")
  /\ dequeue_event(Here(t).n, item[t]) /\ Take(t, evet[item[t]])
  /\ Go(t)
  /\ UNCHANGED <<halVars, plinkVars, left, holds, item, count, quit, ctx>>

FreeItem(t) ==
  /\ At(t, "free") /\ Free(item[t]) /\ Hold(t, NULL)
  /\ Go(t)
  /\ UNCHANGED <<halVars, plinkVars, ev, left, holds, count, quit, ctx>>

Step(t) ==
  /\ Runs(t)
  /\ \/ Nothing(t) \/ Fails(t) \/ HalCall(t) \/ Spawn(t) \/ Join(t) \/ Quit(t)
     \/ Context(t) \/ Given(t) \/ While(t) \/ Event(t) \/ Poll(t) \/ Count(t)
     \/ Get(t) \/ Put(t) \/ Display(t) \/ Malloc(t) \/ Route(t) \/ Peek(t)
     \/ Dequeue(t) \/ FreeItem(t)
  /\ UNCHANGED app

(* The camera and the process that displays.                               *)
Frame(c, n) == FrameReady(c, n) /\ UNCHANGED <<queueVars, plinkVars, app, pc, locals>>
News(c) == news < app.news /\ CameraNews(c) /\ UNCHANGED <<queueVars, plinkVars, app, pc, locals>>
Viewer == app.format # "none" /\ Receiver /\ UNCHANGED <<halVars, queueVars, app, pc, locals>>

CameraAppsInit ==
  /\ HalInit /\ QueueInit /\ PlinkInit
  /\ app \in Scenarios
  /\ pc = [t \in Thread |-> IF t = "main" /\ app.name \in DOMAIN Programs
                                THEN Place("setup", 1) ELSE Place("none", 0)]
  /\ ev = [t \in Thread |-> "none"]
  /\ left = [t \in Thread |-> 0]
  /\ holds = [t \in Thread |-> "none"]
  /\ item = [t \in Thread |-> NULL]
  /\ count = [t \in Thread |-> 0]
  /\ quit = [t \in Thread |-> FALSE]
  /\ ctx = [c \in Camera |-> "none"]

CameraAppsNext ==
  \/ \E t \in Thread : Step(t)
  \/ \E c \in Camera, n \in Channel : Frame(c, n)
  \/ \E c \in Camera : News(c)
  \/ Viewer

CameraAppsFairness ==
  /\ \A t \in Thread : WF_cameraAppVars(Step(t))
  /\ \A n \in Channel : WF_cameraAppVars(Frame(0, n))

-----------------------------------------------------------------------------
InHands == {item[t] : t \in {u \in Thread : ~At(u, "dequeue")}} \ {NULL}

(* While cam_demo_ir runs its queues are lists of the items that are       *)
(* allocated and in nobody's hands, each in its channel's queue, and no    *)
(* item is lost but to the camera's own events, of which a warning goes to *)
(* the queue before the first.                                             *)
QueueIsAList ==
  pc["main"] # Ended =>
    /\ QueuesAreLists(InHands)
    /\ InHands \subseteq heap
    /\ Cardinality(heap \ (InHands \cup UNION {Items(n) : n \in Queue})) <= news

(* The programs make their calls in an order the HAL can serve: a channel  *)
(* is started when it is open and has an event handle, closed when it is   *)
(* stopped; a frame in use is a frame of an open channel; event handles    *)
(* are used while they live; and at its end a program takes the handle,    *)
(* the channels and the camera from no thread that still runs.  Except     *)
(* when cam_demo_multi's camera_open gives up after it has created its     *)
(* thread.                                                                 *)
CallsAreInOrder ==
  \A t \in Thread :
    LET r == Here(t) IN
    /\ r.op = "start" =>
         chn[r.c][r.n] = "opened" /\ camera[r.c] = "open" /\ handle[r.c] = "live"
    /\ r.op = "channel_close" => chn[r.c][r.n] # "running"
    /\ r.op \in {"event", "subscribe", "unsubscribe", "destroy_event"} =>
         handle[r.c] = "live"
    /\ Runs(t) /\ holds[t] = "frame" => chn[r.c][OfChannel(t)] # "closed"
    /\ r.op \in {"destroy_event", "channel_close", "close"} /\ pc[t].table = "finish" =>
         \A w \in Thread \ {t} : Runs(w) => Here(w).c # r.c

(* A program that is given a limit, and camera_test1 without one, ends     *)
(* when the camera goes on producing frames.                               *)
ProgramsEnd ==
  Limited ~> (pc["main"] = Ended)
=============================================================================
