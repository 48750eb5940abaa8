---------------------------- MODULE ExamplesProofs ----------------------------
(***************************************************************************)
(* Proofs about the example programs that run on their own (Examples): the *)
(* pictures for the process that displays are sent in turn, the programs   *)
(* call the camera HAL in order, and the queues of cam_demo_ir are lists.  *)
(*                                                                         *)
(* The second follows the programs row by row.  A span is a set of rows of *)
(* a main thread's tables; for each program Open, Live, Stopped, There,    *)
(* Ran and MayRun say where a camera is open, its event handle lives, a    *)
(* channel is open, has run, and where a thread runs.  Follow(p) says that *)
(* the call at p agrees with the spans of p and of the row after it, and   *)
(* is shown for every row of every program; the invariant CallsInv says    *)
(* that the state agrees with the span the main thread is in.              *)
(*                                                                         *)
(* For the third a list is a sequence of different items, each linked to   *)
(* the next; one lemma for each kind of step says what becomes of the      *)
(* lists and of the items in the threads' hands, and QueueInv adds that an *)
(* item that is lost was a warning's, counted while it is on its way.      *)
(***************************************************************************)
EXTENDS Examples, FiniteSetTheorems, WellFoundedInduction, TLAPS

-----------------------------------------------------------------------------
(* The pictures on their way to the process that displays.                 *)

Buffer == 0 .. NumBuffers - 1

(* How many pictures ago the buffer in place i was sent.                   *)
Age(i) ==
  IF showing[i] < sendid THEN sendid - showing[i] ELSE sendid + NumBuffers - showing[i]

(* The credits the sender has, or will have when it reads its messages.    *)
Credits == available_bufs + Cardinality(Read)

(* The receiver has its buffers in the order they were sent, the oldest    *)
(* no older than there are credits missing.                                *)
PlinkInv ==
  /\ sendid \in Buffer /\ available_bufs \in Nat
  /\ showing \in Seq(Buffer) /\ answers \in Seq({"returned", "exit"})
  /\ Credits <= NumBuffers
  /\ \A i \in DOMAIN showing : Age(i) <= NumBuffers - Credits
  /\ \A i, j \in DOMAIN showing : i < j => Age(j) < Age(i)

LEMMA UpTo ==
  ASSUME NEW n \in Nat
  PROVE  Cardinality(1 .. n) = n
<1>1. Cardinality(1 .. n) = IF 1 > n THEN 0 ELSE n - 1 + 1
  BY FS_Interval
<1> QED BY <1>1

LEMMA ReadIsFinite ==
  ASSUME answers \in Seq({"returned", "exit"})
  PROVE  /\ IsFiniteSet(Read) /\ Cardinality(Read) \in Nat
         /\ ~(\E i \in DOMAIN answers : answers[i] = "exit") =>
              Read = 1 .. Len(answers)
<1>1. Len(answers) \in Nat /\ DOMAIN answers = 1 .. Len(answers)
  OBVIOUS
<1>2. Read \subseteq 1 .. Len(answers)
  BY <1>1 DEF Read
<1>3. IsFiniteSet(1 .. Len(answers))
  BY <1>1, FS_Interval
<1>4. IsFiniteSet(Read) /\ Cardinality(Read) \in Nat
  BY <1>2, <1>3, FS_Subset, FS_CardinalityType
<1>5. ASSUME ~(\E i \in DOMAIN answers : answers[i] = "exit")
      PROVE  Read = 1 .. Len(answers)
  BY <1>1, <1>5 DEF Read
<1> QED BY <1>4, <1>5

(* A message that is not read yet: a buffer returned is a credit, the      *)
(* receiver's leaving is none.                                             *)
LEMMA ReadNext ==
  ASSUME answers \in Seq({"returned", "exit"}), NEW a \in {"returned", "exit"},
         ~(\E i \in DOMAIN answers : answers[i] = "exit"),
         answers' = Append(answers, a)
  PROVE  Cardinality(Read') = IF a = "exit" THEN Cardinality(Read)
                              ELSE Cardinality(Read) + 1
<1>1. /\ Len(answers) \in Nat /\ DOMAIN answers = 1 .. Len(answers)
      /\ Len(answers') = Len(answers) + 1 /\ DOMAIN answers' = 1 .. Len(answers) + 1
      /\ \A i \in 1 .. Len(answers) : answers'[i] = answers[i]
      /\ answers'[Len(answers) + 1] = a
  OBVIOUS
<1>2. Cardinality(Read) = Len(answers)
  BY <1>1, ReadIsFinite, UpTo
<1>3. CASE a = "exit"
  <2>1. Read' = 1 .. Len(answers)
    BY <1>1, <1>3 DEF Read
  <2>2. Cardinality(Read') = Len(answers)
    BY <1>1, <2>1, UpTo
  <2> QED BY <1>2, <1>3, <2>2
<1>4. CASE a = "returned"
  <2>1. Read' = 1 .. Len(answers) + 1
    BY <1>1, <1>4 DEF Read
  <2>2. Cardinality(Read') = Len(answers) + 1
    BY <1>1, <2>1, UpTo
  <2> QED BY <1>2, <1>4, <2>2
<1> QED BY <1>3, <1>4

LEMMA NextBuffer ==
  ASSUME NEW b \in Buffer
  PROVE  (b + 1) % NumBuffers = IF b + 1 = NumBuffers THEN 0 ELSE b + 1
BY PlinkAssumption DEF PlinkAssumption, Buffer

(* The arithmetic of ages: one more picture makes each buffer one older.   *)
LEMMA OneOlder ==
  ASSUME NEW b \in Buffer, NEW s \in Buffer, NEW n,
         n = IF s + 1 = NumBuffers THEN 0 ELSE s + 1
  PROVE  /\ (IF s < n THEN n - s ELSE n + NumBuffers - s) = 1
         /\ (IF b < s THEN s - b ELSE s + NumBuffers - b) < NumBuffers =>
              /\ b # s
              /\ (IF b < n THEN n - b ELSE n + NumBuffers - b)
                   = (IF b < s THEN s - b ELSE s + NumBuffers - b) + 1
<1>1. NumBuffers \in Nat \ {0} /\ b \in Nat /\ s \in Nat /\ b < NumBuffers /\ s < NumBuffers
  BY PlinkAssumption DEF PlinkAssumption, Buffer
<1>2. CASE s + 1 = NumBuffers
  BY <1>1, <1>2
<1>3. CASE s + 1 # NumBuffers
  BY <1>1, <1>3
<1> QED BY <1>2, <1>3

LEMMA AgeIsPositive ==
  ASSUME PlinkInv, NEW i \in DOMAIN showing
  PROVE  Age(i) \in 1 .. NumBuffers
<1>1. showing[i] \in Buffer /\ sendid \in Buffer
  BY DEF PlinkInv
<1> QED BY <1>1, PlinkAssumption DEF Age, Buffer, PlinkAssumption

LEMMA InitPlink == PlinkInit => PlinkInv
<1> SUFFICES ASSUME PlinkInit PROVE PlinkInv
  OBVIOUS
<1>1. NumBuffers \in Nat /\ NumBuffers > 0
  BY PlinkAssumption DEF PlinkAssumption
<1>2. Read = {}
  BY DEF PlinkInit, Read
<1>3. Credits = NumBuffers
  BY <1>1, <1>2, FS_EmptySet DEF PlinkInit, Credits
<1> QED BY <1>1, <1>3 DEF PlinkInit, PlinkInv, Buffer

(* The receiver returns the oldest buffer, and the others are younger.     *)
LEMMA ReceiverKeepsOrder == PlinkInv /\ Receiver => PlinkInv'
<1> SUFFICES ASSUME PlinkInv, Receiver PROVE PlinkInv'
  OBVIOUS
<1>1. /\ NumBuffers \in Nat /\ available_bufs \in Nat /\ Cardinality(Read) \in Nat
      /\ answers \in Seq({"returned", "exit"}) /\ showing \in Seq(Buffer)
      /\ Credits <= NumBuffers /\ Credits \in Nat
  BY PlinkAssumption, ReadIsFinite DEF PlinkAssumption, PlinkInv, Credits
<1>2. /\ ~(\E i \in DOMAIN answers : answers[i] = "exit")
      /\ UNCHANGED <<sendid, available_bufs>>
  BY DEF Receiver, Exits
<1>3. CASE showing # <<>> /\ showing' = Tail(showing) /\ answers' = Append(answers, "returned")
  <2>1. Credits' = Credits + 1
    BY <1>1, <1>2, <1>3, ReadNext DEF Credits
  <2>2. /\ DOMAIN showing = 1 .. Len(showing) /\ Len(showing) \in Nat \ {0}
        /\ DOMAIN showing' = 1 .. Len(showing) - 1 /\ showing' \in Seq(Buffer)
        /\ \A i \in 1 .. Len(showing) - 1 : showing'[i] = showing[i + 1]
    BY <1>1, <1>3
  <2>3. \A i \in DOMAIN showing' : Age(i)' = Age(i + 1) /\ i + 1 \in DOMAIN showing
    BY <1>2, <2>2 DEF Age
  <2>4. \A i \in DOMAIN showing : Age(i) \in 1 .. NumBuffers
    BY AgeIsPositive
  <2>5. 1 \in DOMAIN showing /\ Age(1) <= NumBuffers - Credits
    BY <2>2 DEF PlinkInv
  <2>6. Credits' <= NumBuffers
    BY <1>1, <2>1, <2>4, <2>5
  <2>7. ASSUME NEW i \in DOMAIN showing' PROVE Age(i)' <= NumBuffers - Credits'
    <3>1. Age(i + 1) < Age(1)
      BY <2>2, <2>3, <2>5, SMTT(30) DEF PlinkInv
    <3>2. Age(i + 1) \in Nat /\ Age(1) \in Nat
      BY <2>3, <2>4, <2>5
    <3> QED BY <1>1, <2>1, <2>3, <2>5, <3>1, <3>2
  <2>8. ASSUME NEW i \in DOMAIN showing', NEW j \in DOMAIN showing', i < j
        PROVE  Age(j)' < Age(i)'
    <3>1. i + 1 < j + 1
      BY <2>2, <2>8
    <3> QED BY <2>3, <3>1 DEF PlinkInv
  <2>9. answers' \in Seq({"returned", "exit"})
    BY <1>1, <1>3
  <2> QED BY <1>2, <2>2, <2>6, <2>7, <2>8, <2>9 DEF PlinkInv
<1>4. CASE answers' = Append(answers, "exit") /\ UNCHANGED showing
  <2>1. Credits' = Credits
    BY <1>1, <1>2, <1>4, ReadNext DEF Credits
  <2>2. \A i : Age(i)' = Age(i)
    BY <1>2, <1>4 DEF Age
  <2>3. answers' \in Seq({"returned", "exit"})
    BY <1>1, <1>4
  <2> QED BY <1>2, <1>4, <2>1, <2>2, <2>3 DEF PlinkInv
<1> QED BY <1>3, <1>4 DEF Receiver

(* With a credit the oldest buffer that is out is not the next one; it     *)
(* and the others grow older by one picture.                               *)
LEMMA SendKeepsOrder ==
  ASSUME PlinkInv, NEW format, display_camera_frame(format)
  PROVE  /\ PlinkInv'
         /\ sendid' # sendid => \A i \in DOMAIN showing : showing[i] # sendid
<1>1. /\ NumBuffers \in Nat \ {0} /\ available_bufs \in Nat /\ Cardinality(Read) \in Nat
      /\ showing \in Seq(Buffer) /\ sendid \in Buffer
      /\ Credits <= NumBuffers /\ Credits \in Nat
      /\ DOMAIN showing = 1 .. Len(showing) /\ Len(showing) \in Nat
      /\ \A i \in 1 .. Len(showing) : showing[i] \in Buffer
  BY PlinkAssumption, ReadIsFinite DEF PlinkAssumption, PlinkInv, Credits
<1>2. \A i \in DOMAIN showing : Age(i) \in 1 .. NumBuffers
  BY AgeIsPositive
<1>3. CASE exitplink
  BY <1>3 DEF display_camera_frame, plinkVars, PlinkInv, Credits, Read, Age
<1>4. CASE ~exitplink
  <2>1. answers' = <<>>
    BY <1>4 DEF display_camera_frame
  <2>2. answers' \in Seq({"returned", "exit"}) /\ Read' = {}
    BY <2>1 DEF Read
  <2>3. Credits' = available_bufs' + 0
    BY <2>2, FS_EmptySet DEF Credits
  <2>4. CASE ~Exits /\ Credits > 0
    <3>1. PICK sends \in BOOLEAN : SendPicture(Credits, sends)
      BY <1>4, <2>4 DEF display_camera_frame, Credits
    <3>2. /\ sendid' = IF sendid + 1 = NumBuffers THEN 0 ELSE sendid + 1
          /\ sendid' \in Buffer
          /\ available_bufs' = Credits - 1
      BY <1>1, <3>1, NextBuffer DEF SendPicture, Buffer
    <3>2a. PICK n \in Buffer :
             n = sendid' /\ n = IF sendid + 1 = NumBuffers THEN 0 ELSE sendid + 1
      BY <3>2
    <3>3. ASSUME NEW i \in DOMAIN showing
          PROVE  /\ Age(i) <= NumBuffers - Credits
                 /\ showing[i] # sendid
                 /\ showing'[i] = showing[i] => Age(i)' = Age(i) + 1
      <4>1. Age(i) <= NumBuffers - Credits
        BY <3>3 DEF PlinkInv
      <4>2. showing[i] \in Buffer /\ sendid \in Buffer
        BY <1>1
      <4>3. Age(i) < NumBuffers
        BY <1>1, <1>2, <2>4, <3>3, <4>1
      <4>4. showing[i] # sendid
        BY <3>2a, <4>2, <4>3, OneOlder DEF Age
      <4>5. ASSUME showing'[i] = showing[i] PROVE Age(i)' = Age(i) + 1
        <5>1. PICK b \in Buffer : b = showing[i]
          BY <4>2
        <5>2. Age(i)' = IF b < n THEN n - b ELSE n + NumBuffers - b
          BY <3>2a, <4>5, <5>1 DEF Age
        <5>3. Age(i) = IF b < sendid THEN sendid - b ELSE sendid + NumBuffers - b
          BY <5>1 DEF Age
        <5>4. (IF b < n THEN n - b ELSE n + NumBuffers - b)
                = (IF b < sendid THEN sendid - b ELSE sendid + NumBuffers - b) + 1
          BY <3>2a, <4>2, <4>3, <5>3, OneOlder
        <5> QED BY <5>2, <5>3, <5>4
      <4> QED BY <4>1, <4>4, <4>5
    <3>4. CASE ~sends
      <4>1. showing' = showing
        BY <3>1, <3>4 DEF SendPicture
      <4>2. \A i \in DOMAIN showing : Age(i)' = Age(i) + 1
        BY <3>3, <4>1
      <4>3. \A i \in DOMAIN showing : Age(i)' <= NumBuffers - Credits'
        <5> SUFFICES ASSUME NEW i \in DOMAIN showing PROVE Age(i)' <= NumBuffers - Credits'
          OBVIOUS
        <5>1. Age(i) <= NumBuffers - Credits /\ Age(i)' = Age(i) + 1 /\ Age(i) \in Nat
          BY <1>2, <3>3, <4>2
        <5>2. Credits' = Credits - 1
          BY <1>1, <2>3, <2>4, <3>2
        <5> QED BY <1>1, <5>1, <5>2
      <4>4. \A i, j \in DOMAIN showing : i < j => Age(j)' < Age(i)'
        BY <1>2, <4>2 DEF PlinkInv
      <4>5. Credits' <= NumBuffers /\ available_bufs' \in Nat
        BY <1>1, <2>3, <2>4, <3>2
      <4>6. showing' \in Seq(Buffer)
        BY <1>1, <4>1
      <4>7. PlinkInv'
        BY <2>2, <3>2, <4>1, <4>3, <4>4, <4>5, <4>6 DEF PlinkInv
      <4> QED BY <3>3, <4>7
    <3>5. CASE sends
      <4>0. showing' = Append(showing, sendid)
        BY <3>1, <3>5 DEF SendPicture
      <4>0a. PICK last \in Nat : last = Len(showing) + 1
        BY <1>1
      <4>1. /\ DOMAIN showing' = 1 .. last
            /\ \A i \in DOMAIN showing : showing'[i] = showing[i]
            /\ showing'[last] = sendid
            /\ showing' \in Seq(Buffer)
        BY <1>1, <4>0, <4>0a
      <4>2. \A i \in DOMAIN showing : Age(i)' = Age(i) + 1
        BY <3>3, <4>1
      <4>3. Age(last)' = 1
        <5>1. Age(last)' = IF sendid < n THEN n - sendid ELSE n + NumBuffers - sendid
          BY <3>2a, <4>1 DEF Age
        <5> QED BY <1>1, <3>2a, <5>1, OneOlder
      <4>4. \A i \in DOMAIN showing' : i \in DOMAIN showing \/ i = last
        BY <1>1, <4>0a, <4>1
      <4>5. Credits' <= NumBuffers - 1 /\ available_bufs' \in Nat /\ Credits' = Credits - 1
        BY <1>1, <2>3, <2>4, <3>2
      <4>6. \A i \in DOMAIN showing' : Age(i)' <= NumBuffers - Credits'
        <5> SUFFICES ASSUME NEW i \in DOMAIN showing' PROVE Age(i)' <= NumBuffers - Credits'
          OBVIOUS
        <5>1. CASE i \in DOMAIN showing
          <6>1. Age(i) <= NumBuffers - Credits /\ Age(i)' = Age(i) + 1 /\ Age(i) \in Nat
            BY <1>2, <3>3, <4>2, <5>1
          <6> QED BY <1>1, <4>5, <6>1
        <5>2. CASE i = last
          <6>1. Age(i)' = 1
            BY <4>3, <5>2
          <6> QED BY <1>1, <4>5, <6>1
        <5> QED BY <4>4, <5>1, <5>2
      <4>7. ASSUME NEW i \in DOMAIN showing', NEW j \in DOMAIN showing', i < j
            PROVE  Age(j)' < Age(i)'
        <5>1. i \in DOMAIN showing
          BY <1>1, <4>0a, <4>1, <4>7
        <5>2. CASE j \in DOMAIN showing
          BY <1>2, <4>2, <4>7, <5>1, <5>2 DEF PlinkInv
        <5>3. CASE j = last
          <6>1. Age(j)' = 1
            BY <4>3, <5>3
          <6>2. Age(i)' = Age(i) + 1 /\ Age(i) \in 1 .. NumBuffers
            BY <1>2, <4>2, <5>1
          <6> QED BY <1>1, <6>1, <6>2
        <5> QED BY <4>4, <5>2, <5>3
      <4>8. Credits' <= NumBuffers
        BY <1>1, <4>5
      <4>9. PlinkInv'
        BY <2>2, <3>2, <4>1, <4>5, <4>6, <4>7, <4>8 DEF PlinkInv
      <4> QED BY <3>3, <4>9
    <3> QED BY <3>4, <3>5
  <2>5. CASE ~(~Exits /\ Credits > 0)
    <3>1. available_bufs' = Credits /\ UNCHANGED <<sendid, showing>>
      BY <1>4, <2>5 DEF display_camera_frame, Credits
    <3>2. \A i : Age(i)' = Age(i)
      BY <3>1 DEF Age
    <3>3. PlinkInv'
      BY <1>1, <2>2, <2>3, <3>1, <3>2 DEF PlinkInv
    <3> QED BY <3>1, <3>3
  <2> QED BY <2>4, <2>5
<1> QED BY <1>3, <1>4

-----------------------------------------------------------------------------
(* Of the programs' calls only one sends a picture.                        *)
LEMMA StepsThatSend ==
  ASSUME Next
  PROVE  \/ display_camera_frame(app.format) \/ Receiver \/ UNCHANGED plinkVars
<1>1. ASSUME NEW t \in Thread, Step(t)
      PROVE  display_camera_frame(app.format) \/ UNCHANGED plinkVars
  <2>1. ASSUME \/ Nothing(t) \/ Fails(t) \/ HalCall(t) \/ Spawn(t) \/ Join(t)
               \/ Quit(t) \/ Context(t) \/ Given(t) \/ While(t)
        PROVE  UNCHANGED plinkVars
    BY <2>1 DEF Nothing, Fails, HalCall, Spawn, Join, Quit, Context, Given, While
  <2>2. ASSUME \/ Event(t) \/ Poll(t) \/ Count(t) \/ Get(t) \/ Put(t) \/ Malloc(t)
               \/ Route(t) \/ Peek(t) \/ Dequeue(t) \/ FreeItem(t)
        PROVE  UNCHANGED plinkVars
    BY <2>2 DEF Event, Poll, Count, Get, Put, Malloc, Route, Peek, Dequeue, FreeItem
  <2>3. ASSUME Display(t)
        PROVE  display_camera_frame(app.format) \/ UNCHANGED plinkVars
    BY <2>3 DEF Display
  <2> QED BY <1>1, <2>1, <2>2, <2>3 DEF Step
<1>2. ASSUME CameraAppsNext
      PROVE  \/ display_camera_frame(app.format) \/ Receiver \/ UNCHANGED plinkVars
  BY <1>1, <1>2 DEF CameraAppsNext, Frame, News, Viewer
<1>3. CASE Camera_demo
  BY <1>2, <1>3 DEF Camera_demo
<1>4. CASE G2d_demo
  BY <1>4 DEF G2d_demo, cameraAppVars
<1>5. CASE UNCHANGED vars
  BY <1>5 DEF vars, cameraAppVars
<1> QED BY <1>3, <1>4, <1>5 DEF Next

LEMMA NextPlink ==
  ASSUME PlinkInv, [Next]_vars
  PROVE  /\ PlinkInv'
         /\ [sendid' # sendid => \A i \in DOMAIN showing : showing[i] # sendid]_plinkVars
<1>1. CASE display_camera_frame(app.format)
  BY <1>1, SendKeepsOrder
<1>2. CASE Receiver
  BY <1>2, ReceiverKeepsOrder DEF Receiver
<1>3. CASE UNCHANGED plinkVars
  BY <1>3 DEF plinkVars, PlinkInv, Credits, Read, Age
<1>4. CASE UNCHANGED vars
  BY <1>3, <1>4 DEF vars, cameraAppVars
<1> QED BY <1>1, <1>2, <1>3, <1>4, StepsThatSend

(* A camera's picture is never put into a buffer that the process that     *)
(* displays has or will get: for every number of buffers, whatever is sent *)
(* in vain, and whenever the receiver returns them or leaves.              *)
THEOREM BuffersAreSentInTurn == Spec => BufferNotOverwritten
<1>1. Init => PlinkInv
  BY InitPlink DEF Init, CameraAppsInit
<1>2. PlinkInv /\ [Next]_vars =>
        PlinkInv' /\ [sendid' # sendid => \A i \in DOMAIN showing : showing[i] # sendid]_plinkVars
  BY NextPlink
<1> QED BY <1>1, <1>2, PTL DEF Spec, BufferNotOverwritten

-----------------------------------------------------------------------------
(* The calls of the programs that use the camera: what is open, by the     *)
(* place the main thread is at.                                            *)

Main == "main"
Workers == {"w0", "w1"}

(* A span: rows of the setup, whole tables, rows of the end.               *)
Span(setup, whole, finish) == [setup |-> setup, whole |-> whole, finish |-> finish]
Nowhere == Span({}, {}, {})
In(p, s) ==
  \/ p.table \in s.whole
  \/ p.table = "setup" /\ p.at \in s.setup
  \/ p.table = "finish" /\ p.at \in s.finish

(* camera_demo4 has the calls in the threads it creates.                   *)
OneCaller ==
  {"cam_demo_simple", "camera_test1", "camera_demo1", "camera_demo2", "cam_demo_ir",
   "cam_demo_multi"}

(* The camera a thread is for, and the channels of it the program uses.    *)
Cam(t) == IF app.name = "cam_demo_multi" /\ t = "w1" THEN 1 ELSE 0
Used(c) ==
  IF app.name \in {"camera_demo2", "cam_demo_ir"} \/ c = 1 THEN {"channel0", "channel1"}
  ELSE {"channel0"}

(* Where camera c is open, and where its event handle lives.               *)
Open(c) ==
  CASE app.name = "cam_demo_simple" /\ c = 0 -> Span(3 .. 9, {"loop"}, 1 .. 5)
    [] app.name = "camera_test1" /\ c = 0 -> Span(3 .. 8, {"loop"}, 1 .. 5)
    [] app.name = "camera_demo1" /\ c = 0 -> Span(3 .. 8, {"loop"}, {})
    [] app.name = "camera_demo2" /\ c = 0 -> Span(4 .. 15, {"loop"}, {})
    [] app.name = "cam_demo_ir" /\ c = 0 -> Span(4 .. 14, {"loop"}, 1 .. 12)
    [] app.name = "cam_demo_multi" -> Span(IF c = 0 THEN 3 .. 20 ELSE 11 .. 20, {"loop"}, {})
    [] OTHER -> Nowhere

Live(c) ==
  CASE app.name = "cam_demo_simple" /\ c = 0 -> Span(7 .. 9, {"loop"}, 1 .. 3)
    [] app.name = "camera_test1" /\ c = 0 -> Span(6 .. 8, {"loop"}, 1 .. 3)
    [] app.name = "camera_demo1" /\ c = 0 -> Span(6 .. 8, {"loop"}, {})
    [] app.name = "camera_demo2" /\ c = 0 -> Span(11 .. 15, {"loop"}, {})
    [] app.name = "cam_demo_ir" /\ c = 0 -> Span(7 .. 14, {"loop"}, 1 .. 10)
    [] app.name = "cam_demo_multi" -> Span(IF c = 0 THEN 5 .. 20 ELSE 14 .. 20, {"loop"}, {})
    [] OTHER -> Nowhere

(* Where channel n of c is open and does not run, and where it is not      *)
(* closed.                                                                 *)
Stopped(c, n) ==
  IF n \notin Used(c) THEN Nowhere
  ELSE CASE app.name = "cam_demo_simple" /\ c = 0 -> Span(5 .. 9, {}, 2 .. 4)
         [] app.name = "camera_test1" /\ c = 0 -> Span(5 .. 8, {}, 2 .. 4)
         [] app.name = "camera_demo1" /\ c = 0 -> Span(5 .. 8, {}, {})
         [] app.name = "camera_demo2" /\ c = 0 ->
              Span(IF n = "channel0" THEN 9 .. 14 ELSE 10 .. 15, {}, {})
         [] app.name = "cam_demo_ir" /\ c = 0 ->
              IF n = "channel0" THEN Span(5 .. 13, {}, 2 .. 11) ELSE Span(6 .. 14, {}, 3 .. 12)
         [] app.name = "cam_demo_multi" ->
              Span(IF c = 0 THEN 4 .. 8 ELSE IF n = "channel0" THEN 12 .. 19 ELSE 13 .. 20,
                   {}, {})
         [] OTHER -> Nowhere

There(c, n) ==
  IF n \notin Used(c) THEN Nowhere
  ELSE CASE app.name = "cam_demo_simple" /\ c = 0 -> Span(5 .. 9, {"loop"}, 1 .. 4)
         [] app.name = "camera_test1" /\ c = 0 -> Span(5 .. 8, {"loop"}, 1 .. 4)
         [] app.name = "camera_demo1" /\ c = 0 -> Span(5 .. 8, {"loop"}, {})
         [] app.name = "camera_demo2" /\ c = 0 ->
              Span(IF n = "channel0" THEN 9 .. 15 ELSE 10 .. 15, {"loop"}, {})
         [] app.name = "cam_demo_ir" /\ c = 0 ->
              IF n = "channel0" THEN Span(5 .. 14, {"loop"}, 1 .. 11)
              ELSE Span(6 .. 14, {"loop"}, 1 .. 12)
         [] app.name = "cam_demo_multi" ->
              Span(IF c = 0 THEN 4 .. 20 ELSE IF n = "channel0" THEN 12 .. 20 ELSE 13 .. 20,
                   {"loop"}, {})
         [] OTHER -> Nowhere

(* Where a channel of c may have run already, and where thread w may run.  *)
AfterSetup == {"loop", "finish", "finish1"}
Ran(c) ==
  CASE app.name = "cam_demo_multi" ->
         IF c = 0 THEN Span(9 .. 20, AfterSetup \cup {"two_err1", "one_err1"}, {})
         ELSE Span({20}, {"loop"}, {})
    [] app.name = "camera_demo2" -> Span({15}, AfterSetup, {})
    [] app.name = "cam_demo_ir" -> Span({14}, AfterSetup, {})
    [] OTHER -> Span({}, AfterSetup, {})

MayRun(w) ==
  CASE app.name = "cam_demo_ir" /\ w = "w0" -> Span(10 .. 14, {"loop"}, 1 .. 5)
    [] app.name = "cam_demo_ir" /\ w = "w1" -> Span(12 .. 14, {"loop"}, 1 .. 6)
    [] app.name = "cam_demo_multi" /\ w \in {"w0", "w1"} ->
         Span(IF w = "w0" THEN 8 .. 20 ELSE 18 .. 20,
              AfterSetup \cup {"two_err1", "one_err1"}, {})
    [] OTHER -> Nowhere

(* The rows cam_demo_multi never gets to: the main thread waits for ever   *)
(* for the first camera's thread.                                          *)
Unreached(p) ==
  /\ app.name = "cam_demo_multi"
  /\ \/ p.table = "finish" /\ p.at > 2
     \/ p.table = "finish1" /\ p.at > 1

-----------------------------------------------------------------------------
(* How the spans follow the tables.                                        *)

RowAt(t, p) == Code(t)[p.table][p.at]
IsPlace(t, p) ==
  /\ t \in DOMAIN Programs[app.name]
  /\ p = Place(p.table, p.at)
  /\ p.table \in DOMAIN Code(t)
  /\ p.at \in DOMAIN Code(t)[p.table]

(* From p to q with the call r: only a call that gives it leads to where   *)
(* it holds, and a call that takes it to where it need not.                *)
Must(p, q, s, gives, takes) ==
  /\ In(q, s) /\ ~In(p, s) => gives
  /\ takes => ~In(q, s)

FlowsOpen(p, q, r) ==
  \A c \in Camera :
    Must(p, q, Open(c), r.op = "open" /\ r.c = c, r.op = "close" /\ r.c = c)
FlowsLive(p, q, r) ==
  \A c \in Camera :
    Must(p, q, Live(c), r.op = "create_event" /\ r.c = c, r.op = "destroy_event" /\ r.c = c)
FlowsStopped(p, q, r) ==
  \A c \in Camera, n \in Channel :
    Must(p, q, Stopped(c, n),
         r.op \in {"channel_open", "stop"} /\ r.c = c /\ r.n = n,
         r.c = c /\ (r.op = "close_opened" \/ (r.op \in {"start", "channel_close"} /\ r.n = n)))
FlowsThere(p, q, r) ==
  \A c \in Camera, n \in Channel :
    Must(p, q, There(c, n),
         r.op \in {"channel_open", "start", "stop"} /\ r.c = c /\ r.n = n,
         r.c = c /\ (r.op = "close_opened" \/ (r.op = "channel_close" /\ r.n = n)))
FlowsRan(p, q, r) ==
  \A c \in Camera : In(p, Ran(c)) \/ (r.op = "start" /\ r.c = c) => In(q, Ran(c))
FlowsMayRun(p, q, r) ==
  \A w \in Workers :
    /\ In(p, MayRun(w)) /\ ~(r.op = "join" /\ r.n = w) => In(q, MayRun(w))
    /\ In(p, MayRun(w)) /\ In(q, Ran(Cam(w))) /\ ~In(p, Ran(Cam(w))) =>
         \A n \in Used(Cam(w)) : In(q, There(Cam(w), n))

Flows(p, q, r) ==
  q # Ended =>
    /\ FlowsOpen(p, q, r) /\ FlowsLive(p, q, r)
    /\ FlowsStopped(p, q, r) /\ FlowsThere(p, q, r)
    /\ FlowsRan(p, q, r) /\ FlowsMayRun(p, q, r)

(* A call that the HAL is not told of.                                     *)
Idle == Do("none", 0, "none")
HalOps ==
  {"open", "close", "channel_open", "start", "stop", "channel_close", "close_opened",
   "create_event", "destroy_event", "subscribe", "unsubscribe"}

(* A call is made where it finds what it needs.                            *)
NeedsHal(p, r) ==
  /\ r.c \in Camera
  /\ r.op = "start" =>
       /\ r.n \in Channel
       /\ In(p, Open(r.c)) /\ In(p, Live(r.c)) /\ In(p, Stopped(r.c, r.n))
  /\ r.op = "channel_close" => r.n \in Channel /\ In(p, Stopped(r.c, r.n))
  /\ r.op \in {"event", "subscribe", "unsubscribe", "destroy_event"} => In(p, Live(r.c))
  /\ r.op = "subscribe" => r.n \in Used(r.c) \cup {"camera"}

(* And not under the hands of a thread.                                    *)
NeedsThreads(p, q, r) ==
  \A w \in Workers :
    /\ r.op = "spawn" /\ r.n = w =>
         In(q, MayRun(w)) /\ In(p, Live(Cam(w))) /\ ~In(q, Ran(Cam(w)))
    /\ r.op = "destroy_event" /\ In(p, MayRun(w)) => r.c # Cam(w)
    /\ r.op \in {"channel_close", "close_opened"} /\ r.c = Cam(w) /\ In(p, MayRun(w)) =>
         ~In(q, Ran(Cam(w)))
    /\ r.op \in {"destroy_event", "channel_close", "close"} /\ p.table = "finish"
         /\ In(p, MayRun(w)) => r.c # Cam(w)

(* The rows of a loop are about frames, those of the other tables are not, *)
(* and there is nowhere to go to but where the source goes to.             *)
InFrame == {"get", "dump", "display", "put"}
NeedsTable(p, r) ==
  /\ p.table # "loop" =>
       r.op \notin InFrame \cup {"event", "count", "while", "malloc", "route", "poll",
                                 "peek", "dequeue", "free"}
  /\ p.table = "loop" =>
       r.op \notin HalOps \cup {"spawn", "join", "quit", "ctx", "given", "poll", "peek",
                                "dequeue", "free"}
  /\ r.op \in {"spawn", "join", "quit"} => r.n \in Workers
  /\ r.op = "spawn" => r.n \in DOMAIN Programs[app.name] /\ p.table = "setup"
  /\ r.op = "quit" => app.name = "cam_demo_ir"
  /\ r.op = "given" => p.table \in {"finish", "finish1"} /\ p.at = 1
  /\ r.op \in {"given", "ctx"} => app.name = "cam_demo_multi"
  /\ r.op = "ctx" => r.n \in {"live", "freed"}
  /\ r.to # "none" =>
       IF app.name # "cam_demo_multi" THEN r.to = "exit"
       ELSE /\ p.table = "setup"
            /\ \/ p.at \in 2 .. 7 /\ r.to \in {"two_err0", "one_err0"}
               \/ p.at \in 10 .. 18 /\ r.to \in {"two_err1", "one_err1"}

-----------------------------------------------------------------------------
(* The tables of the programs, row by row.                                 *)

Is(s, ops) ==
  /\ Len(s) = Len(ops) /\ DOMAIN s = 1 .. Len(ops)
  /\ \A i \in 1 .. Len(ops) : s[i] = ops[i]

LEMMA Rows_each ==
  ASSUME NEW op, NEW to
  PROVE  /\ Each(op, 0, to) = <<Or(op, 0, "channel0", to)>>
         /\ Each(op, 1, to) = <<Or(op, 1, "channel0", to), Or(op, 1, "channel1", to)>>
BY AppsAssumption DEF Each, parseParams, AppsAssumption

LEMMA Joined ==
  ASSUME NEW S, NEW s \in Seq(S), NEW t \in Seq(S)
  PROVE  /\ s \o t \in Seq(S) /\ Len(s \o t) = Len(s) + Len(t)
         /\ DOMAIN (s \o t) = 1 .. Len(s) + Len(t)
         /\ \A i \in 1 .. Len(s) + Len(t) :
              (s \o t)[i] = IF i <= Len(s) THEN s[i] ELSE t[i - Len(s)]
OBVIOUS

LEMMA Rows_simple_setup ==
  app.name = "cam_demo_simple" =>
    Is(Code(Main)["setup"],
       <<Or("find", 0, "none", "exit"), Do("open", 0, "none"),
         Or("query", 0, "channel0", "exit"),
         Or("channel_open", 0, "channel0", "exit"), Or("plink", 0, "none", "exit"),
         Do("create_event", 0, "none"), Do("subscribe", 0, "camera"),
         Do("subscribe", 0, "channel0"), Do("start", 0, "channel0")>>)
BY DEF Is, Main, Code, Programs, simple_find, simple_open, simple_channel, Created

LEMMA Rows_simple_loop ==
  app.name = "cam_demo_simple" =>
    Is(Code(Main)["loop"],
       <<Do("while", 0, "none"), Do("event", 0, "none"), Do("count", 0, "channel0"),
         Do("get", 0, "channel0"), Or("dump", 0, "none", "exit"),
         Do("display", 0, "none"), Do("put", 0, "channel0")>>)
BY DEF Is, Main, Code, Programs, simple_loop, Frames, simple_dump_camera_frame

LEMMA Rows_simple_finish ==
  app.name = "cam_demo_simple" =>
    Is(Code(Main)["finish"],
       <<Do("stop", 0, "channel0"), Do("unsubscribe", 0, "channel0"),
         Do("destroy_event", 0, "none"), Do("channel_close", 0, "channel0"),
         Do("close", 0, "none")>>)
BY DEF Is, Main, Code, Programs, simple_finish, Closed

LEMMA Tables_simple ==
  app.name = "cam_demo_simple" =>
    /\ app.name \in DOMAIN Programs
    /\ DOMAIN Programs[app.name] = {"main"}
    /\ DOMAIN Code(Main) = {"setup", "loop", "finish"}
BY DEF Main, Code, Programs

LEMMA Rows_test1_setup ==
  app.name = "camera_test1" =>
    Is(Code(Main)["setup"],
       <<Or("options", 0, "none", "exit"), Do("open", 0, "none"),
         Or("query", 0, "channel0", "exit"), Do("channel_open", 0, "channel0"),
         Do("create_event", 0, "none"), Do("subscribe", 0, "camera"),
         Do("subscribe", 0, "channel0"), Do("start", 0, "channel0")>>)
BY DEF Is, Main, Code, Programs, test1_open, test1_channel, Created

LEMMA Rows_test1_loop ==
  app.name = "camera_test1" =>
    Is(Code(Main)["loop"],
       <<Do("while", 0, "none"), Do("event", 0, "none"), Do("count", 0, "channel0"),
         Do("get", 0, "channel0"), Do("dump", 0, "none"), Do("put", 0, "channel0")>>)
BY DEF Is, Main, Code, Programs, test1_loop, Frames, test1_save

LEMMA Rows_test1_finish ==
  app.name = "camera_test1" =>
    Is(Code(Main)["finish"],
       <<Do("stop", 0, "channel0"), Do("unsubscribe", 0, "channel0"),
         Do("destroy_event", 0, "none"), Do("channel_close", 0, "channel0"),
         Do("close", 0, "none")>>)
BY DEF Is, Main, Code, Programs, test1_finish, simple_finish, Closed

LEMMA Tables_test1 ==
  app.name = "camera_test1" =>
    /\ app.name \in DOMAIN Programs
    /\ DOMAIN Programs[app.name] = {"main"}
    /\ DOMAIN Code(Main) = {"setup", "loop", "finish"}
BY DEF Main, Code, Programs

LEMMA Rows_demo1_setup ==
  app.name = "camera_demo1" =>
    Is(Code(Main)["setup"],
       <<Or("find", 0, "none", "exit"), Do("open", 0, "none"),
         Or("query", 0, "channel0", "exit"), Do("channel_open", 0, "channel0"),
         Do("create_event", 0, "none"), Do("subscribe", 0, "camera"),
         Do("subscribe", 0, "channel0"), Do("start", 0, "channel0")>>)
BY DEF Is, Main, Code, Programs, demo1_open, demo1_channel, test1_channel, Created

LEMMA Rows_demo1_loop ==
  app.name = "camera_demo1" =>
    Is(Code(Main)["loop"],
       <<Do("event", 0, "none"), Do("count", 0, "channel0"),
         Do("get", 0, "channel0"), Do("put", 0, "channel0")>>)
BY DEF Is, Main, Code, Programs, demo1_loop, Frames

LEMMA Tables_demo1 ==
  app.name = "camera_demo1" =>
    /\ app.name \in DOMAIN Programs
    /\ DOMAIN Programs[app.name] = {"main"}
    /\ DOMAIN Code(Main) = {"setup", "loop"}
BY DEF Main, Code, Programs

LEMMA Rows_demo2_setup ==
  app.name = "camera_demo2" =>
    Is(Code(Main)["setup"],
       <<Or("find", 0, "none", "exit"), Do("caps", 0, "none"),
         Do("open", 0, "none"), Do("modes", 0, "none"), Do("set_mode", 0, "none"),
         Do("properties", 0, "none"), Or("query", 0, "channel0", "exit"),
         Do("channel_open", 0, "channel0"), Do("channel_open", 0, "channel1"),
         Do("create_event", 0, "none"), Do("subscribe", 0, "camera"),
         Do("subscribe", 0, "channel0"), Do("subscribe", 0, "channel1"),
         Do("start", 0, "channel0"), Do("start", 0, "channel1")>>)
BY DEF Is, Main, Code, Programs, demo2_find, demo2_settings, demo2_channels, Created

LEMMA Rows_demo2_loop ==
  app.name = "camera_demo2" =>
    Is(Code(Main)["loop"],
       <<Do("event", 0, "none"), Do("count", 0, "none"), Do("get", 0, "none"),
         Do("dump", 0, "none"), Do("put", 0, "none")>>)
BY DEF Is, Main, Code, Programs, demo2_loop, Frames, demo2_dump_camera_meta

LEMMA Tables_demo2 ==
  app.name = "camera_demo2" =>
    /\ app.name \in DOMAIN Programs
    /\ DOMAIN Programs[app.name] = {"main"}
    /\ DOMAIN Code(Main) = {"setup", "loop"}
BY DEF Main, Code, Programs

LEMMA Rows_demo4_setup ==
  app.name = "camera_demo4" =>
    Is(Code(Main)["setup"],
       <<Or("find", 0, "none", "exit"), Do("open", 0, "none"),
         Do("spawn", 0, "w0")>>)
BY DEF Is, Main, Code, Programs, demo4_open

LEMMA Rows_demo4_loop ==
  app.name = "camera_demo4" =>
    Is(Code(Main)["loop"],
       <<Do("spawn", 0, "w1")>>)
BY DEF Is, Main, Code, Programs, demo4_loop

LEMMA Rows_demo4_w0_setup ==
  app.name = "camera_demo4" =>
    Is(Code("w0")["setup"],
       <<Or("channel_open", 0, "channel1", "ended"), Do("create_event", 0, "none"),
         Do("subscribe", 0, "camera"), Do("subscribe", 0, "channel0")>>)
BY DEF Is, Code, Programs, demo4_channel_thread, Created

LEMMA Rows_demo4_w0_loop ==
  app.name = "camera_demo4" =>
    Is(Code("w0")["loop"],
       <<Do("while", 0, "none"), Do("poll", 0, "none"), Do("count", 0, "channel1"),
         Do("get", 0, "channel1"), Do("put", 0, "channel1")>>)
BY DEF Is, Code, Programs, demo4_channel_thread

LEMMA Rows_demo4_w1_setup ==
  app.name = "camera_demo4" =>
    Is(Code("w1")["setup"],
       <<Or("channel_open", 0, "channel1", "ended"), Do("create_event", 0, "none"),
         Do("subscribe", 0, "camera"), Do("subscribe", 0, "channel0")>>)
BY DEF Is, Code, Programs, demo4_channel_thread, Created

LEMMA Rows_demo4_w1_loop ==
  app.name = "camera_demo4" =>
    Is(Code("w1")["loop"],
       <<Do("while", 0, "none"), Do("poll", 0, "none"), Do("count", 0, "channel1"),
         Do("get", 0, "channel1"), Do("put", 0, "channel1")>>)
BY DEF Is, Code, Programs, demo4_channel_thread

LEMMA Tables_demo4 ==
  app.name = "camera_demo4" =>
    /\ app.name \in DOMAIN Programs
    /\ DOMAIN Programs[app.name] = {"main", "w0", "w1"}
    /\ DOMAIN Code(Main) = {"setup", "loop"}
    /\ DOMAIN Code("w0") = {"setup", "loop"}
    /\ DOMAIN Code("w1") = {"setup", "loop"}
BY DEF Main, Code, Programs, demo4_channel_thread

LEMMA Rows_ir_setup ==
  app.name = "cam_demo_ir" =>
    Is(Code(Main)["setup"],
       <<Or("options", 0, "none", "exit"), Or("find", 0, "none", "exit"),
         Do("open", 0, "none"), Do("channel_open", 0, "channel0"),
         Do("channel_open", 0, "channel1"), Do("create_event", 0, "none"),
         Do("subscribe", 0, "camera"), Do("subscribe", 0, "channel0"),
         Do("spawn", 0, "w0"), Do("subscribe", 0, "channel1"), Do("spawn", 0, "w1"),
         Do("dsp", 0, "none"), Do("start", 0, "channel0"),
         Do("start", 0, "channel1")>>)
BY DEF Is, Main, Code, Programs, ir_open, ir_channels, ir_start, Created

LEMMA Rows_ir_loop ==
  app.name = "cam_demo_ir" =>
    Is(Code(Main)["loop"],
       <<Do("malloc", 0, "none"), Do("event", 0, "none"), Do("route", 0, "none"),
         Do("while", 0, "none")>>)
BY DEF Is, Main, Code, Programs, ir_loop

LEMMA Rows_ir_finish ==
  app.name = "cam_demo_ir" =>
    Is(Code(Main)["finish"],
       <<Do("stop", 0, "channel0"), Do("stop", 0, "channel1"), Do("quit", 0, "w0"),
         Do("quit", 0, "w1"), Do("join", 0, "w0"), Do("join", 0, "w1"),
         Do("unsubscribe", 0, "channel0"), Do("unsubscribe", 0, "channel1"),
         Do("unsubscribe", 0, "camera"), Do("destroy_event", 0, "none"),
         Do("channel_close", 0, "channel0"), Do("close", 0, "none")>>)
BY DEF Is, Main, Code, Programs, ir_finish, Stops, Quits, Joins, ir_close, Closed

LEMMA Rows_ir_w0_loop ==
  app.name = "cam_demo_ir" =>
    Is(Code("w0")["loop"],
       <<Do("peek", 0, "channel0"), Do("dequeue", 0, "channel0"),
         Do("count", 0, "channel0"), Do("get", 0, "channel0"),
         Do("put", 0, "channel0"), Do("free", 0, "channel0")>>)
BY DEF Is, Code, Programs, Worker, camera_channle_process

LEMMA Rows_ir_w1_loop ==
  app.name = "cam_demo_ir" =>
    Is(Code("w1")["loop"],
       <<Do("peek", 0, "channel1"), Do("dequeue", 0, "channel1"),
         Do("count", 0, "channel1"), Do("get", 0, "channel1"),
         Do("put", 0, "channel1"), Do("free", 0, "channel1")>>)
BY DEF Is, Code, Programs, Worker, camera_channle_process

LEMMA Tables_ir ==
  app.name = "cam_demo_ir" =>
    /\ app.name \in DOMAIN Programs
    /\ DOMAIN Programs[app.name] = {"main", "w0", "w1"}
    /\ DOMAIN Code(Main) = {"setup", "loop", "finish"}
    /\ DOMAIN Code("w0") = {"loop"}
    /\ DOMAIN Code("w1") = {"loop"}
BY DEF Main, Code, Programs, Worker

LEMMA Rows_multi_setup ==
  app.name = "cam_demo_multi" =>
    Is(Code(Main)["setup"],
       <<Do("ctx", 0, "live"), Or("open", 0, "none", "one_err0"),
         Or("channel_open", 0, "channel0", "two_err0"),
         Or("create_event", 0, "none", "two_err0"),
         Or("subscribe", 0, "camera", "two_err0"),
         Or("subscribe", 0, "channel0", "two_err0"),
         Or("spawn", 0, "w0", "two_err0"), Do("start", 0, "channel0"),
         Do("ctx", 1, "live"), Or("open", 1, "none", "one_err1"),
         Or("channel_open", 1, "channel0", "two_err1"),
         Or("channel_open", 1, "channel1", "two_err1"),
         Or("create_event", 1, "none", "two_err1"),
         Or("subscribe", 1, "camera", "two_err1"),
         Or("subscribe", 1, "channel0", "two_err1"),
         Or("subscribe", 1, "channel1", "two_err1"),
         Or("spawn", 1, "w1", "two_err1"), Or("dsp", 1, "none", "two_err1"),
         Do("start", 1, "channel0"), Do("start", 1, "channel1")>>)
<1> DEFINE S ==
             {Do("ctx", 0, "live"), Or("open", 0, "none", "one_err0"),
              Or("channel_open", 0, "channel0", "two_err0"),
              Or("create_event", 0, "none", "two_err0"),
              Or("subscribe", 0, "camera", "two_err0"),
              Or("subscribe", 0, "channel0", "two_err0"),
              Or("spawn", 0, "w0", "two_err0"), Do("start", 0, "channel0"),
              Do("ctx", 1, "live"), Or("open", 1, "none", "one_err1"),
              Or("channel_open", 1, "channel0", "two_err1"),
              Or("channel_open", 1, "channel1", "two_err1"),
              Or("create_event", 1, "none", "two_err1"),
              Or("subscribe", 1, "camera", "two_err1"),
              Or("subscribe", 1, "channel0", "two_err1"),
              Or("subscribe", 1, "channel1", "two_err1"),
              Or("spawn", 1, "w1", "two_err1"), Or("dsp", 1, "none", "two_err1"),
              Do("start", 1, "channel0"), Do("start", 1, "channel1")}
           a == multi_camera_open(0, "w0", "one_err0", "two_err0") \o camera_start_all(0)
           b == multi_camera_open(1, "w1", "one_err1", "two_err1")
           d == multi_dsp(1, "two_err1")
           e == camera_start_all(1)
<1>1. app.name = "cam_demo_multi" => Code(Main)["setup"] = a \o b \o d \o e
  BY DEF Main, Code, Programs
<1>2. a = <<Do("ctx", 0, "live"), Or("open", 0, "none", "one_err0")>>
            \o <<Or("channel_open", 0, "channel0", "two_err0")>>
            \o <<Or("create_event", 0, "none", "two_err0"),
                 Or("subscribe", 0, "camera", "two_err0")>>
            \o <<Or("subscribe", 0, "channel0", "two_err0")>>
            \o <<Or("spawn", 0, "w0", "two_err0")>>
            \o <<Do("start", 0, "channel0")>>
  BY Rows_each, Zenon DEF multi_camera_open, camera_start_all, Do
<1>3. b = <<Do("ctx", 1, "live"), Or("open", 1, "none", "one_err1")>>
            \o <<Or("channel_open", 1, "channel0", "two_err1"),
                 Or("channel_open", 1, "channel1", "two_err1")>>
            \o <<Or("create_event", 1, "none", "two_err1"),
                 Or("subscribe", 1, "camera", "two_err1")>>
            \o <<Or("subscribe", 1, "channel0", "two_err1"),
                 Or("subscribe", 1, "channel1", "two_err1")>>
            \o <<Or("spawn", 1, "w1", "two_err1")>>
  BY Rows_each, Zenon DEF multi_camera_open
<1>4. e = <<Do("start", 1, "channel0"), Do("start", 1, "channel1")>>
  BY Rows_each, Zenon DEF camera_start_all, Do
<1>5. d = <<Or("dsp", 1, "none", "two_err1")>>
  BY DEF multi_dsp
<1> HIDE DEF a, b, d, e
<1>6. Is(a, <<Do("ctx", 0, "live"), Or("open", 0, "none", "one_err0"),
              Or("channel_open", 0, "channel0", "two_err0"),
              Or("create_event", 0, "none", "two_err0"),
              Or("subscribe", 0, "camera", "two_err0"),
              Or("subscribe", 0, "channel0", "two_err0"),
              Or("spawn", 0, "w0", "two_err0"), Do("start", 0, "channel0")>>)
  BY <1>2 DEF Is
<1>7. Is(b, <<Do("ctx", 1, "live"), Or("open", 1, "none", "one_err1"),
              Or("channel_open", 1, "channel0", "two_err1"),
              Or("channel_open", 1, "channel1", "two_err1"),
              Or("create_event", 1, "none", "two_err1"),
              Or("subscribe", 1, "camera", "two_err1"),
              Or("subscribe", 1, "channel0", "two_err1"),
              Or("subscribe", 1, "channel1", "two_err1"),
              Or("spawn", 1, "w1", "two_err1")>>)
  BY <1>3 DEF Is
<1>8. a \in Seq(S) /\ Len(a) = 8
  BY <1>2
<1>9. b \in Seq(S) /\ Len(b) = 9
  BY <1>3
<1>11. d \in Seq(S) /\ Len(d) = 1 /\ e \in Seq(S) /\ Len(e) = 2
  BY <1>4, <1>5
<1> HIDE DEF S
<1> DEFINE ab == a \o b
           abd == ab \o d
           x == abd \o e
<1>12. /\ ab \in Seq(S) /\ Len(ab) = 17
       /\ \A i \in 1 .. 17 : ab[i] = IF i <= 8 THEN a[i] ELSE b[i - 8]
  <2>1. /\ ab \in Seq(S) /\ Len(ab) = Len(a) + Len(b)
        /\ \A i \in 1 .. Len(a) + Len(b) :
             ab[i] = IF i <= Len(a) THEN a[i] ELSE b[i - Len(a)]
    BY <1>8, <1>9, Joined, Zenon
  <2> HIDE DEF ab
  <2> QED BY <1>8, <1>9, <2>1
<1> HIDE DEF ab
<1>13. /\ abd \in Seq(S) /\ Len(abd) = 18
       /\ \A i \in 1 .. 18 : abd[i] = IF i <= 17 THEN ab[i] ELSE d[i - 17]
  <2>1. /\ abd \in Seq(S) /\ Len(abd) = Len(ab) + Len(d)
        /\ \A i \in 1 .. Len(ab) + Len(d) :
             abd[i] = IF i <= Len(ab) THEN ab[i] ELSE d[i - Len(ab)]
    BY <1>11, <1>12, Joined, ZenonT(40)
  <2> HIDE DEF abd
  <2> QED BY <1>11, <1>12, <2>1
<1> HIDE DEF abd
<1>14. /\ Len(x) = 20 /\ DOMAIN x = 1 .. 20
       /\ \A i \in 1 .. 20 : x[i] = IF i <= 18 THEN abd[i] ELSE e[i - 18]
  <2>1. /\ Len(x) = Len(abd) + Len(e) /\ DOMAIN x = 1 .. Len(abd) + Len(e)
        /\ \A i \in 1 .. Len(abd) + Len(e) :
             x[i] = IF i <= Len(abd) THEN abd[i] ELSE e[i - Len(abd)]
    BY <1>11, <1>13, Joined, ZenonT(40)
  <2> HIDE DEF x
  <2> QED BY <1>11, <1>13, <2>1
<1>15. app.name = "cam_demo_multi" => Code(Main)["setup"] = x
  BY <1>1 DEF x, abd, ab
<1> HIDE DEF x
<1>16. Is(d, <<Or("dsp", 1, "none", "two_err1")>>)
  BY <1>5 DEF Is
<1>17. Is(e, <<Do("start", 1, "channel0"), Do("start", 1, "channel1")>>)
  BY <1>4 DEF Is
<1> QED BY <1>6, <1>7, <1>12, <1>13, <1>14, <1>15, <1>16, <1>17, SMTT(60) DEF Is

LEMMA Rows_multi_loop ==
  app.name = "cam_demo_multi" =>
    Is(Code(Main)["loop"],
       <<Do("while", 0, "none")>>)
BY DEF Is, Main, Code, Programs

LEMMA Rows_multi_two_err0 ==
  app.name = "cam_demo_multi" =>
    Is(Code(Main)["two_err0"],
       <<Do("close_opened", 0, "none"), Do("close", 0, "none")>>)
BY DEF Is, Main, Code, Programs, multi_two_err

LEMMA Rows_multi_one_err0 ==
  app.name = "cam_demo_multi" =>
    Is(Code(Main)["one_err0"],
       <<Do("ctx", 0, "freed")>>)
BY DEF Is, Main, Code, Programs, multi_one_err

LEMMA Rows_multi_two_err1 ==
  app.name = "cam_demo_multi" =>
    Is(Code(Main)["two_err1"],
       <<Do("close_opened", 1, "none"), Do("close", 1, "none")>>)
BY DEF Is, Main, Code, Programs, multi_two_err

LEMMA Rows_multi_one_err1 ==
  app.name = "cam_demo_multi" =>
    Is(Code(Main)["one_err1"],
       <<Do("ctx", 1, "freed")>>)
BY DEF Is, Main, Code, Programs, multi_one_err

LEMMA Rows_multi_finish ==
  app.name = "cam_demo_multi" =>
    Is(Code(Main)["finish"],
       <<Do("given", 0, "none"), Do("join", 0, "w0"),
         Do("unsubscribe", 0, "channel0"), Do("destroy_event", 0, "none"),
         Do("channel_close", 0, "channel0"), Do("close", 0, "none"),
         Do("ctx", 0, "freed")>>)
<1>1. parseParams[0] = <<"channel0">> /\ parseParams[1] = <<"channel0", "channel1">>
  BY AppsAssumption DEF parseParams, AppsAssumption
<1>2. Each("channel_close", 0, "none") =
        <<Do("channel_close", 0, "channel0")>>
  BY Rows_each, Zenon DEF Do
<1>3. camera_close(0, "w0") =
        <<Do("given", 0, "none"), Do("join", 0, "w0"),
          Do("unsubscribe", 0, parseParams[0][Len(parseParams[0])]),
          Do("destroy_event", 0, "none")>>
          \o <<Do("channel_close", 0, "channel0")>>
          \o <<Do("close", 0, "none"), Do("ctx", 0, "freed")>>
  BY <1>2, Zenon DEF camera_close
<1> QED BY <1>1, <1>3 DEF Is, Main, Code, Programs

LEMMA Rows_multi_finish1 ==
  app.name = "cam_demo_multi" =>
    Is(Code(Main)["finish1"],
       <<Do("given", 1, "none"), Do("join", 1, "w1"),
         Do("unsubscribe", 1, "channel1"), Do("destroy_event", 1, "none"),
         Do("channel_close", 1, "channel0"), Do("channel_close", 1, "channel1"),
         Do("close", 1, "none"), Do("ctx", 1, "freed")>>)
<1>1. parseParams[0] = <<"channel0">> /\ parseParams[1] = <<"channel0", "channel1">>
  BY AppsAssumption DEF parseParams, AppsAssumption
<1>2. Each("channel_close", 1, "none") =
        <<Do("channel_close", 1, "channel0"), Do("channel_close", 1, "channel1")>>
  BY Rows_each, Zenon DEF Do
<1>3. camera_close(1, "w1") =
        <<Do("given", 1, "none"), Do("join", 1, "w1"),
          Do("unsubscribe", 1, parseParams[1][Len(parseParams[1])]),
          Do("destroy_event", 1, "none")>>
          \o <<Do("channel_close", 1, "channel0"), Do("channel_close", 1, "channel1")>>
          \o <<Do("close", 1, "none"), Do("ctx", 1, "freed")>>
  BY <1>2, Zenon DEF camera_close
<1> QED BY <1>1, <1>3 DEF Is, Main, Code, Programs

LEMMA Rows_multi_w0_loop ==
  app.name = "cam_demo_multi" =>
    Is(Code("w0")["loop"],
       <<Do("while", 0, "none"), Do("event", 0, "none"), Do("count", 0, "none"),
         Do("get", 0, "none"), Do("dump", 0, "none"), Do("put", 0, "none")>>)
BY DEF Is, Code, Programs, Worker, camera_event_thread, Frames, multi_dump_camera_frame

LEMMA Rows_multi_w1_loop ==
  app.name = "cam_demo_multi" =>
    Is(Code("w1")["loop"],
       <<Do("while", 1, "none"), Do("event", 1, "none"), Do("count", 1, "none"),
         Do("get", 1, "none"), Do("dump", 1, "none"), Do("put", 1, "none")>>)
BY DEF Is, Code, Programs, Worker, camera_event_thread, Frames, multi_dump_camera_frame

LEMMA Tables_multi ==
  app.name = "cam_demo_multi" =>
    /\ app.name \in DOMAIN Programs
    /\ DOMAIN Programs[app.name] = {"main", "w0", "w1"}
    /\ DOMAIN Code(Main) =
         {"setup", "loop", "two_err0", "one_err0", "two_err1", "one_err1",
            "finish", "finish1"}
    /\ DOMAIN Code("w0") = {"loop"}
    /\ DOMAIN Code("w1") = {"loop"}
BY DEF Main, Code, Programs, Worker

-----------------------------------------------------------------------------
(* The spans of each program, and how they follow its tables.              *)

Follow(p) ==
  LET r == RowAt(Main, p)  q == After(Main, p) IN
  /\ Flows(p, q, r)
  /\ ~Unreached(p) => NeedsHal(p, r) /\ NeedsThreads(p, q, r)
  /\ NeedsTable(p, r)

LEMMA Spans_simple ==
  app.name = "cam_demo_simple" =>
    /\ Used(0) = {"channel0"}
    /\ Used(1) = {"channel0", "channel1"}
    /\ Cam("w0") = 0 /\ Cam("w1") = 0
    /\ Open(0) = Span(3 .. 9, {"loop"}, 1 .. 5)
    /\ Open(1) = Nowhere
    /\ Live(0) = Span(7 .. 9, {"loop"}, 1 .. 3)
    /\ Live(1) = Nowhere
    /\ Stopped(0, "channel0") = Span(5 .. 9, {}, 2 .. 4)
    /\ Stopped(0, "channel1") = Nowhere
    /\ \A n \in {"channel0", "channel1"} : Stopped(1, n) = Nowhere
    /\ There(0, "channel0") = Span(5 .. 9, {"loop"}, 1 .. 4)
    /\ There(0, "channel1") = Nowhere
    /\ \A n \in {"channel0", "channel1"} : There(1, n) = Nowhere
    /\ Ran(0) = Span({}, AfterSetup, {})
    /\ Ran(1) = Span({}, AfterSetup, {})
    /\ MayRun("w0") = Nowhere
    /\ MayRun("w1") = Nowhere
BY DEF Used, Cam, Open, Live, Stopped, There, Ran, MayRun

LEMMA Flow_simple_setup ==
  app.name = "cam_demo_simple" => \A i \in 1 .. 9 : Follow(Place("setup", i))
<1> SUFFICES ASSUME app.name = "cam_demo_simple"
             PROVE  \A i \in 1 .. 9 : Follow(Place("setup", i))
  OBVIOUS
<1> DEFINE p(i) == Place("setup", i)
           q(i) == IF i < 9 THEN Place("setup", i + 1) ELSE Place("loop", 1)
           r(i) == RowAt(Main, p(i))
<1>1. \A i \in 1 .. 9 : After(Main, p(i)) = q(i)
  <2>1. Len(Code(Main)["setup"]) = 9
    BY Rows_simple_setup DEF Is
  <2>2. Table(Main, Follows["setup"]) = Place("loop", 1)
    BY Tables_simple DEF Table, Follows
  <2> QED BY <2>1, <2>2 DEF After, Place
<1>2. \A i \in 1 .. 9 :
        /\ Flows(p(i), q(i), r(i))
        /\ ~Unreached(p(i)) => NeedsHal(p(i), r(i)) /\ NeedsThreads(p(i), q(i), r(i))
        /\ NeedsTable(p(i), r(i))
  <2> USE Rows_simple_setup, Spans_simple, AppsAssumption
          DEF Is, Or, Do, RowAt, Place, In, Span, Nowhere, Must, Ended, AfterSetup, Workers, AppsAssumption
  <2>1. \A i \in 1 .. 9 : q(i) # Ended => FlowsOpen(p(i), q(i), r(i))
    BY SMTT(90) DEF FlowsOpen
  <2>2. \A i \in 1 .. 9 : q(i) # Ended => FlowsLive(p(i), q(i), r(i))
    BY SMTT(90) DEF FlowsLive
  <2>3. \A i \in 1 .. 9 : q(i) # Ended => FlowsStopped(p(i), q(i), r(i))
    BY SMTT(90) DEF FlowsStopped
  <2>4. \A i \in 1 .. 9 : q(i) # Ended => FlowsThere(p(i), q(i), r(i))
    BY SMTT(90) DEF FlowsThere
  <2>5. \A i \in 1 .. 9 : q(i) # Ended => FlowsRan(p(i), q(i), r(i))
    BY SMTT(90) DEF FlowsRan
  <2>6. \A i \in 1 .. 9 : q(i) # Ended => FlowsMayRun(p(i), q(i), r(i))
    BY SMTT(90) DEF FlowsMayRun
  <2>7. \A i \in 1 .. 9 : ~Unreached(p(i)) => NeedsHal(p(i), r(i))
    BY SMTT(30) DEF NeedsHal, Unreached
  <2>8. \A i \in 1 .. 9 : ~Unreached(p(i)) => NeedsThreads(p(i), q(i), r(i))
    BY SMTT(30) DEF NeedsThreads, Unreached
  <2>9. \A i \in 1 .. 9 : NeedsTable(p(i), r(i))
    BY Tables_simple, SMTT(30) DEF NeedsTable, InFrame, HalOps
  <2> HIDE DEF p, q, r
  <2> QED BY <2>1, <2>2, <2>3, <2>4, <2>5, <2>6, <2>7, <2>8, <2>9, Zenon DEF Flows
<1> HIDE DEF p, q
<1>3. ASSUME NEW i \in 1 .. 9 PROVE Follow(p(i))
  BY <1>1, <1>2, Zenon DEF Follow, r
<1> QED BY <1>3 DEF p

LEMMA Flow_simple_loop ==
  app.name = "cam_demo_simple" => \A i \in 1 .. 7 : Follow(Place("loop", i))
<1> SUFFICES ASSUME app.name = "cam_demo_simple"
             PROVE  \A i \in 1 .. 7 : Follow(Place("loop", i))
  OBVIOUS
<1> DEFINE p(i) == Place("loop", i)
           q(i) == IF i < 7 THEN Place("loop", i + 1) ELSE Place("loop", 1)
           r(i) == RowAt(Main, p(i))
<1>1. \A i \in 1 .. 7 : After(Main, p(i)) = q(i)
  <2>1. Len(Code(Main)["loop"]) = 7
    BY Rows_simple_loop DEF Is
  <2>2. Table(Main, Follows["loop"]) = Place("loop", 1)
    BY Tables_simple DEF Table, Follows
  <2> QED BY <2>1, <2>2 DEF After, Place
<1>2. \A i \in 1 .. 7 :
        /\ Flows(p(i), q(i), r(i))
        /\ ~Unreached(p(i)) => NeedsHal(p(i), r(i)) /\ NeedsThreads(p(i), q(i), r(i))
        /\ NeedsTable(p(i), r(i))
  <2> USE Rows_simple_loop, Spans_simple, AppsAssumption
          DEF Is, Or, Do, RowAt, Place, In, Span, Nowhere, Must, Ended, AfterSetup, Workers, AppsAssumption
  <2>1. \A i \in 1 .. 7 :
          q(i) # Ended => FlowsOpen(p(i), q(i), r(i)) /\ FlowsLive(p(i), q(i), r(i))
    BY SMTT(90) DEF FlowsOpen, FlowsLive
  <2>2. \A i \in 1 .. 7 :
          q(i) # Ended => FlowsStopped(p(i), q(i), r(i)) /\ FlowsThere(p(i), q(i), r(i))
    BY SMTT(90) DEF FlowsStopped, FlowsThere
  <2>3. \A i \in 1 .. 7 :
          q(i) # Ended => FlowsRan(p(i), q(i), r(i)) /\ FlowsMayRun(p(i), q(i), r(i))
    BY SMTT(90) DEF FlowsRan, FlowsMayRun
  <2>4. \A i \in 1 .. 7 :
          ~Unreached(p(i)) => NeedsHal(p(i), r(i)) /\ NeedsThreads(p(i), q(i), r(i))
    BY SMTT(30) DEF NeedsHal, NeedsThreads, Unreached
  <2>5. \A i \in 1 .. 7 : NeedsTable(p(i), r(i))
    BY Tables_simple, SMTT(30) DEF NeedsTable, InFrame, HalOps
  <2> HIDE DEF p, q, r
  <2> QED BY <2>1, <2>2, <2>3, <2>4, <2>5, Zenon DEF Flows
<1> HIDE DEF p, q
<1>3. ASSUME NEW i \in 1 .. 7 PROVE Follow(p(i))
  BY <1>1, <1>2, Zenon DEF Follow, r
<1> QED BY <1>3 DEF p

LEMMA Flow_simple_finish ==
  app.name = "cam_demo_simple" => \A i \in 1 .. 5 : Follow(Place("finish", i))
<1> SUFFICES ASSUME app.name = "cam_demo_simple"
             PROVE  \A i \in 1 .. 5 : Follow(Place("finish", i))
  OBVIOUS
<1> DEFINE p(i) == Place("finish", i)
           q(i) == IF i < 5 THEN Place("finish", i + 1) ELSE Ended
           r(i) == RowAt(Main, p(i))
<1>1. \A i \in 1 .. 5 : After(Main, p(i)) = q(i)
  <2>1. Len(Code(Main)["finish"]) = 5
    BY Rows_simple_finish DEF Is
  <2>2. Table(Main, Follows["finish"]) = Ended
    BY Tables_simple DEF Table, Follows
  <2> QED BY <2>1, <2>2 DEF After, Place
<1>2. \A i \in 1 .. 5 :
        /\ Flows(p(i), q(i), r(i))
        /\ ~Unreached(p(i)) => NeedsHal(p(i), r(i)) /\ NeedsThreads(p(i), q(i), r(i))
        /\ NeedsTable(p(i), r(i))
  <2> USE Rows_simple_finish, Spans_simple, AppsAssumption
          DEF Is, Or, Do, RowAt, Place, In, Span, Nowhere, Must, Ended, AfterSetup, Workers, AppsAssumption
  <2>1. \A i \in 1 .. 5 :
          q(i) # Ended => FlowsOpen(p(i), q(i), r(i)) /\ FlowsLive(p(i), q(i), r(i))
    BY SMTT(90) DEF FlowsOpen, FlowsLive
  <2>2. \A i \in 1 .. 5 :
          q(i) # Ended => FlowsStopped(p(i), q(i), r(i)) /\ FlowsThere(p(i), q(i), r(i))
    BY SMTT(90) DEF FlowsStopped, FlowsThere
  <2>3. \A i \in 1 .. 5 :
          q(i) # Ended => FlowsRan(p(i), q(i), r(i)) /\ FlowsMayRun(p(i), q(i), r(i))
    BY SMTT(90) DEF FlowsRan, FlowsMayRun
  <2>4. \A i \in 1 .. 5 :
          ~Unreached(p(i)) => NeedsHal(p(i), r(i)) /\ NeedsThreads(p(i), q(i), r(i))
    BY SMTT(30) DEF NeedsHal, NeedsThreads, Unreached
  <2>5. \A i \in 1 .. 5 : NeedsTable(p(i), r(i))
    BY Tables_simple, SMTT(30) DEF NeedsTable, InFrame, HalOps
  <2> HIDE DEF p, q, r
  <2> QED BY <2>1, <2>2, <2>3, <2>4, <2>5, Zenon DEF Flows
<1> HIDE DEF p, q
<1>3. ASSUME NEW i \in 1 .. 5 PROVE Follow(p(i))
  BY <1>1, <1>2, Zenon DEF Follow, r
<1> QED BY <1>3 DEF p

LEMMA Spans_test1 ==
  app.name = "camera_test1" =>
    /\ Used(0) = {"channel0"}
    /\ Used(1) = {"channel0", "channel1"}
    /\ Cam("w0") = 0 /\ Cam("w1") = 0
    /\ Open(0) = Span(3 .. 8, {"loop"}, 1 .. 5)
    /\ Open(1) = Nowhere
    /\ Live(0) = Span(6 .. 8, {"loop"}, 1 .. 3)
    /\ Live(1) = Nowhere
    /\ Stopped(0, "channel0") = Span(5 .. 8, {}, 2 .. 4)
    /\ Stopped(0, "channel1") = Nowhere
    /\ \A n \in {"channel0", "channel1"} : Stopped(1, n) = Nowhere
    /\ There(0, "channel0") = Span(5 .. 8, {"loop"}, 1 .. 4)
    /\ There(0, "channel1") = Nowhere
    /\ \A n \in {"channel0", "channel1"} : There(1, n) = Nowhere
    /\ Ran(0) = Span({}, AfterSetup, {})
    /\ Ran(1) = Span({}, AfterSetup, {})
    /\ MayRun("w0") = Nowhere
    /\ MayRun("w1") = Nowhere
BY DEF Used, Cam, Open, Live, Stopped, There, Ran, MayRun

LEMMA Flow_test1_setup ==
  app.name = "camera_test1" => \A i \in 1 .. 8 : Follow(Place("setup", i))
<1> SUFFICES ASSUME app.name = "camera_test1"
             PROVE  \A i \in 1 .. 8 : Follow(Place("setup", i))
  OBVIOUS
<1> DEFINE p(i) == Place("setup", i)
           q(i) == IF i < 8 THEN Place("setup", i + 1) ELSE Place("loop", 1)
           r(i) == RowAt(Main, p(i))
<1>1. \A i \in 1 .. 8 : After(Main, p(i)) = q(i)
  <2>1. Len(Code(Main)["setup"]) = 8
    BY Rows_test1_setup DEF Is
  <2>2. Table(Main, Follows["setup"]) = Place("loop", 1)
    BY Tables_test1 DEF Table, Follows
  <2> QED BY <2>1, <2>2 DEF After, Place
<1>2. \A i \in 1 .. 8 :
        /\ Flows(p(i), q(i), r(i))
        /\ ~Unreached(p(i)) => NeedsHal(p(i), r(i)) /\ NeedsThreads(p(i), q(i), r(i))
        /\ NeedsTable(p(i), r(i))
  <2> USE Rows_test1_setup, Spans_test1, AppsAssumption
          DEF Is, Or, Do, RowAt, Place, In, Span, Nowhere, Must, Ended, AfterSetup, Workers, AppsAssumption
  <2>1. \A i \in 1 .. 8 : q(i) # Ended => FlowsOpen(p(i), q(i), r(i))
    BY SMTT(90) DEF FlowsOpen
  <2>2. \A i \in 1 .. 8 : q(i) # Ended => FlowsLive(p(i), q(i), r(i))
    BY SMTT(90) DEF FlowsLive
  <2>3. \A i \in 1 .. 8 : q(i) # Ended => FlowsStopped(p(i), q(i), r(i))
    BY SMTT(90) DEF FlowsStopped
  <2>4. \A i \in 1 .. 8 : q(i) # Ended => FlowsThere(p(i), q(i), r(i))
    BY SMTT(90) DEF FlowsThere
  <2>5. \A i \in 1 .. 8 : q(i) # Ended => FlowsRan(p(i), q(i), r(i))
    BY SMTT(90) DEF FlowsRan
  <2>6. \A i \in 1 .. 8 : q(i) # Ended => FlowsMayRun(p(i), q(i), r(i))
    BY SMTT(90) DEF FlowsMayRun
  <2>7. \A i \in 1 .. 8 : ~Unreached(p(i)) => NeedsHal(p(i), r(i))
    BY SMTT(30) DEF NeedsHal, Unreached
  <2>8. \A i \in 1 .. 8 : ~Unreached(p(i)) => NeedsThreads(p(i), q(i), r(i))
    BY SMTT(30) DEF NeedsThreads, Unreached
  <2>9. \A i \in 1 .. 8 : NeedsTable(p(i), r(i))
    BY Tables_test1, SMTT(30) DEF NeedsTable, InFrame, HalOps
  <2> HIDE DEF p, q, r
  <2> QED BY <2>1, <2>2, <2>3, <2>4, <2>5, <2>6, <2>7, <2>8, <2>9, Zenon DEF Flows
<1> HIDE DEF p, q
<1>3. ASSUME NEW i \in 1 .. 8 PROVE Follow(p(i))
  BY <1>1, <1>2, Zenon DEF Follow, r
<1> QED BY <1>3 DEF p

LEMMA Flow_test1_loop ==
  app.name = "camera_test1" => \A i \in 1 .. 6 : Follow(Place("loop", i))
<1> SUFFICES ASSUME app.name = "camera_test1"
             PROVE  \A i \in 1 .. 6 : Follow(Place("loop", i))
  OBVIOUS
<1> DEFINE p(i) == Place("loop", i)
           q(i) == IF i < 6 THEN Place("loop", i + 1) ELSE Place("loop", 1)
           r(i) == RowAt(Main, p(i))
<1>1. \A i \in 1 .. 6 : After(Main, p(i)) = q(i)
  <2>1. Len(Code(Main)["loop"]) = 6
    BY Rows_test1_loop DEF Is
  <2>2. Table(Main, Follows["loop"]) = Place("loop", 1)
    BY Tables_test1 DEF Table, Follows
  <2> QED BY <2>1, <2>2 DEF After, Place
<1>2. \A i \in 1 .. 6 :
        /\ Flows(p(i), q(i), r(i))
        /\ ~Unreached(p(i)) => NeedsHal(p(i), r(i)) /\ NeedsThreads(p(i), q(i), r(i))
        /\ NeedsTable(p(i), r(i))
  <2> USE Rows_test1_loop, Spans_test1, AppsAssumption
          DEF Is, Or, Do, RowAt, Place, In, Span, Nowhere, Must, Ended, AfterSetup, Workers, AppsAssumption
  <2>1. \A i \in 1 .. 6 :
          q(i) # Ended => FlowsOpen(p(i), q(i), r(i)) /\ FlowsLive(p(i), q(i), r(i))
    BY SMTT(90) DEF FlowsOpen, FlowsLive
  <2>2. \A i \in 1 .. 6 :
          q(i) # Ended => FlowsStopped(p(i), q(i), r(i)) /\ FlowsThere(p(i), q(i), r(i))
    BY SMTT(90) DEF FlowsStopped, FlowsThere
  <2>3. \A i \in 1 .. 6 :
          q(i) # Ended => FlowsRan(p(i), q(i), r(i)) /\ FlowsMayRun(p(i), q(i), r(i))
    BY SMTT(90) DEF FlowsRan, FlowsMayRun
  <2>4. \A i \in 1 .. 6 :
          ~Unreached(p(i)) => NeedsHal(p(i), r(i)) /\ NeedsThreads(p(i), q(i), r(i))
    BY SMTT(30) DEF NeedsHal, NeedsThreads, Unreached
  <2>5. \A i \in 1 .. 6 : NeedsTable(p(i), r(i))
    BY Tables_test1, SMTT(30) DEF NeedsTable, InFrame, HalOps
  <2> HIDE DEF p, q, r
  <2> QED BY <2>1, <2>2, <2>3, <2>4, <2>5, Zenon DEF Flows
<1> HIDE DEF p, q
<1>3. ASSUME NEW i \in 1 .. 6 PROVE Follow(p(i))
  BY <1>1, <1>2, Zenon DEF Follow, r
<1> QED BY <1>3 DEF p

LEMMA Flow_test1_finish ==
  app.name = "camera_test1" => \A i \in 1 .. 5 : Follow(Place("finish", i))
<1> SUFFICES ASSUME app.name = "camera_test1"
             PROVE  \A i \in 1 .. 5 : Follow(Place("finish", i))
  OBVIOUS
<1> DEFINE p(i) == Place("finish", i)
           q(i) == IF i < 5 THEN Place("finish", i + 1) ELSE Ended
           r(i) == RowAt(Main, p(i))
<1>1. \A i \in 1 .. 5 : After(Main, p(i)) = q(i)
  <2>1. Len(Code(Main)["finish"]) = 5
    BY Rows_test1_finish DEF Is
  <2>2. Table(Main, Follows["finish"]) = Ended
    BY Tables_test1 DEF Table, Follows
  <2> QED BY <2>1, <2>2 DEF After, Place
<1>2. \A i \in 1 .. 5 :
        /\ Flows(p(i), q(i), r(i))
        /\ ~Unreached(p(i)) => NeedsHal(p(i), r(i)) /\ NeedsThreads(p(i), q(i), r(i))
        /\ NeedsTable(p(i), r(i))
  <2> USE Rows_test1_finish, Spans_test1, AppsAssumption
          DEF Is, Or, Do, RowAt, Place, In, Span, Nowhere, Must, Ended, AfterSetup, Workers, AppsAssumption
  <2>1. \A i \in 1 .. 5 :
          q(i) # Ended => FlowsOpen(p(i), q(i), r(i)) /\ FlowsLive(p(i), q(i), r(i))
    BY SMTT(90) DEF FlowsOpen, FlowsLive
  <2>2. \A i \in 1 .. 5 :
          q(i) # Ended => FlowsStopped(p(i), q(i), r(i)) /\ FlowsThere(p(i), q(i), r(i))
    BY SMTT(90) DEF FlowsStopped, FlowsThere
  <2>3. \A i \in 1 .. 5 :
          q(i) # Ended => FlowsRan(p(i), q(i), r(i)) /\ FlowsMayRun(p(i), q(i), r(i))
    BY SMTT(90) DEF FlowsRan, FlowsMayRun
  <2>4. \A i \in 1 .. 5 :
          ~Unreached(p(i)) => NeedsHal(p(i), r(i)) /\ NeedsThreads(p(i), q(i), r(i))
    BY SMTT(30) DEF NeedsHal, NeedsThreads, Unreached
  <2>5. \A i \in 1 .. 5 : NeedsTable(p(i), r(i))
    BY Tables_test1, SMTT(30) DEF NeedsTable, InFrame, HalOps
  <2> HIDE DEF p, q, r
  <2> QED BY <2>1, <2>2, <2>3, <2>4, <2>5, Zenon DEF Flows
<1> HIDE DEF p, q
<1>3. ASSUME NEW i \in 1 .. 5 PROVE Follow(p(i))
  BY <1>1, <1>2, Zenon DEF Follow, r
<1> QED BY <1>3 DEF p

LEMMA Spans_demo1 ==
  app.name = "camera_demo1" =>
    /\ Used(0) = {"channel0"}
    /\ Used(1) = {"channel0", "channel1"}
    /\ Cam("w0") = 0 /\ Cam("w1") = 0
    /\ Open(0) = Span(3 .. 8, {"loop"}, {})
    /\ Open(1) = Nowhere
    /\ Live(0) = Span(6 .. 8, {"loop"}, {})
    /\ Live(1) = Nowhere
    /\ Stopped(0, "channel0") = Span(5 .. 8, {}, {})
    /\ Stopped(0, "channel1") = Nowhere
    /\ \A n \in {"channel0", "channel1"} : Stopped(1, n) = Nowhere
    /\ There(0, "channel0") = Span(5 .. 8, {"loop"}, {})
    /\ There(0, "channel1") = Nowhere
    /\ \A n \in {"channel0", "channel1"} : There(1, n) = Nowhere
    /\ Ran(0) = Span({}, AfterSetup, {})
    /\ Ran(1) = Span({}, AfterSetup, {})
    /\ MayRun("w0") = Nowhere
    /\ MayRun("w1") = Nowhere
BY DEF Used, Cam, Open, Live, Stopped, There, Ran, MayRun

LEMMA Flow_demo1_setup ==
  app.name = "camera_demo1" => \A i \in 1 .. 8 : Follow(Place("setup", i))
<1> SUFFICES ASSUME app.name = "camera_demo1"
             PROVE  \A i \in 1 .. 8 : Follow(Place("setup", i))
  OBVIOUS
<1> DEFINE p(i) == Place("setup", i)
           q(i) == IF i < 8 THEN Place("setup", i + 1) ELSE Place("loop", 1)
           r(i) == RowAt(Main, p(i))
<1>1. \A i \in 1 .. 8 : After(Main, p(i)) = q(i)
  <2>1. Len(Code(Main)["setup"]) = 8
    BY Rows_demo1_setup DEF Is
  <2>2. Table(Main, Follows["setup"]) = Place("loop", 1)
    BY Tables_demo1 DEF Table, Follows
  <2> QED BY <2>1, <2>2 DEF After, Place
<1>2. \A i \in 1 .. 8 :
        /\ Flows(p(i), q(i), r(i))
        /\ ~Unreached(p(i)) => NeedsHal(p(i), r(i)) /\ NeedsThreads(p(i), q(i), r(i))
        /\ NeedsTable(p(i), r(i))
  <2> USE Rows_demo1_setup, Spans_demo1, AppsAssumption
          DEF Is, Or, Do, RowAt, Place, In, Span, Nowhere, Must, Ended, AfterSetup, Workers, AppsAssumption
  <2>1. \A i \in 1 .. 8 : q(i) # Ended => FlowsOpen(p(i), q(i), r(i))
    BY SMTT(90) DEF FlowsOpen
  <2>2. \A i \in 1 .. 8 : q(i) # Ended => FlowsLive(p(i), q(i), r(i))
    BY SMTT(90) DEF FlowsLive
  <2>3. \A i \in 1 .. 8 : q(i) # Ended => FlowsStopped(p(i), q(i), r(i))
    BY SMTT(90) DEF FlowsStopped
  <2>4. \A i \in 1 .. 8 : q(i) # Ended => FlowsThere(p(i), q(i), r(i))
    BY SMTT(90) DEF FlowsThere
  <2>5. \A i \in 1 .. 8 : q(i) # Ended => FlowsRan(p(i), q(i), r(i))
    BY SMTT(90) DEF FlowsRan
  <2>6. \A i \in 1 .. 8 : q(i) # Ended => FlowsMayRun(p(i), q(i), r(i))
    BY SMTT(90) DEF FlowsMayRun
  <2>7. \A i \in 1 .. 8 : ~Unreached(p(i)) => NeedsHal(p(i), r(i))
    BY SMTT(30) DEF NeedsHal, Unreached
  <2>8. \A i \in 1 .. 8 : ~Unreached(p(i)) => NeedsThreads(p(i), q(i), r(i))
    BY SMTT(30) DEF NeedsThreads, Unreached
  <2>9. \A i \in 1 .. 8 : NeedsTable(p(i), r(i))
    BY Tables_demo1, SMTT(30) DEF NeedsTable, InFrame, HalOps
  <2> HIDE DEF p, q, r
  <2> QED BY <2>1, <2>2, <2>3, <2>4, <2>5, <2>6, <2>7, <2>8, <2>9, Zenon DEF Flows
<1> HIDE DEF p, q
<1>3. ASSUME NEW i \in 1 .. 8 PROVE Follow(p(i))
  BY <1>1, <1>2, Zenon DEF Follow, r
<1> QED BY <1>3 DEF p

LEMMA Flow_demo1_loop ==
  app.name = "camera_demo1" => \A i \in 1 .. 4 : Follow(Place("loop", i))
<1> SUFFICES ASSUME app.name = "camera_demo1"
             PROVE  \A i \in 1 .. 4 : Follow(Place("loop", i))
  OBVIOUS
<1> DEFINE p(i) == Place("loop", i)
           q(i) == IF i < 4 THEN Place("loop", i + 1) ELSE Place("loop", 1)
           r(i) == RowAt(Main, p(i))
<1>1. \A i \in 1 .. 4 : After(Main, p(i)) = q(i)
  <2>1. Len(Code(Main)["loop"]) = 4
    BY Rows_demo1_loop DEF Is
  <2>2. Table(Main, Follows["loop"]) = Place("loop", 1)
    BY Tables_demo1 DEF Table, Follows
  <2> QED BY <2>1, <2>2 DEF After, Place
<1>2. \A i \in 1 .. 4 :
        /\ Flows(p(i), q(i), r(i))
        /\ ~Unreached(p(i)) => NeedsHal(p(i), r(i)) /\ NeedsThreads(p(i), q(i), r(i))
        /\ NeedsTable(p(i), r(i))
  <2> USE Rows_demo1_loop, Spans_demo1, AppsAssumption
          DEF Is, Or, Do, RowAt, Place, In, Span, Nowhere, Must, Ended, AfterSetup, Workers, AppsAssumption
  <2>1. \A i \in 1 .. 4 :
          q(i) # Ended => FlowsOpen(p(i), q(i), r(i)) /\ FlowsLive(p(i), q(i), r(i))
    BY SMTT(90) DEF FlowsOpen, FlowsLive
  <2>2. \A i \in 1 .. 4 :
          q(i) # Ended => FlowsStopped(p(i), q(i), r(i)) /\ FlowsThere(p(i), q(i), r(i))
    BY SMTT(90) DEF FlowsStopped, FlowsThere
  <2>3. \A i \in 1 .. 4 :
          q(i) # Ended => FlowsRan(p(i), q(i), r(i)) /\ FlowsMayRun(p(i), q(i), r(i))
    BY SMTT(90) DEF FlowsRan, FlowsMayRun
  <2>4. \A i \in 1 .. 4 :
          ~Unreached(p(i)) => NeedsHal(p(i), r(i)) /\ NeedsThreads(p(i), q(i), r(i))
    BY SMTT(30) DEF NeedsHal, NeedsThreads, Unreached
  <2>5. \A i \in 1 .. 4 : NeedsTable(p(i), r(i))
    BY Tables_demo1, SMTT(30) DEF NeedsTable, InFrame, HalOps
  <2> HIDE DEF p, q, r
  <2> QED BY <2>1, <2>2, <2>3, <2>4, <2>5, Zenon DEF Flows
<1> HIDE DEF p, q
<1>3. ASSUME NEW i \in 1 .. 4 PROVE Follow(p(i))
  BY <1>1, <1>2, Zenon DEF Follow, r
<1> QED BY <1>3 DEF p

LEMMA Spans_demo2 ==
  app.name = "camera_demo2" =>
    /\ Used(0) = {"channel0", "channel1"}
    /\ Used(1) = {"channel0", "channel1"}
    /\ Cam("w0") = 0 /\ Cam("w1") = 0
    /\ Open(0) = Span(4 .. 15, {"loop"}, {})
    /\ Open(1) = Nowhere
    /\ Live(0) = Span(11 .. 15, {"loop"}, {})
    /\ Live(1) = Nowhere
    /\ Stopped(0, "channel0") = Span(9 .. 14, {}, {})
    /\ Stopped(0, "channel1") = Span(10 .. 15, {}, {})
    /\ \A n \in {"channel0", "channel1"} : Stopped(1, n) = Nowhere
    /\ There(0, "channel0") = Span(9 .. 15, {"loop"}, {})
    /\ There(0, "channel1") = Span(10 .. 15, {"loop"}, {})
    /\ \A n \in {"channel0", "channel1"} : There(1, n) = Nowhere
    /\ Ran(0) = Span({15}, AfterSetup, {})
    /\ Ran(1) = Span({15}, AfterSetup, {})
    /\ MayRun("w0") = Nowhere
    /\ MayRun("w1") = Nowhere
BY DEF Used, Cam, Open, Live, Stopped, There, Ran, MayRun

LEMMA Flow_demo2_setup ==
  app.name = "camera_demo2" => \A i \in 1 .. 15 : Follow(Place("setup", i))
<1> SUFFICES ASSUME app.name = "camera_demo2"
             PROVE  \A i \in 1 .. 15 : Follow(Place("setup", i))
  OBVIOUS
<1> DEFINE p(i) == Place("setup", i)
           q(i) == IF i < 15 THEN Place("setup", i + 1) ELSE Place("loop", 1)
           r(i) == RowAt(Main, p(i))
<1>1. \A i \in 1 .. 15 : After(Main, p(i)) = q(i)
  <2>1. Len(Code(Main)["setup"]) = 15
    BY Rows_demo2_setup DEF Is
  <2>2. Table(Main, Follows["setup"]) = Place("loop", 1)
    BY Tables_demo2 DEF Table, Follows
  <2> QED BY <2>1, <2>2 DEF After, Place
<1>2. \A i \in 1 .. 15 :
        /\ Flows(p(i), q(i), r(i))
        /\ ~Unreached(p(i)) => NeedsHal(p(i), r(i)) /\ NeedsThreads(p(i), q(i), r(i))
        /\ NeedsTable(p(i), r(i))
  <2> USE Rows_demo2_setup, Spans_demo2, AppsAssumption
          DEF Is, Or, Do, RowAt, Place, In, Span, Nowhere, Must, Ended, AfterSetup, Workers, AppsAssumption
  <2>1. \A i \in 1 .. 15 : q(i) # Ended => FlowsOpen(p(i), q(i), r(i))
    BY SMTT(90) DEF FlowsOpen
  <2>2. \A i \in 1 .. 15 : q(i) # Ended => FlowsLive(p(i), q(i), r(i))
    BY SMTT(90) DEF FlowsLive
  <2>3. \A i \in 1 .. 15 : q(i) # Ended => FlowsStopped(p(i), q(i), r(i))
    BY SMTT(90) DEF FlowsStopped
  <2>4. \A i \in 1 .. 15 : q(i) # Ended => FlowsThere(p(i), q(i), r(i))
    BY SMTT(90) DEF FlowsThere
  <2>5. \A i \in 1 .. 15 : q(i) # Ended => FlowsRan(p(i), q(i), r(i))
    BY SMTT(90) DEF FlowsRan
  <2>6. \A i \in 1 .. 15 : q(i) # Ended => FlowsMayRun(p(i), q(i), r(i))
    BY SMTT(90) DEF FlowsMayRun
  <2>7. \A i \in 1 .. 15 : ~Unreached(p(i)) => NeedsHal(p(i), r(i))
    BY SMTT(30) DEF NeedsHal, Unreached
  <2>8. \A i \in 1 .. 15 : ~Unreached(p(i)) => NeedsThreads(p(i), q(i), r(i))
    BY SMTT(30) DEF NeedsThreads, Unreached
  <2>9. \A i \in 1 .. 15 : NeedsTable(p(i), r(i))
    BY Tables_demo2, SMTT(30) DEF NeedsTable, InFrame, HalOps
  <2> HIDE DEF p, q, r
  <2> QED BY <2>1, <2>2, <2>3, <2>4, <2>5, <2>6, <2>7, <2>8, <2>9, Zenon DEF Flows
<1> HIDE DEF p, q
<1>3. ASSUME NEW i \in 1 .. 15 PROVE Follow(p(i))
  BY <1>1, <1>2, Zenon DEF Follow, r
<1> QED BY <1>3 DEF p

LEMMA Flow_demo2_loop ==
  app.name = "camera_demo2" => \A i \in 1 .. 5 : Follow(Place("loop", i))
<1> SUFFICES ASSUME app.name = "camera_demo2"
             PROVE  \A i \in 1 .. 5 : Follow(Place("loop", i))
  OBVIOUS
<1> DEFINE p(i) == Place("loop", i)
           q(i) == IF i < 5 THEN Place("loop", i + 1) ELSE Place("loop", 1)
           r(i) == RowAt(Main, p(i))
<1>1. \A i \in 1 .. 5 : After(Main, p(i)) = q(i)
  <2>1. Len(Code(Main)["loop"]) = 5
    BY Rows_demo2_loop DEF Is
  <2>2. Table(Main, Follows["loop"]) = Place("loop", 1)
    BY Tables_demo2 DEF Table, Follows
  <2> QED BY <2>1, <2>2 DEF After, Place
<1>2. \A i \in 1 .. 5 :
        /\ Flows(p(i), q(i), r(i))
        /\ ~Unreached(p(i)) => NeedsHal(p(i), r(i)) /\ NeedsThreads(p(i), q(i), r(i))
        /\ NeedsTable(p(i), r(i))
  <2> USE Rows_demo2_loop, Spans_demo2, AppsAssumption
          DEF Is, Or, Do, RowAt, Place, In, Span, Nowhere, Must, Ended, AfterSetup, Workers, AppsAssumption
  <2>1. \A i \in 1 .. 5 :
          q(i) # Ended => FlowsOpen(p(i), q(i), r(i)) /\ FlowsLive(p(i), q(i), r(i))
    BY SMTT(90) DEF FlowsOpen, FlowsLive
  <2>2. \A i \in 1 .. 5 :
          q(i) # Ended => FlowsStopped(p(i), q(i), r(i)) /\ FlowsThere(p(i), q(i), r(i))
    BY SMTT(90) DEF FlowsStopped, FlowsThere
  <2>3. \A i \in 1 .. 5 :
          q(i) # Ended => FlowsRan(p(i), q(i), r(i)) /\ FlowsMayRun(p(i), q(i), r(i))
    BY SMTT(90) DEF FlowsRan, FlowsMayRun
  <2>4. \A i \in 1 .. 5 :
          ~Unreached(p(i)) => NeedsHal(p(i), r(i)) /\ NeedsThreads(p(i), q(i), r(i))
    BY SMTT(30) DEF NeedsHal, NeedsThreads, Unreached
  <2>5. \A i \in 1 .. 5 : NeedsTable(p(i), r(i))
    BY Tables_demo2, SMTT(30) DEF NeedsTable, InFrame, HalOps
  <2> HIDE DEF p, q, r
  <2> QED BY <2>1, <2>2, <2>3, <2>4, <2>5, Zenon DEF Flows
<1> HIDE DEF p, q
<1>3. ASSUME NEW i \in 1 .. 5 PROVE Follow(p(i))
  BY <1>1, <1>2, Zenon DEF Follow, r
<1> QED BY <1>3 DEF p

LEMMA Spans_ir ==
  app.name = "cam_demo_ir" =>
    /\ Used(0) = {"channel0", "channel1"}
    /\ Used(1) = {"channel0", "channel1"}
    /\ Cam("w0") = 0 /\ Cam("w1") = 0
    /\ Open(0) = Span(4 .. 14, {"loop"}, 1 .. 12)
    /\ Open(1) = Nowhere
    /\ Live(0) = Span(7 .. 14, {"loop"}, 1 .. 10)
    /\ Live(1) = Nowhere
    /\ Stopped(0, "channel0") = Span(5 .. 13, {}, 2 .. 11)
    /\ Stopped(0, "channel1") = Span(6 .. 14, {}, 3 .. 12)
    /\ \A n \in {"channel0", "channel1"} : Stopped(1, n) = Nowhere
    /\ There(0, "channel0") = Span(5 .. 14, {"loop"}, 1 .. 11)
    /\ There(0, "channel1") = Span(6 .. 14, {"loop"}, 1 .. 12)
    /\ \A n \in {"channel0", "channel1"} : There(1, n) = Nowhere
    /\ Ran(0) = Span({14}, AfterSetup, {})
    /\ Ran(1) = Span({14}, AfterSetup, {})
    /\ MayRun("w0") = Span(10 .. 14, {"loop"}, 1 .. 5)
    /\ MayRun("w1") = Span(12 .. 14, {"loop"}, 1 .. 6)
BY DEF Used, Cam, Open, Live, Stopped, There, Ran, MayRun

LEMMA Flow_ir_setup ==
  app.name = "cam_demo_ir" => \A i \in 1 .. 14 : Follow(Place("setup", i))
<1> SUFFICES ASSUME app.name = "cam_demo_ir"
             PROVE  \A i \in 1 .. 14 : Follow(Place("setup", i))
  OBVIOUS
<1> DEFINE p(i) == Place("setup", i)
           q(i) == IF i < 14 THEN Place("setup", i + 1) ELSE Place("loop", 1)
           r(i) == RowAt(Main, p(i))
<1>1. \A i \in 1 .. 14 : After(Main, p(i)) = q(i)
  <2>1. Len(Code(Main)["setup"]) = 14
    BY Rows_ir_setup DEF Is
  <2>2. Table(Main, Follows["setup"]) = Place("loop", 1)
    BY Tables_ir DEF Table, Follows
  <2> QED BY <2>1, <2>2 DEF After, Place
<1>2. \A i \in 1 .. 14 :
        /\ Flows(p(i), q(i), r(i))
        /\ ~Unreached(p(i)) => NeedsHal(p(i), r(i)) /\ NeedsThreads(p(i), q(i), r(i))
        /\ NeedsTable(p(i), r(i))
  <2> USE Rows_ir_setup, Spans_ir, AppsAssumption
          DEF Is, Or, Do, RowAt, Place, In, Span, Nowhere, Must, Ended, AfterSetup, Workers, AppsAssumption
  <2>1. \A i \in 1 .. 14 : q(i) # Ended => FlowsOpen(p(i), q(i), r(i))
    BY SMTT(90) DEF FlowsOpen
  <2>2. \A i \in 1 .. 14 : q(i) # Ended => FlowsLive(p(i), q(i), r(i))
    BY SMTT(90) DEF FlowsLive
  <2>3. \A i \in 1 .. 14 : q(i) # Ended => FlowsStopped(p(i), q(i), r(i))
    BY SMTT(90) DEF FlowsStopped
  <2>4. \A i \in 1 .. 14 : q(i) # Ended => FlowsThere(p(i), q(i), r(i))
    BY SMTT(90) DEF FlowsThere
  <2>5. \A i \in 1 .. 14 : q(i) # Ended => FlowsRan(p(i), q(i), r(i))
    BY SMTT(90) DEF FlowsRan
  <2>6. \A i \in 1 .. 14 : q(i) # Ended => FlowsMayRun(p(i), q(i), r(i))
    BY SMTT(90) DEF FlowsMayRun
  <2>7. \A i \in 1 .. 14 : ~Unreached(p(i)) => NeedsHal(p(i), r(i))
    BY SMTT(30) DEF NeedsHal, Unreached
  <2>8. \A i \in 1 .. 14 : ~Unreached(p(i)) => NeedsThreads(p(i), q(i), r(i))
    BY SMTT(30) DEF NeedsThreads, Unreached
  <2>9. \A i \in 1 .. 14 : NeedsTable(p(i), r(i))
    BY Tables_ir, SMTT(30) DEF NeedsTable, InFrame, HalOps
  <2> HIDE DEF p, q, r
  <2> QED BY <2>1, <2>2, <2>3, <2>4, <2>5, <2>6, <2>7, <2>8, <2>9, Zenon DEF Flows
<1> HIDE DEF p, q
<1>3. ASSUME NEW i \in 1 .. 14 PROVE Follow(p(i))
  BY <1>1, <1>2, Zenon DEF Follow, r
<1> QED BY <1>3 DEF p

LEMMA Flow_ir_loop ==
  app.name = "cam_demo_ir" => \A i \in 1 .. 4 : Follow(Place("loop", i))
<1> SUFFICES ASSUME app.name = "cam_demo_ir"
             PROVE  \A i \in 1 .. 4 : Follow(Place("loop", i))
  OBVIOUS
<1> DEFINE p(i) == Place("loop", i)
           q(i) == IF i < 4 THEN Place("loop", i + 1) ELSE Place("loop", 1)
           r(i) == RowAt(Main, p(i))
<1>1. \A i \in 1 .. 4 : After(Main, p(i)) = q(i)
  <2>1. Len(Code(Main)["loop"]) = 4
    BY Rows_ir_loop DEF Is
  <2>2. Table(Main, Follows["loop"]) = Place("loop", 1)
    BY Tables_ir DEF Table, Follows
  <2> QED BY <2>1, <2>2 DEF After, Place
<1>2. \A i \in 1 .. 4 :
        /\ Flows(p(i), q(i), r(i))
        /\ ~Unreached(p(i)) => NeedsHal(p(i), r(i)) /\ NeedsThreads(p(i), q(i), r(i))
        /\ NeedsTable(p(i), r(i))
  <2> USE Rows_ir_loop, Spans_ir, AppsAssumption
          DEF Is, Or, Do, RowAt, Place, In, Span, Nowhere, Must, Ended, AfterSetup, Workers, AppsAssumption
  <2>1. \A i \in 1 .. 4 :
          q(i) # Ended => FlowsOpen(p(i), q(i), r(i)) /\ FlowsLive(p(i), q(i), r(i))
    BY SMTT(90) DEF FlowsOpen, FlowsLive
  <2>2. \A i \in 1 .. 4 :
          q(i) # Ended => FlowsStopped(p(i), q(i), r(i)) /\ FlowsThere(p(i), q(i), r(i))
    BY SMTT(90) DEF FlowsStopped, FlowsThere
  <2>3. \A i \in 1 .. 4 :
          q(i) # Ended => FlowsRan(p(i), q(i), r(i)) /\ FlowsMayRun(p(i), q(i), r(i))
    BY SMTT(90) DEF FlowsRan, FlowsMayRun
  <2>4. \A i \in 1 .. 4 :
          ~Unreached(p(i)) => NeedsHal(p(i), r(i)) /\ NeedsThreads(p(i), q(i), r(i))
    BY SMTT(30) DEF NeedsHal, NeedsThreads, Unreached
  <2>5. \A i \in 1 .. 4 : NeedsTable(p(i), r(i))
    BY Tables_ir, SMTT(30) DEF NeedsTable, InFrame, HalOps
  <2> HIDE DEF p, q, r
  <2> QED BY <2>1, <2>2, <2>3, <2>4, <2>5, Zenon DEF Flows
<1> HIDE DEF p, q
<1>3. ASSUME NEW i \in 1 .. 4 PROVE Follow(p(i))
  BY <1>1, <1>2, Zenon DEF Follow, r
<1> QED BY <1>3 DEF p

LEMMA Flow_ir_finish ==
  app.name = "cam_demo_ir" => \A i \in 1 .. 12 : Follow(Place("finish", i))
<1> SUFFICES ASSUME app.name = "cam_demo_ir"
             PROVE  \A i \in 1 .. 12 : Follow(Place("finish", i))
  OBVIOUS
<1> DEFINE p(i) == Place("finish", i)
           q(i) == IF i < 12 THEN Place("finish", i + 1) ELSE Ended
           r(i) == RowAt(Main, p(i))
<1>1. \A i \in 1 .. 12 : After(Main, p(i)) = q(i)
  <2>1. Len(Code(Main)["finish"]) = 12
    BY Rows_ir_finish DEF Is
  <2>2. Table(Main, Follows["finish"]) = Ended
    BY Tables_ir DEF Table, Follows
  <2> QED BY <2>1, <2>2 DEF After, Place
<1>2. \A i \in 1 .. 12 :
        /\ Flows(p(i), q(i), r(i))
        /\ ~Unreached(p(i)) => NeedsHal(p(i), r(i)) /\ NeedsThreads(p(i), q(i), r(i))
        /\ NeedsTable(p(i), r(i))
  <2> USE Rows_ir_finish, Spans_ir, AppsAssumption
          DEF Is, Or, Do, RowAt, Place, In, Span, Nowhere, Must, Ended, AfterSetup, Workers, AppsAssumption
  <2>1. \A i \in 1 .. 12 :
          q(i) # Ended => FlowsOpen(p(i), q(i), r(i)) /\ FlowsLive(p(i), q(i), r(i))
    BY SMTT(90) DEF FlowsOpen, FlowsLive
  <2>2. \A i \in 1 .. 12 :
          q(i) # Ended => FlowsStopped(p(i), q(i), r(i)) /\ FlowsThere(p(i), q(i), r(i))
    BY SMTT(90) DEF FlowsStopped, FlowsThere
  <2>3. \A i \in 1 .. 12 :
          q(i) # Ended => FlowsRan(p(i), q(i), r(i)) /\ FlowsMayRun(p(i), q(i), r(i))
    BY SMTT(90) DEF FlowsRan, FlowsMayRun
  <2>4. \A i \in 1 .. 12 :
          ~Unreached(p(i)) => NeedsHal(p(i), r(i)) /\ NeedsThreads(p(i), q(i), r(i))
    BY SMTT(30) DEF NeedsHal, NeedsThreads, Unreached
  <2>5. \A i \in 1 .. 12 : NeedsTable(p(i), r(i))
    BY Tables_ir, SMTT(30) DEF NeedsTable, InFrame, HalOps
  <2> HIDE DEF p, q, r
  <2> QED BY <2>1, <2>2, <2>3, <2>4, <2>5, Zenon DEF Flows
<1> HIDE DEF p, q
<1>3. ASSUME NEW i \in 1 .. 12 PROVE Follow(p(i))
  BY <1>1, <1>2, Zenon DEF Follow, r
<1> QED BY <1>3 DEF p

LEMMA Spans_multi ==
  app.name = "cam_demo_multi" =>
    /\ Used(0) = {"channel0"}
    /\ Used(1) = {"channel0", "channel1"}
    /\ Cam("w0") = 0 /\ Cam("w1") = 1
    /\ Open(0) = Span(3 .. 20, {"loop"}, {})
    /\ Open(1) = Span(11 .. 20, {"loop"}, {})
    /\ Live(0) = Span(5 .. 20, {"loop"}, {})
    /\ Live(1) = Span(14 .. 20, {"loop"}, {})
    /\ Stopped(0, "channel0") = Span(4 .. 8, {}, {})
    /\ Stopped(0, "channel1") = Nowhere
    /\ Stopped(1, "channel0") = Span(12 .. 19, {}, {})
    /\ Stopped(1, "channel1") = Span(13 .. 20, {}, {})
    /\ There(0, "channel0") = Span(4 .. 20, {"loop"}, {})
    /\ There(0, "channel1") = Nowhere
    /\ There(1, "channel0") = Span(12 .. 20, {"loop"}, {})
    /\ There(1, "channel1") = Span(13 .. 20, {"loop"}, {})
    /\ Ran(0) = Span(9 .. 20, AfterSetup \cup {"two_err1", "one_err1"}, {})
    /\ Ran(1) = Span({20}, {"loop"}, {})
    /\ MayRun("w0") = Span(8 .. 20, AfterSetup \cup {"two_err1", "one_err1"}, {})
    /\ MayRun("w1") = Span(18 .. 20, AfterSetup \cup {"two_err1", "one_err1"}, {})
BY DEF Used, Cam, Open, Live, Stopped, There, Ran, MayRun

LEMMA Flow_multi_setup ==
  app.name = "cam_demo_multi" => \A i \in 1 .. 20 : Follow(Place("setup", i))
<1> SUFFICES ASSUME app.name = "cam_demo_multi"
             PROVE  \A i \in 1 .. 20 : Follow(Place("setup", i))
  OBVIOUS
<1> DEFINE p(i) == Place("setup", i)
           q(i) == IF i < 20 THEN Place("setup", i + 1) ELSE Place("loop", 1)
           r(i) == RowAt(Main, p(i))
<1>1. \A i \in 1 .. 20 : After(Main, p(i)) = q(i)
  <2>1. Len(Code(Main)["setup"]) = 20
    BY Rows_multi_setup DEF Is
  <2>2. Table(Main, Follows["setup"]) = Place("loop", 1)
    BY Tables_multi DEF Table, Follows
  <2> QED BY <2>1, <2>2 DEF After, Place
<1>2. \A i \in 1 .. 20 :
        /\ Flows(p(i), q(i), r(i))
        /\ ~Unreached(p(i)) => NeedsHal(p(i), r(i)) /\ NeedsThreads(p(i), q(i), r(i))
        /\ NeedsTable(p(i), r(i))
  <2> USE Rows_multi_setup, Spans_multi, AppsAssumption
          DEF Is, Or, Do, RowAt, Place, In, Span, Nowhere, Must, Ended, AfterSetup, Workers, AppsAssumption
  <2>1. \A i \in 1 .. 20 : q(i) # Ended => FlowsOpen(p(i), q(i), r(i))
    BY SMTT(90) DEF FlowsOpen
  <2>2. \A i \in 1 .. 20 : q(i) # Ended => FlowsLive(p(i), q(i), r(i))
    BY SMTT(90) DEF FlowsLive
  <2>3. \A i \in 1 .. 20 : q(i) # Ended => FlowsStopped(p(i), q(i), r(i))
    BY SMTT(90) DEF FlowsStopped
  <2>4. \A i \in 1 .. 20 : q(i) # Ended => FlowsThere(p(i), q(i), r(i))
    BY SMTT(90) DEF FlowsThere
  <2>5. \A i \in 1 .. 20 : q(i) # Ended => FlowsRan(p(i), q(i), r(i))
    BY SMTT(90) DEF FlowsRan
  <2>6. \A i \in 1 .. 20 : q(i) # Ended => FlowsMayRun(p(i), q(i), r(i))
    BY SMTT(90) DEF FlowsMayRun
  <2>7. \A i \in 1 .. 20 : ~Unreached(p(i)) => NeedsHal(p(i), r(i))
    BY SMTT(30) DEF NeedsHal, Unreached
  <2>8. \A i \in 1 .. 20 : ~Unreached(p(i)) => NeedsThreads(p(i), q(i), r(i))
    BY SMTT(30) DEF NeedsThreads, Unreached
  <2>9. \A i \in 1 .. 20 : NeedsTable(p(i), r(i))
    BY Tables_multi, SMTT(30) DEF NeedsTable, InFrame, HalOps
  <2> HIDE DEF p, q, r
  <2> QED BY <2>1, <2>2, <2>3, <2>4, <2>5, <2>6, <2>7, <2>8, <2>9, Zenon DEF Flows
<1> HIDE DEF p, q
<1>3. ASSUME NEW i \in 1 .. 20 PROVE Follow(p(i))
  BY <1>1, <1>2, Zenon DEF Follow, r
<1> QED BY <1>3 DEF p

LEMMA Flow_multi_loop ==
  app.name = "cam_demo_multi" => \A i \in 1 .. 1 : Follow(Place("loop", i))
<1> SUFFICES ASSUME app.name = "cam_demo_multi"
             PROVE  \A i \in 1 .. 1 : Follow(Place("loop", i))
  OBVIOUS
<1> DEFINE p(i) == Place("loop", i)
           q(i) == IF i < 1 THEN Place("loop", i + 1) ELSE Place("loop", 1)
           r(i) == RowAt(Main, p(i))
<1>1. \A i \in 1 .. 1 : After(Main, p(i)) = q(i)
  <2>1. Len(Code(Main)["loop"]) = 1
    BY Rows_multi_loop DEF Is
  <2>2. Table(Main, Follows["loop"]) = Place("loop", 1)
    BY Tables_multi DEF Table, Follows
  <2> QED BY <2>1, <2>2 DEF After, Place
<1>2. \A i \in 1 .. 1 :
        /\ Flows(p(i), q(i), r(i))
        /\ ~Unreached(p(i)) => NeedsHal(p(i), r(i)) /\ NeedsThreads(p(i), q(i), r(i))
        /\ NeedsTable(p(i), r(i))
  <2> USE Rows_multi_loop, Spans_multi, AppsAssumption
          DEF Is, Or, Do, RowAt, Place, In, Span, Nowhere, Must, Ended, AfterSetup, Workers, AppsAssumption
  <2>1. \A i \in 1 .. 1 :
          q(i) # Ended => FlowsOpen(p(i), q(i), r(i)) /\ FlowsLive(p(i), q(i), r(i))
    BY SMTT(90) DEF FlowsOpen, FlowsLive
  <2>2. \A i \in 1 .. 1 :
          q(i) # Ended => FlowsStopped(p(i), q(i), r(i)) /\ FlowsThere(p(i), q(i), r(i))
    BY SMTT(90) DEF FlowsStopped, FlowsThere
  <2>3. \A i \in 1 .. 1 :
          q(i) # Ended => FlowsRan(p(i), q(i), r(i)) /\ FlowsMayRun(p(i), q(i), r(i))
    BY SMTT(90) DEF FlowsRan, FlowsMayRun
  <2>4. \A i \in 1 .. 1 :
          ~Unreached(p(i)) => NeedsHal(p(i), r(i)) /\ NeedsThreads(p(i), q(i), r(i))
    BY SMTT(30) DEF NeedsHal, NeedsThreads, Unreached
  <2>5. \A i \in 1 .. 1 : NeedsTable(p(i), r(i))
    BY Tables_multi, SMTT(30) DEF NeedsTable, InFrame, HalOps
  <2> HIDE DEF p, q, r
  <2> QED BY <2>1, <2>2, <2>3, <2>4, <2>5, Zenon DEF Flows
<1> HIDE DEF p, q
<1>3. ASSUME NEW i \in 1 .. 1 PROVE Follow(p(i))
  BY <1>1, <1>2, Zenon DEF Follow, r
<1> QED BY <1>3 DEF p

LEMMA Flow_multi_two_err0 ==
  app.name = "cam_demo_multi" => \A i \in 1 .. 2 : Follow(Place("two_err0", i))
<1> SUFFICES ASSUME app.name = "cam_demo_multi"
             PROVE  \A i \in 1 .. 2 : Follow(Place("two_err0", i))
  OBVIOUS
<1> DEFINE p(i) == Place("two_err0", i)
           q(i) == IF i < 2 THEN Place("two_err0", i + 1) ELSE Place("one_err0", 1)
           r(i) == RowAt(Main, p(i))
<1>1. \A i \in 1 .. 2 : After(Main, p(i)) = q(i)
  <2>1. Len(Code(Main)["two_err0"]) = 2
    BY Rows_multi_two_err0 DEF Is
  <2>2. Table(Main, Follows["two_err0"]) = Place("one_err0", 1)
    BY Tables_multi DEF Table, Follows
  <2> QED BY <2>1, <2>2 DEF After, Place
<1>2. \A i \in 1 .. 2 :
        /\ Flows(p(i), q(i), r(i))
        /\ ~Unreached(p(i)) => NeedsHal(p(i), r(i)) /\ NeedsThreads(p(i), q(i), r(i))
        /\ NeedsTable(p(i), r(i))
  <2> USE Rows_multi_two_err0, Spans_multi, AppsAssumption
          DEF Is, Or, Do, RowAt, Place, In, Span, Nowhere, Must, Ended, AfterSetup, Workers, AppsAssumption
  <2>1. \A i \in 1 .. 2 :
          q(i) # Ended => FlowsOpen(p(i), q(i), r(i)) /\ FlowsLive(p(i), q(i), r(i))
    BY SMTT(90) DEF FlowsOpen, FlowsLive
  <2>2. \A i \in 1 .. 2 :
          q(i) # Ended => FlowsStopped(p(i), q(i), r(i)) /\ FlowsThere(p(i), q(i), r(i))
    BY SMTT(90) DEF FlowsStopped, FlowsThere
  <2>3. \A i \in 1 .. 2 :
          q(i) # Ended => FlowsRan(p(i), q(i), r(i)) /\ FlowsMayRun(p(i), q(i), r(i))
    BY SMTT(90) DEF FlowsRan, FlowsMayRun
  <2>4. \A i \in 1 .. 2 :
          ~Unreached(p(i)) => NeedsHal(p(i), r(i)) /\ NeedsThreads(p(i), q(i), r(i))
    BY SMTT(30) DEF NeedsHal, NeedsThreads, Unreached
  <2>5. \A i \in 1 .. 2 : NeedsTable(p(i), r(i))
    BY Tables_multi, SMTT(30) DEF NeedsTable, InFrame, HalOps
  <2> HIDE DEF p, q, r
  <2> QED BY <2>1, <2>2, <2>3, <2>4, <2>5, Zenon DEF Flows
<1> HIDE DEF p, q
<1>3. ASSUME NEW i \in 1 .. 2 PROVE Follow(p(i))
  BY <1>1, <1>2, Zenon DEF Follow, r
<1> QED BY <1>3 DEF p

LEMMA Flow_multi_one_err0 ==
  app.name = "cam_demo_multi" => \A i \in 1 .. 1 : Follow(Place("one_err0", i))
<1> SUFFICES ASSUME app.name = "cam_demo_multi"
             PROVE  \A i \in 1 .. 1 : Follow(Place("one_err0", i))
  OBVIOUS
<1> DEFINE p(i) == Place("one_err0", i)
           q(i) == IF i < 1 THEN Place("one_err0", i + 1) ELSE Place("finish", 1)
           r(i) == RowAt(Main, p(i))
<1>1. \A i \in 1 .. 1 : After(Main, p(i)) = q(i)
  <2>1. Len(Code(Main)["one_err0"]) = 1
    BY Rows_multi_one_err0 DEF Is
  <2>2. Table(Main, Follows["one_err0"]) = Place("finish", 1)
    BY Tables_multi DEF Table, Follows
  <2> QED BY <2>1, <2>2 DEF After, Place
<1>2. \A i \in 1 .. 1 :
        /\ Flows(p(i), q(i), r(i))
        /\ ~Unreached(p(i)) => NeedsHal(p(i), r(i)) /\ NeedsThreads(p(i), q(i), r(i))
        /\ NeedsTable(p(i), r(i))
  <2> USE Rows_multi_one_err0, Spans_multi, AppsAssumption
          DEF Is, Or, Do, RowAt, Place, In, Span, Nowhere, Must, Ended, AfterSetup, Workers, AppsAssumption
  <2>1. \A i \in 1 .. 1 :
          q(i) # Ended => FlowsOpen(p(i), q(i), r(i)) /\ FlowsLive(p(i), q(i), r(i))
    BY SMTT(90) DEF FlowsOpen, FlowsLive
  <2>2. \A i \in 1 .. 1 :
          q(i) # Ended => FlowsStopped(p(i), q(i), r(i)) /\ FlowsThere(p(i), q(i), r(i))
    BY SMTT(90) DEF FlowsStopped, FlowsThere
  <2>3. \A i \in 1 .. 1 :
          q(i) # Ended => FlowsRan(p(i), q(i), r(i)) /\ FlowsMayRun(p(i), q(i), r(i))
    BY SMTT(90) DEF FlowsRan, FlowsMayRun
  <2>4. \A i \in 1 .. 1 :
          ~Unreached(p(i)) => NeedsHal(p(i), r(i)) /\ NeedsThreads(p(i), q(i), r(i))
    BY SMTT(30) DEF NeedsHal, NeedsThreads, Unreached
  <2>5. \A i \in 1 .. 1 : NeedsTable(p(i), r(i))
    BY Tables_multi, SMTT(30) DEF NeedsTable, InFrame, HalOps
  <2> HIDE DEF p, q, r
  <2> QED BY <2>1, <2>2, <2>3, <2>4, <2>5, Zenon DEF Flows
<1> HIDE DEF p, q
<1>3. ASSUME NEW i \in 1 .. 1 PROVE Follow(p(i))
  BY <1>1, <1>2, Zenon DEF Follow, r
<1> QED BY <1>3 DEF p

LEMMA Flow_multi_two_err1 ==
  app.name = "cam_demo_multi" => \A i \in 1 .. 2 : Follow(Place("two_err1", i))
<1> SUFFICES ASSUME app.name = "cam_demo_multi"
             PROVE  \A i \in 1 .. 2 : Follow(Place("two_err1", i))
  OBVIOUS
<1> DEFINE p(i) == Place("two_err1", i)
           q(i) == IF i < 2 THEN Place("two_err1", i + 1) ELSE Place("one_err1", 1)
           r(i) == RowAt(Main, p(i))
<1>1. \A i \in 1 .. 2 : After(Main, p(i)) = q(i)
  <2>1. Len(Code(Main)["two_err1"]) = 2
    BY Rows_multi_two_err1 DEF Is
  <2>2. Table(Main, Follows["two_err1"]) = Place("one_err1", 1)
    BY Tables_multi DEF Table, Follows
  <2> QED BY <2>1, <2>2 DEF After, Place
<1>2. \A i \in 1 .. 2 :
        /\ Flows(p(i), q(i), r(i))
        /\ ~Unreached(p(i)) => NeedsHal(p(i), r(i)) /\ NeedsThreads(p(i), q(i), r(i))
        /\ NeedsTable(p(i), r(i))
  <2> USE Rows_multi_two_err1, Spans_multi, AppsAssumption
          DEF Is, Or, Do, RowAt, Place, In, Span, Nowhere, Must, Ended, AfterSetup, Workers, AppsAssumption
  <2>1. \A i \in 1 .. 2 :
          q(i) # Ended => FlowsOpen(p(i), q(i), r(i)) /\ FlowsLive(p(i), q(i), r(i))
    BY SMTT(90) DEF FlowsOpen, FlowsLive
  <2>2. \A i \in 1 .. 2 :
          q(i) # Ended => FlowsStopped(p(i), q(i), r(i)) /\ FlowsThere(p(i), q(i), r(i))
    BY SMTT(90) DEF FlowsStopped, FlowsThere
  <2>3. \A i \in 1 .. 2 :
          q(i) # Ended => FlowsRan(p(i), q(i), r(i)) /\ FlowsMayRun(p(i), q(i), r(i))
    BY SMTT(90) DEF FlowsRan, FlowsMayRun
  <2>4. \A i \in 1 .. 2 :
          ~Unreached(p(i)) => NeedsHal(p(i), r(i)) /\ NeedsThreads(p(i), q(i), r(i))
    BY SMTT(30) DEF NeedsHal, NeedsThreads, Unreached
  <2>5. \A i \in 1 .. 2 : NeedsTable(p(i), r(i))
    BY Tables_multi, SMTT(30) DEF NeedsTable, InFrame, HalOps
  <2> HIDE DEF p, q, r
  <2> QED BY <2>1, <2>2, <2>3, <2>4, <2>5, Zenon DEF Flows
<1> HIDE DEF p, q
<1>3. ASSUME NEW i \in 1 .. 2 PROVE Follow(p(i))
  BY <1>1, <1>2, Zenon DEF Follow, r
<1> QED BY <1>3 DEF p

LEMMA Flow_multi_one_err1 ==
  app.name = "cam_demo_multi" => \A i \in 1 .. 1 : Follow(Place("one_err1", i))
<1> SUFFICES ASSUME app.name = "cam_demo_multi"
             PROVE  \A i \in 1 .. 1 : Follow(Place("one_err1", i))
  OBVIOUS
<1> DEFINE p(i) == Place("one_err1", i)
           q(i) == IF i < 1 THEN Place("one_err1", i + 1) ELSE Place("finish", 1)
           r(i) == RowAt(Main, p(i))
<1>1. \A i \in 1 .. 1 : After(Main, p(i)) = q(i)
  <2>1. Len(Code(Main)["one_err1"]) = 1
    BY Rows_multi_one_err1 DEF Is
  <2>2. Table(Main, Follows["one_err1"]) = Place("finish", 1)
    BY Tables_multi DEF Table, Follows
  <2> QED BY <2>1, <2>2 DEF After, Place
<1>2. \A i \in 1 .. 1 :
        /\ Flows(p(i), q(i), r(i))
        /\ ~Unreached(p(i)) => NeedsHal(p(i), r(i)) /\ NeedsThreads(p(i), q(i), r(i))
        /\ NeedsTable(p(i), r(i))
  <2> USE Rows_multi_one_err1, Spans_multi, AppsAssumption
          DEF Is, Or, Do, RowAt, Place, In, Span, Nowhere, Must, Ended, AfterSetup, Workers, AppsAssumption
  <2>1. \A i \in 1 .. 1 :
          q(i) # Ended => FlowsOpen(p(i), q(i), r(i)) /\ FlowsLive(p(i), q(i), r(i))
    BY SMTT(90) DEF FlowsOpen, FlowsLive
  <2>2. \A i \in 1 .. 1 :
          q(i) # Ended => FlowsStopped(p(i), q(i), r(i)) /\ FlowsThere(p(i), q(i), r(i))
    BY SMTT(90) DEF FlowsStopped, FlowsThere
  <2>3. \A i \in 1 .. 1 :
          q(i) # Ended => FlowsRan(p(i), q(i), r(i)) /\ FlowsMayRun(p(i), q(i), r(i))
    BY SMTT(90) DEF FlowsRan, FlowsMayRun
  <2>4. \A i \in 1 .. 1 :
          ~Unreached(p(i)) => NeedsHal(p(i), r(i)) /\ NeedsThreads(p(i), q(i), r(i))
    BY SMTT(30) DEF NeedsHal, NeedsThreads, Unreached
  <2>5. \A i \in 1 .. 1 : NeedsTable(p(i), r(i))
    BY Tables_multi, SMTT(30) DEF NeedsTable, InFrame, HalOps
  <2> HIDE DEF p, q, r
  <2> QED BY <2>1, <2>2, <2>3, <2>4, <2>5, Zenon DEF Flows
<1> HIDE DEF p, q
<1>3. ASSUME NEW i \in 1 .. 1 PROVE Follow(p(i))
  BY <1>1, <1>2, Zenon DEF Follow, r
<1> QED BY <1>3 DEF p

LEMMA Flow_multi_finish ==
  app.name = "cam_demo_multi" => \A i \in 1 .. 7 : Follow(Place("finish", i))
<1> SUFFICES ASSUME app.name = "cam_demo_multi"
             PROVE  \A i \in 1 .. 7 : Follow(Place("finish", i))
  OBVIOUS
<1> DEFINE p(i) == Place("finish", i)
           q(i) == IF i < 7 THEN Place("finish", i + 1) ELSE Place("finish1", 1)
           r(i) == RowAt(Main, p(i))
<1>1. \A i \in 1 .. 7 : After(Main, p(i)) = q(i)
  <2>1. Len(Code(Main)["finish"]) = 7
    BY Rows_multi_finish DEF Is
  <2>2. Table(Main, Follows["finish"]) = Place("finish1", 1)
    BY Tables_multi DEF Table, Follows
  <2> QED BY <2>1, <2>2 DEF After, Place
<1>2. \A i \in 1 .. 7 :
        /\ Flows(p(i), q(i), r(i))
        /\ ~Unreached(p(i)) => NeedsHal(p(i), r(i)) /\ NeedsThreads(p(i), q(i), r(i))
        /\ NeedsTable(p(i), r(i))
  <2> USE Rows_multi_finish, Spans_multi, AppsAssumption
          DEF Is, Or, Do, RowAt, Place, In, Span, Nowhere, Must, Ended, AfterSetup, Workers, AppsAssumption
  <2>1. \A i \in 1 .. 7 :
          q(i) # Ended => FlowsOpen(p(i), q(i), r(i)) /\ FlowsLive(p(i), q(i), r(i))
    BY SMTT(90) DEF FlowsOpen, FlowsLive
  <2>2. \A i \in 1 .. 7 :
          q(i) # Ended => FlowsStopped(p(i), q(i), r(i)) /\ FlowsThere(p(i), q(i), r(i))
    BY SMTT(90) DEF FlowsStopped, FlowsThere
  <2>3. \A i \in 1 .. 7 :
          q(i) # Ended => FlowsRan(p(i), q(i), r(i)) /\ FlowsMayRun(p(i), q(i), r(i))
    BY SMTT(90) DEF FlowsRan, FlowsMayRun
  <2>4. \A i \in 1 .. 7 :
          ~Unreached(p(i)) => NeedsHal(p(i), r(i)) /\ NeedsThreads(p(i), q(i), r(i))
    BY SMTT(30) DEF NeedsHal, NeedsThreads, Unreached
  <2>5. \A i \in 1 .. 7 : NeedsTable(p(i), r(i))
    BY Tables_multi, SMTT(30) DEF NeedsTable, InFrame, HalOps
  <2> HIDE DEF p, q, r
  <2> QED BY <2>1, <2>2, <2>3, <2>4, <2>5, Zenon DEF Flows
<1> HIDE DEF p, q
<1>3. ASSUME NEW i \in 1 .. 7 PROVE Follow(p(i))
  BY <1>1, <1>2, Zenon DEF Follow, r
<1> QED BY <1>3 DEF p

LEMMA Flow_multi_finish1 ==
  app.name = "cam_demo_multi" => \A i \in 1 .. 8 : Follow(Place("finish1", i))
<1> SUFFICES ASSUME app.name = "cam_demo_multi"
             PROVE  \A i \in 1 .. 8 : Follow(Place("finish1", i))
  OBVIOUS
<1> DEFINE p(i) == Place("finish1", i)
           q(i) == IF i < 8 THEN Place("finish1", i + 1) ELSE Ended
           r(i) == RowAt(Main, p(i))
<1>1. \A i \in 1 .. 8 : After(Main, p(i)) = q(i)
  <2>1. Len(Code(Main)["finish1"]) = 8
    BY Rows_multi_finish1 DEF Is
  <2>2. Table(Main, Follows["finish1"]) = Ended
    BY Tables_multi DEF Table, Follows
  <2> QED BY <2>1, <2>2 DEF After, Place
<1>2. \A i \in 1 .. 8 :
        /\ Flows(p(i), q(i), r(i))
        /\ ~Unreached(p(i)) => NeedsHal(p(i), r(i)) /\ NeedsThreads(p(i), q(i), r(i))
        /\ NeedsTable(p(i), r(i))
  <2> USE Rows_multi_finish1, Spans_multi, AppsAssumption
          DEF Is, Or, Do, RowAt, Place, In, Span, Nowhere, Must, Ended, AfterSetup, Workers, AppsAssumption
  <2>1. \A i \in 1 .. 8 :
          q(i) # Ended => FlowsOpen(p(i), q(i), r(i)) /\ FlowsLive(p(i), q(i), r(i))
    BY SMTT(90) DEF FlowsOpen, FlowsLive
  <2>2. \A i \in 1 .. 8 :
          q(i) # Ended => FlowsStopped(p(i), q(i), r(i)) /\ FlowsThere(p(i), q(i), r(i))
    BY SMTT(90) DEF FlowsStopped, FlowsThere
  <2>3. \A i \in 1 .. 8 :
          q(i) # Ended => FlowsRan(p(i), q(i), r(i)) /\ FlowsMayRun(p(i), q(i), r(i))
    BY SMTT(90) DEF FlowsRan, FlowsMayRun
  <2>4. \A i \in 1 .. 8 :
          ~Unreached(p(i)) => NeedsHal(p(i), r(i)) /\ NeedsThreads(p(i), q(i), r(i))
    BY SMTT(30) DEF NeedsHal, NeedsThreads, Unreached
  <2>5. \A i \in 1 .. 8 : NeedsTable(p(i), r(i))
    BY Tables_multi, SMTT(30) DEF NeedsTable, InFrame, HalOps
  <2> HIDE DEF p, q, r
  <2> QED BY <2>1, <2>2, <2>3, <2>4, <2>5, Zenon DEF Flows
<1> HIDE DEF p, q
<1>3. ASSUME NEW i \in 1 .. 8 PROVE Follow(p(i))
  BY <1>1, <1>2, Zenon DEF Follow, r
<1> QED BY <1>3 DEF p

(* A program's main thread is always at one of its rows.                   *)
LEMMA MainFollows ==
  app.name \in OneCaller => \A p : IsPlace(Main, p) => Follow(p)
<1> SUFFICES ASSUME app.name \in OneCaller, NEW p, IsPlace(Main, p)
             PROVE  Follow(p)
  OBVIOUS
<1>1. p = Place(p.table, p.at) /\ p.table \in DOMAIN Code(Main)
      /\ p.at \in DOMAIN Code(Main)[p.table]
  BY DEF IsPlace
<1> HIDE DEF IsPlace
<1>2. ASSUME NEW T \in DOMAIN Code(Main), p.table = T,
             \A i \in DOMAIN Code(Main)[T] : Follow(Place(T, i))
      PROVE  Follow(p)
  BY <1>1, <1>2, Zenon
<1>3. CASE app.name = "cam_demo_simple"
  BY <1>1, <1>2, <1>3, Tables_simple, Rows_simple_setup, Rows_simple_loop, Rows_simple_finish,
     Flow_simple_setup, Flow_simple_loop, Flow_simple_finish DEF Is
<1>4. CASE app.name = "camera_test1"
  BY <1>1, <1>2, <1>4, Tables_test1, Rows_test1_setup, Rows_test1_loop, Rows_test1_finish,
     Flow_test1_setup, Flow_test1_loop, Flow_test1_finish DEF Is
<1>5. CASE app.name = "camera_demo1"
  BY <1>1, <1>2, <1>5, Tables_demo1, Rows_demo1_setup, Rows_demo1_loop,
     Flow_demo1_setup, Flow_demo1_loop DEF Is
<1>6. CASE app.name = "camera_demo2"
  BY <1>1, <1>2, <1>6, Tables_demo2, Rows_demo2_setup, Rows_demo2_loop,
     Flow_demo2_setup, Flow_demo2_loop DEF Is
<1>7. CASE app.name = "cam_demo_ir"
  BY <1>1, <1>2, <1>7, Tables_ir, Rows_ir_setup, Rows_ir_loop, Rows_ir_finish,
     Flow_ir_setup, Flow_ir_loop, Flow_ir_finish DEF Is
<1>8. CASE app.name = "cam_demo_multi"
  <2>1. p.table \in {"setup", "loop", "two_err0", "one_err0", "two_err1", "one_err1",
                     "finish", "finish1"}
    BY <1>1, <1>8, Tables_multi
  <2>2. CASE p.table \in {"setup", "loop", "finish", "finish1"}
    BY <1>1, <1>8, <2>2, Rows_multi_setup, Rows_multi_loop, Rows_multi_finish,
       Rows_multi_finish1, Flow_multi_setup, Flow_multi_loop, Flow_multi_finish,
       Flow_multi_finish1 DEF Is
  <2>3. CASE p.table \in {"two_err0", "one_err0", "two_err1", "one_err1"}
    BY <1>1, <1>8, <2>3, Rows_multi_two_err0, Rows_multi_one_err0, Rows_multi_two_err1,
       Rows_multi_one_err1, Flow_multi_two_err0, Flow_multi_one_err0, Flow_multi_two_err1,
       Flow_multi_one_err1 DEF Is
  <2> QED BY <2>1, <2>2, <2>3
<1> QED BY <1>3, <1>4, <1>5, <1>6, <1>7, <1>8 DEF OneCaller

-----------------------------------------------------------------------------
(* Where a thread goes but to the next row.                                *)

LEMMA SameSpans ==
  ASSUME NEW p, NEW q, p.table = "loop", q.table = "loop"
  PROVE  Flows(p, q, Idle)
<1>1. \A s : In(q, s) <=> In(p, s)
  BY DEF In
<1>2. FlowsOpen(p, q, Idle) /\ FlowsLive(p, q, Idle)
  BY <1>1 DEF FlowsOpen, FlowsLive, Must, Idle, Do, Or
<1>3. FlowsStopped(p, q, Idle) /\ FlowsThere(p, q, Idle)
  BY <1>1 DEF FlowsStopped, FlowsThere, Must, Idle, Do, Or
<1>4. FlowsRan(p, q, Idle) /\ FlowsMayRun(p, q, Idle)
  BY <1>1 DEF FlowsRan, FlowsMayRun, Idle, Do, Or
<1> QED BY <1>2, <1>3, <1>4 DEF Flows

(* Out of the loop, which cam_demo_multi's main thread never leaves.       *)
LEMMA LeavesFlow ==
  ASSUME app.name \in OneCaller \ {"cam_demo_multi"}, NEW p, p.table = "loop"
  PROVE  Flows(p, Table(Main, "finish"), Idle)
<1> DEFINE q == Place("finish", 1)
<1> USE AppsAssumption
    DEF Idle, Do, Or, Place, In, Span, Nowhere, Must, AfterSetup, Workers, AppsAssumption
<1>1. CASE app.name = "cam_demo_simple"
  <2>1. Table(Main, "finish") = q
    BY <1>1, Tables_simple DEF Table
  <2>2. FlowsOpen(p, q, Idle) /\ FlowsLive(p, q, Idle)
    BY <1>1, Spans_simple DEF FlowsOpen, FlowsLive
  <2>3. FlowsStopped(p, q, Idle) /\ FlowsThere(p, q, Idle)
    BY <1>1, Spans_simple DEF FlowsStopped, FlowsThere
  <2>4. FlowsRan(p, q, Idle) /\ FlowsMayRun(p, q, Idle)
    BY <1>1, Spans_simple DEF FlowsRan, FlowsMayRun
  <2> QED BY <2>1, <2>2, <2>3, <2>4, Zenon DEF Flows
<1>2. CASE app.name = "camera_test1"
  <2>1. Table(Main, "finish") = q
    BY <1>2, Tables_test1 DEF Table
  <2>2. FlowsOpen(p, q, Idle) /\ FlowsLive(p, q, Idle)
    BY <1>2, Spans_test1 DEF FlowsOpen, FlowsLive
  <2>3. FlowsStopped(p, q, Idle) /\ FlowsThere(p, q, Idle)
    BY <1>2, Spans_test1 DEF FlowsStopped, FlowsThere
  <2>4. FlowsRan(p, q, Idle) /\ FlowsMayRun(p, q, Idle)
    BY <1>2, Spans_test1 DEF FlowsRan, FlowsMayRun
  <2> QED BY <2>1, <2>2, <2>3, <2>4, Zenon DEF Flows
<1>3. CASE app.name \in {"camera_demo1", "camera_demo2"}
  <2>1. Table(Main, "finish") = Ended
    BY <1>3, Tables_demo1, Tables_demo2 DEF Table
  <2> QED BY <2>1 DEF Flows
<1>4. CASE app.name = "cam_demo_ir"
  <2>1. Table(Main, "finish") = q
    BY <1>4, Tables_ir DEF Table
  <2>2. FlowsOpen(p, q, Idle) /\ FlowsLive(p, q, Idle)
    BY <1>4, Spans_ir DEF FlowsOpen, FlowsLive
  <2>3. FlowsStopped(p, q, Idle) /\ FlowsThere(p, q, Idle)
    BY <1>4, Spans_ir DEF FlowsStopped, FlowsThere
  <2>4. FlowsRan(p, q, Idle) /\ FlowsMayRun(p, q, Idle)
    BY <1>4, Spans_ir DEF FlowsRan, FlowsMayRun
  <2> QED BY <2>1, <2>2, <2>3, <2>4, Zenon DEF Flows
<1> QED BY <1>1, <1>2, <1>3, <1>4 DEF OneCaller

(* After a call that failed: the process ends, or cam_demo_multi takes     *)
(* back what it has opened for this camera.                                *)
LEMMA FailFlows ==
  ASSUME app.name \in OneCaller, NEW p, NeedsTable(p, RowAt(Main, p)), RowAt(Main, p).to # "none"
  PROVE  Flows(p, Table(Main, RowAt(Main, p).to), Idle)
<1> DEFINE to == RowAt(Main, p).to
<1>1. CASE app.name # "cam_demo_multi"
  <2>1. to = "exit"
    BY <1>1 DEF NeedsTable
  <2>2. "exit" \notin DOMAIN Code(Main)
    BY <1>1, Tables_simple, Tables_test1, Tables_demo1, Tables_demo2, Tables_ir DEF OneCaller
  <2> QED BY <2>1, <2>2 DEF Table, Flows
<1>2. CASE app.name = "cam_demo_multi"
  <2>1. /\ p.table = "setup"
        /\ \/ p.at \in 2 .. 7 /\ to \in {"two_err0", "one_err0"}
           \/ p.at \in 10 .. 18 /\ to \in {"two_err1", "one_err1"}
    BY <1>2 DEF NeedsTable
  <2> DEFINE q == Place(to, 1)
  <2>2. Table(Main, to) = q
    BY <1>2, <2>1, Tables_multi DEF Table
  <2> HIDE DEF to
  <2> USE <1>2, <2>1, Spans_multi, AppsAssumption
      DEF Idle, Do, Or, Place, In, Span, Nowhere, Must, AfterSetup, Workers, AppsAssumption
  <2>3. FlowsOpen(p, q, Idle) /\ FlowsLive(p, q, Idle)
    BY DEF FlowsOpen, FlowsLive
  <2>4. FlowsStopped(p, q, Idle) /\ FlowsThere(p, q, Idle)
    BY DEF FlowsStopped, FlowsThere
  <2>5. FlowsRan(p, q, Idle)
    BY DEF FlowsRan
  <2>6. FlowsMayRun(p, q, Idle)
    BY DEF FlowsMayRun
  <2> QED BY <2>2, <2>3, <2>4, <2>5, <2>6, Zenon DEF Flows, to
<1> QED BY <1>1, <1>2

(* cam_demo_multi's end passes by a camera that was not opened.            *)
LEMMA GivenFlows ==
  ASSUME app.name \in OneCaller, NEW p, IsPlace(Main, p), NeedsTable(p, RowAt(Main, p)),
         RowAt(Main, p).op = "given"
  PROVE  Flows(p, Table(Main, Follows[p.table]), Idle)
<1>1. app.name = "cam_demo_multi" /\ p.table \in {"finish", "finish1"}
  BY DEF NeedsTable
<1> DEFINE q == Place("finish1", 1)
<1>2. Table(Main, Follows[p.table]) = IF p.table = "finish" THEN q ELSE Ended
  BY <1>1, Tables_multi DEF Table, Follows
<1>3. CASE p.table = "finish"
  <2> USE <1>1, <1>3, Spans_multi, AppsAssumption
      DEF Idle, Do, Or, Place, In, Span, Nowhere, Must, AfterSetup, Workers, AppsAssumption
  <2>1. FlowsOpen(p, q, Idle) /\ FlowsLive(p, q, Idle)
    BY DEF FlowsOpen, FlowsLive
  <2>2. FlowsStopped(p, q, Idle) /\ FlowsThere(p, q, Idle)
    BY DEF FlowsStopped, FlowsThere
  <2>3. FlowsRan(p, q, Idle) /\ FlowsMayRun(p, q, Idle)
    BY DEF FlowsRan, FlowsMayRun
  <2> QED BY <1>2, <2>1, <2>2, <2>3, Zenon DEF Flows
<1>4. CASE p.table = "finish1"
  BY <1>2, <1>4 DEF Flows
<1> QED BY <1>1, <1>3, <1>4

-----------------------------------------------------------------------------
(* A loop: from the count to the frames and from frame to frame.           *)

WorkerOps == {"while", "event", "count", "get", "dump", "put", "peek", "dequeue", "free"}
LoopCalls(t) ==
  \A i \in DOMAIN Code(t)["loop"] :
    LET r == Code(t)["loop"][i] IN
    /\ r.c = Cam(t)
    /\ app.name \in OneCaller /\ r.op \in InFrame \cup {"count"} =>
         r.n \in Used(Cam(t)) \cup {"none"}
    /\ app.name = "cam_demo_ir" /\ r.op \in InFrame => r.n # "none"
    /\ r.op = "dequeue" => app.name = "cam_demo_ir"
    /\ app.name \in OneCaller /\ t # Main => r.op \in WorkerOps /\ r.to = "none"
LoopGets(t) ==
  LET rows == Code(t)["loop"] IN
  \A i \in DOMAIN rows :
    rows[i].op \in {"count", "put"} =>
      (\E g \in DOMAIN rows : rows[g].op = "get") /\ (\E h \in DOMAIN rows : rows[h].op = "put")
InOrder(rows) ==
  /\ rows[1].op \notin InFrame
  /\ \A i \in DOMAIN rows :
       /\ rows[i].op \in {"get", "dump", "display"} =>
            i < Len(rows) /\ rows[i + 1].op \in {"dump", "display", "put"}
       /\ rows[i].op \notin {"count", "get", "dump", "display"} /\ i < Len(rows) =>
            rows[i + 1].op \notin InFrame
LoopOrder(t) == InOrder(Code(t)["loop"])
LoopRows(t) ==
  LoopCalls(t) /\ LoopGets(t) /\ (app.name \in OneCaller => LoopOrder(t))

LEMMA Loop_simple == app.name = "cam_demo_simple" => LoopRows(Main)
<1> SUFFICES ASSUME app.name = "cam_demo_simple" PROVE LoopRows(Main)
  OBVIOUS
<1>1. LoopCalls(Main)
  BY Rows_simple_loop, Spans_simple DEF LoopCalls, Is, Or, Do, InFrame, Main, Cam, WorkerOps, OneCaller
<1> DEFINE rows == Code(Main)["loop"]
<1>2. /\ Len(rows) = 7 /\ DOMAIN rows = 1 .. 7
      /\ rows[1].op = "while" /\ rows[2].op = "event" /\ rows[3].op = "count"
      /\ rows[4].op = "get" /\ rows[5].op = "dump" /\ rows[6].op = "display"
      /\ rows[7].op = "put"
  BY Rows_simple_loop DEF Is, Or, Do
<1> HIDE DEF rows
<1>3. LoopGets(Main)
  BY <1>2 DEF LoopGets, rows
<1>4. app.name \in OneCaller => LoopOrder(Main)
  <2>1. \A i \in 1 .. 7 : i = 1 \/ i = 2 \/ i = 3 \/ i = 4 \/ i = 5 \/ i = 6 \/ i = 7
    OBVIOUS
  <2>2. InOrder(rows)
    BY <1>2, <2>1, SMTT(30) DEF InOrder, InFrame
  <2> QED BY <2>2 DEF LoopOrder, rows
<1> QED BY <1>1, <1>3, <1>4 DEF LoopRows

LEMMA Loop_test1 == app.name = "camera_test1" => LoopRows(Main)
<1> SUFFICES ASSUME app.name = "camera_test1" PROVE LoopRows(Main)
  OBVIOUS
<1>1. LoopCalls(Main)
  BY Rows_test1_loop, Spans_test1 DEF LoopCalls, Is, Or, Do, InFrame, Main, Cam, WorkerOps, OneCaller
<1> DEFINE rows == Code(Main)["loop"]
<1>2. /\ Len(rows) = 6 /\ DOMAIN rows = 1 .. 6
      /\ rows[1].op = "while" /\ rows[2].op = "event" /\ rows[3].op = "count"
      /\ rows[4].op = "get" /\ rows[5].op = "dump" /\ rows[6].op = "put"
  BY Rows_test1_loop DEF Is, Or, Do
<1> HIDE DEF rows
<1>3. LoopGets(Main)
  BY <1>2 DEF LoopGets, rows
<1>4. app.name \in OneCaller => LoopOrder(Main)
  <2>1. \A i \in 1 .. 6 : i = 1 \/ i = 2 \/ i = 3 \/ i = 4 \/ i = 5 \/ i = 6
    OBVIOUS
  <2>2. InOrder(rows)
    BY <1>2, <2>1, SMTT(30) DEF InOrder, InFrame
  <2> QED BY <2>2 DEF LoopOrder, rows
<1> QED BY <1>1, <1>3, <1>4 DEF LoopRows

LEMMA Loop_demo1 == app.name = "camera_demo1" => LoopRows(Main)
<1> SUFFICES ASSUME app.name = "camera_demo1" PROVE LoopRows(Main)
  OBVIOUS
<1>1. LoopCalls(Main)
  BY Rows_demo1_loop, Spans_demo1 DEF LoopCalls, Is, Or, Do, InFrame, Main, Cam, WorkerOps, OneCaller
<1> DEFINE rows == Code(Main)["loop"]
<1>2. /\ Len(rows) = 4 /\ DOMAIN rows = 1 .. 4
      /\ rows[1].op = "event" /\ rows[2].op = "count" /\ rows[3].op = "get"
      /\ rows[4].op = "put"
  BY Rows_demo1_loop DEF Is, Or, Do
<1> HIDE DEF rows
<1>3. LoopGets(Main)
  BY <1>2 DEF LoopGets, rows
<1>4. app.name \in OneCaller => LoopOrder(Main)
  <2>1. \A i \in 1 .. 4 : i = 1 \/ i = 2 \/ i = 3 \/ i = 4
    OBVIOUS
  <2>2. InOrder(rows)
    BY <1>2, <2>1, SMTT(30) DEF InOrder, InFrame
  <2> QED BY <2>2 DEF LoopOrder, rows
<1> QED BY <1>1, <1>3, <1>4 DEF LoopRows

LEMMA Loop_demo2 == app.name = "camera_demo2" => LoopRows(Main)
<1> SUFFICES ASSUME app.name = "camera_demo2" PROVE LoopRows(Main)
  OBVIOUS
<1>1. LoopCalls(Main)
  BY Rows_demo2_loop, Spans_demo2 DEF LoopCalls, Is, Or, Do, InFrame, Main, Cam, WorkerOps, OneCaller
<1> DEFINE rows == Code(Main)["loop"]
<1>2. /\ Len(rows) = 5 /\ DOMAIN rows = 1 .. 5
      /\ rows[1].op = "event" /\ rows[2].op = "count" /\ rows[3].op = "get"
      /\ rows[4].op = "dump" /\ rows[5].op = "put"
  BY Rows_demo2_loop DEF Is, Or, Do
<1> HIDE DEF rows
<1>3. LoopGets(Main)
  BY <1>2 DEF LoopGets, rows
<1>4. app.name \in OneCaller => LoopOrder(Main)
  <2>1. \A i \in 1 .. 5 : i = 1 \/ i = 2 \/ i = 3 \/ i = 4 \/ i = 5
    OBVIOUS
  <2>2. InOrder(rows)
    BY <1>2, <2>1, SMTT(30) DEF InOrder, InFrame
  <2> QED BY <2>2 DEF LoopOrder, rows
<1> QED BY <1>1, <1>3, <1>4 DEF LoopRows

LEMMA Loop_demo4 == app.name = "camera_demo4" => LoopRows(Main)
<1> SUFFICES ASSUME app.name = "camera_demo4" PROVE LoopRows(Main)
  OBVIOUS
<1>1. LoopCalls(Main)
  BY Rows_demo4_loop DEF LoopCalls, Is, Or, Do, InFrame, Main, Cam, WorkerOps, OneCaller
<1> DEFINE rows == Code(Main)["loop"]
<1>2. /\ Len(rows) = 1 /\ DOMAIN rows = 1 .. 1
      /\ rows[1].op = "spawn"
  BY Rows_demo4_loop DEF Is, Or, Do
<1> HIDE DEF rows
<1>3. LoopGets(Main)
  BY <1>2 DEF LoopGets, rows
<1>4. app.name \in OneCaller => LoopOrder(Main)
  BY DEF OneCaller
<1> QED BY <1>1, <1>3, <1>4 DEF LoopRows

LEMMA Loop_demo4_w0 == app.name = "camera_demo4" => LoopRows("w0")
<1> SUFFICES ASSUME app.name = "camera_demo4" PROVE LoopRows("w0")
  OBVIOUS
<1>1. LoopCalls("w0")
  BY Rows_demo4_w0_loop DEF LoopCalls, Is, Or, Do, InFrame, Main, Cam, WorkerOps, OneCaller
<1> DEFINE rows == Code("w0")["loop"]
<1>2. /\ Len(rows) = 5 /\ DOMAIN rows = 1 .. 5
      /\ rows[1].op = "while" /\ rows[2].op = "poll" /\ rows[3].op = "count"
      /\ rows[4].op = "get" /\ rows[5].op = "put"
  BY Rows_demo4_w0_loop DEF Is, Or, Do
<1> HIDE DEF rows
<1>3. LoopGets("w0")
  BY <1>2 DEF LoopGets, rows
<1>4. app.name \in OneCaller => LoopOrder("w0")
  BY DEF OneCaller
<1> QED BY <1>1, <1>3, <1>4 DEF LoopRows

LEMMA Loop_demo4_w1 == app.name = "camera_demo4" => LoopRows("w1")
<1> SUFFICES ASSUME app.name = "camera_demo4" PROVE LoopRows("w1")
  OBVIOUS
<1>1. LoopCalls("w1")
  BY Rows_demo4_w1_loop DEF LoopCalls, Is, Or, Do, InFrame, Main, Cam, WorkerOps, OneCaller
<1> DEFINE rows == Code("w1")["loop"]
<1>2. /\ Len(rows) = 5 /\ DOMAIN rows = 1 .. 5
      /\ rows[1].op = "while" /\ rows[2].op = "poll" /\ rows[3].op = "count"
      /\ rows[4].op = "get" /\ rows[5].op = "put"
  BY Rows_demo4_w1_loop DEF Is, Or, Do
<1> HIDE DEF rows
<1>3. LoopGets("w1")
  BY <1>2 DEF LoopGets, rows
<1>4. app.name \in OneCaller => LoopOrder("w1")
  BY DEF OneCaller
<1> QED BY <1>1, <1>3, <1>4 DEF LoopRows

LEMMA Loop_ir == app.name = "cam_demo_ir" => LoopRows(Main)
<1> SUFFICES ASSUME app.name = "cam_demo_ir" PROVE LoopRows(Main)
  OBVIOUS
<1>1. LoopCalls(Main)
  BY Rows_ir_loop, Spans_ir DEF LoopCalls, Is, Or, Do, InFrame, Main, Cam, WorkerOps, OneCaller
<1> DEFINE rows == Code(Main)["loop"]
<1>2. /\ Len(rows) = 4 /\ DOMAIN rows = 1 .. 4
      /\ rows[1].op = "malloc" /\ rows[2].op = "event" /\ rows[3].op = "route"
      /\ rows[4].op = "while"
  BY Rows_ir_loop DEF Is, Or, Do
<1> HIDE DEF rows
<1>3. LoopGets(Main)
  BY <1>2 DEF LoopGets, rows
<1>4. app.name \in OneCaller => LoopOrder(Main)
  <2>1. \A i \in 1 .. 4 : i = 1 \/ i = 2 \/ i = 3 \/ i = 4
    OBVIOUS
  <2>2. InOrder(rows)
    BY <1>2, <2>1, SMTT(30) DEF InOrder, InFrame
  <2> QED BY <2>2 DEF LoopOrder, rows
<1> QED BY <1>1, <1>3, <1>4 DEF LoopRows

LEMMA Loop_ir_w0 == app.name = "cam_demo_ir" => LoopRows("w0")
<1> SUFFICES ASSUME app.name = "cam_demo_ir" PROVE LoopRows("w0")
  OBVIOUS
<1>1. LoopCalls("w0")
  BY Rows_ir_w0_loop, Spans_ir DEF LoopCalls, Is, Or, Do, InFrame, Main, Cam, WorkerOps, OneCaller
<1> DEFINE rows == Code("w0")["loop"]
<1>2. /\ Len(rows) = 6 /\ DOMAIN rows = 1 .. 6
      /\ rows[1].op = "peek" /\ rows[2].op = "dequeue" /\ rows[3].op = "count"
      /\ rows[4].op = "get" /\ rows[5].op = "put" /\ rows[6].op = "free"
  BY Rows_ir_w0_loop DEF Is, Or, Do
<1> HIDE DEF rows
<1>3. LoopGets("w0")
  BY <1>2 DEF LoopGets, rows
<1>4. app.name \in OneCaller => LoopOrder("w0")
  <2>1. \A i \in 1 .. 6 : i = 1 \/ i = 2 \/ i = 3 \/ i = 4 \/ i = 5 \/ i = 6
    OBVIOUS
  <2>2. InOrder(rows)
    BY <1>2, <2>1, SMTT(30) DEF InOrder, InFrame
  <2> QED BY <2>2 DEF LoopOrder, rows
<1> QED BY <1>1, <1>3, <1>4 DEF LoopRows

LEMMA Loop_ir_w1 == app.name = "cam_demo_ir" => LoopRows("w1")
<1> SUFFICES ASSUME app.name = "cam_demo_ir" PROVE LoopRows("w1")
  OBVIOUS
<1>1. LoopCalls("w1")
  BY Rows_ir_w1_loop, Spans_ir DEF LoopCalls, Is, Or, Do, InFrame, Main, Cam, WorkerOps, OneCaller
<1> DEFINE rows == Code("w1")["loop"]
<1>2. /\ Len(rows) = 6 /\ DOMAIN rows = 1 .. 6
      /\ rows[1].op = "peek" /\ rows[2].op = "dequeue" /\ rows[3].op = "count"
      /\ rows[4].op = "get" /\ rows[5].op = "put" /\ rows[6].op = "free"
  BY Rows_ir_w1_loop DEF Is, Or, Do
<1> HIDE DEF rows
<1>3. LoopGets("w1")
  BY <1>2 DEF LoopGets, rows
<1>4. app.name \in OneCaller => LoopOrder("w1")
  <2>1. \A i \in 1 .. 6 : i = 1 \/ i = 2 \/ i = 3 \/ i = 4 \/ i = 5 \/ i = 6
    OBVIOUS
  <2>2. InOrder(rows)
    BY <1>2, <2>1, SMTT(30) DEF InOrder, InFrame
  <2> QED BY <2>2 DEF LoopOrder, rows
<1> QED BY <1>1, <1>3, <1>4 DEF LoopRows

LEMMA Loop_multi == app.name = "cam_demo_multi" => LoopRows(Main)
<1> SUFFICES ASSUME app.name = "cam_demo_multi" PROVE LoopRows(Main)
  OBVIOUS
<1>1. LoopCalls(Main)
  BY Rows_multi_loop, Spans_multi DEF LoopCalls, Is, Or, Do, InFrame, Main, Cam, WorkerOps, OneCaller
<1> DEFINE rows == Code(Main)["loop"]
<1>2. /\ Len(rows) = 1 /\ DOMAIN rows = 1 .. 1
      /\ rows[1].op = "while"
  BY Rows_multi_loop DEF Is, Or, Do
<1> HIDE DEF rows
<1>3. LoopGets(Main)
  BY <1>2 DEF LoopGets, rows
<1>4. app.name \in OneCaller => LoopOrder(Main)
  <2>1. \A i \in 1 .. 1 : i = 1
    OBVIOUS
  <2>2. InOrder(rows)
    BY <1>2, <2>1, SMTT(30) DEF InOrder, InFrame
  <2> QED BY <2>2 DEF LoopOrder, rows
<1> QED BY <1>1, <1>3, <1>4 DEF LoopRows

LEMMA Loop_multi_w0 == app.name = "cam_demo_multi" => LoopRows("w0")
<1> SUFFICES ASSUME app.name = "cam_demo_multi" PROVE LoopRows("w0")
  OBVIOUS
<1>1. LoopCalls("w0")
  BY Rows_multi_w0_loop, Spans_multi DEF LoopCalls, Is, Or, Do, InFrame, Main, Cam, WorkerOps, OneCaller
<1> DEFINE rows == Code("w0")["loop"]
<1>2. /\ Len(rows) = 6 /\ DOMAIN rows = 1 .. 6
      /\ rows[1].op = "while" /\ rows[2].op = "event" /\ rows[3].op = "count"
      /\ rows[4].op = "get" /\ rows[5].op = "dump" /\ rows[6].op = "put"
  BY Rows_multi_w0_loop DEF Is, Or, Do
<1> HIDE DEF rows
<1>3. LoopGets("w0")
  BY <1>2 DEF LoopGets, rows
<1>4. app.name \in OneCaller => LoopOrder("w0")
  <2>1. \A i \in 1 .. 6 : i = 1 \/ i = 2 \/ i = 3 \/ i = 4 \/ i = 5 \/ i = 6
    OBVIOUS
  <2>2. InOrder(rows)
    BY <1>2, <2>1, SMTT(30) DEF InOrder, InFrame
  <2> QED BY <2>2 DEF LoopOrder, rows
<1> QED BY <1>1, <1>3, <1>4 DEF LoopRows

LEMMA Loop_multi_w1 == app.name = "cam_demo_multi" => LoopRows("w1")
<1> SUFFICES ASSUME app.name = "cam_demo_multi" PROVE LoopRows("w1")
  OBVIOUS
<1>1. LoopCalls("w1")
  BY Rows_multi_w1_loop, Spans_multi DEF LoopCalls, Is, Or, Do, InFrame, Main, Cam, WorkerOps, OneCaller
<1> DEFINE rows == Code("w1")["loop"]
<1>2. /\ Len(rows) = 6 /\ DOMAIN rows = 1 .. 6
      /\ rows[1].op = "while" /\ rows[2].op = "event" /\ rows[3].op = "count"
      /\ rows[4].op = "get" /\ rows[5].op = "dump" /\ rows[6].op = "put"
  BY Rows_multi_w1_loop DEF Is, Or, Do
<1> HIDE DEF rows
<1>3. LoopGets("w1")
  BY <1>2 DEF LoopGets, rows
<1>4. app.name \in OneCaller => LoopOrder("w1")
  <2>1. \A i \in 1 .. 6 : i = 1 \/ i = 2 \/ i = 3 \/ i = 4 \/ i = 5 \/ i = 6
    OBVIOUS
  <2>2. InOrder(rows)
    BY <1>2, <2>1, SMTT(30) DEF InOrder, InFrame
  <2> QED BY <2>2 DEF LoopOrder, rows
<1> QED BY <1>1, <1>3, <1>4 DEF LoopRows

LEMMA ProgramNames == DOMAIN Programs = OneCaller \cup {"camera_demo4"}
BY DEF Programs, OneCaller

LEMMA MainLoops == app.name \in DOMAIN Programs => LoopRows(Main)
BY Loop_simple, Loop_test1, Loop_demo1, Loop_demo2, Loop_demo4, Loop_ir, Loop_multi,
   ProgramNames
   DEF OneCaller

LEMMA WorkerLoops ==
  ASSUME app.name \in DOMAIN Programs, NEW t \in Workers, t \in DOMAIN Programs[app.name]
  PROVE  LoopRows(t) /\ (app.name \in OneCaller => DOMAIN Code(t) = {"loop"})
<1>1. app.name \in {"camera_demo4", "cam_demo_ir", "cam_demo_multi"}
  BY Tables_simple, Tables_test1, Tables_demo1, Tables_demo2, ProgramNames
     DEF OneCaller, Workers, Main
<1>2. CASE app.name = "camera_demo4"
  BY <1>2, Loop_demo4_w0, Loop_demo4_w1 DEF OneCaller, Workers
<1>3. CASE app.name = "cam_demo_ir"
  BY <1>3, Loop_ir_w0, Loop_ir_w1, Tables_ir DEF Workers
<1>4. CASE app.name = "cam_demo_multi"
  BY <1>4, Loop_multi_w0, Loop_multi_w1, Tables_multi DEF Workers
<1> QED BY <1>1, <1>2, <1>3, <1>4

(* A table is a sequence of rows, and not empty.                           *)
Table_of_rows(s) == Len(s) \in Nat \ {0} /\ DOMAIN s = 1 .. Len(s)

LEMMA Sized_simple ==
  app.name = "cam_demo_simple" => \A T \in DOMAIN Code(Main) : T \notin Off /\ Table_of_rows(Code(Main)[T])
<1> SUFFICES ASSUME app.name = "cam_demo_simple"
             PROVE  \A T \in DOMAIN Code(Main) : T \notin Off /\ Table_of_rows(Code(Main)[T])
  OBVIOUS
<1>1. Table_of_rows(Code(Main)["setup"])
  <2>1. Len(Code(Main)["setup"]) = 9 /\ DOMAIN Code(Main)["setup"] = 1 .. 9
    BY Rows_simple_setup DEF Is
  <2> QED BY <2>1 DEF Table_of_rows
<1>2. Table_of_rows(Code(Main)["loop"])
  BY Rows_simple_loop, SMTT(30) DEF Is, Table_of_rows
<1>3. Table_of_rows(Code(Main)["finish"])
  BY Rows_simple_finish DEF Is, Table_of_rows
<1> QED BY <1>1, <1>2, <1>3, Tables_simple DEF Off

LEMMA Sized_test1 ==
  app.name = "camera_test1" => \A T \in DOMAIN Code(Main) : T \notin Off /\ Table_of_rows(Code(Main)[T])
<1> SUFFICES ASSUME app.name = "camera_test1"
             PROVE  \A T \in DOMAIN Code(Main) : T \notin Off /\ Table_of_rows(Code(Main)[T])
  OBVIOUS
<1>1. Table_of_rows(Code(Main)["setup"])
  BY Rows_test1_setup, SMTT(30) DEF Is, Table_of_rows
<1>2. Table_of_rows(Code(Main)["loop"])
  BY Rows_test1_loop DEF Is, Table_of_rows
<1>3. Table_of_rows(Code(Main)["finish"])
  BY Rows_test1_finish DEF Is, Table_of_rows
<1> QED BY <1>1, <1>2, <1>3, Tables_test1 DEF Off

LEMMA Sized_demo1 ==
  app.name = "camera_demo1" => \A T \in DOMAIN Code(Main) : T \notin Off /\ Table_of_rows(Code(Main)[T])
<1> SUFFICES ASSUME app.name = "camera_demo1"
             PROVE  \A T \in DOMAIN Code(Main) : T \notin Off /\ Table_of_rows(Code(Main)[T])
  OBVIOUS
<1>1. Table_of_rows(Code(Main)["setup"])
  BY Rows_demo1_setup, SMTT(30) DEF Is, Table_of_rows
<1>2. Table_of_rows(Code(Main)["loop"])
  BY Rows_demo1_loop DEF Is, Table_of_rows
<1> QED BY <1>1, <1>2, Tables_demo1 DEF Off

LEMMA Sized_demo2 ==
  app.name = "camera_demo2" => \A T \in DOMAIN Code(Main) : T \notin Off /\ Table_of_rows(Code(Main)[T])
<1> SUFFICES ASSUME app.name = "camera_demo2"
             PROVE  \A T \in DOMAIN Code(Main) : T \notin Off /\ Table_of_rows(Code(Main)[T])
  OBVIOUS
<1>1. Table_of_rows(Code(Main)["setup"])
  <2>1. Len(Code(Main)["setup"]) = 15 /\ DOMAIN Code(Main)["setup"] = 1 .. 15
    BY Rows_demo2_setup DEF Is
  <2> QED BY <2>1 DEF Table_of_rows
<1>2. Table_of_rows(Code(Main)["loop"])
  BY Rows_demo2_loop DEF Is, Table_of_rows
<1> QED BY <1>1, <1>2, Tables_demo2 DEF Off

LEMMA Sized_demo4 ==
  app.name = "camera_demo4" => \A T \in DOMAIN Code(Main) : T \notin Off /\ Table_of_rows(Code(Main)[T])
<1> SUFFICES ASSUME app.name = "camera_demo4"
             PROVE  \A T \in DOMAIN Code(Main) : T \notin Off /\ Table_of_rows(Code(Main)[T])
  OBVIOUS
<1>1. Table_of_rows(Code(Main)["setup"])
  BY Rows_demo4_setup DEF Is, Table_of_rows
<1>2. Table_of_rows(Code(Main)["loop"])
  BY Rows_demo4_loop DEF Is, Table_of_rows
<1> QED BY <1>1, <1>2, Tables_demo4 DEF Off

LEMMA Sized_demo4_w0 ==
  app.name = "camera_demo4" => \A T \in DOMAIN Code("w0") : T \notin Off /\ Table_of_rows(Code("w0")[T])
<1> SUFFICES ASSUME app.name = "camera_demo4"
             PROVE  \A T \in DOMAIN Code("w0") : T \notin Off /\ Table_of_rows(Code("w0")[T])
  OBVIOUS
<1>1. Table_of_rows(Code("w0")["setup"])
  BY Rows_demo4_w0_setup DEF Is, Table_of_rows
<1>2. Table_of_rows(Code("w0")["loop"])
  BY Rows_demo4_w0_loop DEF Is, Table_of_rows
<1> QED BY <1>1, <1>2, Tables_demo4 DEF Off

LEMMA Sized_demo4_w1 ==
  app.name = "camera_demo4" => \A T \in DOMAIN Code("w1") : T \notin Off /\ Table_of_rows(Code("w1")[T])
<1> SUFFICES ASSUME app.name = "camera_demo4"
             PROVE  \A T \in DOMAIN Code("w1") : T \notin Off /\ Table_of_rows(Code("w1")[T])
  OBVIOUS
<1>1. Table_of_rows(Code("w1")["setup"])
  BY Rows_demo4_w1_setup DEF Is, Table_of_rows
<1>2. Table_of_rows(Code("w1")["loop"])
  BY Rows_demo4_w1_loop DEF Is, Table_of_rows
<1> QED BY <1>1, <1>2, Tables_demo4 DEF Off

LEMMA Sized_ir ==
  app.name = "cam_demo_ir" => \A T \in DOMAIN Code(Main) : T \notin Off /\ Table_of_rows(Code(Main)[T])
<1> SUFFICES ASSUME app.name = "cam_demo_ir"
             PROVE  \A T \in DOMAIN Code(Main) : T \notin Off /\ Table_of_rows(Code(Main)[T])
  OBVIOUS
<1>1. Table_of_rows(Code(Main)["setup"])
  <2>1. Len(Code(Main)["setup"]) = 14 /\ DOMAIN Code(Main)["setup"] = 1 .. 14
    BY Rows_ir_setup DEF Is
  <2> QED BY <2>1 DEF Table_of_rows
<1>2. Table_of_rows(Code(Main)["loop"])
  BY Rows_ir_loop DEF Is, Table_of_rows
<1>3. Table_of_rows(Code(Main)["finish"])
  <2>1. Len(Code(Main)["finish"]) = 12 /\ DOMAIN Code(Main)["finish"] = 1 .. 12
    BY Rows_ir_finish DEF Is
  <2> QED BY <2>1 DEF Table_of_rows
<1> QED BY <1>1, <1>2, <1>3, Tables_ir DEF Off

LEMMA Sized_ir_w0 ==
  app.name = "cam_demo_ir" => \A T \in DOMAIN Code("w0") : T \notin Off /\ Table_of_rows(Code("w0")[T])
<1> SUFFICES ASSUME app.name = "cam_demo_ir"
             PROVE  \A T \in DOMAIN Code("w0") : T \notin Off /\ Table_of_rows(Code("w0")[T])
  OBVIOUS
<1>1. Table_of_rows(Code("w0")["loop"])
  BY Rows_ir_w0_loop DEF Is, Table_of_rows
<1> QED BY <1>1, Tables_ir DEF Off

LEMMA Sized_ir_w1 ==
  app.name = "cam_demo_ir" => \A T \in DOMAIN Code("w1") : T \notin Off /\ Table_of_rows(Code("w1")[T])
<1> SUFFICES ASSUME app.name = "cam_demo_ir"
             PROVE  \A T \in DOMAIN Code("w1") : T \notin Off /\ Table_of_rows(Code("w1")[T])
  OBVIOUS
<1>1. Table_of_rows(Code("w1")["loop"])
  BY Rows_ir_w1_loop DEF Is, Table_of_rows
<1> QED BY <1>1, Tables_ir DEF Off

LEMMA Sized_multi ==
  app.name = "cam_demo_multi" => \A T \in DOMAIN Code(Main) : T \notin Off /\ Table_of_rows(Code(Main)[T])
<1> SUFFICES ASSUME app.name = "cam_demo_multi"
             PROVE  \A T \in DOMAIN Code(Main) : T \notin Off /\ Table_of_rows(Code(Main)[T])
  OBVIOUS
<1>1. Table_of_rows(Code(Main)["setup"])
  <2>1. Len(Code(Main)["setup"]) = 20 /\ DOMAIN Code(Main)["setup"] = 1 .. 20
    BY Rows_multi_setup DEF Is
  <2> QED BY <2>1 DEF Table_of_rows
<1>2. Table_of_rows(Code(Main)["loop"])
  BY Rows_multi_loop DEF Is, Table_of_rows
<1>3. Table_of_rows(Code(Main)["two_err0"])
  BY Rows_multi_two_err0 DEF Is, Table_of_rows
<1>4. Table_of_rows(Code(Main)["one_err0"])
  BY Rows_multi_one_err0 DEF Is, Table_of_rows
<1>5. Table_of_rows(Code(Main)["two_err1"])
  BY Rows_multi_two_err1 DEF Is, Table_of_rows
<1>6. Table_of_rows(Code(Main)["one_err1"])
  BY Rows_multi_one_err1 DEF Is, Table_of_rows
<1>7. Table_of_rows(Code(Main)["finish"])
  BY Rows_multi_finish, SMTT(30) DEF Is, Table_of_rows
<1>8. Table_of_rows(Code(Main)["finish1"])
  BY Rows_multi_finish1, SMTT(30) DEF Is, Table_of_rows
<1> QED BY <1>1, <1>2, <1>3, <1>4, <1>5, <1>6, <1>7, <1>8, Tables_multi DEF Off

LEMMA Sized_multi_w0 ==
  app.name = "cam_demo_multi" => \A T \in DOMAIN Code("w0") : T \notin Off /\ Table_of_rows(Code("w0")[T])
<1> SUFFICES ASSUME app.name = "cam_demo_multi"
             PROVE  \A T \in DOMAIN Code("w0") : T \notin Off /\ Table_of_rows(Code("w0")[T])
  OBVIOUS
<1>1. Table_of_rows(Code("w0")["loop"])
  BY Rows_multi_w0_loop DEF Is, Table_of_rows
<1> QED BY <1>1, Tables_multi DEF Off

LEMMA Sized_multi_w1 ==
  app.name = "cam_demo_multi" => \A T \in DOMAIN Code("w1") : T \notin Off /\ Table_of_rows(Code("w1")[T])
<1> SUFFICES ASSUME app.name = "cam_demo_multi"
             PROVE  \A T \in DOMAIN Code("w1") : T \notin Off /\ Table_of_rows(Code("w1")[T])
  OBVIOUS
<1>1. Table_of_rows(Code("w1")["loop"])
  BY Rows_multi_w1_loop DEF Is, Table_of_rows
<1> QED BY <1>1, Tables_multi DEF Off

LEMMA TablesAreRows ==
  ASSUME app.name \in DOMAIN Programs
  PROVE  /\ Main \in DOMAIN Programs[app.name] /\ DOMAIN Programs[app.name] \subseteq Thread
         /\ \A t \in DOMAIN Programs[app.name] :
              /\ "loop" \in DOMAIN Code(t)
              /\ \A T \in DOMAIN Code(t) : T \notin Off /\ Table_of_rows(Code(t)[T])
<1> USE DEF Thread, Main
<1>1. CASE app.name = "cam_demo_simple"
  BY <1>1, Tables_simple, Sized_simple
<1>2. CASE app.name = "camera_test1"
  BY <1>2, Tables_test1, Sized_test1
<1>3. CASE app.name = "camera_demo1"
  BY <1>3, Tables_demo1, Sized_demo1
<1>4. CASE app.name = "camera_demo2"
  BY <1>4, Tables_demo2, Sized_demo2
<1>5. CASE app.name = "camera_demo4"
  BY <1>5, Tables_demo4, Sized_demo4, Sized_demo4_w0, Sized_demo4_w1
<1>6. CASE app.name = "cam_demo_ir"
  BY <1>6, Tables_ir, Sized_ir, Sized_ir_w0, Sized_ir_w1
<1>7. CASE app.name = "cam_demo_multi"
  BY <1>7, Tables_multi, Sized_multi, Sized_multi_w0, Sized_multi_w1
<1> QED BY <1>1, <1>2, <1>3, <1>4, <1>5, <1>6, <1>7, ProgramNames DEF OneCaller

(* From a place one gets to places.                                        *)
LEMMA NextPlaces ==
  ASSUME app.name \in DOMAIN Programs, NEW t, NEW p, IsPlace(t, p)
  PROVE  /\ IsPlace(t, After(t, p)) \/ After(t, p) = Ended
         /\ \A T : IsPlace(t, Table(t, T)) \/ Table(t, T) = Ended
         /\ IsPlace(t, Place("loop", 1))
         /\ "setup" \in DOMAIN Code(t) => IsPlace(t, Place("setup", 1))
         /\ p # Ended /\ p.table \notin Off
<1>1. /\ t \in DOMAIN Programs[app.name] /\ p = Place(p.table, p.at)
      /\ p.table \in DOMAIN Code(t) /\ p.at \in DOMAIN Code(t)[p.table]
  BY DEF IsPlace
<1>2. /\ "loop" \in DOMAIN Code(t)
      /\ \A T \in DOMAIN Code(t) :
           /\ T \notin Off
           /\ Len(Code(t)[T]) \in Nat \ {0}
           /\ DOMAIN Code(t)[T] = 1 .. Len(Code(t)[T])
  BY <1>1, TablesAreRows DEF Table_of_rows
<1>3. \A T, i : Place(T, i).table = T /\ Place(T, i).at = i
  BY DEF Place
<1>4. ASSUME NEW T \in DOMAIN Code(t) PROVE IsPlace(t, Place(T, 1))
  BY <1>1, <1>2, <1>3 DEF IsPlace
<1>5. \A T : IsPlace(t, Table(t, T)) \/ Table(t, T) = Ended
  BY <1>4 DEF Table
<1>6. ASSUME p.at < Len(Code(t)[p.table])
      PROVE  IsPlace(t, Place(p.table, p.at + 1))
  BY <1>1, <1>2, <1>3, <1>6 DEF IsPlace
<1>7. IsPlace(t, After(t, p)) \/ After(t, p) = Ended
  BY <1>5, <1>6 DEF After
<1>8. p # Ended /\ p.table \notin Off
  BY <1>1, <1>2, <1>3 DEF Ended, Off
<1> QED BY <1>2, <1>4, <1>5, <1>7, <1>8

-----------------------------------------------------------------------------
(* The invariant.                                                          *)

(* A thread that runs is at a row, and none outlives the main thread.      *)
PlacesInv ==
  /\ DOMAIN pc = Thread
  /\ \A t \in Thread : Runs(t) => app.name \in DOMAIN Programs /\ IsPlace(t, pc[t])
  /\ ~Runs(Main) => \A t \in Thread : ~Runs(t)

HalShape ==
  /\ DOMAIN camera = Camera
  /\ chn \in [Camera -> [Channel -> {"closed", "opened", "running"}]]
  /\ DOMAIN handle = Camera
  /\ ready \in [Camera -> [Channel -> Nat]]

(* What the main thread has opened by now, and what is closed again.       *)
HalInv ==
  \A c \in Camera :
    /\ In(pc[Main], Open(c)) => camera[c] = "open"
    /\ In(pc[Main], Live(c)) => handle[c] = "live"
    /\ \A n \in Channel :
         /\ In(pc[Main], Stopped(c, n)) => chn[c][n] = "opened"
         /\ In(pc[Main], There(c, n)) => chn[c][n] # "closed"
         /\ chn[c][n] = "running" => In(pc[Main], Ran(c))

(* Frames are ready on channels that run.                                  *)
ReadyInv == \A c \in Camera, n \in Channel : ready[c][n] > 0 => chn[c][n] = "running"

(* What a thread uses lives as long as it runs.                            *)
WorkersInv ==
  \A w \in Workers :
    Runs(w) =>
      /\ In(pc[Main], MayRun(w))
      /\ handle[Cam(w)] = "live"
      /\ In(pc[Main], Ran(Cam(w))) => \A n \in Used(Cam(w)) : chn[Cam(w)][n] # "closed"

(* Events are of the channels the program uses, and of the camera; a       *)
(* thread that handles frames does so for the event of a channel.          *)
EventKind(c) == Used(c) \cup {"warning", "error"}
EventsInv ==
  /\ DOMAIN subs = Camera /\ DOMAIN events = Camera /\ DOMAIN ev = Thread
  /\ \A c \in Camera :
       subs[c] \subseteq Used(c) \cup {"camera"} /\ events[c] \in Seq(EventKind(c))
  /\ app.name # "cam_demo_ir" => \A t \in Thread : ev[t] \in EventKind(Cam(t)) \cup {"none"}
AnnouncedInv ==
  app.name # "cam_demo_ir" =>
    \A t \in Thread : Here(t).op \in InFrame => ev[t] \in Announcing

(* A thread holds a frame only while it handles it.                        *)
HoldsInv ==
  /\ DOMAIN holds = Thread
  /\ \A t \in Thread :
       holds[t] = "frame" =>
         /\ Here(t).op \in {"dump", "display", "put"}
         /\ t \in Workers => In(pc[Main], Ran(Cam(t)))

(* cam_demo_multi's end: with its context alive the first camera's thread  *)
(* never ends, and without it the end does nothing.                        *)
MultiAt(p, x) ==
  /\ DOMAIN x = Camera
  /\ ~Unreached(p)
  /\ (p.table = "setup" /\ p.at <= 9) \/ p.table \in {"two_err0", "one_err0"} =>
       x[1] = "none"
  /\ p.table \in {"finish", "finish1"} => x[1] # "live"
  /\ (p.table = "setup" /\ p.at > 1) \/ p.table \in {"loop", "two_err1", "one_err1"} =>
       x[0] = "live"
  /\ p.table = "finish" => x[0] = "live" \/ (x[0] = "freed" /\ p.at = 1)
MultiInv ==
  app.name = "cam_demo_multi" =>
    /\ MultiAt(pc[Main], ctx)
    /\ In(pc[Main], MayRun("w0")) /\ ctx[0] = "live" => Runs("w0")
    /\ quit["w0"] = FALSE

CallerInv ==
  /\ HalShape /\ HalInv /\ ReadyInv /\ WorkersInv
  /\ EventsInv /\ AnnouncedInv /\ HoldsInv /\ MultiInv

(* camera_demo4 starts no channel.                                         *)
Demo4Inv ==
  /\ HalShape
  /\ \A c \in Camera, n \in Channel : chn[c][n] # "running" /\ ready[c][n] = 0
  /\ DOMAIN holds = Thread /\ \A t \in Thread : holds[t] # "frame"
  /\ \A w \in Workers : pc[w].table = "setup" /\ pc[w].at > 2 => handle[0] = "live"

CallsInv ==
  /\ PlacesInv
  /\ app.name \in OneCaller /\ Runs(Main) => CallerInv
  /\ app.name = "camera_demo4" => Demo4Inv

-----------------------------------------------------------------------------
(* Threads are at rows of their programs.                                  *)

LEMMA WorkerCode ==
  ASSUME app.name \in OneCaller, NEW t \in Thread \ {Main}, t \in DOMAIN Programs[app.name]
  PROVE  t \in Workers /\ DOMAIN Code(t) = {"loop"} /\ LoopCalls(t) /\ LoopOrder(t)
<1>1. t \in Workers
  BY DEF Thread, Main, Workers
<1> QED BY <1>1, ProgramNames, WorkerLoops DEF LoopRows

(* camera_demo4's threads, in rows.                                        *)
LEMMA Demo4Rows ==
  ASSUME app.name = "camera_demo4", NEW t, NEW p, IsPlace(t, p)
  PROVE  LET r == RowAt(t, p) IN
         /\ t = Main => p.table \in {"setup", "loop"} /\ r.op \in {"find", "open", "spawn"}
         /\ t # Main /\ p.table # "loop" =>
              /\ p.table = "setup" /\ r.op \in {"channel_open", "create_event", "subscribe"}
              /\ (r.op = "subscribe" <=> p.at > 2) /\ r.c = 0
         /\ t # Main /\ p.table = "loop" => r.op \in {"while", "poll", "count", "get", "put"}
         /\ t # Main /\ r.op \in {"count", "get", "put"} => r.c = 0 /\ r.n \in {"channel1", "none"}
         /\ r.op = "get" => r.n = "channel1"
         /\ r.op = "spawn" => t = Main /\ r.n \in Workers \cap DOMAIN Programs[app.name]
<1> DEFINE r == RowAt(t, p)
<1>1. /\ t \in {"main", "w0", "w1"} /\ p.table \in DOMAIN Code(t)
      /\ p.at \in DOMAIN Code(t)[p.table]
  BY Tables_demo4 DEF IsPlace
<1>2. CASE t = Main
  <2>1. p.table \in {"setup", "loop"}
    BY <1>1, <1>2, Tables_demo4
  <2>2. CASE p.table = "setup"
    BY <1>1, <1>2, <2>2, Rows_demo4_setup, Tables_demo4 DEF Is, RowAt, Or, Do, Workers, Main
  <2>3. CASE p.table = "loop"
    BY <1>1, <1>2, <2>3, Rows_demo4_loop, Tables_demo4 DEF Is, RowAt, Or, Do, Workers, Main
  <2> QED BY <2>1, <2>2, <2>3
<1>3. CASE t = "w0"
  <2>1. p.table \in {"setup", "loop"}
    BY <1>1, <1>3, Tables_demo4
  <2>2. CASE p.table = "setup"
    BY <1>1, <1>3, <2>2, Rows_demo4_w0_setup DEF Is, RowAt, Or, Do, Main
  <2>3. CASE p.table = "loop"
    BY <1>1, <1>3, <2>3, Rows_demo4_w0_loop DEF Is, RowAt, Or, Do, Main
  <2> QED BY <2>1, <2>2, <2>3
<1>4. CASE t = "w1"
  <2>1. p.table \in {"setup", "loop"}
    BY <1>1, <1>4, Tables_demo4
  <2>2. CASE p.table = "setup"
    BY <1>1, <1>4, <2>2, Rows_demo4_w1_setup DEF Is, RowAt, Or, Do, Main
  <2>3. CASE p.table = "loop"
    BY <1>1, <1>4, <2>3, Rows_demo4_w1_loop DEF Is, RowAt, Or, Do, Main
  <2> QED BY <2>1, <2>2, <2>3
<1> QED BY <1>1, <1>2, <1>3, <1>4 DEF Main

(* What only loops do.                                                     *)
LoopOnly ==
  InFrame \cup {"event", "count", "while", "malloc", "route", "poll", "peek", "dequeue", "free"}

LEMMA LoopPlaces ==
  ASSUME app.name \in DOMAIN Programs, NEW t \in Thread, NEW p, IsPlace(t, p),
         RowAt(t, p).op \in LoopOnly
  PROVE  p.table = "loop" /\ LoopGets(t) /\ LoopCalls(t)
<1>1. LoopGets(t) /\ LoopCalls(t)
  <2>1. CASE t = Main
    BY <2>1, MainLoops DEF LoopRows
  <2>2. CASE t # Main
    BY <2>2, WorkerLoops DEF LoopRows, Thread, Workers, Main, IsPlace
  <2> QED BY <2>1, <2>2
<1>2. CASE app.name \in OneCaller /\ t = Main
  BY <1>1, <1>2, MainFollows DEF Follow, NeedsTable, LoopOnly
<1>3. CASE app.name \in OneCaller /\ t # Main
  BY <1>1, <1>3, WorkerCode DEF IsPlace
<1>4. CASE app.name = "camera_demo4"
  BY <1>1, <1>4, Demo4Rows DEF LoopOnly, InFrame
<1> QED BY <1>2, <1>3, <1>4, ProgramNames

LEMMA SpawnPlaces ==
  ASSUME app.name \in DOMAIN Programs, NEW t \in Thread, NEW p, IsPlace(t, p),
         RowAt(t, p).op = "spawn"
  PROVE  /\ t = Main /\ RowAt(t, p).n \in Workers \cap DOMAIN Programs[app.name]
         /\ After(t, p) # Ended
<1>1. /\ t = Main /\ RowAt(t, p).n \in Workers \cap DOMAIN Programs[app.name]
      /\ p.table \in {"setup", "loop"}
  <2>1. CASE app.name \in OneCaller /\ t = Main
    BY <2>1, MainFollows DEF Follow, NeedsTable
  <2>2. CASE app.name \in OneCaller /\ t # Main
    BY <2>2, WorkerCode DEF IsPlace, LoopCalls, WorkerOps, RowAt
  <2>3. CASE app.name = "camera_demo4"
    BY <2>3, Demo4Rows
  <2> QED BY <2>1, <2>2, <2>3, ProgramNames
<1>2. "loop" \in DOMAIN Code(Main)
  BY TablesAreRows
<1>3. Follows[p.table] = "loop"
  BY <1>1 DEF Follows
<1>4. Table(t, Follows[p.table]) = Place("loop", 1)
  BY <1>1, <1>2, <1>3 DEF Table
<1>5. p.table # "ended"
  BY <1>1
<1> QED BY <1>1, <1>4, <1>5 DEF After, Place, Ended

LEMMA FrameRows ==
  ASSUME app.name \in DOMAIN Programs, NEW t \in Thread, IsPlace(t, pc[t]),
         RowAt(t, pc[t]).op \in {"count", "put"}, NEW op \in {"get", "put"}
  PROVE  /\ IsPlace(t, RowOf(t, op)) /\ RowOf(t, op).table = "loop" /\ pc[t].table = "loop"
         /\ RowAt(t, RowOf(t, op)).op = op
<1>1. pc[t].table = "loop" /\ LoopGets(t)
  BY LoopPlaces DEF LoopOnly, InFrame
<1> DEFINE rows == Code(t)["loop"]
           i == CHOOSE j \in DOMAIN rows : rows[j].op = op
<1>2. \E j \in DOMAIN rows : rows[j].op = op
  <2>1. pc[t].at \in DOMAIN rows /\ rows[pc[t].at].op \in {"count", "put"}
    BY <1>1 DEF IsPlace, RowAt
  <2> QED BY <1>1, <2>1 DEF LoopGets
<1>3. i \in DOMAIN rows /\ rows[i].op = op
  BY <1>2
<1>4. RowOf(t, op) = Place("loop", i)
  BY <1>1 DEF RowOf
<1> HIDE DEF i
<1>5. Place("loop", i).table = "loop" /\ Place("loop", i).at = i
  BY DEF Place
<1> QED BY <1>1, <1>3, <1>4, <1>5 DEF IsPlace, RowAt

(* Where a call leads to.                                                  *)
GoesOn(t) == pc[t].table \notin Off /\ GoTo(t, After(t, pc[t]))
GoesTo(t, p) == (IsPlace(t, p) \/ p = Ended) /\ GoTo(t, p)

LEMMA StepsGo ==
  ASSUME PlacesInv, NEW t \in Thread, Step(t)
  PROVE  /\ UNCHANGED app /\ IsPlace(t, pc[t]) /\ Here(t) = RowAt(t, pc[t])
         /\ app.name \in DOMAIN Programs
         /\ UNCHANGED pc \/ Spawn(t) \/ \E p : GoesTo(t, p)
<1>1. UNCHANGED app /\ Runs(t)
  BY DEF Step
<1>2. IsPlace(t, pc[t]) /\ app.name \in DOMAIN Programs
  BY <1>1 DEF PlacesInv
<1>3. Here(t) = RowAt(t, pc[t])
  BY <1>1 DEF Here, RowAt
<1>4. /\ IsPlace(t, After(t, pc[t])) \/ After(t, pc[t]) = Ended
      /\ \A T : IsPlace(t, Table(t, T)) \/ Table(t, T) = Ended
  BY <1>2, NextPlaces
<1> DEFINE Moves == UNCHANGED pc \/ Spawn(t) \/ \E p : GoesTo(t, p)
<1>5. Go(t) => Moves
  BY <1>4 DEF Go, GoesTo
<1>6. \A T : GoTo(t, Table(t, T)) => Moves
  BY <1>4 DEF GoesTo
<1>7. GoTo(t, Ended) => Moves
  BY DEF GoesTo
<1> SUFFICES Moves
  BY <1>1, <1>2, <1>3
<1> HIDE DEF Moves
<1>8. CASE Nothing(t) \/ HalCall(t) \/ Join(t) \/ Quit(t) \/ Context(t)
  <2>1. Nothing(t) \/ Join(t) \/ Quit(t) \/ Context(t) => Go(t)
    BY DEF Nothing, Join, Quit, Context
  <2>2. HalCall(t) => Go(t)
    BY Zenon DEF HalCall
  <2> QED BY <1>5, <1>8, <2>1, <2>2, Zenon
<1>9. CASE Event(t) \/ Poll(t) \/ Get(t) \/ Display(t) \/ Malloc(t) \/ Dequeue(t) \/ FreeItem(t)
  <2>1. Event(t) \/ Poll(t) \/ Get(t) => Go(t)
    BY DEF Event, Poll, Get
  <2>2. Display(t) \/ Malloc(t) \/ Dequeue(t) \/ FreeItem(t) => Go(t)
    BY DEF Display, Malloc, Dequeue, FreeItem
  <2> QED BY <1>5, <1>9, <2>1, <2>2, Zenon
<1>10. CASE Fails(t)
  BY <1>6, <1>10, Zenon DEF Fails
<1>11. CASE Given(t)
  <2>1. Go(t) \/ GoTo(t, Table(t, Follows[pc[t].table]))
    BY <1>11 DEF Given
  <2> QED BY <1>5, <1>6, <2>1, Zenon
<1>12. CASE While(t)
  <2>1. Go(t) \/ GoTo(t, Table(t, "finish"))
    BY <1>12 DEF While
  <2> QED BY <1>5, <1>6, <2>1, Zenon
<1>13. CASE Count(t) \/ Put(t)
  <2>1. RowAt(t, pc[t]).op \in {"count", "put"}
    BY <1>3, <1>13 DEF Count, Put, At
  <2>2. /\ IsPlace(t, RowOf(t, "get")) /\ IsPlace(t, RowOf(t, "put"))
    BY <1>2, <2>1, FrameRows
  <2>3. IsPlace(t, After(t, RowOf(t, "put"))) \/ After(t, RowOf(t, "put")) = Ended
    BY <1>2, <2>2, NextPlaces
  <2>4. \A n : ToFrames(t, n) => GoTo(t, RowOf(t, "get")) \/ GoTo(t, After(t, RowOf(t, "put")))
    BY Zenon DEF ToFrames
  <2>5. GoTo(t, RowOf(t, "get")) \/ GoTo(t, After(t, RowOf(t, "put")))
    BY <1>13, <2>4 DEF Count, Put
  <2> QED BY <2>2, <2>3, <2>5, Zenon DEF GoesTo, Moves
<1>14. CASE Route(t)
  <2>1. Go(t) \/ GoTo(t, Ended)
    BY <1>14 DEF Route
  <2> QED BY <1>5, <1>7, <2>1, Zenon
<1>15. CASE Peek(t)
  <2>1. Go(t) \/ GoTo(t, Ended) \/ UNCHANGED pc
    BY <1>15 DEF Peek
  <2> QED BY <1>5, <1>7, <2>1, Zenon DEF Moves
<1>16. CASE Spawn(t)
  BY <1>16, Zenon DEF Moves
<1>17. Moves
  BY <1>8, <1>9, <1>10, <1>11, <1>12, <1>13, <1>14, <1>15, <1>16, Zenon DEF Step
<1> QED BY <1>17

(* The process ends, or one thread goes on, or one is created.             *)
LEMMA PlacesNext ==
  ASSUME PlacesInv, NEW t \in Thread, Step(t)
  PROVE  \/ pc' = [s \in Thread |-> Ended]
         \/ /\ UNCHANGED pc \/ \E p : GoesTo(t, p) /\ pc' = [pc EXCEPT ![t] = p]
            /\ t = Main => pc'[Main] # Ended
         \/ /\ t = Main /\ Spawn(Main) /\ RowAt(Main, pc[Main]).n \in Workers
            /\ IsPlace(Main, After(Main, pc[Main]))
            /\ \E p : IsPlace(RowAt(Main, pc[Main]).n, p) /\ p.at = 1
                 /\ (app.name \in OneCaller => p.table = "loop")
                 /\ pc' = [pc EXCEPT ![Main] = After(Main, pc[Main]),
                                     ![RowAt(Main, pc[Main]).n] =
                                        IF Runs(RowAt(Main, pc[Main]).n) THEN @ ELSE p]
<1>1. /\ IsPlace(t, pc[t]) /\ Here(t) = RowAt(t, pc[t])
      /\ app.name \in DOMAIN Programs
      /\ UNCHANGED pc \/ Spawn(t) \/ \E p : GoesTo(t, p)
  BY StepsGo
<1>2. CASE UNCHANGED pc
  <2>1. pc[t] # Ended
    BY <1>1, NextPlaces
  <2> QED BY <1>2, <2>1
<1>3. CASE \E p : GoesTo(t, p)
  BY <1>3 DEF GoesTo, GoTo, Main, PlacesInv
<1>4. CASE Spawn(t)
  <2> DEFINE w == RowAt(Main, pc[Main]).n
  <2>1. t = Main /\ w \in Workers /\ w \in DOMAIN Programs[app.name] /\ After(t, pc[t]) # Ended
    BY <1>1, <1>4, SpawnPlaces DEF Spawn, At
  <2>2. IsPlace(Main, After(Main, pc[Main]))
    BY <1>1, <2>1, NextPlaces
  <2>3. w \in Thread /\ w # Main
    BY <2>1 DEF Workers, Thread, Main
  <2> DEFINE p == IF "setup" \in DOMAIN Code(w) THEN Place("setup", 1) ELSE Place("loop", 1)
  <2>4. IsPlace(w, p)
    <3>1. /\ "loop" \in DOMAIN Code(w)
          /\ \A T \in DOMAIN Code(w) : Len(Code(w)[T]) \in Nat \ {0} /\ DOMAIN Code(w)[T] = 1 .. Len(Code(w)[T])
      BY <1>1, <2>1, TablesAreRows DEF Table_of_rows
    <3>2. \A T \in DOMAIN Code(w) : 1 \in DOMAIN Code(w)[T]
      BY <3>1
    <3>3. \A T, i : Place(T, i).table = T /\ Place(T, i).at = i
      BY DEF Place
    <3> HIDE DEF w
    <3> QED BY <2>1, <3>1, <3>2, <3>3 DEF IsPlace
  <2>5. app.name \in OneCaller => DOMAIN Code(w) = {"loop"}
    BY <2>1, <2>3, WorkerCode
  <2>6. p.at = 1 /\ (app.name \in OneCaller => p.table = "loop")
    BY <2>5 DEF Place
  <2>7. Here(Main).n = w
    BY <1>1, <2>1
  <2>8. pc' = [pc EXCEPT ![Main] = After(Main, pc[Main]), ![w] = IF Runs(w) THEN @ ELSE p]
    BY <1>4, <2>1, <2>3, <2>7 DEF Spawn, PlacesInv
  <2> QED BY <1>4, <2>1, <2>2, <2>4, <2>6, <2>8
<1> QED BY <1>1, <1>2, <1>3, <1>4

LEMMA SamePlaces ==
  ASSUME UNCHANGED app, NEW t, NEW p
  PROVE  /\ IsPlace(t, p)' <=> IsPlace(t, p)
         /\ Code(t)' = Code(t)
BY DEF IsPlace, Code

LEMMA InitPlaces == CameraAppsInit => PlacesInv
<1> SUFFICES ASSUME CameraAppsInit PROVE PlacesInv
  OBVIOUS
<1>1. pc = [t \in Thread |-> IF t = "main" /\ app.name \in DOMAIN Programs
                                 THEN Place("setup", 1) ELSE Place("none", 0)]
  BY DEF CameraAppsInit
<1>2. Main \in Thread
  BY DEF Main, Thread
<1>3. DOMAIN pc = Thread
  BY <1>1
<1>4. ASSUME NEW t \in Thread, Runs(t)
      PROVE  t = Main /\ app.name \in DOMAIN Programs /\ pc[t] = Place("setup", 1)
  BY <1>1, <1>4 DEF Runs, Off, Place, Main
<1>5. ASSUME app.name \in DOMAIN Programs, pc[Main] = Place("setup", 1)
      PROVE  IsPlace(Main, Place("setup", 1))
  <2>1. "setup" \in DOMAIN Code(Main)
    BY <1>5, ProgramNames, Tables_simple, Tables_test1, Tables_demo1, Tables_demo2, Tables_demo4,
       Tables_ir, Tables_multi DEF OneCaller
  <2>2. /\ Main \in DOMAIN Programs[app.name]
        /\ Len(Code(Main)["setup"]) \in Nat \ {0}
        /\ DOMAIN Code(Main)["setup"] = 1 .. Len(Code(Main)["setup"])
    BY <1>5, <2>1, TablesAreRows DEF Table_of_rows
  <2>3. 1 \in DOMAIN Code(Main)["setup"]
    BY <2>2
  <2> QED BY <2>1, <2>2, <2>3 DEF IsPlace, Place
<1>6. \A t \in Thread : Runs(t) => app.name \in DOMAIN Programs /\ IsPlace(t, pc[t])
  BY <1>4, <1>5
<1>7. ~Runs(Main) => \A t \in Thread : ~Runs(t)
  BY <1>4
<1> QED BY <1>3, <1>6, <1>7 DEF PlacesInv

LEMMA StepPlaces ==
  ASSUME PlacesInv, NEW t \in Thread, Step(t)
  PROVE  PlacesInv'
<1>1. /\ UNCHANGED app /\ IsPlace(t, pc[t]) /\ Runs(t)
      /\ app.name \in DOMAIN Programs
  BY StepsGo DEF Step
<1>2. Runs(Main) /\ DOMAIN pc = Thread /\ Main \in Thread
  BY <1>1 DEF PlacesInv, Main, Thread
<1>3. \A s \in Thread : Runs(s) => IsPlace(s, pc[s])
  BY DEF PlacesInv
<1>4. \A s, p : IsPlace(s, p) => p # Ended /\ p.table \notin Off
  BY <1>1, NextPlaces
<1>5. Ended.table \in Off
  BY DEF Ended, Off, Place
<1>6. ASSUME DOMAIN pc' = Thread, pc'[Main].table \notin Off,
             \A s \in Thread : pc'[s].table \notin Off => IsPlace(s, pc'[s])
      PROVE  PlacesInv'
  <2>1. \A s \in Thread : IsPlace(s, pc'[s]) => IsPlace(s, pc[s])'
    BY <1>1 DEF IsPlace, Code
  <2> QED BY <1>1, <1>6, <2>1 DEF PlacesInv, Runs
<1>7. CASE pc' = [s \in Thread |-> Ended]
  BY <1>5, <1>7 DEF PlacesInv, Runs
<1>8. CASE UNCHANGED pc
  BY <1>1, <1>2, <1>3, <1>6, <1>8 DEF Runs
<1>9. CASE \E p : GoesTo(t, p) /\ pc' = [pc EXCEPT ![t] = p] /\ (t = Main => pc'[Main] # Ended)
  <2>1. PICK p : /\ IsPlace(t, p) \/ p = Ended
                 /\ pc' = [pc EXCEPT ![t] = p]
                 /\ t = Main => pc'[Main] # Ended
    BY <1>9 DEF GoesTo
  <2>2. \A s \in Thread : pc'[s] = IF s = t THEN p ELSE pc[s]
    BY <1>2, <2>1
  <2>3. \A s \in Thread : pc'[s].table \notin Off => IsPlace(s, pc'[s])
    BY <1>3, <1>5, <2>1, <2>2 DEF Runs
  <2>4. pc'[Main].table \notin Off
    BY <1>2, <1>4, <2>1, <2>2 DEF Runs
  <2> QED BY <1>2, <1>6, <2>1, <2>3, <2>4
<1>10. CASE /\ t = Main /\ RowAt(Main, pc[Main]).n \in Workers
            /\ IsPlace(Main, After(Main, pc[Main]))
            /\ \E p : IsPlace(RowAt(Main, pc[Main]).n, p)
                 /\ pc' = [pc EXCEPT ![Main] = After(Main, pc[Main]),
                                     ![RowAt(Main, pc[Main]).n] =
                                        IF Runs(RowAt(Main, pc[Main]).n) THEN @ ELSE p]
  <2> DEFINE w == RowAt(Main, pc[Main]).n
             q == After(Main, pc[Main])
  <2>1. w \in Thread /\ w # Main /\ IsPlace(Main, q)
    BY <1>10 DEF Workers, Thread, Main
  <2>2. PICK p : IsPlace(w, p) /\ pc' = [pc EXCEPT ![Main] = q, ![w] = IF Runs(w) THEN @ ELSE p]
    BY <1>10
  <2> HIDE DEF w, q
  <2>3. \A s \in Thread :
          pc'[s] = IF s = Main THEN q ELSE IF s = w /\ ~Runs(w) THEN p ELSE pc[s]
    BY <1>2, <2>1, <2>2
  <2>4. \A s \in Thread : pc'[s].table \notin Off => IsPlace(s, pc'[s])
    BY <1>3, <2>1, <2>2, <2>3 DEF Runs
  <2>5. pc'[Main].table \notin Off
    BY <1>2, <1>4, <2>1, <2>3
  <2> QED BY <1>2, <1>6, <2>2, <2>4, <2>5
<1> QED BY <1>7, <1>8, <1>9, <1>10, PlacesNext

LEMMA NextPlacesInv == PlacesInv /\ [Next]_vars => PlacesInv'
<1> SUFFICES ASSUME PlacesInv, [Next]_vars PROVE PlacesInv'
  OBVIOUS
<1>1. ASSUME UNCHANGED <<app, pc>> PROVE PlacesInv'
  BY <1>1 DEF PlacesInv, Runs, IsPlace, Code
<1>2. CASE \E t \in Thread : Step(t)
  BY <1>2, StepPlaces
<1>3. CASE \/ \E c \in Camera, n \in Channel : Frame(c, n)
           \/ (\E c \in Camera : News(c)) \/ Viewer
  BY <1>1, <1>3 DEF Frame, News, Viewer
<1>4. CASE UNCHANGED cameraAppVars \/ UNCHANGED vars
  BY <1>1, <1>4 DEF cameraAppVars, vars
<1> QED BY <1>2, <1>3, <1>4 DEF Next, Camera_demo, G2d_demo, CameraAppsNext

-----------------------------------------------------------------------------
(* The steps of a main thread that has all the calls.                      *)

HalKept == UNCHANGED <<camera, chn, handle, subs>>

LEMMA MainRow ==
  ASSUME PlacesInv, app.name \in OneCaller, Runs(Main)
  PROVE  /\ IsPlace(Main, pc[Main]) /\ Follow(pc[Main])
         /\ Here(Main) = RowAt(Main, pc[Main]) /\ Main \in Thread
<1>1. IsPlace(Main, pc[Main]) /\ Main \in Thread
  BY DEF PlacesInv, Thread, Main
<1> QED BY <1>1, MainFollows DEF Here, RowAt

MainStep(r) ==
  /\ Flows(pc[Main], pc'[Main], r)
  /\ r = Idle \/ (r = RowAt(Main, pc[Main]) /\ pc'[Main] = After(Main, pc[Main]))
  /\ r.op \in HalOps => HalCall(Main)
  /\ r.op \notin HalOps => HalKept
  /\ r.op = "join" => pc[r.n] = Ended
  /\ Spawn(Main) => r.op = "spawn"

LEMMA MainFlows ==
  ASSUME PlacesInv, app.name \in OneCaller, Step(Main)
  PROVE  \E r : MainStep(r)
<1> DEFINE call == RowAt(Main, pc[Main])
<1>1. /\ IsPlace(Main, pc[Main]) /\ Follow(pc[Main]) /\ Here(Main) = call
      /\ DOMAIN pc = Thread /\ Main \in Thread
  BY MainRow DEF Step, PlacesInv
<1>2. /\ Flows(pc[Main], After(Main, pc[Main]), call) /\ NeedsTable(pc[Main], call)
  BY <1>1 DEF Follow
<1>3. \A p : GoTo(Main, p) => pc'[Main] = p
  BY <1>1 DEF GoTo, Main
<1>4. Idle.op = "none" /\ "none" \notin HalOps
  BY DEF Idle, Do, Or, HalOps
<1> HIDE DEF call
<1>5. ASSUME Go(Main), HalKept, call.op \notin HalOps,
             call.op = "join" => pc[call.n] = Ended, Spawn(Main) => call.op = "spawn"
      PROVE  \E r : MainStep(r)
  <2>1. pc'[Main] = After(Main, pc[Main])
    BY <1>3, <1>5 DEF Go
  <2> QED BY <1>2, <1>5, <2>1 DEF MainStep, call
<1>6. ASSUME HalKept, ~Spawn(Main), NEW p, GoTo(Main, p), Flows(pc[Main], p, Idle)
      PROVE  \E r : MainStep(r)
  <2>1. MainStep(Idle)
    BY <1>3, <1>4, <1>6 DEF MainStep
  <2> QED BY <2>1
<1>7. CASE HalCall(Main)
  <2>1. call.op \in HalOps
    BY <1>1, <1>7 DEF HalCall, HalOps
  <2>2. call.op \notin {"join", "spawn"}
    BY <2>1 DEF HalOps
  <2>3. ~Spawn(Main)
    BY <1>1, <2>2 DEF Spawn, At
  <2>4. Go(Main)
    BY <1>7, Zenon DEF HalCall
  <2>5. pc'[Main] = After(Main, pc[Main])
    BY <1>3, <2>4 DEF Go
  <2> QED BY <1>2, <1>7, <2>1, <2>2, <2>3, <2>5 DEF MainStep, call
<1>8. HalCall(Main) \/ Spawn(Main) \/ HalKept
  BY DEF Step, Nothing, Fails, Join, Quit, Context, Given, While, Event, Poll, Count, Get, Put,
         Display, Malloc, Route, Peek, Dequeue, FreeItem, halVars, HalKept,
         csi_camera_get_event, csi_camera_get_frame
<1>9. \A o : At(Main, o) <=> call.op = o
  BY <1>1 DEF At
<1>10. CASE Spawn(Main)
  <2>1. call.op = "spawn" /\ pc'[Main] = After(Main, pc[Main])
    <3>1. call.op = "spawn"
      BY <1>9, <1>10 DEF Spawn
    <3>2. call.n \in Workers
      BY <1>2, <3>1 DEF NeedsTable
    <3>3. call.n # Main
      BY <3>2 DEF Workers, Main
    <3> QED BY <1>1, <1>10, <3>1, <3>3 DEF Spawn
  <2>2. HalKept
    BY <1>10 DEF Spawn, halVars, HalKept
  <2>3. call.op \notin HalOps /\ call.op # "join"
    BY <2>1 DEF HalOps
  <2> QED BY <1>2, <2>1, <2>2, <2>3 DEF MainStep, call
<1>11. CASE Join(Main)
  <2>1. call.op = "join" /\ pc[call.n] = Ended /\ Go(Main)
    BY <1>1, <1>9, <1>11 DEF Join
  <2>2. HalKept /\ call.op \notin HalOps /\ ~Spawn(Main)
    BY <1>9, <1>11, <2>1 DEF Join, Spawn, halVars, HalKept, HalOps
  <2> QED BY <1>5, <2>1, <2>2
<1> DEFINE Plain == call.op \notin HalOps \cup {"join", "spawn"}
<1>12. ASSUME Plain PROVE HalKept /\ ~Spawn(Main)
  BY <1>1, <1>8, <1>9, <1>12 DEF Spawn, HalCall, HalOps
<1>13. Plain /\ Go(Main) => \E r : MainStep(r)
  BY <1>5, <1>12
<1>14. CASE Nothing(Main) \/ Quit(Main) \/ Context(Main)
  <2>1. Plain
    BY <1>1, <1>9, <1>14 DEF Nothing, Quit, Context, HalOps
  <2>2. Go(Main)
    BY <1>14 DEF Nothing, Quit, Context
  <2> QED BY <1>13, <2>1, <2>2
<1>15. CASE Event(Main) \/ Get(Main) \/ Display(Main) \/ Malloc(Main)
  <2>1. Plain
    BY <1>9, <1>15 DEF Event, Get, Display, Malloc, HalOps
  <2>2. Go(Main)
    BY <1>15 DEF Event, Get, Display, Malloc
  <2> QED BY <1>13, <2>1, <2>2
<1>16. CASE Fails(Main) /\ ~Spawn(Main)
  <2>1. HalKept /\ call.to # "none" /\ GoTo(Main, Table(Main, call.to))
    BY <1>1, <1>16 DEF Fails, halVars, HalKept
  <2>2. Flows(pc[Main], Table(Main, call.to), Idle)
    BY <1>2, <2>1, FailFlows DEF call
  <2> QED BY <1>6, <1>16, <2>1, <2>2
<1>17. CASE Given(Main)
  <2>1. call.op = "given"
    BY <1>9, <1>17 DEF Given
  <2>2. Plain
    BY <2>1 DEF HalOps
  <2>3. Flows(pc[Main], Table(Main, Follows[pc[Main].table]), Idle)
    BY <1>1, <1>2, <2>1, GivenFlows DEF call
  <2>4. Go(Main) \/ GoTo(Main, Table(Main, Follows[pc[Main].table]))
    BY <1>17 DEF Given
  <2> QED BY <1>6, <1>12, <1>13, <2>2, <2>3, <2>4
<1>18. CASE While(Main)
  <2>1. call.op = "while"
    BY <1>9, <1>18 DEF While
  <2>2. Plain
    BY <2>1 DEF HalOps
  <2>3. pc[Main].table = "loop"
    BY <1>2, <2>1 DEF NeedsTable
  <2>4. app.name = "cam_demo_multi" => Leaves(Main) = {FALSE}
    BY DEF Leaves, Main
  <2>5. app.name = "cam_demo_multi" => Go(Main)
    BY <1>18, <2>4 DEF While
  <2>6. Go(Main) \/ GoTo(Main, Table(Main, "finish"))
    BY <1>18 DEF While
  <2>7. app.name # "cam_demo_multi" => Flows(pc[Main], Table(Main, "finish"), Idle)
    BY <2>3, LeavesFlow
  <2> QED BY <1>6, <1>12, <1>13, <2>2, <2>5, <2>6, <2>7
<1>19. CASE Count(Main) \/ Put(Main)
  <2>1. call.op \in {"count", "put"}
    BY <1>9, <1>19 DEF Count, Put
  <2>2. Plain
    BY <2>1 DEF HalOps
  <2>3. /\ app.name \in DOMAIN Programs
        /\ RowOf(Main, "get").table = "loop" /\ RowOf(Main, "put").table = "loop"
        /\ pc[Main].table = "loop"
    BY <1>1, <2>1, FrameRows, ProgramNames DEF call
  <2>4. "loop" \in DOMAIN Code(Main)
    BY <2>3, TablesAreRows
  <2>5. After(Main, RowOf(Main, "put")).table = "loop"
    BY <2>3, <2>4 DEF After, Table, Follows, Place
  <2>6. \A n : ToFrames(Main, n) =>
          GoTo(Main, RowOf(Main, "get")) \/ GoTo(Main, After(Main, RowOf(Main, "put")))
    BY DEF ToFrames
  <2>7. GoTo(Main, RowOf(Main, "get")) \/ GoTo(Main, After(Main, RowOf(Main, "put")))
    BY <1>19, <2>6 DEF Count, Put
  <2>8. \A q : q.table = "loop" => Flows(pc[Main], q, Idle)
    BY <2>3, SameSpans
  <2> QED BY <1>6, <1>12, <2>2, <2>3, <2>5, <2>7, <2>8
<1>20. CASE Route(Main)
  <2>1. Plain
    BY <1>9, <1>20 DEF Route, HalOps
  <2>2. Go(Main) \/ GoTo(Main, Ended)
    BY <1>20 DEF Route
  <2>3. Flows(pc[Main], Ended, Idle)
    BY DEF Flows
  <2> QED BY <1>6, <1>12, <1>13, <2>1, <2>2, <2>3
<1>21. ~Poll(Main) /\ ~Peek(Main) /\ ~Dequeue(Main) /\ ~FreeItem(Main)
  BY <1>2, <1>9 DEF NeedsTable, Poll, Peek, Dequeue, FreeItem
<1> QED BY <1>7, <1>10, <1>11, <1>14, <1>15, <1>16, <1>17, <1>18, <1>19, <1>20, <1>21
       DEF Step

-----------------------------------------------------------------------------
(* The steps of all, as far as the camera's state goes.                    *)

LEMMA SameNames ==
  ASSUME UNCHANGED app, NEW c, NEW n, NEW w
  PROVE  /\ Open(c)' = Open(c) /\ Live(c)' = Live(c)
         /\ Stopped(c, n)' = Stopped(c, n) /\ There(c, n)' = There(c, n)
         /\ Ran(c)' = Ran(c) /\ MayRun(w)' = MayRun(w)
         /\ Used(c)' = Used(c) /\ Cam(w)' = Cam(w)
<1>1. Used(c)' = Used(c) /\ Cam(w)' = Cam(w) /\ Ran(c)' = Ran(c) /\ MayRun(w)' = MayRun(w)
  BY DEF Used, Cam, Ran, MayRun
<1>2. Open(c)' = Open(c) /\ Live(c)' = Live(c)
  BY DEF Open, Live
<1>3. Stopped(c, n)' = Stopped(c, n)
  BY <1>1 DEF Stopped
<1>4. There(c, n)' = There(c, n)
  BY <1>1 DEF There
<1> QED BY <1>1, <1>2, <1>3, <1>4

(* A thread of a program with one caller calls nothing but for its frames. *)
LEMMA WorkerRow ==
  ASSUME PlacesInv, app.name \in OneCaller, NEW w \in Thread \ {Main}, Runs(w)
  PROVE  /\ w \in Workers /\ Here(w) = RowAt(w, pc[w]) /\ pc[w].table = "loop"
         /\ IsPlace(w, pc[w]) /\ LoopOrder(w) /\ LoopCalls(w)
         /\ Here(w).c = Cam(w) /\ Here(w).op \in WorkerOps /\ Here(w).to = "none"
<1>1. IsPlace(w, pc[w])
  BY DEF PlacesInv
<1>2. w \in Workers /\ DOMAIN Code(w) = {"loop"} /\ LoopCalls(w) /\ LoopOrder(w)
  BY <1>1, WorkerCode DEF IsPlace
<1>3. pc[w].table = "loop" /\ pc[w].at \in DOMAIN Code(w)["loop"]
  BY <1>1, <1>2 DEF IsPlace
<1>4. Here(w) = Code(w)["loop"][pc[w].at]
  BY <1>3 DEF Here
<1> QED BY <1>1, <1>2, <1>3, <1>4 DEF LoopCalls, RowAt

LEMMA WorkerSteps ==
  ASSUME PlacesInv, app.name \in OneCaller, NEW w \in Thread \ {Main}, Step(w)
  PROVE  /\ HalKept /\ \A s \in Thread \ {w} : pc'[s] = pc[s]
         /\ \/ While(w) \/ Event(w) \/ Count(w) \/ Get(w) \/ Put(w) \/ Peek(w)
            \/ Dequeue(w) \/ FreeItem(w) \/ (Nothing(w) /\ Here(w).op = "dump")
<1>1. Runs(w) /\ w \in Workers /\ Here(w).op \in WorkerOps /\ Here(w).to = "none"
  BY WorkerRow DEF Step
<1>2. \A o : At(w, o) <=> Here(w).op = o
  BY DEF At
<1>3. ~HalCall(w) /\ ~Spawn(w) /\ ~Fails(w)
  BY <1>1, <1>2 DEF HalCall, Spawn, Fails, WorkerOps
<1>4. /\ ~Join(w) /\ ~Quit(w) /\ ~Context(w) /\ ~Given(w) /\ ~Poll(w) /\ ~Display(w)
      /\ ~Malloc(w) /\ ~Route(w)
  BY <1>1, <1>2 DEF Join, Quit, Context, Given, Poll, Display, Malloc, Route, WorkerOps
<1>5. Nothing(w) => Here(w).op = "dump"
  BY <1>1 DEF Nothing, WorkerOps
<1>6. \/ While(w) \/ Event(w) \/ Count(w) \/ Get(w) \/ Put(w) \/ Peek(w)
      \/ Dequeue(w) \/ FreeItem(w) \/ (Nothing(w) /\ Here(w).op = "dump")
  BY <1>3, <1>4, <1>5 DEF Step
<1>7. HalKept
  BY <1>6 DEF Nothing, While, Event, Count, Get, Put, Peek, Dequeue, FreeItem, halVars, HalKept,
         csi_camera_get_event, csi_camera_get_frame
<1>8. \A s \in Thread \ {w} : pc'[s] = pc[s]
  <2>1. UNCHANGED pc \/ \E p : GoesTo(w, p)
    BY <1>3, StepsGo
  <2>2. \A p : GoTo(w, p) => pc' = [pc EXCEPT ![w] = p]
    BY <1>1 DEF GoTo, Workers
  <2>3. DOMAIN pc = Thread
    BY DEF PlacesInv
  <2> QED BY <2>1, <2>2, <2>3 DEF GoesTo
<1> QED BY <1>6, <1>7, <1>8

Quiet ==
  /\ HalKept /\ pc'[Main] = pc[Main]
  /\ \A w \in Workers : Runs(w)' => Runs(w)

LEMMA CallSteps ==
  ASSUME PlacesInv, app.name \in OneCaller, CameraAppsNext
  PROVE  UNCHANGED app /\ (Quiet \/ (Step(Main) /\ \E r : MainStep(r)))
<1>1. CASE Step(Main)
  BY <1>1, MainFlows DEF Step
<1>2. CASE \E w \in Thread \ {Main} : Step(w)
  <2>1. PICK w \in Thread \ {Main} : Step(w)
    BY <1>2
  <2>2. Runs(w) /\ UNCHANGED app
    BY <2>1 DEF Step
  <2>3. HalKept /\ \A s \in Thread \ {w} : pc'[s] = pc[s]
    BY <2>1, WorkerSteps
  <2>4. Main \in Thread \ {w} /\ Workers \subseteq Thread
    BY DEF Thread, Main, Workers
  <2> QED BY <2>2, <2>3, <2>4 DEF Quiet, Runs
<1>3. CASE \/ \E c \in Camera, n \in Channel : Frame(c, n)
           \/ (\E c \in Camera : News(c)) \/ Viewer
  <2>1. UNCHANGED <<app, pc>>
    BY <1>3 DEF Frame, News, Viewer
  <2>2. HalKept
    BY <1>3 DEF Frame, News, Viewer, FrameReady, CameraNews, halVars, HalKept
  <2> QED BY <2>1, <2>2 DEF Quiet, Runs
<1> QED BY <1>1, <1>2, <1>3 DEF CameraAppsNext

-----------------------------------------------------------------------------
(* What a call does to the camera's state.                                 *)

LEMMA SetOne ==
  ASSUME HalShape, NEW c \in Camera, NEW which,
         NEW status \in {"closed", "opened", "running"}, SetChannels(c, which, status)
  PROVE  /\ HalShape'
         /\ UNCHANGED <<camera, handle, subs>>
         /\ \A d \in Camera, n \in Channel :
              /\ chn'[d][n] = IF d = c /\ n \in which THEN status ELSE chn[d][n]
              /\ ready'[d][n] = IF d = c /\ n \in which THEN 0 ELSE ready[d][n]
<1>1. /\ chn' = [chn EXCEPT ![c] = [n \in Channel |-> IF n \in which THEN status ELSE chn[c][n]]]
      /\ ready' = [ready EXCEPT ![c] = [n \in Channel |-> IF n \in which THEN 0 ELSE ready[c][n]]]
      /\ UNCHANGED <<camera, handle, subs>>
  BY DEF SetChannels, HalShape
<1>2. /\ chn \in [Camera -> [Channel -> {"closed", "opened", "running"}]]
      /\ ready \in [Camera -> [Channel -> Nat]]
  BY DEF HalShape
<1>3. chn' \in [Camera -> [Channel -> {"closed", "opened", "running"}]]
  BY <1>1, <1>2
<1>4. ready' \in [Camera -> [Channel -> Nat]]
  BY <1>1, <1>2
<1>5. \A d \in Camera, n \in Channel :
        chn'[d][n] = IF d = c /\ n \in which THEN status ELSE chn[d][n]
  BY <1>1, <1>2
<1>6. \A d \in Camera, n \in Channel :
        ready'[d][n] = IF d = c /\ n \in which THEN 0 ELSE ready[d][n]
  BY <1>1, <1>2
<1> QED BY <1>1, <1>3, <1>4, <1>5, <1>6 DEF HalShape

(* The channel r is about takes the state that r gives.                    *)
ChannelsAfter(r) ==
  \A d \in Camera, n \in Channel :
    /\ chn'[d][n] = chn[d][n] \/ d = r.c
    /\ (chn'[d][n] = chn[d][n] /\ ready'[d][n] = ready[d][n]) \/ ready'[d][n] = 0
    /\ d = r.c /\ n = r.n =>
         /\ r.op \in {"channel_open", "stop"} => chn'[d][n] = "opened"
         /\ r.op = "start" => chn'[d][n] = "running"
         /\ r.op = "channel_close" => chn'[d][n] = "closed"
    /\ chn'[d][n] = chn[d][n] \/ r.op = "close_opened"
         \/ (r.op \in {"channel_open", "start", "stop", "channel_close"} /\ n = r.n)
    /\ d = r.c /\ r.op = "close_opened" => chn'[d][n] = "closed"

HandlesAfter(r) ==
  \A d \in Camera :
    /\ camera'[d] = IF d = r.c /\ r.op = "open" THEN "open"
                    ELSE IF d = r.c /\ r.op = "close" THEN "closed" ELSE camera[d]
    /\ handle'[d] = IF d = r.c /\ r.op = "create_event" THEN "live"
                    ELSE IF d = r.c /\ r.op = "destroy_event" THEN "gone" ELSE handle[d]

LEMMA HalCalls ==
  ASSUME HalShape, NEW t, HalCall(t), NEW r, r = Here(t), r.c \in Camera
  PROVE  HalShape' /\ ChannelsAfter(r) /\ HandlesAfter(r)
<1>1. \A o : At(t, o) <=> r.op = o
  BY DEF At
<1> DEFINE c == r.c
           Opened == {m \in Channel : chn[c][m] # "closed"}
<1>2. \/ r.op = "open" /\ csi_camera_open(c)
      \/ r.op = "close" /\ csi_camera_close(c)
      \/ r.op = "channel_open" /\ SetChannels(c, {r.n}, "opened")
      \/ r.op = "start" /\ SetChannels(c, {r.n}, "running")
      \/ r.op = "stop" /\ SetChannels(c, {r.n}, "opened")
      \/ r.op = "channel_close" /\ SetChannels(c, {r.n}, "closed")
      \/ r.op = "close_opened" /\ SetChannels(c, Opened, "closed")
      \/ r.op = "create_event" /\ csi_camera_create_event(c)
      \/ r.op = "destroy_event" /\ csi_camera_destory_event(c)
      \/ r.op = "subscribe" /\ csi_camera_subscribe_event(c, r.n)
      \/ r.op = "unsubscribe" /\ csi_camera_unsubscribe_event(c, r.n)
  BY <1>1, Zenon DEF HalCall
<1>3. ASSUME UNCHANGED <<chn, ready>>,
             r.op \notin {"channel_open", "start", "stop", "channel_close", "close_opened"}
      PROVE  ChannelsAfter(r)
  BY <1>3 DEF ChannelsAfter
<1>4. ASSUME UNCHANGED <<camera, handle>>,
             r.op \notin {"open", "close", "create_event", "destroy_event"}
      PROVE  HandlesAfter(r)
  BY <1>4 DEF HandlesAfter
<1>5. CASE r.op \in {"channel_open", "start", "stop", "channel_close"}
  <2>1. PICK status \in {"closed", "opened", "running"} :
          /\ SetChannels(c, {r.n}, status)
          /\ r.op \in {"channel_open", "stop"} => status = "opened"
          /\ r.op = "start" => status = "running"
          /\ r.op = "channel_close" => status = "closed"
    BY <1>2, <1>5
  <2>2. /\ HalShape' /\ UNCHANGED <<camera, handle>>
        /\ \A d \in Camera, n \in Channel :
             /\ chn'[d][n] = IF d = c /\ n \in {r.n} THEN status ELSE chn[d][n]
             /\ ready'[d][n] = IF d = c /\ n \in {r.n} THEN 0 ELSE ready[d][n]
    BY <2>1, SetOne
  <2>3. ChannelsAfter(r)
    BY <1>5, <2>1, <2>2 DEF ChannelsAfter
  <2> QED BY <1>4, <1>5, <2>2, <2>3
<1>6. CASE r.op = "close_opened"
  <2>1. SetChannels(c, Opened, "closed")
    BY <1>2, <1>6
  <2>2. /\ HalShape' /\ UNCHANGED <<camera, handle>>
        /\ \A d \in Camera, n \in Channel :
             /\ chn'[d][n] = IF d = c /\ n \in Opened THEN "closed" ELSE chn[d][n]
             /\ ready'[d][n] = IF d = c /\ n \in Opened THEN 0 ELSE ready[d][n]
    BY <2>1, SetOne
  <2>3. ChannelsAfter(r)
    BY <1>6, <2>2 DEF ChannelsAfter
  <2> QED BY <1>4, <1>6, <2>2, <2>3
<1>7. CASE r.op \in {"open", "close"}
  BY <1>2, <1>3, <1>7 DEF csi_camera_open, csi_camera_close, HalShape, HandlesAfter
<1>8. CASE r.op \in {"create_event", "destroy_event"}
  BY <1>2, <1>3, <1>8 DEF csi_camera_create_event, csi_camera_destory_event, HalShape, HandlesAfter
<1>9. CASE r.op \in {"subscribe", "unsubscribe"}
  BY <1>2, <1>3, <1>4, <1>9
     DEF csi_camera_subscribe_event, csi_camera_unsubscribe_event, HalShape
<1> QED BY <1>2, <1>5, <1>6, <1>7, <1>8, <1>9

LEMMA Reached == MultiInv => ~Unreached(pc[Main])
BY DEF MultiInv, MultiAt, Unreached

(* Frames come and are taken, and nothing is opened or closed.             *)
LEMMA FramesReady ==
  ASSUME HalShape, ReadyInv, HalKept, CameraAppsNext
  PROVE  HalShape' /\ ReadyInv'
<1>1. ASSUME UNCHANGED ready PROVE HalShape' /\ ReadyInv'
  BY <1>1 DEF HalShape, ReadyInv, HalKept
<1>2. ASSUME NEW c, NEW n, csi_camera_get_frame(c, n) PROVE HalShape' /\ ReadyInv'
  <2>1. ready \in [Camera -> [Channel -> Nat]]
    BY DEF HalShape
  <2>2. ready' = [ready EXCEPT ![c][n] = IF @ = 0 THEN 0 ELSE @ - 1]
    BY <1>2 DEF csi_camera_get_frame
  <2>3. ready' \in [Camera -> [Channel -> Nat]]
    <3>1. CASE c \notin Camera
      BY <2>1, <2>2, <3>1
    <3>2. CASE c \in Camera
      <4>1. PICK f : /\ f = [ready[c] EXCEPT ![n] = IF @ = 0 THEN 0 ELSE @ - 1]
                     /\ ready' = [ready EXCEPT ![c] = f]
        BY <2>1, <2>2, <3>2
      <4>2. PICK g \in [Channel -> Nat] : g = ready[c]
        BY <2>1, <3>2
      <4>3. f = [g EXCEPT ![n] = IF g[n] = 0 THEN 0 ELSE g[n] - 1]
        BY <4>1, <4>2
      <4>4. f \in [Channel -> Nat]
        <5>1. CASE n \in Channel
          <6>1. (IF g[n] = 0 THEN 0 ELSE g[n] - 1) \in Nat
            BY <4>2, <5>1
          <6> QED BY <4>2, <4>3, <6>1
        <5>2. CASE n \notin Channel
          BY <4>2, <4>3, <5>2
        <5> QED BY <5>1, <5>2
      <4> QED BY <2>1, <3>2, <4>1, <4>4
    <3> QED BY <3>1, <3>2
  <2>4. \A d \in Camera, m \in Channel : ready'[d][m] > 0 => ready[d][m] > 0
    BY <2>1, <2>2
  <2> QED BY <2>3, <2>4 DEF HalShape, ReadyInv, HalKept
<1>3. ASSUME NEW c \in Camera, NEW n \in Channel, FrameReady(c, n) PROVE HalShape' /\ ReadyInv'
  <2>1. ready \in [Camera -> [Channel -> Nat]]
    BY DEF HalShape
  <2>2. ready' = [ready EXCEPT ![c][n] = @ + 1] /\ chn[c][n] = "running"
    BY <1>3 DEF FrameReady
  <2>3. ready' \in [Camera -> [Channel -> Nat]]
    BY <2>1, <2>2
  <2>4. \A d \in Camera, m \in Channel :
          ready'[d][m] > 0 => ready[d][m] > 0 \/ (d = c /\ m = n)
    BY <2>1, <2>2
  <2> QED BY <2>2, <2>3, <2>4 DEF HalShape, ReadyInv, HalKept
<1>4. ASSUME NEW t \in Thread, Step(t) PROVE HalShape' /\ ReadyInv'
  <2>1. CASE HalCall(t)
    <3>1. UNCHANGED ready \/ \E c, w, s : SetChannels(c, w, s)
      BY <2>1 DEF HalCall, csi_camera_open, csi_camera_close, csi_camera_create_event,
             csi_camera_destory_event, csi_camera_subscribe_event, csi_camera_unsubscribe_event
    <3>2. ASSUME NEW c, NEW w, NEW s, SetChannels(c, w, s) PROVE HalShape' /\ ReadyInv'
      <4>1. /\ ready \in [Camera -> [Channel -> Nat]]
            /\ ready' = [ready EXCEPT ![c] = [n \in Channel |-> IF n \in w THEN 0 ELSE @[n]]]
        BY <3>2 DEF SetChannels, HalShape
      <4>2. ready' \in [Camera -> [Channel -> Nat]]
        BY <4>1
      <4>3. \A d \in Camera, m \in Channel : ready'[d][m] > 0 => ready[d][m] > 0
        BY <4>1
      <4> QED BY <4>2, <4>3 DEF HalShape, ReadyInv, HalKept
    <3> QED BY <1>1, <3>1, <3>2
  <2>2. CASE \E c, n : csi_camera_get_frame(c, n)
    BY <1>2, <2>2
  <2>3. HalCall(t) \/ UNCHANGED ready \/ \E c, n : csi_camera_get_frame(c, n)
    <3>1. Get(t) => \E c, n : csi_camera_get_frame(c, n)
      BY DEF Get
    <3>2. (Nothing(t) \/ Fails(t) \/ Spawn(t) \/ Join(t) \/ Quit(t) \/ Context(t)
             \/ Given(t) \/ While(t)) => UNCHANGED ready
      BY DEF Nothing, Fails, Spawn, Join, Quit, Context, Given, While, halVars
    <3>3. (Event(t) \/ Poll(t) \/ Count(t) \/ Put(t) \/ Display(t) \/ Malloc(t)
             \/ Route(t) \/ Peek(t) \/ Dequeue(t) \/ FreeItem(t)) => UNCHANGED ready
      BY DEF Event, Poll, Count, Put, Display, Malloc, Route, Peek, Dequeue, FreeItem, halVars,
             csi_camera_get_event
    <3> QED BY <1>4, <3>1, <3>2, <3>3, Zenon DEF Step
  <2> QED BY <1>1, <2>1, <2>2, <2>3
<1> QED BY <1>1, <1>3, <1>4 DEF CameraAppsNext, Frame, News, Viewer, CameraNews, halVars

(* A main thread's call, in full.                                          *)
LEMMA MainCall ==
  ASSUME PlacesInv, app.name \in OneCaller, Runs(Main), HalShape, ReadyInv, MultiInv,
         NEW r, MainStep(r), CameraAppsNext
  PROVE  /\ (HalShape' /\ ReadyInv') \/ r.op \in HalOps
         /\ r.op \in HalOps =>
              /\ HalShape' /\ ChannelsAfter(r) /\ HandlesAfter(r)
              /\ r = RowAt(Main, pc[Main]) /\ pc'[Main] = After(Main, pc[Main])
         /\ r.op \notin HalOps => HalKept
         /\ r # Idle => /\ r.c \in Camera /\ NeedsHal(pc[Main], r)
                        /\ NeedsThreads(pc[Main], pc'[Main], r)
                        /\ NeedsTable(pc[Main], r)
<1>1. /\ Follow(pc[Main]) /\ Here(Main) = RowAt(Main, pc[Main]) /\ ~Unreached(pc[Main])
  BY MainRow, Reached
<1>2. r # Idle => r = RowAt(Main, pc[Main]) /\ pc'[Main] = After(Main, pc[Main])
  BY DEF MainStep
<1>3. r # Idle => /\ r.c \in Camera /\ NeedsHal(pc[Main], r)
                  /\ NeedsThreads(pc[Main], pc'[Main], r)
                  /\ NeedsTable(pc[Main], r)
  BY <1>1, <1>2 DEF Follow, NeedsHal
<1>4. r.op \in HalOps => r # Idle
  BY DEF Idle, Do, Or, HalOps
<1>5. ASSUME r.op \in HalOps PROVE HalShape' /\ ChannelsAfter(r) /\ HandlesAfter(r)
  <2>1. HalCall(Main) /\ r = Here(Main) /\ r.c \in Camera
    BY <1>1, <1>2, <1>3, <1>4, <1>5 DEF MainStep
  <2> QED BY <2>1, HalCalls
<1>6. r.op \notin HalOps => HalKept /\ HalShape' /\ ReadyInv'
  BY FramesReady DEF MainStep
<1> QED BY <1>2, <1>3, <1>4, <1>5, <1>6

LEMMA HalNext ==
  ASSUME PlacesInv, app.name \in OneCaller, Runs(Main), HalShape, HalInv, ReadyInv, MultiInv,
         CameraAppsNext, Runs(Main)'
  PROVE  HalShape' /\ HalInv' /\ ReadyInv'
<1>1. UNCHANGED app /\ (Quiet \/ \E r : MainStep(r))
  BY CallSteps
<1> DEFINE q == pc'[Main]
<1>2. ASSUME \A c \in Camera :
               /\ In(q, Open(c)) => camera'[c] = "open"
               /\ In(q, Live(c)) => handle'[c] = "live"
               /\ \A n \in Channel :
                    /\ In(q, Stopped(c, n)) => chn'[c][n] = "opened"
                    /\ In(q, There(c, n)) => chn'[c][n] # "closed"
                    /\ chn'[c][n] = "running" => In(q, Ran(c))
      PROVE  HalInv'
  BY <1>1, <1>2, SameNames DEF HalInv
<1>3. CASE Quiet
  <2>1. HalShape' /\ ReadyInv'
    BY <1>3, FramesReady DEF Quiet
  <2>2. HalInv'
    BY <1>2, <1>3 DEF Quiet, HalKept, HalInv
  <2> QED BY <2>1, <2>2
<1>4. CASE \E r : MainStep(r)
  <2>1. PICK r : MainStep(r)
    BY <1>4
  <2>2. q # Ended
    BY DEF Runs, Ended, Off, Place
  <2>3. /\ FlowsOpen(pc[Main], q, r) /\ FlowsLive(pc[Main], q, r)
        /\ FlowsStopped(pc[Main], q, r) /\ FlowsThere(pc[Main], q, r)
        /\ FlowsRan(pc[Main], q, r)
    BY <2>1, <2>2 DEF MainStep, Flows
  <2>4. /\ (HalShape' /\ ReadyInv') \/ r.op \in HalOps
        /\ r.op \in HalOps => HalShape' /\ ChannelsAfter(r) /\ HandlesAfter(r)
        /\ r.op \notin HalOps => HalKept
    BY <2>1, MainCall
  <2> HIDE DEF q
  <2>5. CASE r.op \notin HalOps
    <3>1. r.op \notin {"open", "create_event", "channel_open", "stop", "start"}
      BY <2>5 DEF HalOps
    <3>2. \A c \in Camera :
            /\ In(q, Open(c)) => camera'[c] = "open"
            /\ In(q, Live(c)) => handle'[c] = "live"
      BY <2>3, <2>4, <2>5, <3>1 DEF FlowsOpen, FlowsLive, Must, HalKept, HalInv
    <3>3. \A c \in Camera, n \in Channel :
            /\ In(q, Stopped(c, n)) => chn'[c][n] = "opened"
            /\ In(q, There(c, n)) => chn'[c][n] # "closed"
      BY <2>3, <2>4, <2>5, <3>1 DEF FlowsStopped, FlowsThere, Must, HalKept, HalInv
    <3>4. \A c \in Camera, n \in Channel : chn'[c][n] = "running" => In(q, Ran(c))
      BY <2>3, <2>4, <2>5 DEF FlowsRan, HalKept, HalInv
    <3> QED BY <1>2, <2>4, <2>5, <3>2, <3>3, <3>4 DEF q
  <2>6. CASE r.op \in HalOps
    <3>1. \A c \in Camera :
            /\ In(q, Open(c)) => camera'[c] = "open"
            /\ In(q, Live(c)) => handle'[c] = "live"
      BY <2>3, <2>4, <2>6 DEF FlowsOpen, FlowsLive, Must, HandlesAfter, HalInv
    <3>2. \A c \in Camera, n \in Channel :
            /\ chn[c][n] \in {"closed", "opened", "running"}
            /\ chn'[c][n] \in {"closed", "opened", "running"}
      BY <2>4, <2>6 DEF HalShape
    <3>3. \A c \in Camera, n \in Channel : In(q, Stopped(c, n)) => chn'[c][n] = "opened"
      <4> SUFFICES ASSUME NEW c \in Camera, NEW n \in Channel, In(q, Stopped(c, n))
                   PROVE  chn'[c][n] = "opened"
        OBVIOUS
      <4>1. /\ ~In(pc[Main], Stopped(c, n)) =>
                 r.op \in {"channel_open", "stop"} /\ r.c = c /\ r.n = n
            /\ ~(r.c = c /\ (r.op = "close_opened"
                             \/ (r.op \in {"start", "channel_close"} /\ r.n = n)))
        BY <2>3 DEF FlowsStopped, Must
      <4>2. CASE r.op \in {"channel_open", "stop"} /\ r.c = c /\ r.n = n
        BY <2>4, <2>6, <4>2 DEF ChannelsAfter
      <4>3. CASE ~(r.op \in {"channel_open", "stop"} /\ r.c = c /\ r.n = n)
        <5>1. chn[c][n] = "opened"
          BY <4>1, <4>3 DEF HalInv
        <5>2. chn'[c][n] = chn[c][n]
          BY <2>4, <2>6, <4>1, <4>3 DEF ChannelsAfter
        <5> QED BY <5>1, <5>2
      <4> QED BY <4>2, <4>3
    <3>4. \A c \in Camera, n \in Channel : In(q, There(c, n)) => chn'[c][n] # "closed"
      <4> SUFFICES ASSUME NEW c \in Camera, NEW n \in Channel, In(q, There(c, n))
                   PROVE  chn'[c][n] # "closed"
        OBVIOUS
      <4>1. /\ ~In(pc[Main], There(c, n)) =>
                 r.op \in {"channel_open", "start", "stop"} /\ r.c = c /\ r.n = n
            /\ ~(r.c = c /\ (r.op = "close_opened" \/ (r.op = "channel_close" /\ r.n = n)))
        BY <2>3 DEF FlowsThere, Must
      <4>2. CASE r.op \in {"channel_open", "start", "stop"} /\ r.c = c /\ r.n = n
        BY <2>4, <2>6, <4>2 DEF ChannelsAfter
      <4>3. CASE ~(r.op \in {"channel_open", "start", "stop"} /\ r.c = c /\ r.n = n)
        <5>1. chn[c][n] # "closed"
          BY <4>1, <4>3 DEF HalInv
        <5>2. chn'[c][n] = chn[c][n]
          BY <2>4, <2>6, <4>1, <4>3 DEF ChannelsAfter
        <5> QED BY <5>1, <5>2
      <4> QED BY <4>2, <4>3
    <3>5. \A c \in Camera, n \in Channel : chn'[c][n] = "running" => In(q, Ran(c))
      <4> SUFFICES ASSUME NEW c \in Camera, NEW n \in Channel, chn'[c][n] = "running"
                   PROVE  In(q, Ran(c))
        OBVIOUS
      <4>1. CASE chn[c][n] = "running"
        BY <2>3, <4>1 DEF HalInv, FlowsRan
      <4>2. CASE chn[c][n] # "running"
        <5>1. r.op = "start" /\ r.c = c
          BY <2>4, <2>6, <4>2 DEF ChannelsAfter
        <5> QED BY <2>3, <5>1 DEF FlowsRan
      <4> QED BY <4>1, <4>2
    <3>6. ReadyInv'
      <4> SUFFICES ASSUME NEW c \in Camera, NEW n \in Channel, ready'[c][n] > 0
                   PROVE  chn'[c][n] = "running"
        BY DEF ReadyInv
      <4>1. chn'[c][n] = chn[c][n] /\ ready'[c][n] = ready[c][n]
        BY <2>4, <2>6 DEF ChannelsAfter
      <4> QED BY <4>1 DEF ReadyInv
    <3> QED BY <1>2, <2>4, <2>6, <3>1, <3>3, <3>4, <3>5, <3>6 DEF q
  <2> QED BY <2>5, <2>6
<1> QED BY <1>1, <1>3, <1>4

(* What a call of the main thread leaves to the threads.                   *)
LEMMA WorkersNext ==
  ASSUME PlacesInv, app.name \in OneCaller, Runs(Main), HalShape, HalInv, ReadyInv, MultiInv,
         WorkersInv, CameraAppsNext, Runs(Main)'
  PROVE  WorkersInv'
<1>1. UNCHANGED app /\ (Quiet \/ (Step(Main) /\ \E r : MainStep(r)))
  BY CallSteps
<1> DEFINE q == pc'[Main]
<1>2. ASSUME \A w \in Workers :
               Runs(w)' =>
                 /\ In(q, MayRun(w))
                 /\ handle'[Cam(w)] = "live"
                 /\ In(q, Ran(Cam(w))) => \A n \in Used(Cam(w)) : chn'[Cam(w)][n] # "closed"
      PROVE  WorkersInv'
  <2>1. \A w \in Workers :
          /\ Cam(w)' = Cam(w) /\ MayRun(w)' = MayRun(w)
          /\ Ran(Cam(w))' = Ran(Cam(w)) /\ Used(Cam(w))' = Used(Cam(w))
    BY <1>1 DEF Cam, MayRun, Ran, Used
  <2> QED BY <1>2, <2>1 DEF WorkersInv
<1>3. CASE Quiet
  BY <1>2, <1>3 DEF Quiet, HalKept, WorkersInv
<1>4. CASE Step(Main) /\ \E r : MainStep(r)
  <2>1. PICK r : MainStep(r)
    BY <1>4
  <2>2. q # Ended
    BY DEF Runs, Ended, Off, Place
  <2>3. FlowsMayRun(pc[Main], q, r) /\ FlowsRan(pc[Main], q, r)
    BY <2>1, <2>2 DEF MainStep, Flows
  <2>4. /\ r.op \in HalOps => ChannelsAfter(r) /\ HandlesAfter(r)
        /\ r.op \notin HalOps => HalKept
        /\ r # Idle => NeedsThreads(pc[Main], q, r)
    BY <2>1, MainCall
  <2>5. \A w \in Workers : Cam(w) \in Camera /\ Used(Cam(w)) \subseteq Channel
    BY AppsAssumption DEF Cam, Used, AppsAssumption
  <2>6. HalInv' /\ UNCHANGED app
    BY <1>1, HalNext
  <2>7. \A w \in Workers, n \in Channel : In(q, There(Cam(w), n)) => chn'[Cam(w)][n] # "closed"
    <3>1. \A c, n : There(c, n)' = There(c, n)
      BY <2>6, SameNames
    <3> QED BY <2>5, <2>6, <3>1 DEF HalInv
  <2>8. Idle.op = "none" /\ "none" \notin HalOps
    BY DEF Idle, Do, Or, HalOps
  <2>9. ASSUME NEW w \in Workers, Runs(w)', ~Runs(w)
        PROVE  r.op = "spawn" /\ r.n = w
    <3>1. Spawn(Main) => r = RowAt(Main, pc[Main]) /\ r.op = "spawn"
      BY <2>1, <2>8 DEF MainStep
    <3>2. \/ pc' = [s \in Thread |-> Ended]
          \/ UNCHANGED pc \/ \E p : pc' = [pc EXCEPT ![Main] = p]
          \/ /\ Spawn(Main)
             /\ \E p : pc' = [pc EXCEPT ![Main] = After(Main, pc[Main]),
                                        ![RowAt(Main, pc[Main]).n] =
                                          IF Runs(RowAt(Main, pc[Main]).n) THEN @ ELSE p]
      BY <1>4, PlacesNext, Main \in Thread DEF Thread, Main
    <3>3. DOMAIN pc = Thread /\ Main \in Thread /\ w \in Thread /\ w # Main
      BY DEF PlacesInv, Thread, Main, Workers
    <3>4. CASE pc' = [s \in Thread |-> Ended]
      BY <2>2, <3>3, <3>4
    <3>5. CASE UNCHANGED pc \/ \E p : pc' = [pc EXCEPT ![Main] = p]
      BY <2>9, <3>3, <3>5 DEF Runs
    <3>6. CASE /\ Spawn(Main)
               /\ \E p : pc' = [pc EXCEPT ![Main] = After(Main, pc[Main]),
                                          ![RowAt(Main, pc[Main]).n] =
                                            IF Runs(RowAt(Main, pc[Main]).n) THEN @ ELSE p]
      <4>1. ASSUME RowAt(Main, pc[Main]).n # w PROVE pc'[w] = pc[w]
        BY <3>3, <3>6, <4>1
      <4> QED BY <2>9, <3>1, <3>6, <4>1 DEF Runs
    <3> QED BY <3>2, <3>4, <3>5, <3>6
  <2> HIDE DEF q
  <2> SUFFICES ASSUME NEW w \in Workers, Runs(w)'
               PROVE  /\ In(q, MayRun(w))
                      /\ handle'[Cam(w)] = "live"
                      /\ In(q, Ran(Cam(w))) =>
                           \A n \in Used(Cam(w)) : chn'[Cam(w)][n] # "closed"
    BY <1>2 DEF q
  <2>10. CASE ~Runs(w)
    <3>1. r.op = "spawn" /\ r.n = w /\ r # Idle /\ r.op \notin HalOps
      BY <2>8, <2>9, <2>10 DEF HalOps
    <3>2. In(q, MayRun(w)) /\ In(pc[Main], Live(Cam(w))) /\ ~In(q, Ran(Cam(w)))
      BY <2>4, <3>1 DEF NeedsThreads
    <3>3. handle'[Cam(w)] = "live"
      BY <2>4, <2>5, <3>1, <3>2 DEF HalInv, HalKept
    <3> QED BY <3>2, <3>3
  <2>11. CASE Runs(w)
    <3>1. /\ In(pc[Main], MayRun(w)) /\ handle[Cam(w)] = "live"
          /\ In(pc[Main], Ran(Cam(w))) => \A n \in Used(Cam(w)) : chn[Cam(w)][n] # "closed"
      BY <2>11 DEF WorkersInv
    <3>2. ~(r.op = "join" /\ r.n = w)
      BY <2>1, <2>11 DEF MainStep, Runs, Ended, Off, Place
    <3>3. In(q, MayRun(w))
      BY <2>3, <3>1, <3>2 DEF FlowsMayRun
    <3>4. handle'[Cam(w)] = "live"
      <4>1. CASE r.op \notin HalOps
        BY <2>4, <3>1, <4>1 DEF HalKept
      <4>2. CASE r.op \in HalOps
        <5>1. ~(r.op = "destroy_event" /\ r.c = Cam(w))
          BY <2>4, <2>8, <3>1, <4>2 DEF NeedsThreads
        <5> QED BY <2>4, <2>5, <3>1, <4>2, <5>1 DEF HandlesAfter
      <4> QED BY <4>1, <4>2
    <3>5. ASSUME In(q, Ran(Cam(w))), NEW n \in Used(Cam(w))
          PROVE  chn'[Cam(w)][n] # "closed"
      <4>1. n \in Channel /\ Cam(w) \in Camera
        BY <2>5
      <4>2. CASE ~In(pc[Main], Ran(Cam(w)))
        <5>1. In(q, There(Cam(w), n))
          BY <2>3, <3>1, <3>5, <4>2 DEF FlowsMayRun
        <5> QED BY <2>7, <4>1, <5>1
      <4>3. CASE In(pc[Main], Ran(Cam(w)))
        <5>1. chn[Cam(w)][n] # "closed"
          BY <3>1, <4>3
        <5>2. CASE r.op \notin HalOps
          BY <2>4, <5>1, <5>2 DEF HalKept
        <5>3. CASE r.op \in HalOps
          <6>1. ~(r.op \in {"channel_close", "close_opened"} /\ r.c = Cam(w))
            BY <2>4, <2>8, <3>1, <3>5, <5>3 DEF NeedsThreads
          <6>2. CASE chn'[Cam(w)][n] = chn[Cam(w)][n]
            BY <5>1, <6>2
          <6>3. CASE chn'[Cam(w)][n] # chn[Cam(w)][n]
            <7>1. r.c = Cam(w)
              BY <2>4, <4>1, <5>3, <6>3 DEF ChannelsAfter
            <7>2. r.op \in {"channel_open", "start", "stop"} /\ n = r.n
              BY <2>4, <4>1, <5>3, <6>1, <6>3, <7>1 DEF ChannelsAfter
            <7>3. chn'[Cam(w)][n] = "opened" \/ chn'[Cam(w)][n] = "running"
              BY <2>4, <4>1, <5>3, <7>1, <7>2 DEF ChannelsAfter
            <7> QED BY <7>3
          <6> QED BY <6>2, <6>3
        <5> QED BY <5>2, <5>3
      <4> QED BY <4>2, <4>3
    <3> QED BY <3>3, <3>4, <3>5
  <2> QED BY <2>10, <2>11
<1> QED BY <1>1, <1>3, <1>4

-----------------------------------------------------------------------------
(* Events and the frames they announce.                                    *)

LEMMA FirstOfLoop ==
  ASSUME app.name \in OneCaller, NEW t \in Thread, t \in DOMAIN Programs[app.name]
  PROVE  LoopOrder(t) /\ Table_of_rows(Code(t)["loop"]) /\ "loop" \in DOMAIN Code(t)
         /\ RowAt(t, Place("loop", 1)).op \notin InFrame
<1>1. LoopOrder(t)
  <2>1. CASE t = Main
    BY <2>1, MainLoops, ProgramNames DEF LoopRows
  <2>2. CASE t # Main
    BY <2>2, WorkerCode
  <2> QED BY <2>1, <2>2
<1>2. Table_of_rows(Code(t)["loop"]) /\ "loop" \in DOMAIN Code(t)
  BY TablesAreRows, ProgramNames
<1>3. RowAt(t, Place("loop", 1)).op \notin InFrame
  BY <1>1 DEF LoopOrder, InOrder, RowAt, Place
<1> QED BY <1>1, <1>2, <1>3

LEMMA OutOfLoop ==
  ASSUME app.name \in OneCaller, NEW t \in Thread, NEW p, IsPlace(t, p), p.table # "loop"
  PROVE  t = Main /\ RowAt(t, p).op \notin InFrame \cup {"count"}
<1>1. t = Main
  BY WorkerCode DEF IsPlace
<1> QED BY <1>1, MainFollows DEF Follow, NeedsTable

LEMMA NextRows ==
  ASSUME app.name \in OneCaller, NEW t \in Thread, NEW p, IsPlace(t, p)
  PROVE  /\ RowAt(t, p).op \in {"get", "dump", "display"} =>
              RowAt(t, After(t, p)).op \in {"dump", "display", "put"}
         /\ RowAt(t, p).op \notin {"count", "get", "dump", "display"} /\ After(t, p) # Ended =>
              RowAt(t, After(t, p)).op \notin InFrame
         /\ \A T : Table(t, T) # Ended => RowAt(t, Table(t, T)).op \notin InFrame
<1>1. app.name \in DOMAIN Programs /\ t \in DOMAIN Programs[app.name]
  BY ProgramNames DEF IsPlace
<1>2. LoopOrder(t) /\ RowAt(t, Place("loop", 1)).op \notin InFrame
  BY <1>1, FirstOfLoop
<1>3. ASSUME NEW T, Table(t, T) # Ended PROVE RowAt(t, Table(t, T)).op \notin InFrame
  <2>1. Table(t, T) = Place(T, 1) /\ IsPlace(t, Place(T, 1))
    <3>1. Table(t, T) = Place(T, 1)
      BY <1>3 DEF Table
    <3> QED BY <1>1, <1>3, <3>1, NextPlaces
  <2>2. CASE T = "loop"
    BY <1>2, <2>1, <2>2
  <2>3. CASE T # "loop"
    <3>1. Place(T, 1).table # "loop"
      BY <2>3 DEF Place
    <3> QED BY <2>1, <3>1, OutOfLoop
  <2> QED BY <2>2, <2>3
<1>4. CASE p.table # "loop"
  <2>1. RowAt(t, p).op \notin InFrame
    BY <1>4, OutOfLoop
  <2>2. RowAt(t, p).op \notin {"get", "dump", "display"}
    BY <2>1 DEF InFrame
  <2>3. ASSUME After(t, p) # Ended PROVE RowAt(t, After(t, p)).op \notin InFrame
    <3>1. CASE p.at < Len(Code(t)[p.table])
      <4>1. After(t, p).table = p.table
        BY <3>1 DEF After, Place
      <4>2. IsPlace(t, After(t, p))
        BY <1>1, <2>3, NextPlaces
      <4> QED BY <1>4, <4>1, <4>2, OutOfLoop
    <3>2. CASE ~(p.at < Len(Code(t)[p.table]))
      <4>1. After(t, p) = Table(t, Follows[p.table])
        BY <3>2 DEF After
      <4> QED BY <1>3, <2>3, <4>1
    <3> QED BY <3>1, <3>2
  <2> QED BY <1>3, <2>2, <2>3
<1>5. CASE p.table = "loop"
  <2> DEFINE rows == Code(t)["loop"]
  <2>1. InOrder(rows) /\ p.at \in DOMAIN rows /\ RowAt(t, p) = rows[p.at]
    BY <1>2, <1>5 DEF LoopOrder, IsPlace, RowAt
  <2>2. After(t, p) = IF p.at < Len(rows) THEN Place("loop", p.at + 1) ELSE Table(t, "loop")
    BY <1>5 DEF After, Follows
  <2>3. RowAt(t, Place("loop", p.at + 1)) = rows[p.at + 1]
    BY DEF RowAt, Place
  <2> HIDE DEF rows
  <2>4. RowAt(t, p).op \in {"get", "dump", "display"} =>
          RowAt(t, After(t, p)).op \in {"dump", "display", "put"}
    BY <2>1, <2>2, <2>3 DEF InOrder
  <2>5. ASSUME RowAt(t, p).op \notin {"count", "get", "dump", "display"}, After(t, p) # Ended
        PROVE  RowAt(t, After(t, p)).op \notin InFrame
    <3>1. CASE p.at < Len(rows)
      BY <2>1, <2>2, <2>3, <2>5, <3>1 DEF InOrder
    <3>2. CASE ~(p.at < Len(rows))
      BY <1>3, <2>2, <2>5, <3>2
    <3> QED BY <3>1, <3>2
  <2> QED BY <1>3, <2>4, <2>5
<1> QED BY <1>4, <1>5

(* A frame that cannot be saved ends its program.                          *)
LEMMA FrameFails ==
  ASSUME PlacesInv, app.name \in OneCaller, NEW t \in Thread, Runs(t), Fails(t),
         Here(t).op \in InFrame
  PROVE  pc'[t] = Ended
<1>1. Here(t).to # "none" /\ GoTo(t, Table(t, Here(t).to))
  BY DEF Fails
<1>2. t = Main
  BY <1>1, WorkerRow
<1>3. /\ Follow(pc[Main]) /\ Here(Main) = RowAt(Main, pc[Main])
      /\ IsPlace(Main, pc[Main]) /\ Main \in Thread /\ DOMAIN pc = Thread
  BY <1>2, MainRow DEF PlacesInv
<1>4. pc[Main].table = "loop"
  BY <1>2, <1>3, OutOfLoop
<1>5. app.name # "cam_demo_multi" /\ Here(Main).to = "exit"
  BY <1>1, <1>2, <1>3, <1>4 DEF Follow, NeedsTable
<1>6. "exit" \notin DOMAIN Code(Main)
  BY <1>5, Tables_simple, Tables_test1, Tables_demo1, Tables_demo2, Tables_ir DEF OneCaller
<1>7. GoTo(Main, Ended)
  BY <1>1, <1>2, <1>5, <1>6 DEF Table
<1> QED BY <1>2, <1>3, <1>7 DEF GoTo, Main

LEMMA FrameSteps ==
  ASSUME PlacesInv, app.name \in OneCaller, NEW t \in Thread, Step(t), pc'[t] # Ended,
         DOMAIN ev = Thread, DOMAIN holds = Thread
  PROVE  LET o == Here(t).op  then == RowAt(t, pc'[t]).op IN
         /\ then \in InFrame =>
              /\ o \in InFrame \/ (o = "count" /\ ev[t] \in Announcing)
              /\ ev'[t] = ev[t]
         /\ o \in {"get", "dump", "display"} => then \in {"dump", "display", "put"}
<1> DEFINE p == pc[t]
           o == Here(t).op
           then == RowAt(t, pc'[t]).op
<1>1. /\ UNCHANGED app /\ IsPlace(t, p) /\ Here(t) = RowAt(t, p) /\ Runs(t)
      /\ DOMAIN pc = Thread
  BY StepsGo DEF Step, PlacesInv
<1>2. \A a : At(t, a) <=> o = a
  BY DEF At
<1>3. \A a : GoTo(t, a) => pc'[t] = a
  BY <1>1 DEF GoTo
<1>4. /\ o \in {"get", "dump", "display"} => RowAt(t, After(t, p)).op \in {"dump", "display", "put"}
      /\ o \notin {"count", "get", "dump", "display"} /\ After(t, p) # Ended =>
           RowAt(t, After(t, p)).op \notin InFrame
      /\ \A T : Table(t, T) # Ended => RowAt(t, Table(t, T)).op \notin InFrame
  BY <1>1, NextRows
<1>4a. Go(t) => pc'[t] = After(t, p)
  BY <1>3 DEF Go
<1> HIDE DEF p
<1>5. ASSUME o \notin {"count", "get", "dump", "display"},
             Go(t) \/ \E T : GoTo(t, Table(t, T))
      PROVE  then \notin InFrame
  BY <1>3, <1>4, <1>4a, <1>5
<1>6. ASSUME o \in {"get", "dump", "display"}, Go(t), UNCHANGED ev
      PROVE  then \in {"dump", "display", "put"} /\ o \in InFrame /\ ev'[t] = ev[t]
  BY <1>4, <1>4a, <1>6 DEF InFrame
<1>7. CASE Nothing(t)
  <2>1. /\ Go(t) /\ UNCHANGED ev
        /\ o \in {"find", "options", "caps", "modes", "set_mode", "properties", "query",
                  "plink", "dsp", "dump"}
    BY <1>7 DEF Nothing, locals
  <2>2. CASE o = "dump"
    BY <1>6, <2>1, <2>2
  <2>3. CASE o # "dump"
    BY <1>5, <2>1, <2>3
  <2> QED BY <2>2, <2>3
<1>8. CASE Get(t) \/ Display(t)
  <2>1. Go(t) /\ UNCHANGED ev /\ o \in {"get", "display"}
    BY <1>2, <1>8 DEF Get, Display, locals
  <2> QED BY <1>6, <2>1
<1>9. CASE Fails(t)
  <2>1. o \notin InFrame
    BY <1>1, <1>9, FrameFails
  <2>2. GoTo(t, Table(t, Here(t).to))
    BY <1>9 DEF Fails
  <2>3. then \notin InFrame
    BY <1>3, <1>4, <2>2
  <2> QED BY <2>1, <2>3 DEF InFrame
<1>10. ASSUME o \notin {"count", "get", "dump", "display"}, then \notin InFrame
       PROVE  /\ then \in InFrame =>
                   /\ o \in InFrame \/ (o = "count" /\ ev[t] \in Announcing)
                   /\ ev'[t] = ev[t]
              /\ o \in {"get", "dump", "display"} => then \in {"dump", "display", "put"}
  BY <1>10
<1>11. CASE HalCall(t)
  <2>1. Go(t)
    BY <1>11, Zenon DEF HalCall
  <2>2. o \notin {"count", "get", "dump", "display"}
    BY <1>11 DEF HalCall
  <2> QED BY <1>5, <1>10, <2>1, <2>2
<1>12. CASE Spawn(t)
  <2>1. o = "spawn"
    BY <1>2, <1>12 DEF Spawn
  <2>2. t = Main /\ RowAt(t, pc[t]).n \in Workers
    BY <1>1, <2>1, SpawnPlaces, ProgramNames DEF p
  <2>3. pc'[t] = After(t, p)
    <3>1. Here(t).n # t /\ t \in DOMAIN pc
      BY <1>1, <2>2 DEF Workers, Main, p
    <3> QED BY <1>12, <3>1 DEF Spawn, p
  <2>4. then \notin InFrame
    BY <1>4, <2>1, <2>3
  <2> QED BY <1>10, <2>1, <2>4
<1>13. CASE Join(t) \/ Quit(t) \/ Context(t) \/ Event(t)
  <2>1. Go(t) /\ o \in {"join", "quit", "ctx", "event"}
    BY <1>2, <1>13 DEF Join, Quit, Context, Event
  <2> QED BY <1>5, <1>10, <2>1
<1>14. CASE Poll(t) \/ Malloc(t) \/ Dequeue(t) \/ FreeItem(t)
  <2>1. Go(t) /\ o \in {"poll", "malloc", "dequeue", "free"}
    BY <1>2, <1>14 DEF Poll, Malloc, Dequeue, FreeItem
  <2> QED BY <1>5, <1>10, <2>1
<1>15. CASE Given(t)
  <2>1. o = "given" /\ (Go(t) \/ GoTo(t, Table(t, Follows[pc[t].table])))
    BY <1>2, <1>15 DEF Given
  <2> QED BY <1>5, <1>10, <2>1
<1>16. CASE While(t)
  <2>1. o = "while" /\ (Go(t) \/ GoTo(t, Table(t, "finish")))
    BY <1>2, <1>16 DEF While
  <2> QED BY <1>5, <1>10, <2>1
<1>17. CASE Route(t)
  <2>1. o = "route" /\ (Go(t) \/ GoTo(t, Ended))
    BY <1>2, <1>17 DEF Route
  <2>2. Go(t)
    BY <1>3, <2>1
  <2> QED BY <1>5, <1>10, <2>1, <2>2
<1>18. CASE Peek(t)
  <2>1. o = "peek" /\ (Go(t) \/ GoTo(t, Ended) \/ UNCHANGED pc)
    BY <1>2, <1>18 DEF Peek
  <2>2. then \notin InFrame
    <3>1. CASE UNCHANGED pc
      <4>1. then = "peek"
        BY <1>1, <2>1, <3>1 DEF p
      <4> QED BY <4>1 DEF InFrame
    <3>2. CASE Go(t) \/ GoTo(t, Ended)
      BY <1>3, <1>5, <2>1, <3>2
    <3> QED BY <2>1, <3>1, <3>2
  <2> QED BY <1>10, <2>1, <2>2
<1>19. CASE Count(t) \/ Put(t)
  <2>1. o \in {"count", "put"}
    BY <1>2, <1>19 DEF Count, Put
  <2>2. /\ IsPlace(t, RowOf(t, "put")) /\ RowAt(t, RowOf(t, "put")).op = "put"
        /\ RowAt(t, RowOf(t, "get")).op = "get"
    BY <1>1, <2>1, FrameRows, ProgramNames DEF p
  <2>3. After(t, RowOf(t, "put")) # Ended =>
          RowAt(t, After(t, RowOf(t, "put"))).op \notin InFrame
    BY <2>2, NextRows
  <2>4. ASSUME NEW n, ToFrames(t, n) PROVE then \notin InFrame \/ (n > 0 /\ UNCHANGED ev)
    <3>1. CASE n > 0
      BY <2>4, <3>1 DEF ToFrames
    <3>2. CASE ~(n > 0)
      <4>1. GoTo(t, After(t, RowOf(t, "put")))
        BY <2>4, <3>2 DEF ToFrames
      <4> QED BY <1>3, <2>3, <4>1
    <3> QED BY <3>1, <3>2
  <2>5. CASE Put(t)
    <3>1. o = "put" /\ ToFrames(t, left[t] - 1)
      BY <1>2, <2>5 DEF Put
    <3>2. then \notin InFrame \/ UNCHANGED ev
      BY <2>4, <3>1
    <3> QED BY <3>1, <3>2 DEF InFrame
  <2>6. CASE Count(t)
    <3>1. o = "count" /\ ToFrames(t, IF ev[t] \in Announcing THEN Wants(t) ELSE 0)
      BY <1>2, <2>6 DEF Count
    <3>2. then \notin InFrame \/ (UNCHANGED ev /\ ev[t] \in Announcing)
      <4>1. CASE ev[t] \in Announcing
        BY <2>4, <3>1, <4>1
      <4>2. CASE ev[t] \notin Announcing
        <5>1. ToFrames(t, 0)
          BY <3>1, <4>2
        <5>2. ~(0 > 0)
          OBVIOUS
        <5> QED BY <2>4, <5>1, <5>2
      <4> QED BY <4>1, <4>2
    <3> QED BY <3>1, <3>2
  <2> QED BY <1>19, <2>5, <2>6
<1>20. \/ Nothing(t) \/ Fails(t) \/ HalCall(t) \/ Spawn(t) \/ Join(t) \/ Quit(t)
       \/ Context(t) \/ Given(t) \/ While(t) \/ Event(t) \/ Poll(t) \/ Count(t)
       \/ Get(t) \/ Put(t) \/ Display(t) \/ Malloc(t) \/ Route(t) \/ Peek(t)
       \/ Dequeue(t) \/ FreeItem(t)
  BY DEF Step
<1> HIDE DEF o, then
<1>21. /\ then \in InFrame =>
            /\ o \in InFrame \/ (o = "count" /\ ev[t] \in Announcing)
            /\ ev'[t] = ev[t]
       /\ o \in {"get", "dump", "display"} => then \in {"dump", "display", "put"}
  BY <1>7, <1>8, <1>9, <1>11, <1>12, <1>13, <1>14, <1>15, <1>16, <1>17, <1>18, <1>19, <1>20
     DEF o, then
<1> QED BY <1>21 DEF o, then

(* A step touches the event and the frame of its own thread alone.         *)
LEMMA OwnFrames ==
  ASSUME NEW t \in Thread, Step(t), DOMAIN ev = Thread, DOMAIN holds = Thread
  PROVE  /\ DOMAIN ev' = Thread /\ DOMAIN holds' = Thread
         /\ \A s \in Thread \ {t} : ev'[s] = ev[s] /\ holds'[s] = holds[s]
         /\ UNCHANGED holds \/ Get(t) \/ (holds'[t] = "none" /\ Put(t))
<1>1. UNCHANGED holds \/ Get(t) \/ (Put(t) /\ holds' = [holds EXCEPT ![t] = "none"])
  BY DEF Step, Nothing, Fails, HalCall, Spawn, Join, Quit, Context, Given, While, Event, Poll,
         Count, Put, Display, Malloc, Route, Peek, Dequeue, FreeItem, locals
<1>2. Get(t) => \E h : holds' = [holds EXCEPT ![t] = h]
  BY DEF Get
<1>3. UNCHANGED ev \/ \E e : ev' = [ev EXCEPT ![t] = e]
  <2>1. (Nothing(t) \/ Fails(t) \/ HalCall(t) \/ Spawn(t) \/ Join(t) \/ Quit(t) \/ Context(t)
           \/ Given(t) \/ While(t) \/ Get(t)) => UNCHANGED ev
    BY DEF Nothing, Fails, HalCall, Spawn, Join, Quit, Context, Given, While, Get, locals
  <2>2. (Display(t) \/ Malloc(t) \/ Peek(t) \/ FreeItem(t)) => UNCHANGED ev
    BY DEF Display, Malloc, Peek, FreeItem, locals
  <2>3. \A n : ToFrames(t, n) => UNCHANGED ev \/ \E e : ev' = [ev EXCEPT ![t] = e]
    BY DEF ToFrames, Take
  <2>4. (Count(t) \/ Put(t)) => \E n : ToFrames(t, n)
    BY DEF Count, Put
  <2>5. (Event(t) \/ Poll(t) \/ Route(t) \/ Dequeue(t)) => \E e : Take(t, e)
    BY DEF Event, Poll, Route, Dequeue
  <2>6. \A e : Take(t, e) => ev' = [ev EXCEPT ![t] = e]
    BY DEF Take
  <2> HIDE DEF Step
  <2>7. \/ Nothing(t) \/ Fails(t) \/ HalCall(t) \/ Spawn(t) \/ Join(t) \/ Quit(t)
        \/ Context(t) \/ Given(t) \/ While(t) \/ Event(t) \/ Poll(t) \/ Count(t)
        \/ Get(t) \/ Put(t) \/ Display(t) \/ Malloc(t) \/ Route(t) \/ Peek(t)
        \/ Dequeue(t) \/ FreeItem(t)
    BY DEF Step
  <2> QED BY <2>1, <2>2, <2>3, <2>4, <2>5, <2>6, <2>7
<1> QED BY <1>1, <1>2, <1>3

LEMMA SameEvents ==
  ASSUME UNCHANGED app
  PROVE  /\ \A c : EventKind(c)' = EventKind(c) /\ Used(c)' = Used(c)
         /\ \A t : EventKind(Cam(t))' = EventKind(Cam(t)) /\ Cam(t)' = Cam(t)
         /\ Announcing' = Announcing
BY DEF EventKind, Used, Cam, Announcing

(* Where a thread takes events from.                                       *)
LEMMA LoopOf ==
  ASSUME PlacesInv, app.name \in OneCaller, NEW t \in Thread, Runs(t), Here(t).op \in LoopOnly
  PROVE  /\ Here(t).c = Cam(t) /\ Cam(t) \in Camera
         /\ Here(t).op = "dequeue" => app.name = "cam_demo_ir"
         /\ Here(t).op \in InFrame => Here(t).n \in Used(Cam(t)) \cup {"none"}
         /\ app.name = "cam_demo_ir" /\ Here(t).op \in InFrame => Here(t).n # "none"
<1>1. IsPlace(t, pc[t]) /\ Here(t) = RowAt(t, pc[t]) /\ app.name \in DOMAIN Programs
  BY DEF PlacesInv, Here, RowAt
<1>2. pc[t].table = "loop" /\ LoopCalls(t)
  BY <1>1, LoopPlaces
<1>3. pc[t].at \in DOMAIN Code(t)["loop"] /\ Here(t) = Code(t)["loop"][pc[t].at]
  BY <1>1, <1>2 DEF IsPlace, RowAt
<1>4. Cam(t) \in Camera
  BY AppsAssumption DEF Cam, AppsAssumption
<1> QED BY <1>2, <1>3, <1>4 DEF LoopCalls

(* The subscriptions are the main thread's.                                *)
LEMMA SubsNext ==
  ASSUME PlacesInv, app.name \in OneCaller, Runs(Main), EventsInv, MultiInv, CameraAppsNext
  PROVE  /\ DOMAIN subs' = Camera
         /\ \A c \in Camera : subs'[c] \subseteq Used(c) \cup {"camera"}
<1>1. DOMAIN subs = Camera /\ \A c \in Camera : subs[c] \subseteq Used(c) \cup {"camera"}
  BY DEF EventsInv
<1>2. Quiet \/ \E r : MainStep(r)
  BY CallSteps
<1>3. CASE UNCHANGED subs
  BY <1>1, <1>3
<1>4. CASE HalCall(Main)
  <2> DEFINE r == Here(Main)
  <2>1. Follow(pc[Main]) /\ r = RowAt(Main, pc[Main]) /\ ~Unreached(pc[Main])
    BY MainRow, Reached
  <2>2. r.c \in Camera /\ (r.op = "subscribe" => r.n \in Used(r.c) \cup {"camera"})
    BY <2>1 DEF Follow, NeedsHal
  <2>3. \/ UNCHANGED subs
        \/ subs' = [subs EXCEPT ![r.c] = {}]
        \/ r.op = "subscribe" /\ subs' = [subs EXCEPT ![r.c] = subs[r.c] \cup {r.n}]
        \/ subs' = [subs EXCEPT ![r.c] = subs[r.c] \ {r.n}]
    BY <1>1, <1>4, <2>2 DEF HalCall, At, csi_camera_open, csi_camera_close, SetChannels,
         csi_camera_create_event, csi_camera_destory_event, csi_camera_subscribe_event,
         csi_camera_unsubscribe_event
  <2> HIDE DEF r
  <2> QED BY <1>1, <2>2, <2>3
<1> QED BY <1>2, <1>3, <1>4 DEF Quiet, HalKept, MainStep

LEMMA EventsNext ==
  ASSUME PlacesInv, app.name \in OneCaller, Runs(Main), EventsInv, MultiInv, CameraAppsNext,
         DOMAIN holds = Thread
  PROVE  EventsInv'
<1>1. UNCHANGED app
  BY CallSteps
<1>2. /\ DOMAIN subs = Camera /\ DOMAIN events = Camera /\ DOMAIN ev = Thread
      /\ \A c \in Camera : /\ subs[c] \subseteq Used(c) \cup {"camera"}
                           /\ events[c] \in Seq(EventKind(c))
      /\ app.name # "cam_demo_ir" => \A t \in Thread : ev[t] \in EventKind(Cam(t)) \cup {"none"}
  BY DEF EventsInv
<1>3. ASSUME /\ DOMAIN events' = Camera /\ DOMAIN ev' = Thread
             /\ \A c \in Camera : events'[c] \in Seq(EventKind(c))
             /\ app.name # "cam_demo_ir" =>
                  \A t \in Thread : ev'[t] \in EventKind(Cam(t)) \cup {"none"}
      PROVE  EventsInv'
  BY <1>1, <1>3, SubsNext, SameEvents DEF EventsInv
<1>4. CASE UNCHANGED <<events, ev>>
  BY <1>2, <1>3, <1>4
<1>5. ASSUME NEW c \in Camera, NEW event \in EventKind(c), UNCHANGED ev,
             events' = [events EXCEPT ![c] = Append(@, event)]
      PROVE  EventsInv'
  <2>1. PICK f \in Seq(EventKind(c)) : f = events[c]
    BY <1>2
  <2>2. Append(f, event) \in Seq(EventKind(c))
    OBVIOUS
  <2>3. \A d \in Camera : events'[d] \in Seq(EventKind(d))
    BY <1>2, <1>5, <2>1, <2>2
  <2> QED BY <1>2, <1>3, <1>5, <2>3
<1>6. ASSUME NEW c \in Camera, NEW n \in Channel, Frame(c, n) PROVE EventsInv'
  <2>1. UNCHANGED ev
    BY <1>6 DEF Frame, locals
  <2>2. n \in subs[c] => n \in EventKind(c)
    BY <1>2, AppsAssumption DEF EventKind, AppsAssumption
  <2>3. UNCHANGED events \/ (n \in subs[c] /\ events' = [events EXCEPT ![c] = Append(@, n)])
    BY <1>6 DEF Frame, FrameReady, Announce
  <2> QED BY <1>4, <1>5, <2>1, <2>2, <2>3
<1>7. ASSUME NEW c \in Camera, News(c) PROVE EventsInv'
  <2>1. UNCHANGED ev
    BY <1>7 DEF News, locals
  <2>2. PICK event \in {"warning", "error"} : events' = [events EXCEPT ![c] = Append(@, event)]
    BY <1>7 DEF News, CameraNews, Announce
  <2> QED BY <1>5, <2>1, <2>2 DEF EventKind
<1>8. CASE Viewer
  BY <1>4, <1>8 DEF Viewer, halVars, locals
<1>9. ASSUME NEW t \in Thread, Step(t) PROVE EventsInv'
  <2>1. /\ DOMAIN ev' = Thread /\ \A s \in Thread \ {t} : ev'[s] = ev[s]
        /\ Runs(t) /\ IsPlace(t, pc[t])
    BY <1>2, <1>9, OwnFrames, StepsGo DEF Step
  <2>2. \A a : At(t, a) <=> Here(t).op = a
    BY DEF At
  <2>3. ASSUME UNCHANGED events, ev'[t] = ev[t] \/ ev'[t] = "none" \/ app.name = "cam_demo_ir"
        PROVE  EventsInv'
    BY <1>2, <1>3, <2>1, <2>3
  <2>4. CASE Event(t)
    <3>1. Here(t).c = Cam(t) /\ Cam(t) \in Camera
      BY <2>1, <2>2, <2>4, LoopOf DEF Event, LoopOnly
    <3>2. PICK c \in Camera : c = Cam(t)
      BY <3>1
    <3>3. /\ events[c] # <<>> /\ events' = [events EXCEPT ![c] = Tail(@)]
          /\ ev' = [ev EXCEPT ![t] = Head(events[c])]
      BY <2>4, <3>1, <3>2 DEF Event, csi_camera_get_event, Take
    <3>4. PICK f \in Seq(EventKind(c)) : f = events[c]
      BY <1>2
    <3>5. Head(f) \in EventKind(c) /\ Tail(f) \in Seq(EventKind(c))
      BY <3>3, <3>4
    <3>6. \A d \in Camera : events'[d] \in Seq(EventKind(d))
      BY <1>2, <3>3, <3>4, <3>5
    <3>7. ev'[t] \in EventKind(Cam(t))
      BY <1>2, <3>2, <3>3, <3>4, <3>5
    <3>8. DOMAIN events' = Camera
      BY <1>2, <3>3
    <3> QED BY <1>2, <1>3, <2>1, <3>6, <3>7, <3>8
  <2>5. ~Poll(t)
    <3>1. Here(t).op # "poll"
      <4>1. CASE t = Main
        BY <2>1, <4>1, MainRow DEF Follow, NeedsTable
      <4>2. CASE t # Main
        BY <2>1, <4>2, WorkerRow DEF WorkerOps
      <4> QED BY <4>1, <4>2
    <3> QED BY <2>2, <3>1 DEF Poll
  <2>6. CASE Dequeue(t)
    <3>1. app.name = "cam_demo_ir"
      BY <2>1, <2>2, <2>6, LoopOf DEF Dequeue, LoopOnly
    <3>2. UNCHANGED events
      BY <2>6 DEF Dequeue, halVars
    <3> QED BY <2>3, <3>1, <3>2
  <2>7. CASE Count(t) \/ Put(t) \/ Route(t)
    <3>1. UNCHANGED events
      BY <2>7 DEF Count, Put, Route, halVars
    <3>2. \A n : ToFrames(t, n) => UNCHANGED ev \/ Take(t, "none")
      BY DEF ToFrames
    <3>3. UNCHANGED ev \/ Take(t, "none")
      BY <2>7, <3>2 DEF Count, Put, Route
    <3>4. ev'[t] = ev[t] \/ ev'[t] = "none"
      BY <1>2, <3>3 DEF Take
    <3> QED BY <2>3, <3>1, <3>4
  <2>8. CASE Nothing(t) \/ Fails(t) \/ Spawn(t) \/ Join(t) \/ Quit(t) \/ Context(t) \/ Given(t)
               \/ While(t) \/ Display(t)
    <3>1. UNCHANGED <<events, ev>>
      BY <2>8 DEF Nothing, Fails, Spawn, Join, Quit, Context, Given, While, Display, halVars, locals
    <3> QED BY <1>4, <3>1
  <2>9. CASE HalCall(t) \/ Get(t) \/ Malloc(t) \/ Peek(t) \/ FreeItem(t)
    <3>1. UNCHANGED <<events, ev>>
      BY <2>9 DEF HalCall, Get, Malloc, Peek, FreeItem, halVars, locals, csi_camera_open,
           csi_camera_close, SetChannels, csi_camera_create_event, csi_camera_destory_event,
           csi_camera_subscribe_event, csi_camera_unsubscribe_event, csi_camera_get_frame
    <3> QED BY <1>4, <3>1
  <2> QED BY <1>9, <2>4, <2>5, <2>6, <2>7, <2>8, <2>9 DEF Step
<1> QED BY <1>6, <1>7, <1>8, <1>9 DEF CameraAppsNext

(* The other threads stay where they are, or are created.                  *)
LEMMA OtherThreads ==
  ASSUME PlacesInv, app.name \in OneCaller, NEW t \in Thread, Step(t), Runs(Main)',
         NEW s \in Thread \ {t}
  PROVE  pc'[s] = pc[s] \/ (~Runs(s) /\ RowAt(s, pc'[s]).op \notin InFrame)
<1>1. DOMAIN pc = Thread /\ Main \in Thread
  BY DEF PlacesInv, Thread, Main
<1>2. CASE pc' = [u \in Thread |-> Ended]
  <2>1. pc'[Main] = Ended
    BY <1>1, <1>2
  <2> QED BY <2>1 DEF Runs, Ended, Off, Place
<1>3. CASE UNCHANGED pc \/ \E p : pc' = [pc EXCEPT ![t] = p]
  BY <1>1, <1>3
<1>4. CASE /\ t = Main
           /\ \E p : /\ IsPlace(RowAt(Main, pc[Main]).n, p) /\ p.at = 1 /\ p.table = "loop"
                     /\ pc' = [pc EXCEPT ![Main] = After(Main, pc[Main]),
                                         ![RowAt(Main, pc[Main]).n] =
                                           IF Runs(RowAt(Main, pc[Main]).n) THEN @ ELSE p]
  <2> DEFINE w == RowAt(Main, pc[Main]).n
  <2>1. PICK p : /\ IsPlace(w, p) /\ p.at = 1 /\ p.table = "loop"
                 /\ pc' = [pc EXCEPT ![Main] = After(Main, pc[Main]),
                                     ![w] = IF Runs(w) THEN @ ELSE p]
    BY <1>4
  <2>2. p = Place("loop", 1) /\ w \in DOMAIN Programs[app.name]
    BY <2>1 DEF IsPlace
  <2> HIDE DEF w
  <2>3. pc'[s] = IF s = w /\ ~Runs(w) THEN p ELSE pc[s]
    BY <1>1, <1>4, <2>1
  <2>4. s = w => RowAt(s, p).op \notin InFrame
    BY <2>2, FirstOfLoop, SMTT(30)
  <2> QED BY <2>3, <2>4
<1> QED BY <1>2, <1>3, <1>4, PlacesNext

LEMMA HereNext ==
  ASSUME UNCHANGED app, NEW t
  PROVE  Here(t)'.op \in InFrame => Runs(t)' /\ Here(t)' = RowAt(t, pc'[t])
BY DEF Here, RowAt, Code, InFrame, Do, Or, Runs

LEMMA HereFrame ==
  ASSUME NEW t, Here(t).op \in InFrame
  PROVE  Runs(t)
BY DEF Here, InFrame, Do, Or

LEMMA AnnouncedNext ==
  ASSUME PlacesInv, app.name \in OneCaller, Runs(Main), EventsInv, AnnouncedInv,
         CameraAppsNext, DOMAIN holds = Thread, Runs(Main)'
  PROVE  AnnouncedInv'
<1>1. UNCHANGED app
  BY CallSteps
<1> SUFFICES ASSUME app.name # "cam_demo_ir", NEW s \in Thread, Here(s)'.op \in InFrame
             PROVE  ev'[s] \in Announcing
  BY <1>1, SameEvents DEF AnnouncedInv
<1>2. Runs(s)' /\ RowAt(s, pc'[s]).op \in InFrame
  BY <1>1, HereNext
<1>3. ASSUME pc'[s] = pc[s], ev'[s] = ev[s] PROVE ev'[s] \in Announcing
  <2>1. Here(s).op \in InFrame
    BY <1>2, <1>3 DEF Runs, Here, RowAt
  <2> QED BY <1>3, <2>1 DEF AnnouncedInv
<1>4. ASSUME NEW t \in Thread, Step(t) PROVE ev'[s] \in Announcing
  <2>1. DOMAIN ev = Thread
    BY DEF EventsInv
  <2>2. CASE s = t
    <3>1. pc'[t] # Ended
      BY <1>2, <2>2 DEF Runs, Ended, Off, Place
    <3>2. /\ Here(t).op \in InFrame \/ ev[t] \in Announcing
          /\ ev'[t] = ev[t]
      BY <1>2, <1>4, <2>1, <2>2, <3>1, FrameSteps
    <3> QED BY <2>2, <3>2 DEF AnnouncedInv
  <2>3. CASE s # t
    <3>1. ev'[s] = ev[s]
      BY <1>4, <2>1, <2>3, OwnFrames
    <3>2. pc'[s] = pc[s]
      BY <1>2, <1>4, <2>3, OtherThreads
    <3> QED BY <1>3, <3>1, <3>2
  <2> QED BY <2>2, <2>3
<1>5. CASE \/ \E c \in Camera, n \in Channel : Frame(c, n)
           \/ (\E c \in Camera : News(c)) \/ Viewer
  <2>1. UNCHANGED <<pc, ev>>
    BY <1>5 DEF Frame, News, Viewer, locals
  <2> QED BY <1>3, <2>1
<1> QED BY <1>4, <1>5 DEF CameraAppsNext

(* The channel of the frame a thread handles.                              *)
LEMMA ChannelOfFrame ==
  ASSUME PlacesInv, app.name \in OneCaller, EventsInv, AnnouncedInv,
         NEW t \in Thread, Here(t).op \in InFrame
  PROVE  /\ Here(t).c = Cam(t) /\ Cam(t) \in Camera
         /\ OfChannel(t) \in Used(Cam(t)) /\ OfChannel(t) \in Channel
<1>1. Runs(t) /\ Here(t).op \in LoopOnly
  BY HereFrame DEF LoopOnly
<1>2. /\ Here(t).c = Cam(t) /\ Cam(t) \in Camera
      /\ Here(t).n \in Used(Cam(t)) \cup {"none"}
      /\ app.name = "cam_demo_ir" => Here(t).n # "none"
  BY <1>1, LoopOf
<1>3. Channel = {"channel0", "channel1"} /\ Used(Cam(t)) \subseteq Channel
      /\ "channel0" \in Used(Cam(t))
  BY AppsAssumption DEF AppsAssumption, Used
<1>4. CASE Here(t).n # "none"
  BY <1>2, <1>3, <1>4 DEF OfChannel
<1>5. CASE Here(t).n = "none"
  <2>1. ev[t] \in Announcing /\ ev[t] \in EventKind(Cam(t)) \cup {"none"}
    BY <1>2, <1>5 DEF AnnouncedInv, EventsInv
  <2>2. ev[t] \in Channel \cup {"warning"}
    BY <1>3, <2>1 DEF Announcing, OneCaller
  <2>3. ev[t] \in Used(Cam(t)) \/ ev[t] = "warning"
    BY <1>3, <2>1, <2>2 DEF EventKind
  <2> QED BY <1>2, <1>3, <1>5, <2>3 DEF OfChannel
<1> QED BY <1>2, <1>4, <1>5

LEMMA HoldsNext ==
  ASSUME PlacesInv, app.name \in OneCaller, Runs(Main), HalShape, HalInv, ReadyInv, MultiInv,
         EventsInv, AnnouncedInv, HoldsInv, CameraAppsNext, Runs(Main)'
  PROVE  HoldsInv'
<1>1. UNCHANGED app /\ (Quiet \/ \E r : MainStep(r))
  BY CallSteps
<1>2. DOMAIN holds = Thread /\ DOMAIN ev = Thread
  BY DEF HoldsInv, EventsInv
<1>3. \A c \in Camera : In(pc[Main], Ran(c)) => In(pc'[Main], Ran(c))
  <2>1. CASE Quiet
    BY <2>1 DEF Quiet
  <2>2. CASE \E r : MainStep(r)
    <3>1. pc'[Main] # Ended
      BY DEF Runs, Ended, Off, Place
    <3> QED BY <2>2, <3>1 DEF MainStep, Flows, FlowsRan
  <2> QED BY <1>1, <2>1, <2>2
<1>4. \A t : Cam(t) \in Camera
  BY AppsAssumption DEF Cam, AppsAssumption
<1>5. ASSUME /\ DOMAIN holds' = Thread
             /\ \A s \in Thread :
                  holds'[s] = "frame" =>
                    /\ Here(s)'.op \in {"dump", "display", "put"}
                    /\ s \in Workers => In(pc'[Main], Ran(Cam(s)))
      PROVE  HoldsInv'
  <2>1. \A s : Cam(s)' = Cam(s) /\ Ran(Cam(s))' = Ran(Cam(s))
    BY <1>1 DEF Cam, Ran
  <2> QED BY <1>5, <2>1 DEF HoldsInv
<1>6. ASSUME NEW s \in Thread, pc'[s] = pc[s], holds'[s] = holds[s], holds'[s] = "frame"
      PROVE  /\ Here(s)'.op \in {"dump", "display", "put"}
             /\ s \in Workers => In(pc'[Main], Ran(Cam(s)))
  <2>1. Here(s)' = Here(s)
    BY <1>1, <1>6 DEF Here, Runs, Code
  <2> QED BY <1>3, <1>4, <1>6, <2>1 DEF HoldsInv
<1>7. CASE \/ \E c \in Camera, n \in Channel : Frame(c, n)
           \/ (\E c \in Camera : News(c)) \/ Viewer
  <2>1. UNCHANGED <<pc, holds>>
    BY <1>7 DEF Frame, News, Viewer, locals
  <2> QED BY <1>2, <1>5, <1>6, <2>1
<1>8. ASSUME NEW t \in Thread, Step(t) PROVE HoldsInv'
  <2>1. /\ DOMAIN holds' = Thread
        /\ \A s \in Thread \ {t} : holds'[s] = holds[s]
        /\ UNCHANGED holds \/ Get(t) \/ (holds'[t] = "none" /\ Put(t))
    BY <1>2, <1>8, OwnFrames
  <2>2. ASSUME NEW s \in Thread \ {t}, holds'[s] = "frame"
        PROVE  /\ Here(s)'.op \in {"dump", "display", "put"}
               /\ s \in Workers => In(pc'[Main], Ran(Cam(s)))
    <3>1. holds[s] = "frame"
      BY <2>1, <2>2
    <3>2. Runs(s)
      <4>1. Here(s).op \in InFrame
        BY <3>1 DEF HoldsInv, InFrame
      <4> QED BY <4>1, HereFrame
    <3>3. pc'[s] = pc[s]
      BY <1>8, <3>2, OtherThreads
    <3> QED BY <1>6, <2>1, <2>2, <3>3
  <2>3. ASSUME holds'[t] = "frame"
        PROVE  /\ Here(t)'.op \in {"dump", "display", "put"}
               /\ t \in Workers => In(pc'[Main], Ran(Cam(t)))
    <3>1. Runs(t) /\ Here(t) = RowAt(t, pc[t])
      BY <1>8, StepsGo, SMTT(30) DEF Step
    <3>2. ASSUME Here(t).op \in {"get", "dump", "display"}
          PROVE  Here(t)'.op \in {"dump", "display", "put"}
      <4>1. pc'[t] # Ended
        <5>1. CASE t = Main
          BY <5>1 DEF Runs, Ended, Off, Place
        <5>2. CASE t # Main
          <6>1. Go(t)
            <7>1. \/ While(t) \/ Event(t) \/ Count(t) \/ Get(t) \/ Put(t) \/ Peek(t)
                  \/ Dequeue(t) \/ FreeItem(t) \/ Nothing(t)
              BY <1>8, <5>2, WorkerSteps
            <7>2. Get(t) \/ Nothing(t)
              BY <3>2, <7>1 DEF While, Event, Count, Put, Peek, Dequeue, FreeItem, At
            <7> QED BY <7>2 DEF Get, Nothing
          <6>2. IsPlace(t, pc[t]) /\ DOMAIN pc = Thread
            BY <1>8, StepsGo DEF PlacesInv
          <6>3. pc'[t] = After(t, pc[t])
            BY <5>2, <6>1, <6>2 DEF Go, GoTo, Main
          <6>4. RowAt(t, After(t, pc[t])).op \in {"dump", "display", "put"} /\ pc[t].table = "loop"
            BY <3>1, <3>2, <5>2, <6>2, NextRows, WorkerRow
          <6>5. After(t, pc[t]).table = "loop"
            <7>1. "loop" \in DOMAIN Code(t) /\ Follows["loop"] = "loop"
              BY <6>2, TablesAreRows, ProgramNames DEF IsPlace, Follows
            <7> QED BY <6>4, <7>1 DEF After, Table, Place
          <6> QED BY <6>3, <6>5 DEF Ended, Place
        <5> QED BY <5>1, <5>2
      <4>2. RowAt(t, pc'[t]).op \in {"dump", "display", "put"}
        BY <1>2, <1>8, <3>2, <4>1, FrameSteps
      <4>3. pc'[t].table \notin Off
        <5>1. UNCHANGED pc \/ Spawn(t) \/ \E p : GoesTo(t, p)
          BY <1>8, StepsGo
        <5>2. PlacesInv' 
          BY <1>8, StepPlaces
        <5>3. ~Spawn(t)
          BY <3>2 DEF Spawn, At
        <5>4. \A p : GoTo(t, p) => pc'[t] = p
          BY DEF GoTo, PlacesInv
        <5>5. \A p : IsPlace(t, p) => p.table \notin Off
          BY NextPlaces, ProgramNames
        <5> QED BY <3>1, <4>1, <5>1, <5>3, <5>4, <5>5 DEF GoesTo, Runs
      <4> QED BY <1>1, <4>2, <4>3 DEF Here, RowAt, Code, Runs
    <3>3. CASE Get(t)
      <4>1. Here(t).op = "get"
        BY <3>3 DEF Get, At
      <4>2. /\ Here(t).c = Cam(t) /\ Cam(t) \in Camera /\ OfChannel(t) \in Channel
        BY <4>1, ChannelOfFrame DEF InFrame
      <4>3. ready[Cam(t)][OfChannel(t)] > 0
        BY <1>2, <2>3, <3>3, <4>2 DEF Get
      <4>4. chn[Cam(t)][OfChannel(t)] = "running"
        BY <4>2, <4>3 DEF ReadyInv
      <4>5. In(pc'[Main], Ran(Cam(t)))
        BY <1>3, <4>2, <4>4 DEF HalInv
      <4> QED BY <3>2, <4>1, <4>5
    <3>4. CASE UNCHANGED holds
      <4>1. /\ Here(t).op \in {"dump", "display", "put"}
            /\ t \in Workers => In(pc[Main], Ran(Cam(t)))
        BY <2>3, <3>4 DEF HoldsInv
      <4>2. CASE Here(t).op = "put"
        <5>1. Put(t) \/ Fails(t)
          BY <1>8, <4>2 DEF Step, At, Nothing, HalCall, Spawn, Join, Quit, Context, Given, While,
               Event, Poll, Count, Get, Display, Malloc, Route, Peek, Dequeue, FreeItem
        <5>2. ~Put(t)
          BY <1>2, <2>3, <3>4 DEF Put
        <5>3. pc'[t] = Ended /\ Here(t).to # "none"
          BY <3>1, <4>2, <5>1, <5>2, FrameFails DEF InFrame, Fails
        <5>4. t = Main
          BY <3>1, <5>3, WorkerRow
        <5> QED BY <5>3, <5>4 DEF Runs, Ended, Off, Place
      <4>3. CASE Here(t).op # "put"
        BY <1>3, <1>4, <3>2, <4>1, <4>3, SMTT(30)
      <4> QED BY <4>2, <4>3
    <3> QED BY <2>1, <2>3, <3>3, <3>4
  <2> QED BY <1>5, <2>1, <2>2, <2>3
<1> QED BY <1>7, <1>8 DEF CameraAppsNext

-----------------------------------------------------------------------------
(* The end of cam_demo_multi.                                              *)

(* Its main thread's calls, as far as they are about contexts and threads. *)
MultiOps == {"ctx", "given", "join", "while", "spawn"}
LEMMA MultiRows ==
  ASSUME app.name = "cam_demo_multi", NEW p, IsPlace(Main, p), ~Unreached(p)
  PROVE  LET r == RowAt(Main, p)  q == After(Main, p) IN
         \/ /\ p.table = "setup" /\ p.at \in 1 .. 20
            /\ q = IF p.at < 20 THEN Place("setup", p.at + 1) ELSE Place("loop", 1)
            /\ p.at = 1 => r = Do("ctx", 0, "live")
            /\ p.at = 7 => r.op = "spawn" /\ r.n = "w0"
            /\ p.at = 9 => r = Do("ctx", 1, "live")
            /\ p.at \notin {1, 7, 9, 17} => r.op \notin MultiOps
            /\ p.at = 17 => r.op = "spawn"
         \/ p.table = "loop" /\ q = p /\ r.op = "while"
         \/ p.table = "two_err0" /\ q.table \in {"two_err0", "one_err0"} /\ r.op \notin MultiOps
         \/ p.table = "two_err1" /\ q.table \in {"two_err1", "one_err1"} /\ r.op \notin MultiOps
         \/ p.table = "one_err0" /\ q = Place("finish", 1) /\ r = Do("ctx", 0, "freed")
         \/ p.table = "one_err1" /\ q = Place("finish", 1) /\ r = Do("ctx", 1, "freed")
         \/ p = Place("finish", 1) /\ q = Place("finish", 2) /\ r.op = "given" /\ r.c = 0
         \/ p = Place("finish", 2) /\ r.op = "join" /\ r.n = "w0"
         \/ p = Place("finish1", 1) /\ r.op = "given" /\ r.c = 1
<1> USE DEF Is, RowAt, Do, Or, Place, MultiOps
<1>1. p = Place(p.table, p.at) /\ p.table \in DOMAIN Code(Main) /\ p.at \in DOMAIN Code(Main)[p.table]
  BY DEF IsPlace
<1>2. \A T \in DOMAIN Code(Main) : Table(Main, T) = Place(T, 1)
  BY DEF Table
<1>3. CASE p.table = "setup"
  <2>1. p.at \in 1 .. 20 /\ Len(Code(Main)["setup"]) = 20
    BY <1>1, <1>3, Rows_multi_setup
  <2>2. After(Main, p) = IF p.at < 20 THEN Place("setup", p.at + 1) ELSE Place("loop", 1)
    BY <1>2, <1>3, <2>1, Tables_multi DEF After, Follows
  <2>3. /\ p.at = 1 => RowAt(Main, p) = Do("ctx", 0, "live")
        /\ p.at = 7 => RowAt(Main, p).op = "spawn" /\ RowAt(Main, p).n = "w0"
        /\ p.at = 9 => RowAt(Main, p) = Do("ctx", 1, "live")
        /\ p.at \notin {1, 7, 9, 17} => RowAt(Main, p).op \notin MultiOps
        /\ p.at = 17 => RowAt(Main, p).op = "spawn"
    BY <1>3, <2>1, Rows_multi_setup
  <2> QED BY <1>3, <2>1, <2>2, <2>3
<1>4. CASE p.table = "loop"
  <2>1. p.at = 1 /\ Len(Code(Main)["loop"]) = 1 /\ RowAt(Main, p).op = "while"
    BY <1>1, <1>4, Rows_multi_loop
  <2>2. After(Main, p) = p
    BY <1>1, <1>2, <1>4, <2>1, Tables_multi DEF After, Follows
  <2> QED BY <1>4, <2>1, <2>2
<1>5. CASE p.table = "two_err0"
  <2>1. p.at \in {1, 2} /\ Len(Code(Main)["two_err0"]) = 2 /\ RowAt(Main, p).op \notin MultiOps
    BY <1>1, <1>5, Rows_multi_two_err0
  <2>2. After(Main, p).table \in {"two_err0", "one_err0"}
    BY <1>1, <1>2, <1>5, <2>1, Tables_multi DEF After, Follows
  <2> QED BY <1>5, <2>1, <2>2
<1>6. CASE p.table = "two_err1"
  <2>1. p.at \in {1, 2} /\ Len(Code(Main)["two_err1"]) = 2 /\ RowAt(Main, p).op \notin MultiOps
    BY <1>1, <1>6, Rows_multi_two_err1
  <2>2. After(Main, p).table \in {"two_err1", "one_err1"}
    BY <1>1, <1>2, <1>6, <2>1, Tables_multi DEF After, Follows
  <2> QED BY <1>6, <2>1, <2>2
<1>7. CASE p.table = "one_err0"
  <2>1. p.at = 1 /\ Len(Code(Main)["one_err0"]) = 1 /\ RowAt(Main, p) = Do("ctx", 0, "freed")
    BY <1>1, <1>7, Rows_multi_one_err0
  <2>2. After(Main, p) = Place("finish", 1)
    BY <1>1, <1>2, <1>7, <2>1, Tables_multi DEF After, Follows
  <2> QED BY <1>7, <2>1, <2>2
<1>8. CASE p.table = "one_err1"
  <2>1. p.at = 1 /\ Len(Code(Main)["one_err1"]) = 1 /\ RowAt(Main, p) = Do("ctx", 1, "freed")
    BY <1>1, <1>8, Rows_multi_one_err1
  <2>2. After(Main, p) = Place("finish", 1)
    BY <1>1, <1>2, <1>8, <2>1, Tables_multi, SMTT(30) DEF After, Follows
  <2> QED BY <1>8, <2>1, <2>2
<1>9. CASE p.table = "finish"
  <2>1. p.at \in {1, 2} /\ Len(Code(Main)["finish"]) = 7
    BY <1>1, <1>9, Rows_multi_finish DEF Unreached
  <2>2. CASE p.at = 1
    <3>1. RowAt(Main, p).op = "given" /\ RowAt(Main, p).c = 0
      BY <1>9, <2>2, Rows_multi_finish
    <3>2. After(Main, p) = Place("finish", 2)
      BY <1>9, <2>1, <2>2 DEF After
    <3> QED BY <1>1, <1>9, <2>2, <3>1, <3>2
  <2>3. CASE p.at = 2
    BY <1>1, <1>9, <2>3, Rows_multi_finish
  <2> QED BY <2>1, <2>2, <2>3
<1>10. CASE p.table = "finish1"
  BY <1>1, <1>10, Rows_multi_finish1 DEF Unreached
<1> QED BY <1>1, <1>3, <1>4, <1>5, <1>6, <1>7, <1>8, <1>9, <1>10, Tables_multi

(* What a call of it does to the contexts, and where it leads.             *)
LEMMA MultiCalls ==
  ASSUME PlacesInv, app.name = "cam_demo_multi", Step(Main), DOMAIN ctx = Camera,
         ~Unreached(pc[Main])
  PROVE  LET p == pc[Main]  r == RowAt(Main, p)  q == pc'[Main] IN
         \/ /\ UNCHANGED ctx /\ r.to # "none" /\ q = Table(Main, r.to)
         \/ /\ r.op = "ctx" /\ ctx' = [ctx EXCEPT ![r.c] = r.n] /\ q = After(Main, p)
         \/ /\ r.op = "given" /\ UNCHANGED ctx
            /\ q = IF ctx[r.c] = "live" THEN After(Main, p) ELSE Table(Main, Follows[p.table])
         \/ /\ r.op \notin {"ctx", "given"} /\ UNCHANGED ctx /\ q = After(Main, p)
            /\ r.op = "join" => pc[r.n] = Ended
            /\ r.op = "spawn" => Spawn(Main)
<1> DEFINE p == pc[Main]
           r == RowAt(Main, p)
           q == pc'[Main]
<1>1. /\ IsPlace(Main, p) /\ Follow(p) /\ Here(Main) = r /\ DOMAIN pc = Thread
      /\ Main \in Thread
  BY MainRow DEF Step, PlacesInv, OneCaller
<1>2. \A a : GoTo(Main, a) => q = a
  BY <1>1 DEF GoTo, Main
<1>3. Go(Main) => q = After(Main, p)
  BY <1>2 DEF Go
<1>4. r.op \notin {"event", "count", "poll", "malloc", "route", "peek", "dequeue", "free", "get",
                   "put", "display"}
  <2>1. p.table = "loop" => r.op = "while"
    BY <1>1, Rows_multi_loop DEF Is, RowAt, IsPlace, Do, Or
  <2>2. p.table # "loop" => r.op \notin InFrame \cup LoopOnly
    BY <1>1 DEF Follow, NeedsTable, LoopOnly
  <2> QED BY <2>1, <2>2 DEF InFrame, LoopOnly
<1>5. \A a : At(Main, a) <=> r.op = a
  BY <1>1 DEF At
<1> HIDE DEF p, q, r
<1>6. ASSUME Go(Main), UNCHANGED ctx, r.op \notin {"ctx", "given", "join", "spawn"}
      PROVE  /\ r.op \notin {"ctx", "given"} /\ UNCHANGED ctx /\ q = After(Main, p)
             /\ r.op = "join" => pc[r.n] = Ended
             /\ r.op = "spawn" => Spawn(Main)
  BY <1>3, <1>6
<1>7. CASE Nothing(Main)
  <2>1. Go(Main) /\ UNCHANGED ctx /\ r.op \notin {"ctx", "given", "join", "spawn"}
    BY <1>1, <1>7 DEF Nothing, locals
  <2> QED BY <1>6, <2>1 DEF p, q, r
<1>8. CASE Fails(Main)
  BY <1>1, <1>2, <1>8 DEF Fails, locals, p, q, r
<1>9. CASE HalCall(Main)
  <2>1. Go(Main) /\ UNCHANGED ctx
    BY <1>9, Zenon DEF HalCall, locals
  <2>2. r.op \notin {"ctx", "given", "join", "spawn"}
    BY <1>1, <1>9 DEF HalCall
  <2> QED BY <1>6, <2>1, <2>2 DEF p, q, r
<1>10. CASE Spawn(Main)
  <2>1. r.op = "spawn"
    BY <1>5, <1>10 DEF Spawn
  <2>2. r.n \in Workers
    BY <1>1, <2>1 DEF Follow, NeedsTable, r
  <2>3. q = After(Main, p) /\ UNCHANGED ctx
    <3>1. Here(Main).n # Main /\ Main \in DOMAIN pc
      BY <1>1, <2>2 DEF Workers, Main
    <3> QED BY <1>10, <3>1 DEF Spawn, p, q, locals
  <2> QED BY <1>10, <2>1, <2>3 DEF p, q, r
<1>11. CASE Join(Main)
  <2>1. r.op = "join" /\ Go(Main) /\ UNCHANGED ctx /\ pc[r.n] = Ended
    BY <1>1, <1>5, <1>11 DEF Join, locals
  <2> QED BY <1>3, <2>1 DEF p, q, r
<1>12. CASE Quit(Main)
  <2>1. r.op = "quit" /\ Go(Main) /\ UNCHANGED ctx
    BY <1>5, <1>12 DEF Quit
  <2> QED BY <1>6, <2>1 DEF p, q, r
<1>13. CASE Context(Main)
  <2>1. r.op = "ctx" /\ Go(Main) /\ ctx' = [ctx EXCEPT ![r.c] = r.n]
    BY <1>1, <1>5, <1>13 DEF Context
  <2> QED BY <1>3, <2>1 DEF p, q, r
<1>14. CASE Given(Main)
  <2>1. r.op = "given" /\ UNCHANGED ctx
    BY <1>5, <1>14 DEF Given, locals
  <2>2. q = IF ctx[r.c] = "live" THEN After(Main, p) ELSE Table(Main, Follows[p.table])
    BY <1>1, <1>2, <1>3, <1>14 DEF Given, p
  <2> QED BY <2>1, <2>2 DEF p, q, r
<1>15. CASE While(Main)
  <2>1. Leaves(Main) = {FALSE}
    BY DEF Leaves, Main
  <2>2. r.op = "while" /\ Go(Main) /\ UNCHANGED ctx
    BY <1>5, <1>15, <2>1 DEF While
  <2> QED BY <1>6, <2>2 DEF p, q, r
<1>16. ~(\/ Event(Main) \/ Poll(Main) \/ Count(Main) \/ Get(Main) \/ Put(Main)
         \/ Display(Main) \/ Malloc(Main) \/ Route(Main) \/ Peek(Main)
         \/ Dequeue(Main) \/ FreeItem(Main))
  BY <1>4, <1>5 DEF Event, Poll, Count, Get, Put, Display, Malloc, Route, Peek, Dequeue, FreeItem
<1> QED BY <1>7, <1>8, <1>9, <1>10, <1>11, <1>12, <1>13, <1>14, <1>15, <1>16 DEF Step

(* The first camera's thread goes on while its context lives.              *)
LEMMA FirstThread ==
  ASSUME PlacesInv, app.name = "cam_demo_multi", Runs("w0"), ctx[0] = "live",
         quit["w0"] = FALSE, CameraAppsNext, Runs(Main)'
  PROVE  Runs("w0")'
<1> DEFINE w == "w0"
           p == pc[w]
<1>1. \A a : Runs(w)' <=> pc'[w].table \notin Off
  BY DEF Runs
<1>2. app.name \in OneCaller /\ w \in Thread \ {Main} /\ DOMAIN pc = Thread
  BY DEF OneCaller, Thread, Main, PlacesInv
<1>3. pc'[w] = pc[w] => Runs(w)'
  BY <1>1 DEF Runs
<1>4. ASSUME Step(w)
      PROVE  Runs(w)'
  <2>1. /\ IsPlace(w, p) /\ p.table = "loop" /\ Here(w) = RowAt(w, p) /\ Here(w).c = 0
    BY <1>2, WorkerRow DEF Cam
  <2>2. p.at \in DOMAIN Code(w)["loop"] /\ Here(w).op \in {"while", "event", "count", "get", "dump", "put"}
    BY <2>1, Rows_multi_w0_loop DEF Is, IsPlace, RowAt, Do, Or
  <2>3. \A a : a.table = "loop" => After(w, a).table = "loop"
    BY Tables_multi DEF After, Table, Follows, Place
  <2>4. \A a : GoTo(w, a) => pc'[w] = a
    BY <1>2 DEF GoTo, Main
  <2>5. Go(w) => pc'[w].table = "loop"
    BY <2>1, <2>3, <2>4 DEF Go
  <2>6. \A op : At(w, op) <=> Here(w).op = op
    BY DEF At
  <2>7. Leaves(w) = {FALSE}
    BY <2>1 DEF Leaves
  <2>8. RowOf(w, "get").table = "loop" /\ RowOf(w, "put").table = "loop"
    BY <2>1 DEF RowOf, Place
  <2>9. \A n : ToFrames(w, n) => pc'[w].table = "loop"
    BY <2>3, <2>4, <2>8 DEF ToFrames
  <2>10. pc'[w].table = "loop"
    <3>1. CASE While(w)
      BY <2>5, <2>7, <3>1 DEF While
    <3>2. CASE Event(w) \/ Get(w) \/ Nothing(w)
      BY <2>5, <3>2 DEF Event, Get, Nothing
    <3>3. CASE Count(w) \/ Put(w)
      BY <2>9, <3>3 DEF Count, Put
    <3>4. ~(Peek(w) \/ Dequeue(w) \/ FreeItem(w))
      BY <2>2, <2>6 DEF Peek, Dequeue, FreeItem
    <3> QED BY <1>2, <1>4, <3>1, <3>2, <3>3, <3>4, WorkerSteps
  <2> QED BY <1>1, <2>10 DEF Off
<1>5. ASSUME NEW t \in Thread, Step(t), t # w
      PROVE  Runs(w)'
  BY <1>2, <1>3, <1>5, OtherThreads
<1>6. CASE \/ \E c \in Camera, n \in Channel : Frame(c, n)
           \/ (\E c \in Camera : News(c)) \/ Viewer
  BY <1>3, <1>6 DEF Frame, News, Viewer
<1> QED BY <1>4, <1>5, <1>6 DEF CameraAppsNext

(* No thread of it is told to leave.                                       *)
LEMMA NobodyQuits ==
  ASSUME PlacesInv, app.name = "cam_demo_multi", CameraAppsNext
  PROVE  UNCHANGED quit
<1>1. ASSUME NEW t \in Thread, Step(t)
      PROVE  UNCHANGED quit
  <2>1. CASE Quit(t)
    <3>1. Here(t).op = "quit" /\ Runs(t)
      BY <1>1, <2>1 DEF Quit, At, Step
    <3>2. app.name \in OneCaller
      BY DEF OneCaller
    <3>3. t = Main
      BY <3>1, <3>2, WorkerRow DEF WorkerOps
    <3>4. NeedsTable(pc[Main], Here(Main))
      BY <3>1, <3>2, <3>3, MainRow DEF Follow
    <3> QED BY <3>1, <3>3, <3>4 DEF NeedsTable
  <2>2. CASE While(t)
    BY <2>2 DEF While
  <2>3. CASE HalCall(t)
    BY <2>3, Zenon DEF HalCall, locals
  <2>4. CASE ~(Quit(t) \/ While(t) \/ HalCall(t))
    BY <1>1, <2>4 DEF Step, Nothing, Fails, Spawn, Join, Context, Given, Event, Poll, Count, Get,
       Put, Display, Malloc, Route, Peek, Dequeue, FreeItem, locals
  <2> QED BY <2>1, <2>2, <2>3, <2>4
<1>2. CASE \/ \E c \in Camera, n \in Channel : Frame(c, n)
           \/ (\E c \in Camera : News(c)) \/ Viewer
  BY <1>2 DEF Frame, News, Viewer, locals
<1> QED BY <1>1, <1>2 DEF CameraAppsNext

(* From row to row, and where a call that fails leads to.                  *)
LEMMA MultiPlaces ==
  ASSUME PlacesInv, app.name = "cam_demo_multi", Step(Main), pc'[Main] # Ended,
         MultiInv
  PROVE  MultiAt(pc'[Main], ctx')
<1> DEFINE p == pc[Main]
           r == RowAt(Main, p)
           q == pc'[Main]
<1>1. IsPlace(Main, p) /\ Follow(p) /\ Here(Main) = r /\ MultiAt(p, ctx)
  BY MainRow DEF Step, OneCaller, MultiInv
<1>2. DOMAIN ctx = Camera /\ ~Unreached(p) /\ Camera = {0, 1}
  BY <1>1, AppsAssumption DEF MultiAt, AppsAssumption
<1>3. In(p, MayRun("w0")) /\ ctx[0] = "live" => pc["w0"] # Ended
  BY DEF MultiInv, Runs, Ended, Off, Place
<1>4. \A T \in DOMAIN Code(Main) : Table(Main, T) = Place(T, 1)
  BY DEF Table
<1> HIDE DEF p, q, r
<1> USE DEF MultiAt, Unreached, Place
<1>5. CASE UNCHANGED ctx /\ r.to # "none" /\ q = Table(Main, r.to)
  <2>1. /\ p.table = "setup"
        /\ \/ p.at \in 2 .. 7 /\ r.to \in {"two_err0", "one_err0"}
           \/ p.at \in 10 .. 18 /\ r.to \in {"two_err1", "one_err1"}
    BY <1>1, <1>5 DEF Follow, NeedsTable, r
  <2>2. q = Place(r.to, 1)
    BY <1>4, <1>5, <2>1, Tables_multi
  <2> QED BY <1>1, <1>5, <2>1, <2>2 DEF q
<1>6. CASE r.op = "ctx" /\ ctx' = [ctx EXCEPT ![r.c] = r.n] /\ q = After(Main, p)
  BY <1>1, <1>2, <1>6, MultiRows DEF MultiOps, Do, Or, q, r
<1>7. CASE r.op = "given" /\ UNCHANGED ctx
           /\ q = IF ctx[r.c] = "live" THEN After(Main, p) ELSE Table(Main, Follows[p.table])
  BY <1>1, <1>2, <1>4, <1>7, MultiRows, Tables_multi DEF MultiOps, Do, Or, q, r, Follows, Table, Ended
<1>8. CASE /\ r.op \notin {"ctx", "given"} /\ UNCHANGED ctx /\ q = After(Main, p)
           /\ r.op = "join" => pc[r.n] = Ended
  <2>1. p.table = "finish" /\ p.at = 2 => In(p, MayRun("w0"))
    BY DEF In, MayRun, Span, AfterSetup
  <2> QED BY <1>1, <1>2, <1>3, <1>8, <2>1, MultiRows DEF MultiOps, Do, Or, q, r
<1> QED BY <1>2, <1>5, <1>6, <1>7, <1>8, MultiCalls DEF p, q, r

(* Its thread is created on the way to where it runs.                      *)
LEMMA SpawnsFirst ==
  ASSUME PlacesInv, app.name = "cam_demo_multi", Step(Main), MultiAt(pc[Main], ctx),
         ~(In(pc[Main], MayRun("w0")) /\ ctx[0] = "live"),
         In(pc'[Main], MayRun("w0")), ctx'[0] = "live"
  PROVE  Runs("w0")'
<1> DEFINE p == pc[Main]
           r == RowAt(Main, p)
           q == pc'[Main]
<1>1. IsPlace(Main, p) /\ Follow(p) /\ Here(Main) = r /\ DOMAIN pc = Thread
  BY MainRow DEF Step, OneCaller, PlacesInv
<1>2. DOMAIN ctx = Camera /\ ~Unreached(p) /\ Camera = {0, 1}
  BY <1>1, AppsAssumption DEF MultiAt, AppsAssumption
<1>3. \A T \in DOMAIN Code(Main) : Table(Main, T) = Place(T, 1)
  BY DEF Table
<1>4. \A a : In(a, MayRun("w0")) <=>
              \/ a.table \in {"loop", "finish", "finish1", "two_err1", "one_err1"}
              \/ a.table = "setup" /\ a.at \in 8 .. 20
  BY DEF In, MayRun, Span, AfterSetup
<1> HIDE DEF p, q, r
<1>5. CASE UNCHANGED ctx /\ r.to # "none" /\ q = Table(Main, r.to)
  <2>1. /\ p.table = "setup"
        /\ \/ p.at \in 2 .. 7 /\ r.to \in {"two_err0", "one_err0"}
           \/ p.at \in 10 .. 18 /\ r.to \in {"two_err1", "one_err1"}
    BY <1>1, <1>5 DEF Follow, NeedsTable, r
  <2>2. q = Place(r.to, 1)
    BY <1>3, <1>5, <2>1, Tables_multi
  <2> QED BY <1>4, <1>5, <2>1, <2>2 DEF p, q, Place
<1>6. CASE r.op = "ctx" /\ ctx' = [ctx EXCEPT ![r.c] = r.n] /\ q = After(Main, p)
  <2>1. \/ p.table = "setup" /\ p.at = 1 /\ q = Place("setup", 2)
        \/ p.table = "setup" /\ p.at = 9
        \/ p.table = "one_err0" /\ ctx'[0] = "freed"
        \/ p.table = "one_err1"
    <3>1. \/ p.table = "setup" /\ p.at \in {1, 7, 9, 17}
          \/ p.table = "one_err0" \/ p.table = "one_err1"
      BY <1>1, <1>2, <1>6, MultiRows DEF MultiOps, p, r
    <3>2. CASE p.table = "setup" /\ p.at = 1
      BY <1>1, <1>2, <1>6, <3>2, MultiRows DEF p, r
    <3>3. CASE p.table = "setup" /\ p.at \in {7, 17}
      BY <1>1, <1>2, <1>6, <3>3, MultiRows DEF p, r
    <3>4. CASE p.table = "one_err0"
      BY <1>1, <1>2, <1>6, <3>4, MultiRows DEF p, r, Do, Or
    <3> QED BY <3>1, <3>2, <3>3, <3>4
  <2>2. CASE p.table = "setup" /\ p.at = 1 /\ q = Place("setup", 2)
    BY <1>4, <2>2 DEF Place, q
  <2>3. CASE (p.table = "setup" /\ p.at = 9) \/ p.table = "one_err1"
    <3>1. ctx[0] = "live" /\ In(p, MayRun("w0"))
      BY <1>1, <1>4, <2>3 DEF MultiAt, p
    <3> QED BY <3>1 DEF p
  <2> QED BY <2>1, <2>2, <2>3
<1>7. CASE r.op = "given" /\ UNCHANGED ctx
  BY <1>1, <1>2, <1>4, <1>7, MultiRows DEF MultiOps, Do, Or, p, r, Place
<1>8. CASE /\ r.op \notin {"ctx", "given"} /\ UNCHANGED ctx /\ q = After(Main, p)
           /\ r.op = "spawn" => Spawn(Main)
  <2>1. p.table = "setup" /\ p.at = 7 /\ r.n = "w0"
    <3>1. ~In(p, MayRun("w0"))
      BY <1>8 DEF p
    <3>2. \/ p.table = "setup" /\ p.at \in 1 .. 7
          \/ p.table = "two_err0" \/ p.table = "one_err0"
      BY <1>1, <1>2, <1>4, <3>1, MultiRows, Tables_multi DEF p, Place
    <3>3. CASE p.table = "setup" /\ p.at \in 1 .. 6
      <4>1. q = Place("setup", p.at + 1)
        BY <1>1, <1>2, <1>8, <3>3, MultiRows DEF p, Place
      <4> QED BY <1>4, <3>3, <4>1 DEF Place, q
    <3>4. CASE p.table = "two_err0"
      BY <1>1, <1>2, <1>4, <1>8, <3>4, MultiRows DEF p, q, Place
    <3>5. CASE p.table = "one_err0"
      BY <1>1, <1>2, <1>8, <3>5, MultiRows DEF p, r, Do, Or, Place
    <3>6. CASE p.table = "setup" /\ p.at = 7
      BY <1>1, <1>2, <3>6, MultiRows DEF p, r, Place
    <3> QED BY <3>2, <3>3, <3>4, <3>5, <3>6
  <2>2. r.op = "spawn"
    BY <1>1, <1>2, <2>1, MultiRows DEF p, r, Place
  <2>3. pc'["w0"].table \notin Off
    <3>1. Spawn(Main) /\ Here(Main).n = "w0" /\ "setup" \notin DOMAIN Code("w0")
      BY <1>1, <1>8, <2>1, <2>2, Tables_multi
    <3>2. "w0" \in DOMAIN pc /\ "w0" # Main
      BY <1>1 DEF Thread, Main
    <3>3. pc'["w0"] = IF Runs("w0") THEN pc["w0"] ELSE Place("loop", 1)
      BY <3>1, <3>2 DEF Spawn
    <3> QED BY <3>3 DEF Runs, Place, Off
  <2> QED BY <2>3 DEF Runs
<1> QED BY <1>2, <1>5, <1>6, <1>7, <1>8, MultiCalls DEF p, q, r

LEMMA MultiNext ==
  ASSUME PlacesInv, app.name \in OneCaller, Runs(Main), MultiInv, CameraAppsNext, Runs(Main)'
  PROVE  MultiInv'
<1> SUFFICES ASSUME app.name = "cam_demo_multi"
             PROVE  MultiInv'
  <2>1. UNCHANGED app
    BY CallSteps
  <2> QED BY <2>1 DEF MultiInv
<1> DEFINE p == pc[Main]
           q == pc'[Main]
<1>1. UNCHANGED app /\ UNCHANGED quit /\ q # Ended
  BY CallSteps, NobodyQuits DEF Runs, Ended, Off, Place
<1>2. \A a : Unreached(a)' = Unreached(a) /\ MayRun("w0")' = MayRun("w0")
  BY <1>1 DEF Unreached, MayRun
<1>3. MultiAt(p, ctx) /\ quit["w0"] = FALSE
      /\ (In(p, MayRun("w0")) /\ ctx[0] = "live" => Runs("w0"))
  BY DEF MultiInv
<1>4. MultiAt(q, ctx') /\ (In(q, MayRun("w0")) /\ ctx'[0] = "live" => Runs("w0")')
  <2>1. CASE ~Step(Main)
    <3>1. UNCHANGED <<p, ctx>>
      <4>1. ASSUME NEW t \in Thread \ {Main}, Step(t)
            PROVE  UNCHANGED <<p, ctx>>
        <5>1. While(t) \/ UNCHANGED ctx
          BY <4>1, WorkerSteps DEF While, Event, Count, Get, Put, Peek, Dequeue, FreeItem, Nothing, locals, Main
        <5> QED BY <4>1, <5>1, WorkerSteps DEF While, Main, Thread
      <4>2. CASE \/ \E c \in Camera, n \in Channel : Frame(c, n)
                 \/ (\E c \in Camera : News(c)) \/ Viewer
        BY <4>2 DEF Frame, News, Viewer, locals
      <4> QED BY <2>1, <4>1, <4>2 DEF CameraAppsNext
    <3> QED BY <1>1, <1>3, <3>1, FirstThread
  <2>2. CASE Step(Main)
    <3>1. MultiAt(q, ctx')
      BY <1>1, <2>2, MultiPlaces
    <3>2. ASSUME In(q, MayRun("w0")), ctx'[0] = "live"
          PROVE  Runs("w0")'
      <4>1. CASE In(p, MayRun("w0")) /\ ctx[0] = "live"
        BY <1>3, <4>1, FirstThread
      <4>2. CASE ~(In(p, MayRun("w0")) /\ ctx[0] = "live")
        BY <1>3, <2>2, <3>2, <4>2, SpawnsFirst
      <4> QED BY <4>1, <4>2
    <3> QED BY <3>1, <3>2
  <2> QED BY <2>1, <2>2
<1> QED BY <1>1, <1>2, <1>3, <1>4 DEF MultiInv, MultiAt

-----------------------------------------------------------------------------
(* camera_demo4, which has its calls in two threads of one code.           *)

LEMMA Demo4Loop ==
  ASSUME PlacesInv, app.name = "camera_demo4", NEW t \in Workers, Step(t),
         pc[t].table = "loop"
  PROVE  /\ pc'[t].table # "setup" /\ UNCHANGED <<camera, chn, handle>>
         /\ UNCHANGED ready \/ Get(t)
         /\ UNCHANGED holds \/ Get(t) \/ holds' = [holds EXCEPT ![t] = "none"]
<1>1. /\ IsPlace(t, pc[t]) /\ Here(t) = RowAt(t, pc[t]) /\ t \in Thread /\ t # Main
      /\ DOMAIN pc = Thread
  BY StepsGo DEF Workers, Thread, Main, PlacesInv
<1>2. Here(t).op \in {"while", "poll", "count", "get", "put"}
  BY <1>1, Demo4Rows
<1>3. \A op : At(t, op) <=> Here(t).op = op
  BY DEF At
<1>4. \A a : GoTo(t, a) => pc'[t] = a
  BY <1>1 DEF GoTo, Main
<1>5. \A T : Table(t, T).table = T \/ Table(t, T) = Ended
  BY DEF Table, Place
<1>6. \A a : a.table = "loop" => After(t, a).table # "setup"
  BY <1>5 DEF After, Follows, Place, Ended
<1>7. Go(t) => pc'[t].table # "setup"
  BY <1>4, <1>6 DEF Go
<1>8. RowOf(t, "get").table = "loop" /\ RowOf(t, "put").table = "loop"
  BY DEF RowOf, Place
<1>9. \A n : ToFrames(t, n) => pc'[t].table # "setup"
  BY <1>4, <1>6, <1>8 DEF ToFrames
<1>10. CASE While(t)
  BY <1>4, <1>5, <1>7, <1>10 DEF While, halVars, Ended, Place
<1>11. CASE Poll(t)
  BY <1>7, <1>11 DEF Poll, csi_camera_get_event, halVars
<1>12. CASE Get(t)
  BY <1>7, <1>12 DEF Get, csi_camera_get_frame
<1>13. CASE Count(t) \/ Put(t)
  BY <1>9, <1>13 DEF Count, Put, halVars
<1>14. CASE Fails(t)
  <2>1. Here(t).to = "none"
    BY <1>1, Rows_demo4_w0_loop, Rows_demo4_w1_loop DEF Is, IsPlace, RowAt, Do, Or, Workers
  <2> QED BY <1>14, <2>1 DEF Fails
<1> QED BY <1>2, <1>3, <1>10, <1>11, <1>12, <1>13, <1>14 DEF Step, Nothing, HalCall, Spawn, Join,
       Quit, Context, Given, Event, Display, Malloc, Route, Peek, Dequeue, FreeItem

LEMMA Demo4Setup ==
  ASSUME PlacesInv, app.name = "camera_demo4", NEW t \in Workers, Step(t),
         pc[t].table # "loop"
  PROVE  LET r == Here(t) IN
         /\ UNCHANGED holds /\ r.c = 0 /\ pc[t].table = "setup"
         /\ \/ UNCHANGED halVars /\ pc'[t].at \in {0, 1}
            \/ /\ HalCall(t) /\ pc'[t] = After(t, pc[t])
               /\ r.op \in {"channel_open", "create_event", "subscribe"}
               /\ r.op = "subscribe" <=> pc[t].at > 2
               /\ pc[t].at \in 1 .. 4
<1> DEFINE r == Here(t)
<1>1. /\ IsPlace(t, pc[t]) /\ r = RowAt(t, pc[t]) /\ t \in Thread /\ t # Main
      /\ DOMAIN pc = Thread
  BY StepsGo DEF Workers, Thread, Main, PlacesInv
<1>2. /\ r.op \in {"channel_open", "create_event", "subscribe"} /\ r.c = 0
      /\ r.op = "subscribe" <=> pc[t].at > 2
      /\ pc[t].table = "setup"
  BY <1>1, Demo4Rows
<1>3. pc[t].at \in 1 .. 4
  BY <1>1, <1>2, Rows_demo4_w0_setup, Rows_demo4_w1_setup DEF Is, IsPlace, Workers
<1>4. \A op : At(t, op) <=> r.op = op
  BY DEF At
<1>5. \A a : GoTo(t, a) => pc'[t] = a
  BY <1>1 DEF GoTo, Main
<1>6. CASE Fails(t)
  <2>1. UNCHANGED <<halVars, holds>> /\ GoTo(t, Table(t, r.to))
    BY <1>6 DEF Fails, locals
  <2>2. Table(t, r.to).at \in {0, 1}
    BY DEF Table, Place, Ended
  <2> QED BY <1>2, <1>5, <2>1, <2>2
<1>7. CASE HalCall(t)
  <2>1. Go(t) /\ UNCHANGED holds
    BY <1>7, Zenon DEF HalCall, locals
  <2> QED BY <1>2, <1>3, <1>5, <1>7, <2>1 DEF Go
<1> HIDE DEF r
<1>8. ~(\/ Nothing(t) \/ Spawn(t) \/ Join(t) \/ Quit(t) \/ Context(t) \/ Given(t) \/ While(t)
        \/ Event(t) \/ Poll(t) \/ Count(t) \/ Get(t) \/ Put(t) \/ Display(t) \/ Malloc(t)
        \/ Route(t) \/ Peek(t) \/ Dequeue(t) \/ FreeItem(t))
  BY <1>2, <1>4 DEF Nothing, Spawn, Join, Quit, Context, Given, While, Event, Poll, Count, Get, Put,
     Display, Malloc, Route, Peek, Dequeue, FreeItem, r
<1> QED BY <1>6, <1>7, <1>8 DEF Step

(* The main thread opens the camera and creates the threads.               *)
LEMMA Demo4Main ==
  ASSUME PlacesInv, app.name = "camera_demo4", Step(Main)
  PROVE  /\ UNCHANGED <<chn, handle, ready, holds>> /\ DOMAIN camera' = DOMAIN camera
         /\ \A w \in Workers : pc'[w] = pc[w] \/ pc'[w].at \in {0, 1}
<1> DEFINE r == Here(Main)
<1>1. /\ IsPlace(Main, pc[Main]) /\ r = RowAt(Main, pc[Main])
      /\ DOMAIN pc = Thread /\ Main \in Thread /\ Workers \subseteq Thread \ {Main}
  BY StepsGo DEF Thread, Main, PlacesInv, Workers
<1>2. r.op \in {"find", "open", "spawn"}
  BY <1>1, Demo4Rows
<1>3. \A op : At(Main, op) <=> r.op = op
  BY DEF At
<1>4. ASSUME NEW a, GoTo(Main, a)
      PROVE  \A w \in Workers : pc'[w] = pc[w] \/ pc'[w].at \in {0, 1}
  BY <1>1, <1>4 DEF GoTo, Ended, Place
<1>5. CASE Nothing(Main) \/ Fails(Main)
  BY <1>4, <1>5 DEF Nothing, Fails, Go, halVars, locals
<1>6. CASE HalCall(Main)
  <2>1. At(Main, "open") /\ csi_camera_open(r.c)
    BY <1>2, <1>3, <1>6 DEF HalCall
  <2>2. Go(Main) /\ UNCHANGED holds
    BY <1>6, Zenon DEF HalCall, locals
  <2> QED BY <1>4, <2>1, <2>2 DEF Go, csi_camera_open
<1>7. CASE Spawn(Main)
  <2>1. UNCHANGED <<halVars, holds>>
    BY <1>7 DEF Spawn, locals
  <2>2. \A w \in Workers : pc'[w] = pc[w] \/ pc'[w].at = 1
    <3>1. \A w \in Workers :
            pc'[w] = IF w = r.n /\ ~Runs(w)
                     THEN IF "setup" \in DOMAIN Code(w) THEN Place("setup", 1) ELSE Place("loop", 1)
                     ELSE pc[w]
      BY <1>1, <1>7 DEF Spawn
    <3> QED BY <3>1 DEF Place
  <2> QED BY <2>1, <2>2 DEF halVars
<1> HIDE DEF r
<1>8. ~(\/ Join(Main) \/ Quit(Main) \/ Context(Main) \/ Given(Main) \/ While(Main)
        \/ Event(Main) \/ Poll(Main) \/ Count(Main) \/ Get(Main) \/ Put(Main) \/ Display(Main)
        \/ Malloc(Main) \/ Route(Main) \/ Peek(Main) \/ Dequeue(Main) \/ FreeItem(Main))
  BY <1>2, <1>3 DEF Join, Quit, Context, Given, While, Event, Poll, Count, Get, Put,
     Display, Malloc, Route, Peek, Dequeue, FreeItem
<1> QED BY <1>5, <1>6, <1>7, <1>8 DEF Step

LEMMA Demo4Opens ==
  ASSUME PlacesInv, app.name = "camera_demo4", NEW t \in Workers, Runs(t),
         Here(t).op = "channel_open"
  PROVE  pc[t].at = 1
<1>1. IsPlace(t, pc[t]) /\ Here(t) = RowAt(t, pc[t]) /\ t # Main
  BY DEF PlacesInv, Workers, Thread, Main, Here, RowAt
<1>2. pc[t].table = "setup"
  BY <1>1, Demo4Rows
<1> QED BY <1>1, <1>2, Rows_demo4_w0_setup, Rows_demo4_w1_setup
        DEF Is, IsPlace, RowAt, Do, Or, Workers

LEMMA Demo4Next ==
  ASSUME PlacesInv, app.name = "camera_demo4", Demo4Inv, CameraAppsNext
  PROVE  Demo4Inv'
<1>1. /\ HalShape /\ DOMAIN holds = Thread /\ \A t \in Thread : holds[t] # "frame"
      /\ \A c \in Camera, n \in Channel : chn[c][n] # "running" /\ ready[c][n] = 0
      /\ \A w \in Workers : pc[w].table = "setup" /\ pc[w].at > 2 => handle[0] = "live"
  BY DEF Demo4Inv
<1>2. Camera = {0, 1} /\ Channel = {"channel0", "channel1"}
  BY AppsAssumption DEF AppsAssumption
<1>3. ASSUME /\ HalShape' /\ DOMAIN holds' = Thread /\ \A t \in Thread : holds'[t] # "frame"
             /\ \A c \in Camera, n \in Channel : chn'[c][n] # "running" /\ ready'[c][n] = 0
             /\ \A w \in Workers : pc'[w].table = "setup" /\ pc'[w].at > 2 => handle'[0] = "live"
      PROVE  Demo4Inv'
  BY <1>3 DEF Demo4Inv
<1>4. UNCHANGED <<camera, chn, handle, ready>> => HalShape'
  BY <1>1 DEF HalShape
<1>5. CASE Step(Main)
  <2>1. UNCHANGED <<chn, handle, ready, holds>> /\ DOMAIN camera' = DOMAIN camera
        /\ \A w \in Workers : pc'[w] = pc[w] \/ pc'[w].at \in {0, 1}
    BY <1>5, Demo4Main
  <2>2. HalShape'
    BY <1>1, <2>1 DEF HalShape
  <2> QED BY <1>1, <1>3, <2>1, <2>2
<1>6. ASSUME NEW t \in Workers, Step(t)
      PROVE  Demo4Inv'
  <2>1. t \in Thread /\ \A w \in Workers \ {t} : pc'[w] = pc[w] \/ pc'[w] = Ended
    <3>1. t \in Thread /\ t # Main /\ DOMAIN pc = Thread /\ Workers \subseteq Thread
      BY DEF Workers, Thread, Main, PlacesInv
    <3> QED BY <1>6, <3>1, PlacesNext
  <2>2. \A w \in Workers \ {t} : pc'[w].table = "setup" /\ pc'[w].at > 2 => handle[0] = "live"
    BY <1>1, <2>1 DEF Ended, Place
  <2>3. CASE pc[t].table = "loop"
    <3>1. /\ pc'[t].table # "setup" /\ UNCHANGED <<camera, chn, handle>>
          /\ UNCHANGED ready \/ Get(t)
          /\ UNCHANGED holds \/ Get(t) \/ holds' = [holds EXCEPT ![t] = "none"]
      BY <1>6, <2>3, Demo4Loop
    <3>2. ASSUME Get(t)
          PROVE  ready' = ready /\ holds' = [holds EXCEPT ![t] = "stale"]
      <4>1. IsPlace(t, pc[t]) /\ Here(t) = RowAt(t, pc[t]) /\ t # Main
        BY <1>6, <2>1, StepsGo DEF Workers, Main
      <4>2. Here(t).op = "get"
        BY <3>2 DEF Get, At
      <4>3. Here(t).c = 0 /\ Here(t).n = "channel1"
        BY <4>1, <4>2, Demo4Rows
      <4>4. OfChannel(t) = "channel1"
        BY <4>3 DEF OfChannel
      <4>5. ready[0]["channel1"] = 0
        BY <1>1, <1>2
      <4>6. ready' = [ready EXCEPT ![0]["channel1"] = 0]
        BY <3>2, <4>3, <4>4, <4>5 DEF Get, csi_camera_get_frame
      <4>7. ready' = ready
        BY <1>1, <1>2, <4>5, <4>6 DEF HalShape
      <4>8. holds' = [holds EXCEPT ![t] = "stale"]
        BY <3>2, <4>3, <4>4, <4>5 DEF Get
      <4> QED BY <4>7, <4>8
    <3>3. ready' = ready /\ DOMAIN holds' = Thread /\ \A s \in Thread : holds'[s] # "frame"
      BY <1>1, <2>1, <3>1, <3>2
    <3> QED BY <1>1, <1>3, <1>4, <2>2, <3>1, <3>3
  <2>4. CASE pc[t].table # "loop"
    <3>1. UNCHANGED holds /\ Here(t).c = 0 /\ pc[t].table = "setup"
      BY <1>6, <2>4, Demo4Setup
    <3>2. CASE UNCHANGED halVars /\ pc'[t].at \in {0, 1}
      <4>1. ~(pc'[t].at > 2)
        BY <3>2
      <4> QED BY <1>1, <1>3, <1>4, <2>2, <3>1, <3>2, <4>1 DEF halVars
    <3>3. CASE /\ HalCall(t) /\ pc'[t] = After(t, pc[t])
               /\ Here(t).op \in {"channel_open", "create_event", "subscribe"}
               /\ Here(t).op = "subscribe" <=> pc[t].at > 2
               /\ pc[t].at \in 1 .. 4
      <4>1. HalShape' /\ ChannelsAfter(Here(t)) /\ HandlesAfter(Here(t))
        BY <1>1, <1>2, <3>1, <3>3, HalCalls
      <4>2. \A c \in Camera, n \in Channel : chn'[c][n] # "running" /\ ready'[c][n] = 0
        BY <1>1, <3>3, <4>1 DEF ChannelsAfter
      <4>3. handle[0] = "live" => handle'[0] = "live"
        BY <1>2, <3>3, <4>1 DEF HandlesAfter
      <4>4. pc'[t].table = "setup" /\ pc'[t].at > 2 => handle'[0] = "live"
        <5>1. pc'[t].table = "setup" /\ pc'[t].at > 2 => pc[t].at > 1
          BY <3>1, <3>3 DEF After, Table, Place, Ended, Follows
        <5>2. CASE Here(t).op = "create_event"
          BY <1>2, <3>1, <4>1, <5>2 DEF HandlesAfter
        <5>3. CASE Here(t).op = "subscribe"
          BY <1>1, <3>1, <3>3, <4>3, <5>3
        <5>4. CASE Here(t).op = "channel_open"
          <6>1. pc[t].at = 1
            BY <1>6, <5>4, Demo4Opens DEF Step
          <6> QED BY <5>1, <6>1
        <5> QED BY <3>3, <5>2, <5>3, <5>4
      <4> QED BY <1>1, <1>3, <2>2, <3>1, <4>1, <4>2, <4>3, <4>4
    <3> QED BY <1>6, <2>4, <3>2, <3>3, Demo4Setup
  <2> QED BY <2>3, <2>4
<1>7. CASE \E c \in Camera, n \in Channel : Frame(c, n)
  BY <1>1, <1>7 DEF Frame, FrameReady
<1>8. CASE (\E c \in Camera : News(c)) \/ Viewer
  <2>1. UNCHANGED <<camera, chn, handle, ready, pc, holds>>
    BY <1>8 DEF News, CameraNews, Viewer, halVars, locals
  <2> QED BY <1>1, <1>3, <1>4, <2>1
<1> QED BY <1>5, <1>6, <1>7, <1>8 DEF CameraAppsNext, Thread, Workers, Main

-----------------------------------------------------------------------------
(* The calls come in order.                                                *)

LEMMA NoneInFrame == "none" \notin InFrame
BY DEF InFrame

(* Where the main thread begins nothing is open.                           *)
LEMMA FirstRow ==
  LET p == Place("setup", 1) IN
  /\ \A c \in Camera : ~In(p, Open(c)) /\ ~In(p, Live(c))
  /\ \A c \in Camera, n \in Channel : ~In(p, Stopped(c, n)) /\ ~In(p, There(c, n))
  /\ \A w \in Workers : ~In(p, MayRun(w))
<1> USE DEF In, Place, Span, Nowhere
<1>1. \A c \in Camera : ~In(Place("setup", 1), Open(c))
  BY DEF Open
<1>2. \A c \in Camera : ~In(Place("setup", 1), Live(c))
  BY DEF Live
<1>3. \A c \in Camera, n \in Channel : ~In(Place("setup", 1), Stopped(c, n))
  BY DEF Stopped
<1>4. \A c \in Camera, n \in Channel : ~In(Place("setup", 1), There(c, n))
  BY DEF There
<1>5. \A w \in Workers : ~In(Place("setup", 1), MayRun(w))
  BY DEF MayRun, AfterSetup
<1> QED BY <1>1, <1>2, <1>3, <1>4, <1>5

LEMMA InitCalls == CameraAppsInit => CallsInv
<1> SUFFICES ASSUME CameraAppsInit PROVE CallsInv
  OBVIOUS
<1>1. PlacesInv
  BY InitPlaces
<1>2. HalShape /\ \A c \in Camera, n \in Channel : chn[c][n] = "closed" /\ ready[c][n] = 0
  BY DEF CameraAppsInit, HalInit, HalShape
<1>3. /\ DOMAIN holds = Thread /\ \A t \in Thread : holds[t] = "none"
      /\ DOMAIN ev = Thread /\ \A t \in Thread : ev[t] = "none"
  BY DEF CameraAppsInit
<1>4. /\ \A t \in Thread : t # Main => pc[t] = Place("none", 0) /\ ~Runs(t)
      /\ Runs(Main) => pc[Main] = Place("setup", 1)
  BY DEF CameraAppsInit, Runs, Off, Place, Thread, Main
<1>5. \A w \in Workers : w \in Thread /\ w # Main
  BY DEF Workers, Thread, Main
<1>6. Demo4Inv
  BY <1>2, <1>3, <1>4, <1>5 DEF Demo4Inv, Place
<1>7. ASSUME app.name \in OneCaller, Runs(Main)
      PROVE  CallerInv
  <2>1. HalInv
    BY <1>2, <1>4, <1>7, FirstRow DEF HalInv
  <2>2. ReadyInv
    BY <1>2 DEF ReadyInv
  <2>3. WorkersInv
    BY <1>4, <1>5 DEF WorkersInv
  <2>4. EventsInv
    <3>1. DOMAIN subs = Camera /\ DOMAIN events = Camera
          /\ \A c \in Camera : subs[c] = {} /\ events[c] = <<>>
      BY DEF CameraAppsInit, HalInit
    <3>2. \A S : <<>> \in Seq(S)
      OBVIOUS
    <3>3. \A c \in Camera : events[c] \in Seq(EventKind(c))
      BY <3>1, <3>2
    <3> QED BY <1>3, <3>1, <3>3 DEF EventsInv
  <2>5. \A t \in Thread : Here(t).op \notin InFrame
    <3>1. \A t \in Thread : t # Main => Here(t).op = "none"
      BY <1>4 DEF Here, Do, Or
    <3>2. Here(Main).op \notin InFrame
      <4>1. IsPlace(Main, pc[Main]) /\ Here(Main) = RowAt(Main, pc[Main]) /\ Main \in Thread
        BY <1>1, <1>7, MainRow
      <4>2. pc[Main].table # "loop"
        BY <1>4, <1>7 DEF Place
      <4> QED BY <1>7, <4>1, <4>2, OutOfLoop
    <3> QED BY <3>1, <3>2, NoneInFrame
  <2>6. AnnouncedInv
    BY <2>5 DEF AnnouncedInv
  <2>7. HoldsInv
    BY <1>3 DEF HoldsInv
  <2>8. MultiInv
    <3>1. ~In(pc[Main], MayRun("w0"))
      BY <1>4, <1>7, AppsAssumption, FirstRow DEF AppsAssumption, Workers
    <3>2. DOMAIN ctx = Camera /\ (\A c \in Camera : ctx[c] = "none") /\ quit["w0"] = FALSE
      BY DEF CameraAppsInit, Thread
    <3>3. Camera = {0, 1}
      BY AppsAssumption DEF AppsAssumption
    <3> QED BY <1>4, <1>7, <3>1, <3>2, <3>3 DEF MultiInv, MultiAt, Unreached, Place
  <2> QED BY <1>2, <2>1, <2>2, <2>3, <2>4, <2>6, <2>7, <2>8 DEF CallerInv
<1> QED BY <1>1, <1>6, <1>7 DEF CallsInv

LEMMA StepCalls ==
  ASSUME CallsInv, CameraAppsNext, PlacesInv'
  PROVE  CallsInv'
<1>1. PlacesInv
  BY DEF CallsInv
<1>2. UNCHANGED app
  BY DEF CameraAppsNext, Step, Frame, News, Viewer
<1>3. ASSUME app.name \in OneCaller, Runs(Main)'
      PROVE  CallerInv'
  <2>1. Runs(Main)
    <3>1. CASE \E t \in Thread : Step(t)
      BY <1>1, <3>1 DEF PlacesInv, Step
    <3>2. CASE \/ \E c \in Camera, n \in Channel : Frame(c, n)
               \/ (\E c \in Camera : News(c)) \/ Viewer
      BY <1>3, <3>2 DEF Frame, News, Viewer, Runs
    <3> QED BY <3>1, <3>2 DEF CameraAppsNext
  <2>2. /\ HalShape /\ HalInv /\ ReadyInv /\ WorkersInv
        /\ EventsInv /\ AnnouncedInv /\ HoldsInv /\ MultiInv
    BY <1>3, <2>1 DEF CallsInv, CallerInv
  <2>3. DOMAIN holds = Thread
    BY <2>2 DEF HoldsInv
  <2>4. HalShape' /\ HalInv' /\ ReadyInv'
    BY <1>1, <1>3, <2>1, <2>2, HalNext
  <2>5. WorkersInv'
    BY <1>1, <1>3, <2>1, <2>2, WorkersNext
  <2>6. EventsInv'
    BY <1>1, <1>3, <2>1, <2>2, <2>3, EventsNext
  <2>7. AnnouncedInv'
    BY <1>1, <1>3, <2>1, <2>2, <2>3, AnnouncedNext
  <2>8. HoldsInv'
    BY <1>1, <1>3, <2>1, <2>2, HoldsNext
  <2>9. MultiInv'
    BY <1>1, <1>3, <2>1, <2>2, MultiNext
  <2> QED BY <2>4, <2>5, <2>6, <2>7, <2>8, <2>9 DEF CallerInv
<1>4. ASSUME app.name = "camera_demo4"
      PROVE  Demo4Inv'
  BY <1>1, <1>4, Demo4Next DEF CallsInv
<1> QED BY <1>2, <1>3, <1>4 DEF CallsInv

LEMMA NextCalls == CallsInv /\ [Next]_vars => CallsInv'
<1> SUFFICES ASSUME CallsInv, [Next]_vars PROVE CallsInv'
  OBVIOUS
<1>1. PlacesInv'
  BY NextPlacesInv DEF CallsInv
<1>2. CASE UNCHANGED cameraAppVars
  <2> USE <1>2 DEF cameraAppVars, halVars, locals
  <2>1. /\ UNCHANGED <<app, pc, camera, chn, handle, subs, events, ready>>
        /\ UNCHANGED <<ev, holds, quit, ctx>>
    OBVIOUS
  <2>2. \A t : Here(t)' = Here(t) /\ Runs(t)' = Runs(t) /\ Cam(t)' = Cam(t)
    BY <2>1 DEF Here, Runs, Code, Cam
  <2>3. \A c, n : /\ Open(c)' = Open(c) /\ Live(c)' = Live(c)
                  /\ Stopped(c, n)' = Stopped(c, n) /\ There(c, n)' = There(c, n)
                  /\ Ran(c)' = Ran(c) /\ MayRun(c)' = MayRun(c) /\ Used(c)' = Used(c)
    BY <2>1, SameNames
  <2>4. HalShape' = HalShape /\ HalInv' = HalInv /\ ReadyInv' = ReadyInv
    BY <2>1, <2>3 DEF HalShape, HalInv, ReadyInv
  <2>5. WorkersInv' = WorkersInv
    BY <2>1, <2>2, <2>3 DEF WorkersInv
  <2>6. EventsInv' = EventsInv /\ AnnouncedInv' = AnnouncedInv
    <3>1. UNCHANGED app
      BY <2>1
    <3>2. /\ \A c : EventKind(c)' = EventKind(c) /\ Used(c)' = Used(c)
          /\ \A t : EventKind(Cam(t))' = EventKind(Cam(t))
          /\ Announcing' = Announcing
      BY <3>1, SameEvents
    <3>3. EventsInv' = EventsInv
      BY <2>1, <3>2 DEF EventsInv
    <3>4. AnnouncedInv' = AnnouncedInv
      BY <2>1, <2>2, <3>2 DEF AnnouncedInv
    <3> QED BY <3>3, <3>4
  <2>7. HoldsInv' = HoldsInv
    BY <2>1, <2>2, <2>3 DEF HoldsInv
  <2>8. MultiInv' = MultiInv
    BY <2>1, <2>2, <2>3 DEF MultiInv, MultiAt, Unreached
  <2>9. Demo4Inv' = Demo4Inv
    BY <2>1, <2>4 DEF Demo4Inv
  <2> HIDE <1>2
  <2> QED BY <1>1, <2>1, <2>2, <2>4, <2>5, <2>6, <2>7, <2>8, <2>9 DEF CallsInv, CallerInv
<1>3. CASE CameraAppsNext
  BY <1>1, <1>3, StepCalls
<1> QED BY <1>2, <1>3 DEF Next, Camera_demo, G2d_demo, vars

(* In its loop a main thread finds the channels of its program open.       *)
LEMMA ThereInLoop ==
  ASSUME app.name \in OneCaller, NEW p, p.table = "loop", NEW n \in Used(0)
  PROVE  In(p, There(0, n))
BY DEF There, In, Span, Used, OneCaller

LEMMA MainInOrder ==
  ASSUME PlacesInv, app.name \in OneCaller, Runs(Main), CallerInv
  PROVE  LET r == Here(Main) IN
         /\ r.op = "start" =>
              chn[r.c][r.n] = "opened" /\ camera[r.c] = "open" /\ handle[r.c] = "live"
         /\ r.op = "channel_close" => chn[r.c][r.n] # "running"
         /\ r.op \in {"event", "subscribe", "unsubscribe", "destroy_event"} =>
              handle[r.c] = "live"
         /\ holds[Main] = "frame" => chn[r.c][OfChannel(Main)] # "closed"
         /\ r.op \in {"destroy_event", "channel_close", "close"} /\ pc[Main].table = "finish" =>
              \A w \in Thread \ {Main} : Runs(w) => Here(w).c # r.c
<1> DEFINE p == pc[Main]
           r == Here(Main)
<1>1. /\ HalInv /\ WorkersInv /\ EventsInv /\ AnnouncedInv /\ HoldsInv /\ MultiInv
  BY DEF CallerInv
<1>2. IsPlace(Main, p) /\ Follow(p) /\ r = RowAt(Main, p) /\ Main \in Thread
  BY MainRow
<1>3. NeedsHal(p, r) /\ NeedsThreads(p, After(Main, p), r)
  BY <1>1, <1>2, Reached DEF Follow
<1>4. r.c \in Camera
  BY <1>3 DEF NeedsHal
<1> HIDE DEF p, r
<1>5. ASSUME r.op = "start"
      PROVE  chn[r.c][r.n] = "opened" /\ camera[r.c] = "open" /\ handle[r.c] = "live"
  BY <1>1, <1>3, <1>4, <1>5 DEF NeedsHal, HalInv, p
<1>6. ASSUME r.op = "channel_close"
      PROVE  chn[r.c][r.n] # "running"
  BY <1>1, <1>3, <1>4, <1>6 DEF NeedsHal, HalInv, p
<1>7. ASSUME r.op \in {"event", "subscribe", "unsubscribe", "destroy_event"}
      PROVE  handle[r.c] = "live"
  BY <1>1, <1>3, <1>4, <1>7 DEF NeedsHal, HalInv, p
<1>8. ASSUME holds[Main] = "frame"
      PROVE  chn[r.c][OfChannel(Main)] # "closed"
  <2>1. r.op \in InFrame
    BY <1>1, <1>2, <1>8 DEF HoldsInv, InFrame, r
  <2>2. r.c = Cam(Main) /\ OfChannel(Main) \in Used(Cam(Main)) /\ OfChannel(Main) \in Channel
    BY <1>1, <1>2, <2>1, ChannelOfFrame DEF r
  <2>3. Cam(Main) = 0
    BY DEF Cam, Main
  <2>4. p.table = "loop"
    BY <1>2, <2>1, LoopPlaces, ProgramNames DEF LoopOnly
  <2>5. In(p, There(0, OfChannel(Main)))
    BY <2>2, <2>3, <2>4, ThereInLoop
  <2> QED BY <1>1, <1>4, <2>2, <2>3, <2>5 DEF HalInv, p
<1>9. ASSUME r.op \in {"destroy_event", "channel_close", "close"}, p.table = "finish",
             NEW w \in Thread \ {Main}, Runs(w)
      PROVE  Here(w).c # r.c
  <2>1. w \in Workers /\ Here(w).c = Cam(w)
    BY <1>9, WorkerRow
  <2>2. In(p, MayRun(w))
    BY <1>1, <1>9, <2>1 DEF WorkersInv, p
  <2> QED BY <1>3, <1>9, <2>1, <2>2 DEF NeedsThreads
<1> QED BY <1>5, <1>6, <1>7, <1>8, <1>9 DEF p, r

LEMMA WorkersInOrder ==
  ASSUME PlacesInv, app.name \in OneCaller, CallerInv, NEW w \in Thread \ {Main}, Runs(w)
  PROVE  /\ Here(w).op \in WorkerOps
         /\ handle[Here(w).c] = "live"
         /\ holds[w] = "frame" => chn[Here(w).c][OfChannel(w)] # "closed"
<1>1. /\ WorkersInv /\ EventsInv /\ AnnouncedInv /\ HoldsInv
  BY DEF CallerInv
<1>2. w \in Workers /\ Here(w).c = Cam(w) /\ Here(w).op \in WorkerOps
  BY WorkerRow
<1>3. handle[Cam(w)] = "live"
  BY <1>1, <1>2 DEF WorkersInv
<1>4. ASSUME holds[w] = "frame"
      PROVE  chn[Cam(w)][OfChannel(w)] # "closed"
  <2>1. Here(w).op \in InFrame /\ In(pc[Main], Ran(Cam(w)))
    BY <1>1, <1>2, <1>4 DEF HoldsInv, InFrame
  <2>2. OfChannel(w) \in Used(Cam(w))
    BY <1>1, <2>1, ChannelOfFrame
  <2> QED BY <1>1, <1>2, <2>1, <2>2 DEF WorkersInv
<1> QED BY <1>2, <1>3, <1>4

LEMMA Demo4InOrder ==
  ASSUME PlacesInv, app.name = "camera_demo4", Demo4Inv, NEW t \in Thread, Runs(t)
  PROVE  /\ Here(t).op \notin {"start", "channel_close", "event", "unsubscribe",
                               "destroy_event", "close"}
         /\ Here(t).op = "subscribe" => handle[Here(t).c] = "live"
         /\ holds[t] # "frame"
<1>1. IsPlace(t, pc[t]) /\ Here(t) = RowAt(t, pc[t])
  BY DEF PlacesInv, Here, RowAt
<1>2. CASE t = Main
  BY <1>1, <1>2, Demo4Rows DEF Demo4Inv
<1>3. CASE t # Main
  <2>1. t \in Workers
    BY <1>3 DEF Thread, Workers, Main
  <2> QED BY <1>1, <1>3, <2>1, Demo4Rows DEF Demo4Inv
<1> QED BY <1>2, <1>3

LEMMA CallsHold == CallsInv => CallsAreInOrder
<1> SUFFICES ASSUME CallsInv, NEW t \in Thread
             PROVE  LET r == Here(t) IN
                    /\ r.op = "start" =>
                         chn[r.c][r.n] = "opened" /\ camera[r.c] = "open" /\ handle[r.c] = "live"
                    /\ r.op = "channel_close" => chn[r.c][r.n] # "running"
                    /\ r.op \in {"event", "subscribe", "unsubscribe", "destroy_event"} =>
                         handle[r.c] = "live"
                    /\ Runs(t) /\ holds[t] = "frame" => chn[r.c][OfChannel(t)] # "closed"
                    /\ r.op \in {"destroy_event", "channel_close", "close"}
                         /\ pc[t].table = "finish" =>
                         \A w \in Thread \ {t} : Runs(w) => Here(w).c # r.c
  BY DEF CallsAreInOrder
<1>1. PlacesInv
  BY DEF CallsInv
<1>2. CASE ~Runs(t)
  <2>1. Here(t).op = "none"
    BY <1>2 DEF Here, Do, Or
  <2> QED BY <1>2, <2>1
<1>3. CASE Runs(t)
  <2>1. Runs(Main) /\ app.name \in OneCaller \cup {"camera_demo4"}
    BY <1>1, <1>3, ProgramNames DEF PlacesInv
  <2>2. CASE app.name = "camera_demo4"
    <3>1. Demo4Inv
      BY <2>2 DEF CallsInv
    <3> QED BY <1>1, <1>3, <2>2, <3>1, Demo4InOrder
  <2>3. CASE app.name \in OneCaller
    <3>1. CallerInv
      BY <2>1, <2>3 DEF CallsInv
    <3>2. CASE t = Main
      BY <1>1, <2>1, <2>3, <3>1, <3>2, MainInOrder
    <3>3. CASE t # Main
      BY <1>1, <1>3, <2>3, <3>1, <3>3, WorkersInOrder DEF WorkerOps
    <3> QED BY <3>2, <3>3
  <2> QED BY <2>1, <2>2, <2>3
<1> QED BY <1>2, <1>3

(* The programs call the HAL in an order it can serve, whichever of them   *)
(* runs, with whatever limit and however many events of the camera's own:  *)
(* what a thread uses is there, and no thread that runs has it taken away. *)
THEOREM CallsComeInOrder == Spec => []CallsAreInOrder
<1>1. Init => CallsInv
  BY InitCalls DEF Init
<1> QED BY <1>1, NextCalls, CallsHold, PTL DEF Spec

-----------------------------------------------------------------------------
(* The lists of the queues.                                                *)

LEMMA Smallest ==
  ASSUME NEW S \in SUBSET Nat, S # {}
  PROVE  \E i \in S : \A j \in S : i <= j
<1> DEFINE R == OpToRel(<, Nat)
<1>1. IsWellFoundedOn(R, Nat)
  BY NatLessThanWellFounded, Zenon
<1>2. \A i, j \in Nat : i < j => <<i, j>> \in R
  BY DEF OpToRel
<1> HIDE DEF R
<1>3. PICK i \in S : \A j \in S : <<j, i>> \notin R
  BY <1>1, WFMin
<1>4. \A j \in S : ~(j < i)
  BY <1>2, <1>3, Zenon
<1>5. \A j \in S : i <= j
  BY <1>4, SMT
<1> QED BY <1>5

(* The items one finds following nx from h, and lists: nx links k          *)
(* different items s[1] .. s[k] from h to t.                               *)
ItemsFrom(h, nx) ==
  LET at[k \in 0 .. Cardinality(Item)] ==
        IF k = 0 THEN h ELSE IF at[k - 1] = NULL THEN NULL ELSE nx[at[k - 1]]
  IN  {at[k] : k \in DOMAIN at} \ {NULL}

Links(k, s, h, t, nx) ==
  /\ k \in Nat /\ s \in [1 .. k -> Item]
  /\ \A i, j \in 1 .. k : s[i] = s[j] => i = j
  /\ h = IF k = 0 THEN NULL ELSE s[1]
  /\ t = IF k = 0 THEN NULL ELSE s[k]
  /\ \A i \in 1 .. k : nx[s[i]] = IF i < k THEN s[i + 1] ELSE NULL
IsList(h, t, nx) == \E k, s : Links(k, s, h, t, nx)

LEMMA ItemsAreFrom ==
  ASSUME NEW n
  PROVE  Items(n) = ItemsFrom(head[n], next) /\ Items(n)' = ItemsFrom(head'[n], next')
BY DEF Items, ItemsFrom

(* Following the links is well defined, and finds the items of the list:   *)
(* they are no more than there are items.                                  *)
Follows_links(f, h, nx) ==
  f = [k \in 0 .. Cardinality(Item) |->
         IF k = 0 THEN h ELSE IF f[k - 1] = NULL THEN NULL ELSE nx[f[k - 1]]]

LEMMA ListFits ==
  ASSUME NEW k, NEW s, NEW h, NEW t, NEW nx, Links(k, s, h, t, nx)
  PROVE  Cardinality(Item) \in Nat /\ k <= Cardinality(Item)
<1>1. IsFiniteSet(Item) /\ Cardinality(Item) \in Nat
  BY QueueAssumption, FS_CardinalityType DEF QueueAssumption
<1>2. s \in Injection(1 .. k, Item)
  BY DEF Links, Injection, IsInjective
<1>3. Cardinality(1 .. k) <= Cardinality(Item)
  BY <1>1, <1>2, FS_Injection
<1>4. k \in Nat /\ Cardinality(1 .. k) = k
  BY UpTo DEF Links
<1> QED BY <1>1, <1>3, <1>4

LEMMA OnlyOneWay ==
  ASSUME NEW k, NEW s, NEW h, NEW t, NEW nx, Links(k, s, h, t, nx),
         NEW f, Follows_links(f, h, nx)
  PROVE  \A i \in 0 .. Cardinality(Item) : f[i] = IF i < k THEN s[i + 1] ELSE NULL
<1> DEFINE C == Cardinality(Item)
           Wrong == {i \in 0 .. C : f[i] # IF i < k THEN s[i + 1] ELSE NULL}
<1>1. C \in Nat /\ k \in Nat /\ k <= C
  <2>1. k \in Nat
    BY DEF Links
  <2> QED BY <2>1, ListFits
<1>2. \A i \in 0 .. C : f[i] = IF i = 0 THEN h ELSE IF f[i - 1] = NULL THEN NULL ELSE nx[f[i - 1]]
  BY DEF Follows_links
<1>3. /\ s \in [1 .. k -> Item] /\ NULL \notin Item
      /\ h = IF k = 0 THEN NULL ELSE s[1]
      /\ \A i \in 1 .. k : nx[s[i]] = IF i < k THEN s[i + 1] ELSE NULL
  BY QueueAssumption DEF Links, QueueAssumption
<1> HIDE DEF C
<1>4. ASSUME Wrong # {} PROVE FALSE
  <2>1. Wrong \in SUBSET Nat
    BY <1>1
  <2>2. PICK i \in Wrong : \A j \in Wrong : i <= j
    BY <1>4, <2>1, Smallest
  <2>3. i \in 0 .. C /\ f[i] # IF i < k THEN s[i + 1] ELSE NULL
    OBVIOUS
  <2>4. i # 0
    BY <1>1, <1>2, <1>3, <2>3
  <2>5. i - 1 \in 0 .. C /\ i - 1 < i /\ i \in Nat
    BY <1>1, <2>3, <2>4
  <2>6. i - 1 \notin Wrong
    BY <2>2, <2>5
  <2>7. f[i - 1] = IF i - 1 < k THEN s[i] ELSE NULL
    BY <2>5, <2>6
  <2>8. f[i] = IF f[i - 1] = NULL THEN NULL ELSE nx[f[i - 1]]
    BY <1>2, <2>3, <2>4
  <2>9. CASE i - 1 < k
    <3>1. i \in 1 .. k /\ s[i] \in Item
      BY <1>1, <1>3, <2>5, <2>9
    <3> QED BY <1>3, <2>3, <2>7, <2>8, <2>9, <3>1
  <2>10. CASE ~(i - 1 < k)
    BY <1>1, <2>3, <2>5, <2>7, <2>8, <2>10
  <2> QED BY <2>9, <2>10
<1> QED BY <1>4 DEF C

LEMMA ItemsOfList ==
  ASSUME NEW k, NEW s, NEW h, NEW t, NEW nx, Links(k, s, h, t, nx)
  PROVE  ItemsFrom(h, nx) = {s[i] : i \in 1 .. k}
<1> DEFINE C == Cardinality(Item)
           f == CHOOSE g : Follows_links(g, h, nx)
           way == [i \in 0 .. C |-> IF i < k THEN s[i + 1] ELSE NULL]
<1>1. C \in Nat /\ k \in Nat /\ k <= C
  <2>1. k \in Nat
    BY DEF Links
  <2> QED BY <2>1, ListFits
<1>2. /\ s \in [1 .. k -> Item] /\ NULL \notin Item
      /\ h = IF k = 0 THEN NULL ELSE s[1]
      /\ \A i \in 1 .. k : nx[s[i]] = IF i < k THEN s[i + 1] ELSE NULL
  BY QueueAssumption DEF Links, QueueAssumption
<1>3. Follows_links(way, h, nx)
  <2> SUFFICES ASSUME NEW i \in 0 .. C
               PROVE  way[i] = IF i = 0 THEN h ELSE IF way[i - 1] = NULL THEN NULL ELSE nx[way[i - 1]]
    BY DEF Follows_links
  <2>1. CASE i = 0
    BY <1>1, <1>2, <2>1
  <2>2. CASE i # 0
    <3>1. i - 1 \in 0 .. C /\ i \in Nat
      BY <1>1, <2>2
    <3>2. way[i - 1] = IF i - 1 < k THEN s[i] ELSE NULL
      BY <3>1
    <3>3. way[i] = IF i < k THEN s[i + 1] ELSE NULL
      OBVIOUS
    <3> HIDE DEF way
    <3>4. CASE i - 1 < k
      <4>1. i \in 1 .. k /\ s[i] \in Item
        BY <1>1, <1>2, <2>2, <3>1, <3>4
      <4> QED BY <1>2, <2>2, <3>2, <3>3, <3>4, <4>1
    <3>5. CASE ~(i - 1 < k)
      BY <1>1, <2>2, <3>1, <3>2, <3>3, <3>5
    <3> QED BY <3>4, <3>5
  <2> QED BY <2>1, <2>2
<1> HIDE DEF way
<1>4. Follows_links(f, h, nx)
  BY <1>3
<1>5. ItemsFrom(h, nx) = {f[i] : i \in DOMAIN f} \ {NULL}
  BY SMTT(60) DEF ItemsFrom, Follows_links
<1>6. DOMAIN f = 0 .. C
  BY <1>4, ZenonT(30) DEF Follows_links
<1> HIDE DEF f
<1>7. \A i \in 0 .. C : f[i] = IF i < k THEN s[i + 1] ELSE NULL
  BY <1>4, OnlyOneWay
<1>8. ASSUME NEW i \in 0 .. C, f[i] # NULL PROVE f[i] \in {s[j] : j \in 1 .. k}
  <2>1. i < k /\ f[i] = s[i + 1] /\ i + 1 \in 1 .. k
    BY <1>1, <1>7, <1>8
  <2> QED BY <2>1
<1>9. ASSUME NEW j \in 1 .. k PROVE s[j] \in {f[i] : i \in 0 .. C} \ {NULL}
  <2>1. j - 1 \in 0 .. C /\ j - 1 < k /\ j - 1 + 1 = j
    BY <1>1
  <2>2. f[j - 1] = s[j]
    BY <1>7, <2>1
  <2>3. s[j] \in Item
    BY <1>2
  <2> QED BY <1>2, <2>1, <2>2, <2>3
<1>10. \A x : x \in {f[i] : i \in 0 .. C} \ {NULL} <=> x \in {s[j] : j \in 1 .. k}
  BY <1>8, <1>9
<1> QED BY <1>5, <1>6, <1>10

(* What a list is like at its ends.                                        *)
LEMMA ListEnds ==
  ASSUME NEW h, NEW t, NEW nx, IsList(h, t, nx)
  PROVE  /\ ItemsFrom(h, nx) \subseteq Item
         /\ t = NULL => h = NULL /\ ItemsFrom(h, nx) = {}
         /\ t # NULL => t \in ItemsFrom(h, nx) /\ nx[t] = NULL
         /\ h # NULL => h \in ItemsFrom(h, nx) /\ t # NULL
<1>1. PICK k, s : Links(k, s, h, t, nx)
  BY DEF IsList
<1>2. ItemsFrom(h, nx) = {s[i] : i \in 1 .. k}
  BY <1>1, ItemsOfList
<1>3. /\ k \in Nat /\ s \in [1 .. k -> Item] /\ NULL \notin Item
      /\ h = IF k = 0 THEN NULL ELSE s[1]
      /\ t = IF k = 0 THEN NULL ELSE s[k]
      /\ \A i \in 1 .. k : nx[s[i]] = IF i < k THEN s[i + 1] ELSE NULL
  BY <1>1, QueueAssumption DEF Links, QueueAssumption
<1>4. CASE k = 0
  BY <1>2, <1>3, <1>4
<1>5. CASE k # 0
  <2>1. 1 \in 1 .. k /\ k \in 1 .. k /\ ~(k < k)
    BY <1>3, <1>5
  <2>2. s[1] \in Item /\ s[k] \in Item /\ nx[s[k]] = NULL
    BY <1>3, <2>1
  <2> QED BY <1>2, <1>3, <1>5, <2>1, <2>2
<1> QED BY <1>4, <1>5

LEMMA EmptyList ==
  ASSUME NEW nx
  PROVE  IsList(NULL, NULL, nx) /\ ItemsFrom(NULL, nx) = {}
<1> DEFINE s == [i \in 1 .. 0 |-> NULL]
<1>1. Links(0, s, NULL, NULL, nx)
  BY DEF Links
<1>2. IsList(NULL, NULL, nx)
  BY <1>1 DEF IsList
<1> QED BY <1>2, ListEnds

(* A list whose links are left alone, one that an item is appended to and  *)
(* one that loses its head.                                                *)
LEMMA SameList ==
  ASSUME NEW h, NEW t, NEW nx, NEW mx, IsList(h, t, nx),
         \A i \in ItemsFrom(h, nx) : mx[i] = nx[i]
  PROVE  IsList(h, t, mx) /\ ItemsFrom(h, mx) = ItemsFrom(h, nx)
<1>1. PICK k, s : Links(k, s, h, t, nx)
  BY DEF IsList
<1>2. ItemsFrom(h, nx) = {s[i] : i \in 1 .. k}
  BY <1>1, ItemsOfList
<1>3. \A i \in 1 .. k : mx[s[i]] = nx[s[i]]
  BY <1>2
<1>4. Links(k, s, h, t, mx)
  BY <1>1, <1>3 DEF Links
<1>5. ItemsFrom(h, mx) = {s[i] : i \in 1 .. k}
  BY <1>4, ItemsOfList
<1> QED BY <1>2, <1>4, <1>5 DEF IsList

LEMMA AppendedList ==
  ASSUME NEW h, NEW t, NEW nx, NEW mx, NEW x \in Item, IsList(h, t, nx),
         x \notin ItemsFrom(h, nx), mx[x] = NULL, t # NULL => mx[t] = x,
         \A i \in ItemsFrom(h, nx) \ {t} : mx[i] = nx[i]
  PROVE  LET g == IF t = NULL THEN x ELSE h IN
         IsList(g, x, mx) /\ ItemsFrom(g, mx) = ItemsFrom(h, nx) \cup {x}
<1> DEFINE g == IF t = NULL THEN x ELSE h
<1>1. PICK k, s : Links(k, s, h, t, nx)
  BY DEF IsList
<1>2. ItemsFrom(h, nx) = {s[i] : i \in 1 .. k}
  BY <1>1, ItemsOfList
<1>3. /\ k \in Nat /\ s \in [1 .. k -> Item] /\ NULL \notin Item
      /\ \A i, j \in 1 .. k : s[i] = s[j] => i = j
      /\ h = IF k = 0 THEN NULL ELSE s[1]
      /\ t = IF k = 0 THEN NULL ELSE s[k]
      /\ \A i \in 1 .. k : nx[s[i]] = IF i < k THEN s[i + 1] ELSE NULL
  BY <1>1, QueueAssumption DEF Links, QueueAssumption
<1> DEFINE r == [i \in 1 .. k + 1 |-> IF i <= k THEN s[i] ELSE x]
<1>4. /\ \A i \in 1 .. k : i \in 1 .. k + 1 /\ r[i] = s[i]
      /\ k + 1 \in 1 .. k + 1 /\ r[k + 1] = x
      /\ \A i \in 1 .. k + 1 : i \in 1 .. k \/ i = k + 1
      /\ r \in [1 .. k + 1 -> Item] /\ k + 1 \in Nat /\ k + 1 # 0
  BY <1>3
<1> HIDE DEF r
<1>5. \A i \in 1 .. k : s[i] # x
  BY <1>2
<1>6. \A i, j \in 1 .. k + 1 : r[i] = r[j] => i = j
  BY <1>3, <1>4, <1>5
<1>7. t = NULL <=> k = 0
  <2>1. k # 0 => k \in 1 .. k /\ s[k] \in Item
    BY <1>3
  <2> QED BY <1>3, <2>1
<1>8. g = r[1]
  BY <1>3, <1>4, <1>7
<1>9. \A i \in 1 .. k + 1 : mx[r[i]] = IF i < k + 1 THEN r[i + 1] ELSE NULL
  <2> SUFFICES ASSUME NEW i \in 1 .. k + 1
               PROVE  mx[r[i]] = IF i < k + 1 THEN r[i + 1] ELSE NULL
    OBVIOUS
  <2>1. CASE i = k + 1
    BY <1>3, <1>4, <2>1
  <2>2. CASE i = k
    <3>1. k # 0 /\ i \in 1 .. k /\ i < k + 1
      BY <1>3, <2>2
    <3>2. r[i] = t /\ t # NULL
      BY <1>3, <1>4, <1>7, <2>2, <3>1
    <3> QED BY <1>4, <2>2, <3>1, <3>2
  <2>3. CASE i < k
    <3>1. i \in 1 .. k /\ k \in 1 .. k /\ i # k /\ i + 1 \in 1 .. k /\ i < k + 1
      BY <1>3, <2>3
    <3>2. s[i] # s[k] /\ t = s[k]
      BY <1>3, <3>1
    <3>3. s[i] \in ItemsFrom(h, nx) \ {t}
      BY <1>2, <3>1, <3>2
    <3>4. mx[s[i]] = s[i + 1]
      BY <1>3, <2>3, <3>1, <3>3
    <3> QED BY <1>4, <3>1, <3>4
  <2> QED BY <1>3, <2>1, <2>2, <2>3
<1>10. Links(k + 1, r, g, x, mx)
  BY <1>4, <1>6, <1>8, <1>9 DEF Links
<1>11. ItemsFrom(g, mx) = {r[i] : i \in 1 .. k + 1}
  BY <1>10, ItemsOfList
<1>12. ItemsFrom(g, mx) = ItemsFrom(h, nx) \cup {x}
  <2>1. \A y : y \in {r[i] : i \in 1 .. k + 1} <=> y \in {s[i] : i \in 1 .. k} \cup {x}
    BY <1>4
  <2> QED BY <1>2, <1>11, <2>1
<1> QED BY <1>10, <1>12 DEF IsList

LEMMA TailOfList ==
  ASSUME NEW h, NEW t, NEW nx, IsList(h, t, nx), h # NULL
  PROVE  /\ IsList(nx[h], IF h = t THEN NULL ELSE t, nx)
         /\ ItemsFrom(nx[h], nx) = ItemsFrom(h, nx) \ {h}
<1>1. PICK k, s : Links(k, s, h, t, nx)
  BY DEF IsList
<1>2. ItemsFrom(h, nx) = {s[i] : i \in 1 .. k}
  BY <1>1, ItemsOfList
<1>3. /\ k \in Nat /\ s \in [1 .. k -> Item] /\ NULL \notin Item
      /\ \A i, j \in 1 .. k : s[i] = s[j] => i = j
      /\ h = IF k = 0 THEN NULL ELSE s[1]
      /\ t = IF k = 0 THEN NULL ELSE s[k]
      /\ \A i \in 1 .. k : nx[s[i]] = IF i < k THEN s[i + 1] ELSE NULL
  BY <1>1, QueueAssumption DEF Links, QueueAssumption
<1>4. /\ k # 0 /\ h = s[1] /\ t = s[k] /\ k - 1 \in Nat /\ 1 \in 1 .. k /\ k \in 1 .. k
      /\ nx[h] = IF 1 < k THEN s[2] ELSE NULL
  BY <1>3
<1> DEFINE r == [i \in 1 .. k - 1 |-> s[i + 1]]
<1>5. /\ \A i \in 1 .. k - 1 : i + 1 \in 1 .. k /\ r[i] = s[i + 1]
      /\ \A i \in 1 .. k : i = 1 \/ (i - 1 \in 1 .. k - 1 /\ i - 1 + 1 = i)
      /\ r \in [1 .. k - 1 -> Item]
  BY <1>3, <1>4
<1> HIDE DEF r
<1>6. \A i, j \in 1 .. k - 1 : r[i] = r[j] => i = j
  BY <1>3, <1>4, <1>5
<1>7. h = t <=> k = 1
  BY <1>3, <1>4
<1>8. nx[h] = IF k - 1 = 0 THEN NULL ELSE r[1]
  BY <1>3, <1>4, <1>5
<1>9. (IF h = t THEN NULL ELSE t) = IF k - 1 = 0 THEN NULL ELSE r[k - 1]
  BY <1>3, <1>4, <1>5, <1>7
<1>10. \A i \in 1 .. k - 1 : nx[r[i]] = IF i < k - 1 THEN r[i + 1] ELSE NULL
  <2> SUFFICES ASSUME NEW i \in 1 .. k - 1
               PROVE  nx[r[i]] = IF i < k - 1 THEN r[i + 1] ELSE NULL
    OBVIOUS
  <2>1. nx[s[i + 1]] = IF i + 1 < k THEN s[i + 1 + 1] ELSE NULL
    BY <1>3, <1>5
  <2>2. i < k - 1 => i + 1 < k /\ i + 1 \in 1 .. k - 1
    BY <1>3
  <2>3. ~(i < k - 1) => ~(i + 1 < k)
    BY <1>3
  <2>4. i < k - 1 => r[i + 1] = s[i + 1 + 1]
    BY <1>5, <2>2
  <2> QED BY <1>5, <2>1, <2>2, <2>3, <2>4
<1>11. Links(k - 1, r, nx[h], IF h = t THEN NULL ELSE t, nx)
  BY <1>4, <1>5, <1>6, <1>8, <1>9, <1>10 DEF Links
<1>12. ItemsFrom(nx[h], nx) = {r[i] : i \in 1 .. k - 1}
  BY <1>11, ItemsOfList
<1>13. ItemsFrom(nx[h], nx) = ItemsFrom(h, nx) \ {h}
  <2>1. \A i \in 1 .. k - 1 : r[i] # h
    BY <1>3, <1>4, <1>5
  <2>2. \A y : y \in {r[i] : i \in 1 .. k - 1} <=> y \in {s[i] : i \in 1 .. k} \ {h}
    BY <1>4, <1>5, <2>1
  <2> QED BY <1>2, <1>12, <2>2
<1> QED BY <1>11, <1>13 DEF IsList

-----------------------------------------------------------------------------
(* cam_demo_ir row by row: which rows have an item in their thread's hands. *)

Chan(w) == IF w = "w0" THEN "channel0" ELSE "channel1"
Holding(t) ==
  IF t = Main THEN {"event", "route"} ELSE {"dequeue", "count", "get", "put", "free"}
QueueOps == {"malloc", "route", "peek", "dequeue", "free"}

LEMMA IrMainRows ==
  ASSUME app.name = "cam_demo_ir", NEW p, IsPlace(Main, p)
  PROVE  LET o == RowAt(Main, p).op  q == After(Main, p)  then == RowAt(Main, q).op IN
         /\ o \in LoopOnly => o \in {"malloc", "event", "route", "while"}
         /\ o \in {"malloc", "event", "route"} =>
              RowAt(Main, p).to = "none" /\ RowAt(Main, p).c = 0
         /\ o = "malloc" => q # Ended /\ then = "event"
         /\ o = "event" => q # Ended /\ then = "route"
         /\ o \notin {"malloc", "event"} /\ q # Ended => then \notin {"event", "route"}
         /\ \A T : Table(Main, T) # Ended => RowAt(Main, Table(Main, T)).op \notin {"event", "route"}
<1> DEFINE o == RowAt(Main, p).op
           q == After(Main, p)
           rows == Code(Main)["loop"]
<1>1. /\ Len(rows) = 4 /\ DOMAIN rows = 1 .. 4
      /\ rows[1].op = "malloc" /\ rows[2].op = "event" /\ rows[3].op = "route"
      /\ rows[4].op = "while"
      /\ \A i \in 1 .. 3 : rows[i].to = "none" /\ rows[i].c = 0
  BY Rows_ir_loop DEF Is, Or, Do
<1>2. app.name \in DOMAIN Programs /\ Main \in Thread /\ "loop" \in DOMAIN Code(Main)
  BY Tables_ir DEF Thread, Main
<1>3. /\ \A i : Place("loop", i).table = "loop" /\ Place("loop", i).at = i
      /\ \A i : RowAt(Main, Place("loop", i)) = rows[i]
      /\ \A i : Place("loop", i) # Ended
  BY DEF RowAt, Place, Ended
<1> HIDE DEF rows
<1>4. ASSUME NEW r, IsPlace(Main, r), r.table # "loop"
      PROVE  RowAt(Main, r).op \notin LoopOnly
  BY <1>2, <1>4, LoopPlaces
<1>5. \A i \in 1 .. 4 : i = 1 \/ i = 2 \/ i = 3 \/ i = 4
  OBVIOUS
<1>6. ASSUME NEW T, Table(Main, T) # Ended
      PROVE  RowAt(Main, Table(Main, T)).op \notin {"event", "route"}
  <2>1. Table(Main, T) = Place(T, 1) /\ IsPlace(Main, Place(T, 1))
    <3>1. Table(Main, T) = Place(T, 1)
      BY <1>6 DEF Table
    <3> QED BY <1>2, <1>6, <3>1, NextPlaces
  <2>2. CASE T = "loop"
    BY <1>1, <1>3, <2>1, <2>2
  <2>3. CASE T # "loop"
    <3>1. Place(T, 1).table # "loop"
      BY <2>3 DEF Place
    <3> QED BY <1>4, <2>1, <3>1 DEF LoopOnly
  <2> QED BY <2>2, <2>3
<1>7. IsPlace(Main, q) \/ q = Ended
  BY <1>2, NextPlaces
<1>8. CASE p.table # "loop"
  <2>1. o \notin LoopOnly
    BY <1>4, <1>8
  <2>2. ASSUME q # Ended PROVE RowAt(Main, q).op \notin {"event", "route"}
    <3>1. CASE p.at < Len(Code(Main)[p.table])
      <4>1. q = Place(p.table, p.at + 1)
        BY <3>1 DEF After
      <4>2. q.table # "loop"
        BY <1>8, <4>1 DEF Place
      <4> QED BY <1>4, <1>7, <2>2, <4>2 DEF LoopOnly
    <3>2. CASE ~(p.at < Len(Code(Main)[p.table]))
      <4>1. q = Table(Main, Follows[p.table])
        BY <3>2 DEF After
      <4> QED BY <1>6, <2>2, <4>1
    <3> QED BY <3>1, <3>2
  <2>3. o \notin {"malloc", "event", "route"}
    BY <2>1 DEF LoopOnly
  <2> QED BY <1>6, <2>1, <2>2, <2>3
<1>9. CASE p.table = "loop"
  <2>1. p.at \in 1 .. 4 /\ RowAt(Main, p) = rows[p.at]
    BY <1>1, <1>9 DEF IsPlace, RowAt, rows
  <2>2. q = IF p.at < 4 THEN Place("loop", p.at + 1) ELSE Table(Main, "loop")
    <3>1. Follows["loop"] = "loop"
      BY DEF Follows
    <3>2. Len(Code(Main)["loop"]) = 4
      BY <1>1 DEF rows
    <3> QED BY <1>9, <3>1, <3>2 DEF After
  <2>3. Table(Main, "loop") = Place("loop", 1)
    BY <1>2 DEF Table
  <2>4. o \in {"malloc", "event", "route", "while"}
    BY <1>1, <1>5, <2>1
  <2>5. CASE p.at = 1
    BY <1>1, <1>3, <1>6, <2>1, <2>2, <2>4, <2>5
  <2>6. CASE p.at = 2
    BY <1>1, <1>3, <1>6, <2>1, <2>2, <2>4, <2>6
  <2>7. CASE p.at = 3
    BY <1>1, <1>3, <1>6, <2>1, <2>2, <2>4, <2>7
  <2>8. CASE p.at = 4
    BY <1>1, <1>3, <1>6, <2>1, <2>2, <2>3, <2>4, <2>8
  <2> QED BY <1>5, <2>1, <2>5, <2>6, <2>7, <2>8
<1> QED BY <1>8, <1>9

LEMMA IrWorkerRows ==
  ASSUME app.name = "cam_demo_ir", NEW w \in Workers, NEW p, IsPlace(w, p)
  PROVE  LET o == RowAt(w, p).op  then == RowAt(w, After(w, p)).op IN
         /\ o \in {"peek", "dequeue", "count", "get", "put", "free"}
         /\ RowAt(w, p).n = Chan(w) /\ RowAt(w, p).c = 0 /\ IsPlace(w, After(w, p))
         /\ o = "peek" => then = "dequeue"
         /\ o = "dequeue" => then = "count"
         /\ o = "count" => then = "get"
         /\ o = "get" => then = "put"
         /\ o = "put" => then = "free"
         /\ o = "free" => then = "peek"
         /\ RowAt(w, Place("loop", 1)).op = "peek"
<1> DEFINE rows == Code(w)["loop"]
<1>1. /\ Len(rows) = 6 /\ DOMAIN rows = 1 .. 6
      /\ rows[1].op = "peek" /\ rows[2].op = "dequeue" /\ rows[3].op = "count"
      /\ rows[4].op = "get" /\ rows[5].op = "put" /\ rows[6].op = "free"
      /\ \A i \in 1 .. 6 : rows[i].n = Chan(w) /\ rows[i].c = 0
  <2>1. CASE w = "w0"
    BY <2>1, Rows_ir_w0_loop DEF Is, Or, Do, Chan
  <2>2. CASE w = "w1"
    BY <2>2, Rows_ir_w1_loop DEF Is, Or, Do, Chan
  <2> QED BY <2>1, <2>2 DEF Workers
<1>2. DOMAIN Code(w) = {"loop"} /\ w \in DOMAIN Programs[app.name]
  BY Tables_ir DEF Workers
<1>3. /\ \A i : Place("loop", i).table = "loop" /\ Place("loop", i).at = i
      /\ \A i : RowAt(w, Place("loop", i)) = rows[i]
  BY DEF RowAt, Place
<1>4. p.table = "loop" /\ p.at \in 1 .. 6 /\ RowAt(w, p) = rows[p.at]
  BY <1>1, <1>2 DEF IsPlace, RowAt
<1>5. After(w, p) = IF p.at < 6 THEN Place("loop", p.at + 1) ELSE Place("loop", 1)
  <2>1. Follows["loop"] = "loop"
    BY DEF Follows
  <2>2. Len(Code(w)["loop"]) = 6 /\ "loop" \in DOMAIN Code(w)
    BY <1>1, <1>2
  <2>3. After(w, p) = IF p.at < 6 THEN Place("loop", p.at + 1) ELSE Table(w, "loop")
    BY <1>4, <2>1, <2>2 DEF After
  <2> QED BY <2>2, <2>3 DEF Table
<1>6. \A i \in 1 .. 6 : IsPlace(w, Place("loop", i))
  BY <1>1, <1>2, <1>3 DEF IsPlace
<1> HIDE DEF rows
<1>7. p.at = 1 \/ p.at = 2 \/ p.at = 3 \/ p.at = 4 \/ p.at = 5 \/ p.at = 6
  BY <1>4
<1>8. IsPlace(w, After(w, p))
  BY <1>5, <1>6, <1>7
<1>9. RowAt(w, After(w, p)) = rows[IF p.at < 6 THEN p.at + 1 ELSE 1]
  BY <1>3, <1>5
<1> QED BY <1>1, <1>3, <1>4, <1>7, <1>8, <1>9

(* What a thread's row is after a step.                                    *)
LEMMA NextHere ==
  ASSUME PlacesInv, UNCHANGED app, Runs(Main)', NEW t \in Thread, NEW p, GoTo(t, p)
  PROVE  /\ p = Ended => t # Main /\ Here(t)'.op = "none"
         /\ IsPlace(t, p) /\ app.name \in DOMAIN Programs => Here(t)' = RowAt(t, p)
         /\ \A s \in Thread \ {t} : Here(s)' = Here(s)
<1>1. DOMAIN pc = Thread /\ Main \in Thread
  BY DEF PlacesInv, Thread, Main
<1>2. pc' = [pc EXCEPT ![t] = p]
  <2>1. ASSUME pc' = [s \in Thread |-> Ended] PROVE FALSE
    BY <1>1, <2>1 DEF Runs, Ended, Off, Place
  <2> QED BY <2>1 DEF GoTo
<1>3. pc'[t] = p /\ \A s \in Thread \ {t} : pc'[s] = pc[s]
  BY <1>1, <1>2
<1>4. \A s : Code(s)' = Code(s)
  BY DEF Code
<1>5. p = Ended => t # Main /\ Here(t)'.op = "none"
  BY <1>3 DEF Here, Runs, Ended, Off, Place, Do, Or
<1>6. ASSUME IsPlace(t, p), app.name \in DOMAIN Programs PROVE Here(t)' = RowAt(t, p)
  <2>1. p.table \notin Off
    BY <1>6, NextPlaces
  <2> QED BY <1>3, <1>4, <2>1 DEF Here, Runs, RowAt
<1>7. \A s \in Thread \ {t} : Here(s)' = Here(s)
  BY <1>3, <1>4 DEF Here, Runs
<1> QED BY <1>5, <1>6, <1>7

(* The lists, and the items in the threads' hands: a worker that has seen  *)
(* an item and not taken it yet has the head of its queue.                 *)
Listed(n) == ItemsFrom(head[n], next)
QueueShape ==
  /\ DOMAIN head = Queue /\ DOMAIN tail = Queue /\ DOMAIN next = Item /\ DOMAIN evet = Item
  /\ heap \subseteq Item /\ DOMAIN item = Thread /\ news \in Nat
ListsInv ==
  /\ \A n \in Queue : IsList(head[n], tail[n], next)
  /\ \A n \in Queue : Listed(n) \subseteq heap \ InHands
  /\ \A n \in Queue : \A i \in Listed(n) : evet[i] = n
  /\ \A m, n \in Queue : m # n => Listed(m) \cap Listed(n) = {}
HandsInv ==
  /\ \A t \in Thread : item[t] # NULL <=> Here(t).op \in Holding(t)
  /\ \A t \in Thread : item[t] # NULL => item[t] \in heap
  /\ \A w \in Workers : Here(w).op = "dequeue" => item[w] = head[Chan(w)]
  /\ \A s, t \in Thread : s # t /\ item[s] = item[t] => item[s] = NULL
  /\ Here(Main).op = "route" => evet[item[Main]] = ev[Main]
ItemsInv == QueueShape /\ ListsInv /\ HandsInv

(* The items in nobody's hands and in no queue.                            *)
Lost == heap \ (InHands \cup UNION {Items(n) : n \in Queue})

(* The items in the hands of the threads other than t.                     *)
Rest(t) == {item[s] : s \in {u \in Thread \ {t} : ~At(u, "dequeue")}} \ {NULL}
Mine(t) == IF Here(t).op = "dequeue" THEN {} ELSE {item[t]} \ {NULL}
OthersKeep(t) ==
  /\ \A s \in Thread \ {t} :
       /\ item'[s] = item[s]
       /\ \/ Here(s)' = Here(s)
          \/ s \in Workers /\ Here(s).op \notin Holding(s) /\ Here(s)'.op \notin Holding(s)
  /\ t # Main => ev'[Main] = ev[Main]

LEMMA IrNames ==
  /\ Queue = {"channel0", "channel1"} /\ Channel = Queue /\ Thread = {Main, "w0", "w1"}
  /\ Main \in Thread /\ Main \notin Workers /\ Workers \subseteq Thread
  /\ \A t \in Thread : t # Main => t \in Workers
  /\ \A w \in Workers : Chan(w) \in Queue
  /\ \A v, w \in Workers : v # w => Chan(v) # Chan(w)
  /\ NULL \notin Item /\ IsFiniteSet(Item)
BY AppsAssumption, QueueAssumption
   DEF AppsAssumption, QueueAssumption, Thread, Main, Workers, Chan

LEMMA HandsOf ==
  ASSUME NEW t \in Thread
  PROVE  InHands = Rest(t) \cup Mine(t) /\ InHands' = Rest(t)' \cup Mine(t)'
<1>1. InHands = Rest(t) \cup Mine(t)
  BY DEF InHands, Rest, Mine, At
<1>2. InHands' = Rest(t)' \cup Mine(t)'
  BY DEF InHands, Rest, Mine, At
<1> QED BY <1>1, <1>2

LEMMA HandsKept ==
  ASSUME NEW t \in Thread, OthersKeep(t), HandsInv
  PROVE  /\ Rest(t)' = Rest(t)
         /\ item[t] # NULL => item[t] \notin Rest(t)
<1>1. \A s \in Thread \ {t} : item'[s] = item[s] /\ (At(s, "dequeue")' <=> At(s, "dequeue"))
  <2>1. \A s \in Workers : Holding(s) = {"dequeue", "count", "get", "put", "free"}
    BY IrNames DEF Holding
  <2> QED BY <2>1 DEF OthersKeep, At
<1>2. Rest(t)' = Rest(t)
  BY <1>1 DEF Rest
<1>3. item[t] # NULL => item[t] \notin Rest(t)
  BY DEF Rest, HandsInv
<1> QED BY <1>2, <1>3

LEMMA HandsNext ==
  ASSUME NEW t \in Thread, OthersKeep(t), HandsInv, QueueShape,
         item'[t] # NULL <=> Here(t)'.op \in Holding(t),
         \A s \in Thread : item'[s] # NULL => item'[s] \in heap',
         \A w \in Workers : Here(w)'.op = "dequeue" => item'[w] = head'[Chan(w)],
         item'[t] # NULL => \A s \in Thread \ {t} : item[s] # item'[t],
         t = Main /\ Here(Main)'.op = "route" => evet'[item'[Main]] = ev'[Main],
         t # Main => UNCHANGED evet
  PROVE  HandsInv'
<1>1. \A s \in Thread : item'[s] # NULL <=> Here(s)'.op \in Holding(s)
  BY DEF HandsInv, OthersKeep
<1>2. ASSUME NEW s \in Thread, NEW u \in Thread, s # u, item'[s] = item'[u]
      PROVE  item'[s] = NULL
  BY <1>2 DEF HandsInv, OthersKeep
<1>3. ASSUME Here(Main)'.op = "route", t # Main PROVE evet'[item'[Main]] = ev'[Main]
  <2>1. /\ item'[Main] = item[Main] /\ Here(Main)' = Here(Main) /\ ev'[Main] = ev[Main]
        /\ evet' = evet
    BY <1>3, IrNames DEF OthersKeep
  <2> QED BY <1>3, <2>1 DEF HandsInv
<1>4. \A s : Holding(s)' = Holding(s) /\ Chan(s)' = Chan(s)
  BY DEF Holding, Chan
<1> QED BY <1>1, <1>2, <1>3, <1>4 DEF HandsInv

(* A step that leaves the queues alone.                                    *)
LEMMA SameLists ==
  ASSUME ListsInv, QueueShape, UNCHANGED <<head, tail, next>>,
         \A n \in Queue : Listed(n) \subseteq heap' \ InHands',
         \A n \in Queue : \A i \in Listed(n) : evet'[i] = evet[i]
  PROVE  ListsInv' /\ \A n \in Queue : Listed(n)' = Listed(n)
<1>1. \A n \in Queue : Listed(n)' = Listed(n)
  BY DEF Listed
<1> QED BY <1>1 DEF ListsInv

LEMMA LostIs ==
  ASSUME NEW x
  PROVE  /\ x \in Lost <=> x \in heap /\ x \notin InHands /\ \A n \in Queue : x \notin Listed(n)
         /\ x \in Lost' <=> x \in heap' /\ x \notin InHands' /\ \A n \in Queue : x \notin Listed(n)'
<1>1. \A n : Items(n) = Listed(n) /\ Items(n)' = Listed(n)'
  BY ItemsAreFrom DEF Listed
<1>2. x \in Lost <=> x \in heap /\ x \notin InHands /\ \A n \in Queue : x \notin Listed(n)
  BY <1>1 DEF Lost
<1>3. x \in Lost' <=> x \in heap' /\ x \notin InHands' /\ \A n \in Queue : x \notin Listed(n)'
  BY <1>1 DEF Lost
<1> QED BY <1>2, <1>3

(* The steps of cam_demo_ir, and what becomes of the items.                *)
LEMMA KeepsItems ==
  ASSUME ItemsInv, NEW t \in Thread, OthersKeep(t), UNCHANGED <<queueVars, item, news>>,
         Here(t).op \in Holding(t) <=> Here(t)'.op \in Holding(t),
         Here(t).op # "dequeue", Here(t)'.op # "dequeue", t = Main => Here(t)'.op # "route"
  PROVE  ItemsInv' /\ Lost' = Lost
<1>1. UNCHANGED <<head, tail, next, evet, heap>>
  BY DEF queueVars
<1>2. QueueShape /\ ListsInv /\ HandsInv
  BY DEF ItemsInv
<1>3. InHands' = InHands
  BY <1>2, HandsOf, HandsKept, ZenonT(60) DEF Mine
<1>4. ListsInv' /\ \A n \in Queue : Listed(n)' = Listed(n)
  BY <1>1, <1>2, <1>3, SameLists DEF ListsInv
<1>5. \A w \in Workers : Here(w)'.op = "dequeue" => item'[w] = head'[Chan(w)]
  <2> SUFFICES ASSUME NEW w \in Workers, Here(w)'.op = "dequeue"
               PROVE  item'[w] = head'[Chan(w)]
    OBVIOUS
  <2>1. w # t /\ w \in Thread
    BY IrNames
  <2>2. Here(w)'.op \in Holding(w)
    BY IrNames DEF Holding
  <2>3. Here(w).op = "dequeue"
    BY <2>1, <2>2 DEF OthersKeep
  <2> QED BY <1>1, <1>2, <2>3 DEF HandsInv
<1>6. HandsInv'
  BY <1>1, <1>2, <1>5, HandsNext DEF HandsInv
<1>7. QueueShape'
  BY <1>1, <1>2 DEF QueueShape
<1>8. \A x : x \in Lost' <=> x \in Lost
  BY <1>1, <1>3, <1>4, LostIs
<1> QED BY <1>4, <1>6, <1>7, <1>8 DEF ItemsInv

(* The workers that have seen an item, when another thread has moved.      *)
LEMMA SeenItems ==
  ASSUME HandsInv, NEW t \in Thread, OthersKeep(t), NEW w \in Workers, w # t,
         Here(w)'.op = "dequeue"
  PROVE  Here(w).op = "dequeue" /\ item'[w] = item[w] /\ item[w] = head[Chan(w)] /\ item[w] # NULL
<1>1. Here(w)'.op \in Holding(w) /\ w \in Thread
  BY IrNames DEF Holding
<1>2. Here(w).op = "dequeue" /\ item'[w] = item[w]
  BY <1>1 DEF OthersKeep
<1>3. Here(w).op \in Holding(w)
  BY <1>2, IrNames DEF Holding
<1> QED BY <1>1, <1>2, <1>3 DEF HandsInv

LEMMA MallocItem ==
  ASSUME ItemsInv, OthersKeep(Main), UNCHANGED news, NEW i \in Item \ heap,
         Allocate(i), Hold(Main, i),
         Here(Main).op \notin Holding(Main), Here(Main)'.op = "event"
  PROVE  ItemsInv' /\ Lost' = Lost
<1>1. UNCHANGED <<head, tail, next, evet>> /\ heap' = heap \cup {i}
  BY DEF Allocate
<1>2. QueueShape /\ ListsInv /\ HandsInv
  BY DEF ItemsInv
<1>3. /\ item[Main] = NULL /\ item'[Main] = i /\ i # NULL
      /\ \A s \in Thread \ {Main} : item'[s] = item[s]
  BY <1>2, IrNames DEF HandsInv, Hold, QueueShape
<1>4. InHands' = InHands \cup {i}
  BY <1>2, <1>3, IrNames, HandsOf, HandsKept DEF Mine
<1>5. \A n \in Queue : i \notin Listed(n)
  BY <1>2 DEF ListsInv
<1>6. ListsInv' /\ \A n \in Queue : Listed(n)' = Listed(n)
  <2>1. \A n \in Queue : Listed(n) \subseteq heap' \ InHands'
    BY <1>1, <1>2, <1>4, <1>5 DEF ListsInv
  <2> QED BY <1>1, <1>2, <2>1, SameLists
<1>7. \A w \in Workers : Here(w)'.op = "dequeue" => item'[w] = head'[Chan(w)]
  BY <1>1, <1>2, IrNames, SeenItems
<1>8. \A s \in Thread \ {Main} : item[s] # i
  BY <1>2, <1>3 DEF HandsInv
<1>9. \A s \in Thread : item'[s] # NULL => item'[s] \in heap'
  BY <1>1, <1>2, <1>3 DEF HandsInv
<1>10. Here(Main)'.op \in Holding(Main) /\ Here(Main)'.op # "route"
  BY DEF Holding
<1>11. HandsInv'
  BY <1>1, <1>2, <1>3, <1>7, <1>8, <1>9, <1>10, IrNames, HandsNext
<1>12. QueueShape'
  BY <1>1, <1>2 DEF QueueShape, Hold
<1>13. \A x : x \in Lost' <=> x \in Lost
  BY <1>1, <1>4, <1>6, LostIs
<1> QED BY <1>6, <1>11, <1>12, <1>13 DEF ItemsInv

LEMMA FillItem ==
  ASSUME ItemsInv, OthersKeep(Main), UNCHANGED <<item, news>>, NEW event,
         Fill(item[Main], event), ev'[Main] = event,
         Here(Main).op = "event", Here(Main)'.op = "route"
  PROVE  ItemsInv' /\ Lost' = Lost
<1>1. /\ UNCHANGED <<head, tail, next, heap>>
      /\ evet' = [evet EXCEPT ![item[Main]] = event]
  BY DEF Fill
<1>2. QueueShape /\ ListsInv /\ HandsInv
  BY DEF ItemsInv
<1>3. item[Main] # NULL /\ item[Main] \in heap /\ item[Main] \in Item
  BY <1>2, IrNames DEF HandsInv, Holding, QueueShape
<1>4. InHands' = InHands /\ item[Main] \in InHands
  BY <1>2, <1>3, IrNames, HandsOf, HandsKept DEF Mine
<1>5. /\ \A j : j # item[Main] => evet'[j] = evet[j]
      /\ evet'[item[Main]] = event
  BY <1>1, <1>2, <1>3 DEF QueueShape
<1>6. \A n \in Queue : item[Main] \notin Listed(n)
  BY <1>2, <1>4 DEF ListsInv
<1>7. ListsInv' /\ \A n \in Queue : Listed(n)' = Listed(n)
  <2>1. \A n \in Queue : Listed(n) \subseteq heap' \ InHands'
    BY <1>1, <1>2, <1>4 DEF ListsInv
  <2>2. \A n \in Queue : \A i \in Listed(n) : evet'[i] = evet[i]
    BY <1>5, <1>6
  <2> QED BY <1>1, <1>2, <2>1, <2>2, SameLists
<1>8. \A w \in Workers : Here(w)'.op = "dequeue" => item'[w] = head'[Chan(w)]
  BY <1>1, <1>2, IrNames, SeenItems
<1>9. \A s \in Thread \ {Main} : item[s] # item[Main]
  BY <1>2, <1>3, IrNames DEF HandsInv
<1>10. \A s \in Thread : item'[s] # NULL => item'[s] \in heap'
  BY <1>1, <1>2 DEF HandsInv
<1>11. Here(Main)'.op \in Holding(Main)
  BY DEF Holding
<1>12. HandsInv'
  BY <1>1, <1>2, <1>3, <1>5, <1>8, <1>9, <1>10, <1>11, IrNames, HandsNext
<1>13. QueueShape'
  BY <1>1, <1>2 DEF QueueShape
<1>14. \A x : x \in Lost' <=> x \in Lost
  BY <1>1, <1>4, <1>7, LostIs
<1> QED BY <1>7, <1>12, <1>13, <1>14 DEF ItemsInv

(* What the hands are when t lets go of its item.                          *)
LEMMA LetsGo ==
  ASSUME QueueShape, ListsInv, HandsInv, NEW t \in Thread, OthersKeep(t), Hold(t, NULL),
         Here(t).op \in Holding(t), Here(t).op # "dequeue", Here(t)'.op \notin Holding(t)
  PROVE  /\ item[t] \in heap /\ item[t] \in Item /\ item[t] # NULL /\ item'[t] = NULL
         /\ \A s \in Thread \ {t} : item'[s] = item[s] /\ item[s] # item[t]
         /\ item[t] \in InHands /\ InHands' = InHands \ {item[t]}
         /\ \A n \in Queue : item[t] \notin Listed(n)
         /\ DOMAIN item' = Thread
<1>1. item[t] # NULL /\ item[t] \in heap /\ item[t] \in Item
  BY DEF HandsInv, QueueShape
<1>2. item'[t] = NULL /\ (\A s \in Thread \ {t} : item'[s] = item[s]) /\ DOMAIN item' = Thread
  BY DEF Hold, QueueShape
<1>3. item[t] \in InHands /\ InHands' = InHands \ {item[t]}
  BY <1>1, <1>2, HandsOf, HandsKept DEF Mine
<1> QED BY <1>1, <1>2, <1>3 DEF HandsInv, ListsInv

(* An item is freed: by its worker, or for an error by the main thread.    *)
LEMMA FreedItem ==
  ASSUME ItemsInv, NEW t \in Thread, OthersKeep(t), UNCHANGED news,
         Free(item[t]), Hold(t, NULL),
         Here(t).op \in Holding(t), Here(t).op # "dequeue", Here(t)'.op \notin Holding(t)
  PROVE  ItemsInv' /\ Lost' = Lost
<1>1. UNCHANGED <<head, tail, next, evet>> /\ heap' = heap \ {item[t]}
  BY DEF Free
<1>2. QueueShape /\ ListsInv /\ HandsInv
  BY DEF ItemsInv
<1>3. /\ item[t] # NULL /\ item'[t] = NULL
      /\ \A s \in Thread \ {t} : item'[s] = item[s] /\ item[s] # item[t]
      /\ item[t] \in InHands /\ InHands' = InHands \ {item[t]}
      /\ \A n \in Queue : item[t] \notin Listed(n)
      /\ DOMAIN item' = Thread
  BY <1>2, LetsGo
<1>4. ListsInv' /\ \A n \in Queue : Listed(n)' = Listed(n)
  <2>1. \A n \in Queue : Listed(n) \subseteq heap' \ InHands'
    BY <1>1, <1>2, <1>3 DEF ListsInv
  <2> QED BY <1>1, <1>2, <2>1, SameLists
<1>5. \A w \in Workers : Here(w)'.op = "dequeue" => item'[w] = head'[Chan(w)]
  <2> SUFFICES ASSUME NEW w \in Workers, Here(w)'.op = "dequeue"
               PROVE  item'[w] = head'[Chan(w)]
    OBVIOUS
  <2>1. w # t
    BY IrNames DEF Holding
  <2> QED BY <1>1, <1>2, <2>1, SeenItems
<1>6. \A s \in Thread : item'[s] # NULL => item'[s] \in heap'
  BY <1>1, <1>2, <1>3 DEF HandsInv
<1>7. t = Main => Here(t)'.op # "route"
  BY DEF Holding
<1>8. HandsInv'
  BY <1>1, <1>2, <1>3, <1>5, <1>6, <1>7, HandsNext
<1>9. QueueShape'
  BY <1>1, <1>2, <1>3 DEF QueueShape
<1>10. \A x : x \in Lost' <=> x \in Lost
  BY <1>1, <1>3, <1>4, LostIs
<1> QED BY <1>4, <1>8, <1>9, <1>10 DEF ItemsInv

(* The main thread forgets the item with a warning.                        *)
LEMMA LostItem ==
  ASSUME ItemsInv, OthersKeep(Main), UNCHANGED <<queueVars, news>>, Hold(Main, NULL),
         Here(Main).op = "route", Here(Main)'.op \notin Holding(Main)
  PROVE  ItemsInv' /\ Lost' = Lost \cup {item[Main]}
<1>1. UNCHANGED <<head, tail, next, evet, heap>>
  BY DEF queueVars
<1>2. QueueShape /\ ListsInv /\ HandsInv
  BY DEF ItemsInv
<1>3. /\ item[Main] # NULL /\ item'[Main] = NULL /\ item[Main] \in heap
      /\ \A s \in Thread \ {Main} : item'[s] = item[s] /\ item[s] # item[Main]
      /\ item[Main] \in InHands /\ InHands' = InHands \ {item[Main]}
      /\ \A n \in Queue : item[Main] \notin Listed(n)
      /\ DOMAIN item' = Thread
  BY <1>2, LetsGo, IrNames DEF Holding
<1>4. ListsInv' /\ \A n \in Queue : Listed(n)' = Listed(n)
  <2>1. \A n \in Queue : Listed(n) \subseteq heap' \ InHands'
    BY <1>1, <1>2, <1>3 DEF ListsInv
  <2> QED BY <1>1, <1>2, <2>1, SameLists
<1>5. \A w \in Workers : Here(w)'.op = "dequeue" => item'[w] = head'[Chan(w)]
  BY <1>1, <1>2, IrNames, SeenItems
<1>6. \A s \in Thread : item'[s] # NULL => item'[s] \in heap'
  BY <1>1, <1>2, <1>3 DEF HandsInv
<1>7. Here(Main)'.op # "route"
  BY DEF Holding
<1>8. HandsInv'
  BY <1>1, <1>2, <1>3, <1>5, <1>6, <1>7, IrNames, HandsNext
<1>9. QueueShape'
  BY <1>1, <1>2, <1>3 DEF QueueShape
<1>10. \A x : x \in Lost' <=> x \in Lost \cup {item[Main]}
  BY <1>1, <1>3, <1>4, LostIs
<1> QED BY <1>4, <1>8, <1>9, <1>10 DEF ItemsInv

(* The main thread appends its item to the queue of the item's channel.    *)
LEMMA AppendedItem ==
  ASSUME ItemsInv, OthersKeep(Main), UNCHANGED news,
         NEW n \in Queue, NEW x, n = ev[Main], x = item[Main],
         enqueue_event(n, x), Hold(Main, NULL),
         Here(Main).op = "route", Here(Main)'.op \notin Holding(Main)
  PROVE  ItemsInv' /\ Lost' = Lost
<1>1. QueueShape /\ ListsInv /\ HandsInv
  BY DEF ItemsInv
<1>2. /\ x # NULL /\ item'[Main] = NULL /\ x \in heap /\ x \in Item /\ x \in InHands
      /\ \A s \in Thread \ {Main} : item'[s] = item[s] /\ item[s] # x
      /\ InHands' = InHands \ {x}
      /\ \A m \in Queue : x \notin Listed(m)
      /\ DOMAIN item' = Thread /\ evet[x] = n
  BY <1>1, LetsGo, IrNames DEF Holding, HandsInv
<1>3. /\ \A m \in Queue : IsList(head[m], tail[m], next)
      /\ \A m \in Queue : Listed(m) \subseteq Item
      /\ tail[n] # NULL => tail[n] \in Listed(n)
      /\ tail[n] = NULL => head[n] = NULL
      /\ \A m \in Queue : head[m] # NULL => tail[m] # NULL
  BY <1>1, ListEnds DEF ListsInv, Listed
<1>4. UNCHANGED <<evet, heap>>
  BY DEF enqueue_event
<1>5. /\ head'[n] = (IF tail[n] = NULL THEN x ELSE head[n]) /\ tail'[n] = x
      /\ \A m \in Queue \ {n} : head'[m] = head[m] /\ tail'[m] = tail[m]
      /\ DOMAIN head' = Queue /\ DOMAIN tail' = Queue
      /\ DOMAIN next' = Item /\ next'[x] = NULL /\ (tail[n] # NULL => next'[tail[n]] = x)
      /\ \A i \in Item : i # x /\ i # tail[n] => next'[i] = next[i]
  <2>1. DOMAIN head = Queue /\ DOMAIN tail = Queue /\ DOMAIN next = Item
    BY <1>1 DEF QueueShape
  <2>2. tail' = [tail EXCEPT ![n] = x]
    BY DEF enqueue_event
  <2>3. CASE tail[n] = NULL
    <3>1. next' = [next EXCEPT ![x] = NULL] /\ head' = [head EXCEPT ![n] = x]
      BY <2>3 DEF enqueue_event
    <3> QED BY <1>2, <2>1, <2>2, <2>3, <3>1
  <2>4. CASE tail[n] # NULL
    <3>1. tail[n] \in Item /\ tail[n] # x
      BY <1>2, <1>3, <2>4
    <3>2. head' = head /\ next' = [next EXCEPT ![x] = NULL, ![tail[n]] = x]
      BY <2>4 DEF enqueue_event
    <3> QED BY <1>2, <2>1, <2>2, <2>4, <3>1, <3>2
  <2> QED BY <2>3, <2>4
<1>6. IsList(head'[n], tail'[n], next') /\ Listed(n)' = Listed(n) \cup {x}
  <2>1. \A i \in Listed(n) \ {tail[n]} : next'[i] = next[i]
    BY <1>2, <1>3, <1>5
  <2>2. IsList(head[n], tail[n], next) /\ x \notin Listed(n)
    BY <1>2, <1>3
  <2>3. /\ IsList(IF tail[n] = NULL THEN x ELSE head[n], x, next')
        /\ ItemsFrom(IF tail[n] = NULL THEN x ELSE head[n], next') = Listed(n) \cup {x}
    BY <1>2, <1>5, <2>1, <2>2, AppendedList DEF Listed
  <2> QED BY <1>5, <2>3 DEF Listed
<1>7. ASSUME NEW m \in Queue \ {n}
      PROVE  IsList(head'[m], tail'[m], next') /\ Listed(m)' = Listed(m)
  <2>1. Listed(m) \cap Listed(n) = {}
    BY <1>1 DEF ListsInv
  <2>2. \A i \in Listed(m) : i \in Item /\ i # x /\ i # tail[n]
    BY <1>2, <1>3, <2>1, IrNames
  <2>3. \A i \in Listed(m) : next'[i] = next[i]
    BY <1>5, <2>2
  <2>4. IsList(head[m], tail[m], next') /\ ItemsFrom(head[m], next') = Listed(m)
    BY <1>3, <2>3, SameList DEF Listed
  <2> QED BY <1>5, <2>4 DEF Listed
<1>8. /\ \A m \in Queue : Listed(m) \subseteq heap \ InHands
      /\ \A m \in Queue : \A i \in Listed(m) : evet[i] = m
      /\ \A l, m \in Queue : l # m => Listed(l) \cap Listed(m) = {}
  BY <1>1 DEF ListsInv
<1>9. ListsInv'
  <2>1. \A m \in Queue : IsList(head'[m], tail'[m], next')
    BY <1>6, <1>7
  <2>2. \A m \in Queue : Listed(m)' = IF m = n THEN Listed(n) \cup {x} ELSE Listed(m)
    BY <1>6, <1>7
  <2>3. \A m \in Queue : Listed(m)' \subseteq heap' \ InHands'
    BY <1>2, <1>4, <1>8, <2>2
  <2>4. \A m \in Queue : \A i \in Listed(m)' : evet'[i] = m
    BY <1>2, <1>4, <1>8, <2>2
  <2>5. \A l, m \in Queue : l # m => Listed(l)' \cap Listed(m)' = {}
    BY <1>2, <1>8, <2>2
  <2> QED BY <2>1, <2>3, <2>4, <2>5 DEF ListsInv
<1>10. \A w \in Workers : Here(w)'.op = "dequeue" => item'[w] = head'[Chan(w)]
  <2> SUFFICES ASSUME NEW w \in Workers, Here(w)'.op = "dequeue"
               PROVE  item'[w] = head'[Chan(w)]
    OBVIOUS
  <2>1. item'[w] = item[w] /\ item[w] = head[Chan(w)] /\ item[w] # NULL /\ Chan(w) \in Queue
    BY <1>1, IrNames, SeenItems
  <2>2. head'[Chan(w)] = head[Chan(w)]
    BY <1>3, <1>5, <2>1
  <2> QED BY <2>1, <2>2
<1>11. \A s \in Thread : item'[s] # NULL => item'[s] \in heap'
  BY <1>1, <1>2, <1>4 DEF HandsInv
<1>12. Here(Main)'.op # "route"
  BY DEF Holding
<1>13. HandsInv'
  BY <1>1, <1>2, <1>4, <1>10, <1>11, <1>12, IrNames, HandsNext
<1>14. QueueShape'
  BY <1>1, <1>2, <1>4, <1>5 DEF QueueShape
<1>15. ASSUME NEW y PROVE y \in Lost' <=> y \in Lost
  <2>1. (\A m \in Queue : y \notin Listed(m)') <=> y # x /\ \A m \in Queue : y \notin Listed(m)
    BY <1>6, <1>7
  <2>2. y \in Lost' <=> y \in heap' /\ y \notin InHands' /\ \A m \in Queue : y \notin Listed(m)'
    BY LostIs
  <2>3. y \in Lost <=> y \in heap /\ y \notin InHands /\ \A m \in Queue : y \notin Listed(m)
    BY LostIs
  <2> QED BY <1>2, <1>4, <2>1, <2>2, <2>3
<1> QED BY <1>9, <1>13, <1>14, <1>15 DEF ItemsInv

(* A worker sees the head of its queue, and then takes it.                 *)
LEMMA SeenItem ==
  ASSUME ItemsInv, NEW w \in Workers, OthersKeep(w), UNCHANGED <<queueVars, news>>,
         NEW i, Hold(w, i), i # NULL => i = head[Chan(w)],
         Here(w).op \notin Holding(w),
         i # NULL <=> Here(w)'.op = "dequeue", i = NULL => Here(w)'.op \notin Holding(w)
  PROVE  ItemsInv' /\ Lost' = Lost
<1>1. UNCHANGED <<head, tail, next, evet, heap>>
  BY DEF queueVars
<1>2. QueueShape /\ ListsInv /\ HandsInv /\ w \in Thread /\ w # Main /\ Chan(w) \in Queue
  BY IrNames DEF ItemsInv
<1>3. /\ item[w] = NULL /\ item'[w] = i /\ DOMAIN item' = Thread
      /\ \A s \in Thread \ {w} : item'[s] = item[s]
  BY <1>2 DEF HandsInv, Hold, QueueShape
<1>4. InHands' = InHands
  <2>1. Mine(w) = {} /\ Mine(w)' = {}
    BY <1>3 DEF Mine
  <2> QED BY <1>2, <2>1, HandsOf, HandsKept
<1>5. ListsInv' /\ \A n \in Queue : Listed(n)' = Listed(n)
  <2>1. \A n \in Queue : Listed(n) \subseteq heap' \ InHands'
    BY <1>1, <1>2, <1>4 DEF ListsInv
  <2> QED BY <1>1, <1>2, <2>1, SameLists
<1>6. i # NULL => i \in Listed(Chan(w)) /\ i \in heap
  <2>1. i # NULL => i \in Listed(Chan(w))
    BY <1>2, ListEnds DEF ListsInv, Listed
  <2> QED BY <1>2, <2>1 DEF ListsInv
<1>7. ASSUME NEW v \in Workers, Here(v)'.op = "dequeue"
      PROVE  item'[v] = head'[Chan(v)]
  <2>1. CASE v = w
    BY <1>1, <1>3, <1>7, <2>1
  <2>2. CASE v # w
    BY <1>1, <1>2, <1>7, <2>2, SeenItems
  <2> QED BY <2>1, <2>2
<1>8. ASSUME i # NULL, NEW s \in Thread \ {w}, item[s] = i PROVE FALSE
  <2>1. CASE Here(s).op = "dequeue"
    <3>1. s # Main
      <4>1. Here(Main).op \in Holding(Main) <=> item[Main] # NULL
        BY <1>2, IrNames DEF HandsInv
      <4> QED BY <1>8, <2>1, <4>1 DEF Holding
    <3>2. s \in Workers /\ item[s] = head[Chan(s)] /\ Chan(s) \in Queue /\ Chan(s) # Chan(w)
      BY <1>2, <2>1, <3>1, IrNames DEF HandsInv
    <3>3. i \in Listed(Chan(s))
      BY <1>2, <1>8, <3>2, ListEnds DEF ListsInv, Listed
    <3> QED BY <1>2, <1>6, <1>8, <3>2, <3>3 DEF ListsInv
  <2>2. CASE Here(s).op # "dequeue"
    <3>1. i \in InHands
      BY <1>8, <2>2 DEF InHands, At
    <3> QED BY <1>2, <1>6, <1>8, <3>1 DEF ListsInv
  <2> QED BY <2>1, <2>2
<1>9. \A s \in Thread : item'[s] # NULL => item'[s] \in heap'
  BY <1>1, <1>2, <1>3, <1>6 DEF HandsInv
<1>10. item'[w] # NULL <=> Here(w)'.op \in Holding(w)
  BY <1>2, <1>3 DEF Holding
<1>11. HandsInv'
  BY <1>1, <1>2, <1>3, <1>7, <1>8, <1>9, <1>10, HandsNext
<1>12. QueueShape'
  BY <1>1, <1>2, <1>3 DEF QueueShape
<1>13. \A x : x \in Lost' <=> x \in Lost
  BY <1>1, <1>4, <1>5, LostIs
<1> QED BY <1>5, <1>11, <1>12, <1>13 DEF ItemsInv

LEMMA TakenItem ==
  ASSUME ItemsInv, NEW w \in Workers, OthersKeep(w), UNCHANGED <<item, news>>,
         NEW n, n = Chan(w), NEW x, x = item[w], dequeue_event(n, x),
         Here(w).op = "dequeue", Here(w)'.op \in Holding(w), Here(w)'.op # "dequeue"
  PROVE  ItemsInv' /\ Lost' = Lost
<1>1. UNCHANGED <<next, evet, heap>>
  BY DEF dequeue_event
<1>2. QueueShape /\ ListsInv /\ HandsInv /\ w \in Thread /\ w # Main /\ n \in Queue
  BY IrNames DEF ItemsInv
<1>3. x # NULL /\ x = head[n] /\ x \in heap
  <2>1. Here(w).op \in Holding(w)
    BY <1>2 DEF Holding
  <2> QED BY <1>2, <2>1 DEF HandsInv
<1>4. IsList(head[n], tail[n], next) /\ x \in Listed(n)
  BY <1>2, <1>3, ListEnds DEF ListsInv, Listed
<1>5. /\ head'[n] = next[x] /\ tail'[n] = IF x = tail[n] THEN NULL ELSE tail[n]
      /\ \A m \in Queue \ {n} : head'[m] = head[m] /\ tail'[m] = tail[m]
      /\ DOMAIN head' = Queue /\ DOMAIN tail' = Queue
  BY <1>2 DEF dequeue_event, QueueShape
<1>6. IsList(head'[n], tail'[n], next') /\ Listed(n)' = Listed(n) \ {x}
  <2>1. /\ IsList(next[x], IF x = tail[n] THEN NULL ELSE tail[n], next)
        /\ ItemsFrom(next[x], next) = Listed(n) \ {x}
    BY <1>3, <1>4, TailOfList DEF Listed
  <2> QED BY <1>1, <1>5, <2>1 DEF Listed
<1>7. ASSUME NEW m \in Queue \ {n}
      PROVE  IsList(head'[m], tail'[m], next') /\ Listed(m)' = Listed(m)
  BY <1>1, <1>2, <1>5 DEF ListsInv, Listed
<1>8. InHands' = InHands \cup {x}
  <2>1. Mine(w) = {} /\ Mine(w)' = {x}
    BY <1>3 DEF Mine
  <2> QED BY <1>2, <2>1, HandsOf, HandsKept
<1>9. /\ \A m \in Queue : Listed(m) \subseteq heap \ InHands
      /\ \A m \in Queue : \A i \in Listed(m) : evet[i] = m
      /\ \A l, m \in Queue : l # m => Listed(l) \cap Listed(m) = {}
  BY <1>2 DEF ListsInv
<1>10. ListsInv'
  <2>1. \A m \in Queue : IsList(head'[m], tail'[m], next')
    BY <1>6, <1>7
  <2>2. \A m \in Queue : Listed(m)' = IF m = n THEN Listed(n) \ {x} ELSE Listed(m)
    BY <1>6, <1>7
  <2>3. \A m \in Queue : x \notin Listed(m)'
    BY <1>2, <1>4, <1>9, <2>2
  <2>4. \A m \in Queue : Listed(m)' \subseteq Listed(m)
    BY <2>2
  <2>5. \A m \in Queue : Listed(m)' \subseteq heap' \ InHands'
    BY <1>1, <1>8, <1>9, <2>3, <2>4
  <2>6. \A m \in Queue : \A i \in Listed(m)' : evet'[i] = m
    BY <1>1, <1>9, <2>4
  <2>7. \A l, m \in Queue : l # m => Listed(l)' \cap Listed(m)' = {}
    BY <1>9, <2>4
  <2> QED BY <2>1, <2>5, <2>6, <2>7 DEF ListsInv
<1>11. ASSUME NEW v \in Workers, Here(v)'.op = "dequeue"
       PROVE  item'[v] = head'[Chan(v)]
  <2>1. v # w
    BY <1>11
  <2>2. item'[v] = item[v] /\ item[v] = head[Chan(v)]
    BY <1>2, <1>11, <2>1, SeenItems
  <2>3. Chan(v) \in Queue \ {n}
    BY <2>1, IrNames
  <2> QED BY <1>5, <2>2, <2>3
<1>12. \A s \in Thread \ {w} : item[s] # x
  BY <1>2, <1>3 DEF HandsInv
<1>13. HandsInv'
  <2>1. \A s \in Thread : item'[s] # NULL => item'[s] \in heap'
    BY <1>1, <1>2 DEF HandsInv
  <2> QED BY <1>1, <1>2, <1>3, <1>11, <1>12, <2>1, HandsNext
<1>14. QueueShape'
  BY <1>1, <1>2, <1>5 DEF QueueShape
<1>15. ASSUME NEW y PROVE y \in Lost' <=> y \in Lost
  <2>1. \A m \in Queue : Listed(m)' = IF m = n THEN Listed(n) \ {x} ELSE Listed(m)
    BY <1>6, <1>7
  <2>2. y # x => ((\A m \in Queue : y \notin Listed(m)') <=> \A m \in Queue : y \notin Listed(m))
    BY <2>1
  <2>3. y \in Lost' <=> y \in heap' /\ y \notin InHands' /\ \A m \in Queue : y \notin Listed(m)'
    BY LostIs
  <2>4. y \in Lost <=> y \in heap /\ y \notin InHands /\ \A m \in Queue : y \notin Listed(m)
    BY LostIs
  <2>5. CASE y = x
    BY <1>2, <1>4, <1>8, <2>3, <2>4, <2>5
  <2>6. CASE y # x
    BY <1>1, <1>8, <2>2, <2>3, <2>4, <2>6
  <2> QED BY <2>5, <2>6
<1> QED BY <1>10, <1>13, <1>14, <1>15 DEF ItemsInv

-----------------------------------------------------------------------------
(* cam_demo_ir step by step.                                               *)

(* Nothing is lost, an event is taken, or a warning's item is lost.        *)
IrFlow ==
  /\ ItemsInv' /\ UNCHANGED news
  /\ \/ Lost' = Lost /\ UNCHANGED events /\ ev'[Main] \in {ev[Main], "none"}
     \/ /\ Lost' = Lost /\ events[0] # <<>> /\ events' = [events EXCEPT ![0] = Tail(events[0])]
        /\ ev'[Main] = Head(events[0])
     \/ /\ Lost' = Lost \cup {item[Main]} /\ UNCHANGED events
        /\ ev[Main] = "warning" /\ ev'[Main] = "none"

LEMMA IrMainStep ==
  ASSUME PlacesInv, app.name = "cam_demo_ir", Runs(Main)', ItemsInv, Step(Main),
         DOMAIN ev = Thread, DOMAIN events = Camera
  PROVE  IrFlow
<1> DEFINE o == Here(Main).op
<1>1. /\ UNCHANGED app /\ IsPlace(Main, pc[Main]) /\ Here(Main) = RowAt(Main, pc[Main])
      /\ app.name \in DOMAIN Programs /\ Main \in Thread
  BY StepsGo, IrNames
<1>2. \A a : At(Main, a) <=> o = a
  BY DEF At
<1>3. /\ o \in LoopOnly => o \in {"malloc", "event", "route", "while"}
      /\ o \in {"malloc", "event", "route"} => Here(Main).to = "none" /\ Here(Main).c = 0
  BY <1>1, IrMainRows
<1>4. \A s \in Thread \ {Main} : s \in Workers
  BY IrNames
<1>5. ASSUME Go(Main)
      PROVE  /\ \A s \in Thread \ {Main} : Here(s)' = Here(s)
             /\ o = "malloc" => Here(Main)'.op = "event"
             /\ o = "event" => Here(Main)'.op = "route"
             /\ o \notin {"malloc", "event"} => Here(Main)'.op \notin {"event", "route"}
             /\ Here(Main)'.op # "dequeue"
  <2> DEFINE q == After(Main, pc[Main])
  <2>1. q # Ended /\ \A s \in Thread \ {Main} : Here(s)' = Here(s)
    BY <1>1, <1>5, NextHere DEF Go
  <2>2. IsPlace(Main, q)
    BY <1>1, <2>1, NextPlaces
  <2>3. Here(Main)' = RowAt(Main, q)
    BY <1>1, <1>5, <2>2, NextHere DEF Go
  <2>4. RowAt(Main, q).op # "dequeue"
    BY <2>2, IrMainRows DEF LoopOnly
  <2>5. /\ o = "malloc" => RowAt(Main, q).op = "event"
        /\ o = "event" => RowAt(Main, q).op = "route"
        /\ o \notin {"malloc", "event"} => RowAt(Main, q).op \notin {"event", "route"}
    BY <1>1, <2>1, IrMainRows
  <2> QED BY <2>1, <2>3, <2>4, <2>5
<1>6. ASSUME NEW T, GoTo(Main, Table(Main, T))
      PROVE  /\ \A s \in Thread \ {Main} : Here(s)' = Here(s)
             /\ Here(Main)'.op \notin {"event", "route", "dequeue"}
  <2> DEFINE q == Table(Main, T)
  <2>1. q # Ended /\ \A s \in Thread \ {Main} : Here(s)' = Here(s)
    BY <1>1, <1>6, NextHere
  <2>2. IsPlace(Main, q)
    BY <1>1, <2>1, NextPlaces
  <2>3. Here(Main)' = RowAt(Main, q)
    BY <1>1, <1>6, <2>2, NextHere
  <2>4. RowAt(Main, q).op # "dequeue"
    BY <2>2, IrMainRows DEF LoopOnly
  <2>5. RowAt(Main, q).op \notin {"event", "route"}
    BY <1>1, <2>1, IrMainRows
  <2> QED BY <2>1, <2>3, <2>4, <2>5
<1>7. ASSUME UNCHANGED <<queueVars, item, ev, events, news>>, o \notin {"malloc", "event", "route"},
             Here(Main)'.op \notin {"event", "route", "dequeue"},
             \A s \in Thread \ {Main} :
               \/ Here(s)' = Here(s)
               \/ Here(s).op \notin Holding(s) /\ Here(s)'.op \notin Holding(s)
      PROVE  IrFlow
  <2>1. OthersKeep(Main)
    BY <1>4, <1>7 DEF OthersKeep
  <2>2. o # "dequeue"
    BY <1>3 DEF LoopOnly
  <2>3. o \notin Holding(Main) /\ Here(Main)'.op \notin Holding(Main)
    BY <1>7 DEF Holding
  <2>4. ItemsInv' /\ Lost' = Lost
    BY <1>1, <1>7, <2>1, <2>2, <2>3, KeepsItems
  <2> QED BY <1>7, <2>4 DEF IrFlow
<1>8. CASE Nothing(Main) \/ HalCall(Main) \/ Join(Main) \/ Quit(Main) \/ Context(Main)
  <2>1. UNCHANGED <<queueVars, item, ev, events, news>> /\ Go(Main)
    <3>1. HalCall(Main) => UNCHANGED <<queueVars, item, ev, events, news>> /\ Go(Main)
      BY DEF HalCall, locals, csi_camera_open, csi_camera_close, SetChannels,
           csi_camera_create_event, csi_camera_destory_event, csi_camera_subscribe_event,
           csi_camera_unsubscribe_event
    <3> QED BY <1>8, <3>1 DEF Nothing, Join, Quit, Context, halVars, locals
  <2>2. o \notin {"malloc", "event", "route"}
    <3>1. HalCall(Main) => o \in HalOps
      BY Zenon DEF HalCall, HalOps
    <3> QED BY <1>2, <1>8, <3>1 DEF Nothing, Join, Quit, Context, HalOps
  <2> QED BY <1>5, <1>7, <2>1, <2>2
<1>9. CASE Fails(Main) \/ Given(Main) \/ While(Main)
  <2>1. UNCHANGED <<queueVars, item, ev, events, news>>
    BY <1>9 DEF Fails, Given, While, halVars, locals
  <2>2. o \notin {"malloc", "event", "route"}
    BY <1>2, <1>3, <1>9 DEF Fails, Given, While
  <2>3. Go(Main) \/ \E T : GoTo(Main, Table(Main, T))
    BY <1>9 DEF Fails, Given, While
  <2> QED BY <1>5, <1>6, <1>7, <2>1, <2>2, <2>3
<1>10. CASE Spawn(Main)
  <2>0. PICK w, q : w = RowAt(Main, pc[Main]).n /\ q = After(Main, pc[Main])
    OBVIOUS
  <2>1. o = "spawn" /\ w \in Workers /\ q # Ended
    BY <1>1, <1>2, <1>10, <2>0, SpawnPlaces DEF Spawn
  <2>2. IsPlace(Main, q)
    BY <1>1, <2>0, <2>1, NextPlaces
  <2>3. DOMAIN Code(w) = {"loop"}
    BY <2>1, Tables_ir DEF Workers
  <2>4. /\ pc' = [pc EXCEPT ![Main] = q,
                            ![w] = IF Runs(w) THEN @ ELSE Place("loop", 1)]
        /\ DOMAIN pc = Thread /\ w # Main /\ w \in Thread
    BY <1>1, <1>10, <2>0, <2>1, <2>3, IrNames DEF Spawn, PlacesInv
  <2>5. /\ pc'[Main] = q
        /\ pc'[w] = IF Runs(w) THEN pc[w] ELSE Place("loop", 1)
        /\ \A s \in Thread : s # Main /\ s # w => pc'[s] = pc[s]
    BY <1>1, <2>4
  <2>6. \A s : Code(s)' = Code(s)
    BY <1>1 DEF Code
  <2>7. Here(Main)' = RowAt(Main, q)
    <3>1. q.table \notin Off
      BY <1>1, <2>2, NextPlaces
    <3> QED BY <2>5, <2>6, <3>1 DEF Here, Runs, RowAt
  <2>8. Here(Main)'.op \notin {"event", "route", "dequeue"}
    <3>1. RowAt(Main, q).op # "dequeue"
      BY <2>2, IrMainRows DEF LoopOnly
    <3>2. RowAt(Main, q).op \notin {"event", "route"}
      BY <1>1, <2>0, <2>1, IrMainRows
    <3> QED BY <2>7, <3>1, <3>2
  <2>9. \A s \in Thread \ {Main, w} : Here(s)' = Here(s)
    BY <2>5, <2>6 DEF Here, Runs
  <2>10. \/ Here(w)' = Here(w)
         \/ Here(w).op \notin Holding(w) /\ Here(w)'.op \notin Holding(w)
    <3>1. CASE Runs(w)
      BY <2>5, <2>6, <3>1 DEF Here, Runs
    <3>2. CASE ~Runs(w)
      <4>1. Here(w).op = "none"
        BY <3>2 DEF Here, Do, Or
      <4>2. IsPlace(w, Place("loop", 1))
        <5>1. w \in DOMAIN Programs[app.name] /\ Table_of_rows(Code(w)["loop"])
          BY <1>1, <2>1, Tables_ir, TablesAreRows DEF Workers
        <5> QED BY <2>3, <5>1 DEF IsPlace, Place, Table_of_rows
      <4>3. RowAt(w, Place("loop", 1)).op = "peek"
        BY <2>1, <4>2, IrWorkerRows
      <4>4. Here(w)' = RowAt(w, Place("loop", 1))
        BY <2>5, <2>6, <3>2 DEF Here, Runs, RowAt, Place, Off
      <4> QED BY <2>4, <4>1, <4>3, <4>4 DEF Holding
    <3> QED BY <3>1, <3>2
  <2>11. UNCHANGED <<queueVars, item, ev, events, news>>
    BY <1>10 DEF Spawn, halVars, locals
  <2> QED BY <1>7, <2>1, <2>8, <2>9, <2>10, <2>11
<1>11. CASE Malloc(Main)
  <2>1. /\ o = "malloc" /\ Go(Main) /\ UNCHANGED <<ev, events, news>>
        /\ Item \ heap # {}
        /\ LET i == CHOOSE j \in Item \ heap : TRUE IN Allocate(i) /\ Hold(Main, i)
    BY <1>2, <1>11 DEF Malloc, halVars
  <2>2. PICK i \in Item \ heap : Allocate(i) /\ Hold(Main, i)
    BY <2>1
  <2>3. OthersKeep(Main)
    BY <1>1, <1>5, <2>1, <2>2 DEF OthersKeep, Hold, ItemsInv, QueueShape
  <2>4. ItemsInv' /\ Lost' = Lost
    BY <1>5, <2>1, <2>2, <2>3, MallocItem DEF Holding
  <2> QED BY <2>1, <2>4 DEF IrFlow
<1>12. CASE Event(Main)
  <2>1. /\ o = "event" /\ Go(Main) /\ UNCHANGED <<item, news>>
        /\ events[0] # <<>> /\ events' = [events EXCEPT ![0] = Tail(events[0])]
        /\ ev' = [ev EXCEPT ![Main] = Head(events[0])]
        /\ item[Main] # NULL => Fill(item[Main], Head(events[0]))
    BY <1>2, <1>3, <1>12 DEF Event, csi_camera_get_event, Take
  <2>2. PICK event : event = Head(events[0])
    OBVIOUS
  <2>3. ev'[Main] = event
    BY <1>1, <2>1, <2>2
  <2>4. OthersKeep(Main)
    BY <1>5, <2>1 DEF OthersKeep
  <2>5. item[Main] # NULL
    BY <1>1, <2>1 DEF ItemsInv, HandsInv, Holding
  <2>6. ItemsInv' /\ Lost' = Lost
    BY <1>5, <2>1, <2>2, <2>3, <2>4, <2>5, FillItem
  <2> QED BY <2>1, <2>2, <2>3, <2>6 DEF IrFlow
<1>13. CASE Route(Main)
  <2>1. /\ o = "route" /\ UNCHANGED <<events, news>> /\ Hold(Main, NULL)
        /\ ev' = [ev EXCEPT ![Main] = "none"]
    BY <1>2, <1>13 DEF Route, Take, halVars
  <2>2. ev'[Main] = "none"
    BY <1>1, <2>1
  <2>3. Go(Main)
    <3>1. ~GoTo(Main, Ended)
      BY <1>1, NextHere
    <3> QED BY <1>13, <3>1 DEF Route
  <2>4. Here(Main)'.op \notin Holding(Main) /\ OthersKeep(Main)
    BY <1>1, <1>5, <2>1, <2>3 DEF OthersKeep, Holding, Hold, ItemsInv, QueueShape
  <2>5. CASE ev[Main] \in Channel /\ enqueue_event(ev[Main], item[Main])
    <3>1. PICK n \in Queue : n = ev[Main]
      BY <2>5, IrNames
    <3>2. PICK x : x = item[Main]
      OBVIOUS
    <3>3. enqueue_event(n, x)
      BY <2>5, <3>1, <3>2
    <3>4. ItemsInv' /\ Lost' = Lost
      BY <2>1, <2>4, <3>1, <3>2, <3>3, AppendedItem
    <3> QED BY <2>1, <2>2, <3>4 DEF IrFlow
  <2>6. CASE ev[Main] = "warning" /\ UNCHANGED queueVars
    <3>1. ItemsInv' /\ Lost' = Lost \cup {item[Main]}
      BY <2>1, <2>4, <2>6, LostItem
    <3> QED BY <2>1, <2>2, <2>6, <3>1 DEF IrFlow
  <2>7. CASE Free(item[Main])
    <3>1. o \in Holding(Main) /\ o # "dequeue"
      BY <2>1 DEF Holding
    <3>2. ItemsInv' /\ Lost' = Lost
      BY <1>1, <2>1, <2>4, <2>7, <3>1, FreedItem
    <3> QED BY <2>1, <2>2, <3>2 DEF IrFlow
  <2> QED BY <1>13, <2>5, <2>6, <2>7 DEF Route
<1>14. /\ ~Poll(Main) /\ ~Count(Main) /\ ~Get(Main) /\ ~Put(Main) /\ ~Display(Main)
       /\ ~Peek(Main) /\ ~Dequeue(Main) /\ ~FreeItem(Main)
  <2>1. o \notin {"poll", "count", "get", "put", "display", "peek", "dequeue", "free"}
    BY <1>3 DEF LoopOnly, InFrame
  <2> QED BY <1>2, <2>1 DEF Poll, Count, Get, Put, Display, Peek, Dequeue, FreeItem
<1> QED BY <1>8, <1>9, <1>10, <1>11, <1>12, <1>13, <1>14, Zenon DEF Step

LEMMA IrWorkerStep ==
  ASSUME PlacesInv, app.name = "cam_demo_ir", Runs(Main)', ItemsInv,
         NEW w \in Workers, Step(w), DOMAIN ev = Thread, DOMAIN holds = Thread
  PROVE  IrFlow
<1> DEFINE o == Here(w).op
           q == After(w, pc[w])
<1>1. /\ UNCHANGED app /\ IsPlace(w, pc[w]) /\ Here(w) = RowAt(w, pc[w])
      /\ app.name \in DOMAIN Programs /\ w \in Thread /\ w # Main
      /\ app.name \in OneCaller
  BY StepsGo, IrNames DEF OneCaller
<1>2. \A a : At(w, a) <=> o = a
  BY DEF At
<1>3. /\ o \in {"peek", "dequeue", "count", "get", "put", "free"} /\ Here(w).n = Chan(w)
      /\ IsPlace(w, q)
      /\ o = "peek" => RowAt(w, q).op = "dequeue"
      /\ o = "dequeue" => RowAt(w, q).op = "count"
      /\ o = "get" => RowAt(w, q).op = "put"
      /\ o = "free" => RowAt(w, q).op = "peek"
  BY <1>1, IrWorkerRows
<1>4. Go(w) => Here(w)' = RowAt(w, q) /\ \A s \in Thread \ {w} : Here(s)' = Here(s)
  BY <1>1, <1>3, NextHere DEF Go
<1>5. ev'[Main] = ev[Main]
  BY <1>1, OwnFrames, IrNames
<1>6. ASSUME \A s \in Thread \ {w} : Here(s)' = Here(s),
             UNCHANGED item \/ \E i : Hold(w, i)
      PROVE  OthersKeep(w)
  BY <1>1, <1>5, <1>6 DEF OthersKeep, Hold, ItemsInv, QueueShape
<1>7. ASSUME \A s \in Thread \ {w} : Here(s)' = Here(s), UNCHANGED <<queueVars, item, news, events>>,
             o \in {"count", "get", "put"}, Here(w)'.op \in {"get", "put", "free"}
      PROVE  IrFlow
  <2>1. OthersKeep(w)
    BY <1>6, <1>7
  <2>2. /\ o \in Holding(w) /\ o # "dequeue"
        /\ Here(w)'.op \in Holding(w) /\ Here(w)'.op # "dequeue"
    BY <1>1, <1>7 DEF Holding
  <2>3. ItemsInv' /\ Lost' = Lost
    BY <1>1, <1>7, <2>1, <2>2, KeepsItems
  <2> QED BY <1>5, <1>7, <2>3 DEF IrFlow
<1>8. CASE Get(w)
  <2>1. o = "get" /\ Go(w) /\ UNCHANGED <<queueVars, item, news, events>>
    BY <1>2, <1>8 DEF Get, csi_camera_get_frame
  <2> QED BY <1>3, <1>4, <1>7, <2>1
<1>9. CASE Count(w) \/ Put(w)
  <2>1. o \in {"count", "put"} /\ UNCHANGED <<queueVars, item, news, events>>
    BY <1>2, <1>9 DEF Count, Put, halVars
  <2>2. /\ IsPlace(w, RowOf(w, "get")) /\ RowAt(w, RowOf(w, "get")).op = "get"
        /\ IsPlace(w, RowOf(w, "put")) /\ RowAt(w, RowOf(w, "put")).op = "put"
    BY <1>1, <2>1, FrameRows
  <2>3. /\ IsPlace(w, After(w, RowOf(w, "put")))
        /\ RowAt(w, After(w, RowOf(w, "put"))).op = "free"
    BY <2>2, IrWorkerRows
  <2>4. \A n : ToFrames(w, n) => GoTo(w, RowOf(w, "get")) \/ GoTo(w, After(w, RowOf(w, "put")))
    BY Zenon DEF ToFrames
  <2>5. GoTo(w, RowOf(w, "get")) \/ GoTo(w, After(w, RowOf(w, "put")))
    BY <1>9, <2>4 DEF Count, Put
  <2>6. /\ \A s \in Thread \ {w} : Here(s)' = Here(s)
        /\ Here(w)'.op \in {"get", "free"}
    <3>1. CASE GoTo(w, RowOf(w, "get"))
      BY <1>1, <2>2, <3>1, NextHere
    <3>2. CASE GoTo(w, After(w, RowOf(w, "put")))
      BY <1>1, <2>3, <3>2, NextHere
    <3> QED BY <2>5, <3>1, <3>2
  <2> QED BY <1>7, <2>1, <2>6
<1>10. CASE Peek(w)
  <2> DEFINE i == IF quit[w] THEN NULL ELSE head[Chan(w)]
  <2>1. /\ o = "peek" /\ UNCHANGED <<queueVars, news, events>> /\ Hold(w, i)
        /\ IF quit[w] THEN GoTo(w, Ended) ELSE IF i = NULL THEN UNCHANGED pc ELSE Go(w)
    BY <1>2, <1>3, <1>10 DEF Peek, halVars
  <2>2. PICK j : j = i
    OBVIOUS
  <2>3. /\ \A s \in Thread \ {w} : Here(s)' = Here(s)
        /\ j # NULL <=> Here(w)'.op = "dequeue"
        /\ j = NULL => Here(w)'.op \in {"none", "peek"}
    <3>1. CASE quit[w]
      BY <1>1, <2>1, <2>2, <3>1, NextHere
    <3>2. CASE ~quit[w] /\ i = NULL
      <4>1. \A s : Here(s)' = Here(s)
        BY <1>1, <2>1, <3>2 DEF Here, Runs, Code
      <4> QED BY <2>1, <2>2, <3>2, <4>1
    <3>3. CASE ~quit[w] /\ i # NULL
      BY <1>3, <1>4, <2>1, <2>2, <3>3
    <3> QED BY <3>1, <3>2, <3>3
  <2>4. OthersKeep(w)
    BY <1>6, <2>1, <2>3
  <2>5. o \notin Holding(w) /\ (j = NULL => Here(w)'.op \notin Holding(w))
    BY <1>1, <2>1, <2>3 DEF Holding
  <2>6. Hold(w, j) /\ (j # NULL => j = head[Chan(w)])
    BY <2>1, <2>2
  <2> HIDE DEF i
  <2>7. ItemsInv' /\ Lost' = Lost
    BY <2>1, <2>3, <2>4, <2>5, <2>6, SeenItem
  <2> QED BY <1>5, <2>1, <2>7 DEF IrFlow
<1>11. CASE Dequeue(w)
  <2>1. PICK n, x : n = Chan(w) /\ x = item[w]
    OBVIOUS
  <2>2. /\ o = "dequeue" /\ Go(w) /\ UNCHANGED <<item, news, events>>
        /\ dequeue_event(n, x)
    BY <1>2, <1>3, <1>11, <2>1 DEF Dequeue, halVars
  <2>3. Here(w)'.op = "count" /\ OthersKeep(w)
    BY <1>3, <1>4, <1>6, <2>2
  <2>4. Here(w)'.op \in Holding(w) /\ Here(w)'.op # "dequeue"
    BY <1>1, <2>3 DEF Holding
  <2>5. ItemsInv' /\ Lost' = Lost
    BY <2>1, <2>2, <2>3, <2>4, TakenItem
  <2> QED BY <1>5, <2>2, <2>5 DEF IrFlow
<1>12. CASE FreeItem(w)
  <2>1. /\ o = "free" /\ Go(w) /\ UNCHANGED <<news, events>>
        /\ Free(item[w]) /\ Hold(w, NULL)
    BY <1>2, <1>12 DEF FreeItem, halVars
  <2>2. Here(w)'.op = "peek" /\ OthersKeep(w)
    BY <1>3, <1>4, <1>6, <2>1
  <2>3. o \in Holding(w) /\ o # "dequeue" /\ Here(w)'.op \notin Holding(w)
    BY <1>1, <2>1, <2>2 DEF Holding
  <2>4. ItemsInv' /\ Lost' = Lost
    BY <1>1, <2>1, <2>2, <2>3, FreedItem
  <2> QED BY <1>5, <2>1, <2>4 DEF IrFlow
<1>13. /\ ~While(w) /\ ~Event(w) /\ ~(Nothing(w) /\ o = "dump")
  BY <1>2, <1>3 DEF While, Event
<1> QED BY <1>1, <1>8, <1>9, <1>10, <1>11, <1>12, <1>13, WorkerSteps

-----------------------------------------------------------------------------
(* The items lost are no more than the camera's own events: a warning that *)
(* is on its way has not lost its item yet.                                *)

Warnings(s) == Cardinality({k \in DOMAIN s : s[k] = "warning"})
Warned(e) == IF e = "warning" THEN 1 ELSE 0
LostInv == Cardinality(Lost) + Warnings(events[0]) + Warned(ev[Main]) <= news

LEMMA WarningsOf ==
  ASSUME NEW S, NEW s \in Seq(S)
  PROVE  /\ Warnings(s) \in Nat
         /\ \A e \in S : Warnings(Append(s, e)) = Warnings(s) + Warned(e)
         /\ s # <<>> => Warnings(Tail(s)) + Warned(Head(s)) <= Warnings(s)
                        /\ Warnings(Tail(s)) \in Nat
<1> DEFINE W(r) == {k \in DOMAIN r : r[k] = "warning"}
<1>1. ASSUME NEW r \in Seq(S) PROVE IsFiniteSet(W(r)) /\ Cardinality(W(r)) \in Nat
  <2>1. Len(r) \in Nat /\ W(r) \subseteq 1 .. Len(r)
    OBVIOUS
  <2>2. IsFiniteSet(1 .. Len(r))
    BY <2>1, FS_Interval
  <2> QED BY <2>1, <2>2, FS_Subset, FS_CardinalityType
<1>2. ASSUME NEW e \in S
      PROVE  Warnings(Append(s, e)) = Warnings(s) + Warned(e)
  <2>1. W(Append(s, e)) = IF e = "warning" THEN W(s) \cup {Len(s) + 1} ELSE W(s)
    OBVIOUS
  <2>2. Len(s) + 1 \notin W(s)
    OBVIOUS
  <2>3. IsFiniteSet(W(s)) /\ Cardinality(W(s)) \in Nat
    BY <1>1
  <2> HIDE DEF W
  <2>4. Cardinality(W(s) \cup {Len(s) + 1}) = Cardinality(W(s)) + 1
    BY <2>2, <2>3, FS_AddElement
  <2>5. Cardinality(W(Append(s, e))) = Cardinality(W(s)) + Warned(e)
    BY <2>1, <2>3, <2>4 DEF Warned
  <2> QED BY <2>5 DEF Warnings, W
<1>3. ASSUME s # <<>>
      PROVE  /\ Warnings(Tail(s)) + Warned(Head(s)) <= Warnings(s)
             /\ Warnings(Tail(s)) \in Nat
  <2>1. Tail(s) \in Seq(S)
    BY <1>3
  <2> DEFINE f == [k \in W(Tail(s)) |-> k + 1]
             T == W(s) \ {1}
  <2>2. f \in Injection(W(Tail(s)), T)
    <3>1. \A k \in W(Tail(s)) : k \in Nat /\ k + 1 \in T
      BY <1>3
    <3>2. f \in [W(Tail(s)) -> T]
      BY <3>1
    <3> QED BY <3>1, <3>2 DEF Injection, IsInjective
  <2>3. 1 \in W(s) <=> Head(s) = "warning"
    BY <1>3
  <2>4. IsFiniteSet(W(s)) /\ Cardinality(W(s)) \in Nat /\ Cardinality(W(Tail(s))) \in Nat
    BY <1>1, <2>1
  <2> HIDE DEF W, f
  <2>5. IsFiniteSet(T) /\ Cardinality(T) = IF 1 \in W(s) THEN Cardinality(W(s)) - 1 ELSE Cardinality(W(s))
    BY <2>4, FS_RemoveElement
  <2> HIDE DEF T
  <2>6. Cardinality(W(Tail(s))) <= Cardinality(T)
    BY <2>2, <2>5, FS_Injection
  <2>7. Cardinality(W(Tail(s))) + Warned(Head(s)) <= Cardinality(W(s))
    BY <2>3, <2>4, <2>5, <2>6 DEF Warned
  <2> QED BY <2>4, <2>7 DEF Warnings, W
<1> QED BY <1>1, <1>2, <1>3 DEF Warnings

LEMMA LostIsFinite ==
  ASSUME QueueShape
  PROVE  IsFiniteSet(Lost) /\ Cardinality(Lost) \in Nat /\ (NULL \notin heap)
<1>1. IsFiniteSet(heap)
  BY IrNames, FS_Subset DEF QueueShape
<1>2. Lost \subseteq heap
  BY DEF Lost
<1>3. IsFiniteSet(Lost)
  BY <1>1, <1>2, FS_Subset
<1> QED BY <1>3, IrNames, FS_CardinalityType DEF QueueShape

LEMMA LostNext ==
  ASSUME ItemsInv, LostInv, IrFlow, events[0] \in Seq(EventKind(0)), 0 \in DOMAIN events
  PROVE  LostInv'
<1>1. PICK l, k, e, m, x, g, d :
        /\ l = Cardinality(Lost) /\ k = Warnings(events[0]) /\ e = Warned(ev[Main])
        /\ m = Cardinality(Lost') /\ x = Warnings(events'[0]) /\ g = Warned(ev'[Main]) /\ d = news
  OBVIOUS
<1>2. l \in Nat /\ k \in Nat /\ e \in {0, 1} /\ g \in {0, 1} /\ d \in Nat /\ l + k + e <= d
  <2>1. e \in {0, 1} /\ g \in {0, 1}
    BY <1>1 DEF Warned
  <2>2. l \in Nat /\ d \in Nat
    BY <1>1, LostIsFinite DEF ItemsInv, QueueShape
  <2>3. k \in Nat
    BY <1>1, WarningsOf
  <2> QED BY <1>1, <2>1, <2>2, <2>3 DEF LostInv
<1> SUFFICES m + x + g <= d
  BY <1>1 DEF LostInv, IrFlow
<1>3. CASE Lost' = Lost /\ UNCHANGED events /\ ev'[Main] \in {ev[Main], "none"}
  <2>1. m = l /\ x = k /\ g <= e
    BY <1>1, <1>2, <1>3 DEF Warned
  <2> QED BY <1>2, <2>1
<1>4. CASE /\ Lost' = Lost /\ events[0] # <<>> /\ events' = [events EXCEPT ![0] = Tail(events[0])]
           /\ ev'[Main] = Head(events[0])
  <2>1. x = Warnings(Tail(events[0])) /\ g = Warned(Head(events[0])) /\ m = l
    BY <1>1, <1>4
  <2>2. x + g <= k /\ x \in Nat
    BY <1>1, <1>4, <2>1, WarningsOf
  <2> QED BY <1>2, <2>1, <2>2
<1>5. CASE /\ Lost' = Lost \cup {item[Main]} /\ UNCHANGED events
           /\ ev[Main] = "warning" /\ ev'[Main] = "none"
  <2>1. PICK i : i = item[Main]
    OBVIOUS
  <2>2. IsFiniteSet(Lost) /\ Lost' = Lost \cup {i}
    BY <1>5, <2>1, LostIsFinite DEF ItemsInv
  <2>4. m = IF i \in Lost THEN l ELSE l + 1
    BY <1>1, <2>2, FS_AddElement
  <2>3. x = k /\ e = 1 /\ g = 0
    BY <1>1, <1>5 DEF Warned
  <2> QED BY <1>2, <2>3, <2>4
<1> QED BY <1>3, <1>4, <1>5 DEF IrFlow

(* The camera announces frames and has news.                               *)
LEMMA IrCameraStep ==
  ASSUME app.name = "cam_demo_ir", ItemsInv, LostInv, UNCHANGED <<app, pc, queueVars, item, ev>>,
         events[0] \in Seq(EventKind(0)), DOMAIN events = Camera,
         \/ UNCHANGED <<events, news>>
         \/ \E c, e : /\ events' = [events EXCEPT ![c] = Append(events[c], e)]
                      /\ \/ e \in Channel /\ UNCHANGED news
                         \/ e \in {"warning", "error"} /\ news' = news + 1
  PROVE  ItemsInv' /\ LostInv'
<1>1. /\ UNCHANGED <<head, tail, next, evet, heap>>
      /\ \A t : Here(t)' = Here(t) /\ Holding(t)' = Holding(t) /\ Chan(t)' = Chan(t)
      /\ \A n : Listed(n)' = Listed(n)
  BY DEF queueVars, Here, Runs, Code, Holding, Chan, Listed
<1>2. InHands' = InHands
  BY <1>1 DEF InHands, At
<1>3. ListsInv' /\ HandsInv'
  <2>1. ListsInv'
    BY <1>1, <1>2 DEF ItemsInv, ListsInv
  <2>2. HandsInv'
    BY <1>1 DEF ItemsInv, HandsInv
  <2> QED BY <2>1, <2>2
<1>4. Lost' = Lost
  <2>1. \A x : x \in Lost' <=> x \in Lost
    BY <1>1, <1>2, LostIs
  <2> QED BY <2>1
<1>5. news \in Nat /\ news' \in Nat
  BY DEF ItemsInv, QueueShape
<1>6. ItemsInv'
  BY <1>1, <1>3, <1>5 DEF ItemsInv, QueueShape
<1>7. PICK l, k, e, x, d, y :
        /\ l = Cardinality(Lost) /\ k = Warnings(events[0]) /\ e = Warned(ev[Main])
        /\ x = Warnings(events'[0]) /\ d = news /\ y = news'
  OBVIOUS
<1>8. y \in Nat /\ l \in Nat /\ k \in Nat /\ e \in {0, 1} /\ d \in Nat /\ l + k + e <= d
  <2>1. e \in {0, 1}
    BY <1>7 DEF Warned
  <2>2. l \in Nat
    BY <1>7, LostIsFinite DEF ItemsInv
  <2>3. k \in Nat
    BY <1>7, WarningsOf
  <2> QED BY <1>5, <1>7, <2>1, <2>2, <2>3 DEF LostInv
<1>9. x \in Nat /\ d + x <= y + k
  <2>1. CASE UNCHANGED <<events, news>>
    BY <1>7, <1>8, <2>1
  <2>2. ASSUME NEW c, NEW a, events' = [events EXCEPT ![c] = Append(events[c], a)],
               \/ a \in Channel /\ UNCHANGED news
               \/ a \in {"warning", "error"} /\ news' = news + 1
        PROVE  x \in Nat /\ d + x <= y + k
    <3>1. a \in EventKind(0)
      BY <2>2, IrNames DEF EventKind, Used
    <3>2. PICK b : b = Warned(a)
      OBVIOUS
    <3>3. b \in {0, 1} /\ d + b <= y
      <4>1. CASE a \in Channel /\ UNCHANGED news
        <5>1. a # "warning"
          BY <4>1, IrNames
        <5> QED BY <1>7, <1>8, <3>2, <4>1, <5>1 DEF Warned
      <4>2. CASE a \in {"warning", "error"} /\ news' = news + 1
        BY <1>7, <1>8, <3>2, <4>2 DEF Warned
      <4> QED BY <2>2, <4>1, <4>2
    <3>4. CASE c = 0
      <4>1. events'[0] = Append(events[0], a)
        BY <2>2, <3>4, AppsAssumption DEF AppsAssumption
      <4>2. x = k + b
        BY <1>7, <3>1, <3>2, <4>1, WarningsOf
      <4> QED BY <1>8, <3>3, <4>2
    <3>5. CASE c # 0
      <4>1. events'[0] = events[0]
        BY <2>2, <3>5
      <4>2. x = k
        BY <1>7, <4>1
      <4> QED BY <1>8, <3>3, <4>2
    <3> QED BY <3>4, <3>5
  <2> QED BY <2>1, <2>2
<1>10. l + x + e <= y
  BY <1>8, <1>9
<1>11. LostInv'
  BY <1>4, <1>7, <1>10 DEF LostInv
<1> QED BY <1>6, <1>11

-----------------------------------------------------------------------------
(* The other programs have no queue.                                       *)

NoQueue ==
  /\ \A n \in Queue : head[n] = NULL /\ tail[n] = NULL
  /\ heap = {} /\ news \in Nat
  /\ \A t \in Thread : item[t] = NULL

LEMMA NoQueueRows ==
  ASSUME app.name \in DOMAIN Programs, app.name # "cam_demo_ir", NEW t \in Thread, NEW p,
         IsPlace(t, p)
  PROVE  RowAt(t, p).op \notin QueueOps
<1> SUFFICES ASSUME p.table = "loop" PROVE RowAt(t, p).op \notin QueueOps
  BY LoopPlaces DEF LoopOnly, QueueOps
<1> DEFINE rows == Code(t)["loop"]
           Free_of_queues == \A i \in DOMAIN rows : rows[i].op \notin QueueOps
<1>1. Free_of_queues => RowAt(t, p).op \notin QueueOps
  BY DEF IsPlace, RowAt
<1>2. app.name \in DOMAIN Programs /\ t \in DOMAIN Programs[app.name] /\ t \in {Main, "w0", "w1"}
  BY DEF IsPlace, Thread, Main
<1>3. CASE app.name = "cam_demo_simple"
  <2>1. t = Main
    BY <1>2, <1>3, Tables_simple DEF Main
  <2>2. Free_of_queues
    BY <1>3, <2>1, Rows_simple_loop DEF Is, Or, Do, QueueOps
  <2> QED BY <1>1, <2>2
<1>4. CASE app.name = "camera_test1"
  <2>1. t = Main
    BY <1>2, <1>4, Tables_test1 DEF Main
  <2>2. Free_of_queues
    BY <1>4, <2>1, Rows_test1_loop DEF Is, Or, Do, QueueOps
  <2> QED BY <1>1, <2>2
<1>5. CASE app.name = "camera_demo1"
  <2>1. t = Main
    BY <1>2, <1>5, Tables_demo1 DEF Main
  <2>2. Free_of_queues
    BY <1>5, <2>1, Rows_demo1_loop DEF Is, Or, Do, QueueOps
  <2> QED BY <1>1, <2>2
<1>6. CASE app.name = "camera_demo2"
  <2>1. t = Main
    BY <1>2, <1>6, Tables_demo2 DEF Main
  <2>2. Free_of_queues
    BY <1>6, <2>1, Rows_demo2_loop DEF Is, Or, Do, QueueOps
  <2> QED BY <1>1, <2>2
<1>7. CASE app.name = "camera_demo4"
  <2>1. t = Main => Free_of_queues
    BY <1>7, Rows_demo4_loop DEF Is, Or, Do, QueueOps
  <2>2. t = "w0" => Free_of_queues
    BY <1>7, Rows_demo4_w0_loop DEF Is, Or, Do, QueueOps
  <2>3. t = "w1" => Free_of_queues
    BY <1>7, Rows_demo4_w1_loop DEF Is, Or, Do, QueueOps
  <2> QED BY <1>1, <1>2, <2>1, <2>2, <2>3
<1>8. CASE app.name = "cam_demo_multi"
  <2>1. t = Main => Free_of_queues
    BY <1>8, Rows_multi_loop DEF Is, Or, Do, QueueOps
  <2>2. t = "w0" => Free_of_queues
    BY <1>8, Rows_multi_w0_loop DEF Is, Or, Do, QueueOps
  <2>3. t = "w1" => Free_of_queues
    BY <1>8, Rows_multi_w1_loop DEF Is, Or, Do, QueueOps
  <2> QED BY <1>1, <1>2, <2>1, <2>2, <2>3
<1> QED BY <1>3, <1>4, <1>5, <1>6, <1>7, <1>8, ProgramNames DEF OneCaller

LEMMA NoQueueStep ==
  ASSUME PlacesInv, app.name # "cam_demo_ir", NoQueue, NEW t \in Thread, Step(t)
  PROVE  NoQueue'
<1>1. /\ IsPlace(t, pc[t]) /\ Here(t) = RowAt(t, pc[t]) /\ app.name \in DOMAIN Programs
  BY StepsGo
<1>2. ~At(t, "malloc") /\ ~At(t, "route") /\ ~At(t, "peek") /\ ~At(t, "dequeue") /\ ~At(t, "free")
  BY <1>1, NoQueueRows DEF At, QueueOps
<1> DEFINE Same == UNCHANGED <<head, tail, heap, item, news>>
<1>3. Nothing(t) \/ Fails(t) \/ Spawn(t) \/ Join(t) \/ Quit(t) \/ Context(t) => Same
  BY DEF Nothing, Fails, Spawn, Join, Quit, Context, queueVars, halVars, locals
<1>4. Given(t) \/ While(t) \/ Count(t) \/ Put(t) \/ Display(t) => Same
  BY DEF Given, While, Count, Put, Display, queueVars, halVars, locals
<1>5. HalCall(t) => Same
  BY DEF HalCall, csi_camera_open, csi_camera_close, SetChannels, csi_camera_create_event,
         csi_camera_destory_event, csi_camera_subscribe_event, csi_camera_unsubscribe_event,
         queueVars, locals
<1>6. Get(t) \/ Poll(t) => Same
  BY DEF Get, Poll, csi_camera_get_frame, csi_camera_get_event, queueVars, halVars
<1>7. Event(t) => Same
  BY DEF Event, NoQueue, csi_camera_get_event, queueVars
<1>8. ~Malloc(t) /\ ~Route(t) /\ ~Peek(t) /\ ~Dequeue(t) /\ ~FreeItem(t)
  BY <1>2 DEF Malloc, Route, Peek, Dequeue, FreeItem
<1> HIDE DEF Same
<1>9. Same
  BY <1>3, <1>4, <1>5, <1>6, <1>7, <1>8, Zenon DEF Step
<1> QED BY <1>9 DEF NoQueue, Same

-----------------------------------------------------------------------------
(* The queues hold.                                                        *)

QueueInv ==
  /\ app.name = "cam_demo_ir" => Runs(Main) \/ pc[Main] = Ended
  /\ app.name = "cam_demo_ir" /\ Runs(Main) => ItemsInv /\ LostInv
  /\ app.name # "cam_demo_ir" => NoQueue

LEMMA InitQueues == CameraAppsInit => QueueInv
<1> SUFFICES ASSUME CameraAppsInit PROVE QueueInv
  OBVIOUS
<1>1. /\ head = [n \in Queue |-> NULL] /\ tail = [n \in Queue |-> NULL] /\ heap = {}
      /\ DOMAIN next = Item /\ DOMAIN evet = Item
      /\ item = [t \in Thread |-> NULL] /\ news = 0 /\ \A c \in Camera : events[c] = <<>>
      /\ ev[Main] = "none"
  BY DEF CameraAppsInit, QueueInit, HalInit, Thread, Main
<1>2. NoQueue
  BY <1>1 DEF NoQueue
<1>3. ASSUME app.name = "cam_demo_ir"
      PROVE  Runs(Main) /\ ItemsInv /\ LostInv
  <2>1. app.name \in DOMAIN Programs
    BY <1>3, Tables_ir
  <2>2. /\ pc[Main] = Place("setup", 1) /\ Runs(Main)
        /\ \A t \in Workers : Here(t).op = "none"
    BY <2>1 DEF CameraAppsInit, Runs, Off, Place, Thread, Main, Workers, Here, Do, Or
  <2>3. Here(Main).op \notin {"event", "route", "dequeue"}
    <3>1. IsPlace(Main, pc[Main]) /\ Here(Main) = RowAt(Main, pc[Main]) /\ Main \in Thread
      BY <2>2, InitPlaces, IrNames DEF PlacesInv, Here, RowAt
    <3>2. pc[Main].table # "loop"
      BY <2>2 DEF Place
    <3>3. RowAt(Main, pc[Main]).op \notin LoopOnly
      BY <2>1, <3>1, <3>2, LoopPlaces
    <3> QED BY <3>1, <3>3 DEF LoopOnly
  <2>4. \A n \in Queue : Listed(n) = {} /\ IsList(head[n], tail[n], next)
    BY <1>1, EmptyList DEF Listed
  <2>5. QueueShape
    BY <1>1 DEF QueueShape
  <2>6. ListsInv
    BY <2>4 DEF ListsInv
  <2>7. HandsInv
    <3>1. \A t \in Thread : Here(t).op \notin Holding(t)
      BY <2>2, <2>3, IrNames DEF Holding
    <3>2. \A w \in Workers : Here(w).op # "dequeue"
      BY <2>2
    <3> QED BY <1>1, <2>3, <3>1, <3>2 DEF HandsInv
  <2>8. Lost = {}
    BY <1>1 DEF Lost
  <2>9. Warnings(events[0]) = 0
    <3>1. events[0] = <<>>
      BY <1>1, AppsAssumption DEF AppsAssumption
    <3>2. {k \in DOMAIN events[0] : events[0][k] = "warning"} = {}
      BY <3>1
    <3> QED BY <3>2, FS_EmptySet DEF Warnings
  <2>10. LostInv
    BY <1>1, <2>8, <2>9, FS_EmptySet DEF LostInv, Warned
  <2> QED BY <2>2, <2>5, <2>6, <2>7, <2>10 DEF ItemsInv
<1> QED BY <1>2, <1>3 DEF QueueInv

(* The process is in its program or at its end.                            *)
LEMMA RunsOrEnded ==
  ASSUME PlacesInv, NEW t \in Thread, Step(t)
  PROVE  Runs(Main)' \/ pc'[Main] = Ended
<1>1. /\ app.name \in DOMAIN Programs /\ UNCHANGED app /\ Runs(Main)
      /\ Main \in Thread /\ DOMAIN pc = Thread
  <2>1. app.name \in DOMAIN Programs /\ UNCHANGED app /\ Runs(t)
    BY StepsGo DEF Step
  <2> QED BY <2>1 DEF PlacesInv, Thread, Main
<1>2. \A p : IsPlace(Main, p) => p.table \notin Off
  BY <1>1, NextPlaces
<1>3. CASE pc' = [s \in Thread |-> Ended]
  BY <1>1, <1>3
<1>4. CASE UNCHANGED pc
  BY <1>1, <1>4 DEF Runs
<1>5. CASE \E p : GoesTo(t, p) /\ pc' = [pc EXCEPT ![t] = p]
  <2>1. PICK p : (IsPlace(t, p) \/ p = Ended) /\ pc' = [pc EXCEPT ![t] = p]
    BY <1>5 DEF GoesTo
  <2>2. CASE t = Main
    BY <1>1, <1>2, <2>1, <2>2 DEF Runs
  <2>3. CASE t # Main
    BY <1>1, <2>1, <2>3 DEF Runs
  <2> QED BY <2>2, <2>3
<1>6. CASE /\ RowAt(Main, pc[Main]).n \in Workers /\ IsPlace(Main, After(Main, pc[Main]))
           /\ \E p : pc' = [pc EXCEPT ![Main] = After(Main, pc[Main]),
                                      ![RowAt(Main, pc[Main]).n] =
                                         IF Runs(RowAt(Main, pc[Main]).n) THEN @ ELSE p]
  <2>1. PICK w, q, p : /\ w \in Workers /\ IsPlace(Main, q)
                       /\ pc' = [pc EXCEPT ![Main] = q, ![w] = IF Runs(w) THEN @ ELSE p]
    BY <1>6
  <2>2. pc'[Main] = q
    BY <1>1, <2>1, IrNames
  <2> QED BY <1>2, <2>1, <2>2 DEF Runs
<1> QED BY <1>3, <1>4, <1>5, <1>6, PlacesNext

LEMMA StepQueues ==
  ASSUME CallsInv, QueueInv, CameraAppsNext, app.name = "cam_demo_ir", Runs(Main)'
  PROVE  ItemsInv' /\ LostInv'
<1>1. PlacesInv /\ app.name \in OneCaller
  BY DEF CallsInv, OneCaller
<1>2. Runs(Main)
  <2>1. CASE \E t \in Thread : Step(t)
    BY <1>1, <2>1 DEF PlacesInv, Step
  <2>2. CASE \/ \E c \in Camera, n \in Channel : Frame(c, n)
             \/ (\E c \in Camera : News(c)) \/ Viewer
    BY <2>2 DEF Frame, News, Viewer, Runs
  <2> QED BY <2>1, <2>2 DEF CameraAppsNext
<1>3. EventsInv /\ HoldsInv
  BY <1>1, <1>2 DEF CallsInv, CallerInv
<1>4. /\ DOMAIN events = Camera /\ DOMAIN ev = Thread /\ DOMAIN holds = Thread
      /\ 0 \in Camera /\ events[0] \in Seq(EventKind(0))
  BY <1>3, AppsAssumption DEF EventsInv, HoldsInv, AppsAssumption
<1>5. ItemsInv /\ LostInv
  BY <1>2 DEF QueueInv
<1>6. CASE \E t \in Thread : Step(t)
  <2>1. PICK t \in Thread : Step(t)
    BY <1>6
  <2>2. IrFlow
    <3>1. CASE t = Main
      BY <1>1, <1>4, <1>5, <2>1, <3>1, IrMainStep
    <3>2. CASE t # Main
      <4>1. t \in Workers
        BY <3>2, IrNames
      <4> QED BY <1>1, <1>4, <1>5, <2>1, <4>1, IrWorkerStep
    <3> QED BY <3>1, <3>2
  <2>3. LostInv'
    BY <1>4, <1>5, <2>2, LostNext
  <2> QED BY <2>2, <2>3 DEF IrFlow
<1>7. CASE \/ \E c \in Camera, n \in Channel : Frame(c, n)
           \/ (\E c \in Camera : News(c)) \/ Viewer
  <2>1. UNCHANGED <<app, pc, queueVars, item, ev>>
    BY <1>7 DEF Frame, News, Viewer, locals
  <2>2. \/ UNCHANGED <<events, news>>
        \/ \E c, e : /\ events' = [events EXCEPT ![c] = Append(events[c], e)]
                     /\ \/ e \in Channel /\ UNCHANGED news
                        \/ e \in {"warning", "error"} /\ news' = news + 1
    <3>1. CASE Viewer
      BY <3>1 DEF Viewer, halVars
    <3>2. ASSUME NEW c \in Camera, NEW n \in Channel, Frame(c, n)
          PROVE  UNCHANGED news /\ (UNCHANGED events \/ events' = [events EXCEPT ![c] = Append(events[c], n)])
      BY <3>2 DEF Frame, FrameReady, Announce
    <3>3. ASSUME NEW c \in Camera, News(c)
          PROVE  /\ news' = news + 1
                 /\ \E e \in {"warning", "error"} : events' = [events EXCEPT ![c] = Append(events[c], e)]
      BY <3>3 DEF News, CameraNews, Announce
    <3> QED BY <1>7, <3>1, <3>2, <3>3
  <2> QED BY <1>4, <1>5, <2>1, <2>2, IrCameraStep
<1> QED BY <1>6, <1>7 DEF CameraAppsNext

LEMMA NextQueues == CallsInv /\ QueueInv /\ [Next]_vars => QueueInv'
<1> SUFFICES ASSUME CallsInv, QueueInv, [Next]_vars PROVE QueueInv'
  OBVIOUS
<1>1. PlacesInv
  BY DEF CallsInv
<1>2. CASE UNCHANGED cameraAppVars
  <2> USE <1>2 DEF cameraAppVars, halVars, queueVars, locals
  <2>1. UNCHANGED <<app, pc, head, tail, next, evet, heap, item, ev, events, news>>
    OBVIOUS
  <2> HIDE <1>2
  <2>2. /\ \A t : /\ Here(t)' = Here(t) /\ Runs(t)' = Runs(t)
                  /\ Holding(t)' = Holding(t) /\ Chan(t)' = Chan(t)
        /\ \A n : Listed(n)' = Listed(n) /\ Items(n)' = Items(n)
    BY <2>1 DEF Here, Runs, Code, Holding, Chan, Listed, Items
  <2>3. InHands' = InHands
    BY <2>1, <2>2 DEF InHands, At
  <2>4. QueueShape' = QueueShape /\ ListsInv' = ListsInv /\ HandsInv' = HandsInv
    BY <2>1, <2>2, <2>3 DEF QueueShape, ListsInv, HandsInv
  <2>5. Lost' = Lost
    BY <2>1, <2>2, <2>3 DEF Lost
  <2>6. LostInv' = LostInv /\ NoQueue' = NoQueue
    BY <2>1, <2>5 DEF LostInv, NoQueue
  <2> QED BY <2>1, <2>2, <2>4, <2>6 DEF QueueInv, ItemsInv
<1>3. CASE CameraAppsNext
  <2>1. UNCHANGED app
    BY <1>3 DEF CameraAppsNext, Step, Frame, News, Viewer
  <2>2. app.name = "cam_demo_ir" => Runs(Main)' \/ pc'[Main] = Ended
    <3>1. CASE \E t \in Thread : Step(t)
      BY <1>1, <3>1, RunsOrEnded
    <3>2. CASE UNCHANGED pc
      BY <3>2 DEF QueueInv, Runs
    <3> QED BY <1>3, <3>1, <3>2 DEF CameraAppsNext, Frame, News, Viewer
  <2>3. app.name = "cam_demo_ir" /\ Runs(Main)' => ItemsInv' /\ LostInv'
    BY <1>3, StepQueues
  <2>4. ASSUME app.name # "cam_demo_ir" PROVE NoQueue'
    <3>1. NoQueue
      BY <2>4 DEF QueueInv
    <3>2. CASE \E t \in Thread : Step(t)
      BY <1>1, <2>4, <3>1, <3>2, NoQueueStep
    <3>3. CASE \/ \E c \in Camera, n \in Channel : Frame(c, n)
               \/ (\E c \in Camera : News(c)) \/ Viewer
      <4>1. UNCHANGED <<head, tail, heap, item>>
        BY <3>3 DEF Frame, News, Viewer, queueVars, locals
      <4>2. news' \in {news, news + 1}
        BY <3>3 DEF Frame, FrameReady, News, CameraNews, Viewer, halVars
      <4> QED BY <3>1, <4>1, <4>2 DEF NoQueue
    <3> QED BY <1>3, <3>2, <3>3 DEF CameraAppsNext
  <2> QED BY <2>1, <2>2, <2>3, <2>4 DEF QueueInv
<1> QED BY <1>2, <1>3 DEF Next, Camera_demo, G2d_demo, vars

LEMMA QueuesHold == CallsInv /\ QueueInv => QueueIsAList
<1> SUFFICES ASSUME CallsInv, QueueInv, pc[Main] # Ended
             PROVE  /\ QueuesAreLists(InHands)
                    /\ InHands \subseteq heap
                    /\ Cardinality(Lost) <= news
  BY DEF QueueIsAList, Lost, Main
<1>1. \A n : Items(n) = Listed(n)
  BY ItemsAreFrom DEF Listed
<1>2. CASE app.name = "cam_demo_ir"
  <2>0. Runs(Main)
    BY <1>2 DEF QueueInv
  <2>1. QueueShape /\ ListsInv /\ HandsInv /\ LostInv
    BY <1>2, <2>0 DEF QueueInv, ItemsInv
  <2>2. \A n \in Queue :
          IF tail[n] = NULL THEN head[n] = NULL ELSE tail[n] \in Listed(n) /\ next[tail[n]] = NULL
    BY <2>1, ListEnds DEF ListsInv, Listed
  <2>3. QueuesAreLists(InHands)
    BY <1>1, <2>1, <2>2 DEF QueuesAreLists, ListsInv
  <2>4. InHands \subseteq heap
    BY <2>1 DEF InHands, HandsInv
  <2>5. Cardinality(Lost) <= news
    <3>1. PICK l, k, e : l = Cardinality(Lost) /\ k = Warnings(events[0]) /\ e = Warned(ev[Main])
      OBVIOUS
    <3>2. k \in Nat
      <4>1. EventsInv
        BY <1>2, <2>0 DEF CallsInv, CallerInv, OneCaller
      <4>2. events[0] \in Seq(EventKind(0))
        BY <4>1, AppsAssumption DEF EventsInv, AppsAssumption
      <4> QED BY <3>1, <4>2, WarningsOf
    <3>3. l \in Nat /\ news \in Nat /\ e \in {0, 1} /\ l + k + e <= news
      BY <2>1, <3>1, LostIsFinite DEF LostInv, Warned, QueueShape
    <3> QED BY <3>1, <3>2, <3>3
  <2> QED BY <2>3, <2>4, <2>5
<1>3. CASE app.name # "cam_demo_ir"
  <2>1. NoQueue
    BY <1>3 DEF QueueInv
  <2>2. \A n \in Queue : head[n] = NULL /\ tail[n] = NULL /\ Listed(n) = {}
    BY <2>1, EmptyList DEF NoQueue, Listed
  <2>3. InHands = {} /\ Lost = {}
    BY <2>1 DEF InHands, Lost, NoQueue
  <2>4. QueuesAreLists(InHands)
    BY <1>1, <2>2 DEF QueuesAreLists
  <2> QED BY <2>1, <2>3, <2>4, FS_EmptySet DEF NoQueue
<1> QED BY <1>2, <1>3

(* In whatever order the threads of cam_demo_ir take their steps and with  *)
(* however many events of the camera's own, its queues stay lists of the   *)
(* allocated items that are in nobody's hands, each in its channel's queue *)
(* and the last at the tail; and no more items are lost than the camera    *)
(* had events of its own.                                                  *)
THEOREM QueuesAreRight == Spec => []QueueIsAList
<1>1. Init => CallsInv /\ QueueInv
  BY InitCalls, InitQueues DEF Init
<1>2. CallsInv /\ QueueInv /\ [Next]_vars => (CallsInv /\ QueueInv)'
  BY NextCalls, NextQueues
<1>3. CallsInv /\ QueueInv => QueueIsAList
  BY QueuesHold
<1> QED BY <1>1, <1>2, <1>3, PTL DEF Spec
=============================================================================
