---------------------------- MODULE DisplayPlink ----------------------------
(***************************************************************************)
(* examples/camera/camera_frame_display.c: the frames of a camera shown by *)
(* another process.  The sender may have as many pictures on their way as  *)
(* it has buffers; it takes a credit to send one and gets it back when the *)
(* receiver returns the buffer.  The receiver and the two directions of    *)
(* the process linker are not in src/: they keep the order.                *)
(***************************************************************************)
EXTENDS Naturals, Sequences, FiniteSets

CONSTANT NumBuffers  \* NUM_OF_BUFFERS

ASSUME PlinkAssumption == NumBuffers \in Nat \ {0}

VARIABLES
  sendid,          \* the buffer the next picture goes to
  available_bufs,  \* the credits
  exitplink,       \* the receiver has gone
  showing,         \* the buffers the receiver has or will get, in order
  answers          \* its messages the sender has not read: 1, or "exit"

plinkVars == <<sendid, available_bufs, exitplink, showing, answers>>

PlinkInit ==
  /\ sendid = 0
  /\ available_bufs = NumBuffers
  /\ exitplink = FALSE
  /\ showing = <<>>
  /\ answers = <<>>

(* The messages up to the one that says the receiver exits.                *)
Read == {i \in DOMAIN answers : \A j \in 1 .. i : answers[j] # "exit"}
Exits == exitplink \/ \E i \in DOMAIN answers : answers[i] = "exit"

(* Mutant: a picture costs nothing.                                        *)
Slip_FreeOfCharge(credits, sends) ==
  /\ sendid' = (sendid + 1) % NumBuffers
  /\ available_bufs' = credits
  /\ showing' = IF sends THEN Append(showing, sendid) ELSE showing

(* One picture, in the format the receiver takes or, without a message,    *)
(* in another: the credit is gone either way.                              *)
SendPicture(credits, sends) ==
  /\ sendid' = (sendid + 1) % NumBuffers
  /\ available_bufs' = credits - 1
  /\ showing' = IF sends THEN Append(showing, sendid) ELSE showing

(* The messages are read, then a picture is sent if there is a credit: the *)
(* dma-buf of the frame, or a copy in a buffer of the sender's, unless the *)
(* frame has another size than the one expected.  Sending may fail.        *)
display_camera_frame(format) ==
  IF exitplink THEN UNCHANGED plinkVars
  ELSE LET credits == available_bufs + Cardinality(Read)
           fits == format # "wrong_size"
       IN  /\ answers' = <<>>
           /\ IF ~Exits /\ credits > 0
              THEN \E sends \in {fits, FALSE} :
                      /\ SendPicture(credits, sends)
                      /\ exitplink' = (fits /\ ~sends)
              ELSE /\ available_bufs' = credits
                   /\ exitplink' = Exits
                   /\ UNCHANGED <<sendid, showing>>

(* The receiver is done with a picture, or leaves.                         *)
Receiver ==
  /\ ~Exits
  /\ \/ /\ showing # <<>>
        /\ showing' = Tail(showing)
        /\ answers' = Append(answers, "returned")
     \/ /\ answers' = Append(answers, "exit")
        /\ UNCHANGED showing
  /\ UNCHANGED <<sendid, available_bufs, exitplink>>

(* The picture of a buffer is not overwritten while the receiver has it.   *)
BufferNotOverwritten ==
  [][sendid' # sendid => \A i \in DOMAIN showing : showing[i] # sendid]_plinkVars
=============================================================================
