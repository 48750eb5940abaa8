----------------------------- MODULE BoundedFifo -----------------------------
(***************************************************************************)
(* What ringbuffer.h promises: a queue of at most Size bytes.  "This       *)
(* function copies at most @len bytes from the @in into the FIFO depending *)
(* on the free space, and returns the number of bytes copied"              *)
(* (ringbuffer.c:86), and likewise for taking bytes out.                   *)
(***************************************************************************)
EXTENDS Integers, Sequences

CONSTANTS
  Byte,     \* the bytes a queue can hold
  Size,     \* how many it can hold
  Request   \* the lengths a caller may pass

VARIABLES
  queue,     \* the bytes in the queue, the oldest first
  returned,  \* what the last call returned
  outbuf     \* the bytes the last call copied to its caller

fifoVars == <<queue, returned, outbuf>>

Least(a, b) == IF a < b THEN a ELSE b

(* Of len bytes of data, as many as there is room for join the queue.      *)
Put(data, len) ==
  LET taken == Least(len, Size - Len(queue))
  IN  /\ queue' = queue \o SubSeq(data, 1, taken)
      /\ returned' = taken
      /\ outbuf' = <<>>

(* At most len bytes leave it, to the caller if it wants them.             *)
Take(len, wanted) ==
  LET taken == Least(len, Len(queue))
  IN  /\ queue' = SubSeq(queue, taken + 1, Len(queue))
      /\ returned' = taken
      /\ outbuf' = IF wanted THEN SubSeq(queue, 1, taken) ELSE <<>>

Clear == queue' = <<>> /\ UNCHANGED <<returned, outbuf>>

FifoInit == queue = <<>> /\ returned = 0 /\ outbuf = <<>>

FifoNext ==
  \/ \E len \in Request : \E data \in [1..len -> Byte] : Put(data, len)
  \/ \E len \in Request, wanted \in BOOLEAN : Take(len, wanted)
  \/ Clear

FifoSpec == FifoInit /\ [][FifoNext]_fifoVars
=============================================================================
