----------------------------- MODULE Ringbuffer ------------------------------
(***************************************************************************)
(* The byte queue of src/common/ringbuffer.c: a buffer used in a circle,   *)
(* with the index of the next byte to write, of the next to read, and the  *)
(* number of bytes between them.  It has no lock: a state machine of one   *)
(* thread, whose interest is in its boundaries.  The fields are uint32_t,  *)
(* which is what Word stands for.                                          *)
(***************************************************************************)
EXTENDS Integers, Sequences

CONSTANTS
  Byte,     \* the bytes
  Size,     \* fifo->size
  Word,     \* 2^32: one more than the largest value of a field
  Request   \* the values of len a caller passes

(* The indices are computed as (write + writelen) % size in 32 bits, which *)
(* is right only for sizes up to half the range.                           *)
ASSUME RingbufferAssumption ==
  /\ Size \in Nat
  /\ Word \in Nat \ {0}
  /\ 2 * Size <= Word
  /\ Request \subseteq Nat
  /\ Byte # {}

Index == 0 .. Size - 1

VARIABLES
  buffer,    \* fifo->buffer
  write,     \* fifo->write
  read,      \* fifo->read
  data_len,  \* fifo->data_len
  returned,  \* what the last call returned
  outbuf     \* the bytes the last call copied to its caller

vars == <<buffer, write, read, data_len, returned, outbuf>>

Least(a, b) == IF a < b THEN a ELSE b

ringbuffer_avail == Size - data_len
ringbuffer_is_empty == data_len = 0
ringbuffer_is_full == ringbuffer_avail = 0

(* Mutant: an index that reaches the end stays there.                      *)
Slip_AdvanceLate(i, n) == IF i + n > Size THEN i + n - Size ELSE i + n

(* The index n bytes after index i.                                        *)
Advance(i, n) == ((i + n) % Word) % Size

-----------------------------------------------------------------------------
(* Mutants: slips the definitions below could have made.                   *)

(* The whole of a request goes to one place, whatever the end of buffer.   *)
Slip_NoWrap(len) == Least(len, ringbuffer_avail)

(* The space up to the end is computed one short.                          *)
Slip_OneShort(len) ==
  LET writelen == Least(len, ringbuffer_avail)
  IN  IF write < read THEN writelen ELSE Least(writelen, Size - write - 1)

-----------------------------------------------------------------------------
(* ringbuffer_in copies a first part at write and the others at 0.         *)
FirstIn(len) ==
  LET writelen == Least(len, ringbuffer_avail)
  IN  IF write < read THEN writelen ELSE Least(writelen, Size - write)

(* ringbuffer_out likewise, from read.                                     *)
FirstOut(len) == Least(Least(len, data_len), Size - read)

ringbuffer_in(data, len) ==
  LET writelen == Least(len, ringbuffer_avail)
      first    == FirstIn(len)
  IN  /\ returned' = writelen
      /\ outbuf' = <<>>
      /\ IF ringbuffer_is_full
         THEN UNCHANGED <<buffer, write, data_len>>
         ELSE /\ buffer' = [i \in Index |->
                   IF write <= i /\ i < write + first THEN data[i - write + 1]
                   ELSE IF i < writelen - first THEN data[first + i + 1]
                   ELSE buffer[i]]
              /\ write' = Advance(write, writelen)
              /\ data_len' = data_len + writelen
      /\ UNCHANGED read

(* outbuf may be NULL: the bytes are then dropped.                         *)
ringbuffer_out(len, wanted) ==
  LET readlen == Least(len, data_len)
      first   == FirstOut(len)
  IN  /\ returned' = readlen
      /\ outbuf' = IF wanted
                   THEN [i \in 1..readlen |->
                          buffer[IF i <= first THEN read + i - 1 ELSE i - first - 1]]
                   ELSE <<>>
      /\ IF ringbuffer_is_empty
         THEN UNCHANGED <<read, data_len>>
         ELSE /\ read' = Advance(read, readlen)
              /\ data_len' = data_len - readlen
      /\ UNCHANGED <<buffer, write>>

ringbuffer_reset ==
  /\ write' = 0 /\ read' = 0 /\ data_len' = 0
  /\ UNCHANGED <<buffer, returned, outbuf>>

(* A ringbuffer_t is used after ringbuffer_reset, over memory that holds   *)
(* anything.                                                               *)
Init ==
  /\ buffer \in [Index -> Byte]
  /\ write = 0 /\ read = 0 /\ data_len = 0
  /\ returned = 0 /\ outbuf = <<>>

Next ==
  \/ \E len \in Request : \E data \in [1..len -> Byte] : ringbuffer_in(data, len)
  \/ \E len \in Request, wanted \in BOOLEAN : ringbuffer_out(len, wanted)
  \/ ringbuffer_reset

Spec == Init /\ [][Next]_vars

-----------------------------------------------------------------------------
(* The fields are in range, and the write index is data_len bytes after    *)
(* the read index: the three fields never disagree, the full and the empty *)
(* queue (whose indices are equal) included.                               *)
TypeOK ==
  /\ buffer \in [Index -> Byte]
  /\ write \in Nat /\ read \in Nat
  /\ IF Size = 0 THEN write = 0 /\ read = 0 ELSE write < Size /\ read < Size
  /\ data_len \in 0..Size
  /\ write = read + data_len \/ write = read + data_len - Size

(* No memcpy of the next call, whatever length it is given, leaves the     *)
(* buffer, and none of ringbuffer_in touches a byte not yet read.          *)
CopiesInBounds ==
  \A len \in Request :
    LET writelen == Least(len, ringbuffer_avail)
        readlen  == Least(len, data_len)
    IN  /\ ~ringbuffer_is_full =>
             /\ write + FirstIn(len) <= Size
             /\ writelen - FirstIn(len) <= read
             /\ write < read => write + FirstIn(len) <= read
        /\ ~ringbuffer_is_empty =>
             /\ read + FirstOut(len) <= Size
             /\ readlen - FirstOut(len) <= Size

(* The bytes between the two indices.                                      *)
Slot(from, i) == IF from + i - 1 < Size THEN from + i - 1 ELSE from + i - 1 - Size
Contents == [i \in 1..data_len |-> buffer[Slot(read, i)]]

Fifo == INSTANCE BoundedFifo WITH queue <- Contents

(* The ring buffer is a bounded queue: bytes leave it in the order they    *)
(* entered, none is lost, repeated or invented, across every wrap, partial *)
(* write, partial read and reset.                                          *)
ImplementsFifo == Fifo!FifoSpec
=============================================================================
