-------------------------- MODULE RingbufferProofs --------------------------
(***************************************************************************)
(* Proofs about Ringbuffer, for every size up to half the range of the     *)
(* indices, every byte and every request.                                  *)
(***************************************************************************)
EXTENDS Ringbuffer, SequenceTheorems, TLAPS

(* An index moves past the end to the front at most once, and the sum does *)
(* not overflow.                                                           *)
LEMMA ModOnce ==
  ASSUME NEW x \in Nat, NEW s \in Nat \ {0}, x < 2 * s
  PROVE  x % s = IF x < s THEN x ELSE x - s
<1>1. CASE x < s BY <1>1
<1>2. CASE x >= s
  <2>1. /\ x = s * (x \div s) + (x % s)
        /\ x % s \in 0 .. s - 1
        /\ x \div s \in Int
    OBVIOUS
  <2> DEFINE q == x \div s
  <2>2. q = 1
    <3>1. ASSUME q <= 0 PROVE FALSE
      <4>1. s * q <= 0 BY <3>1, <2>1
      <4> QED BY <4>1, <2>1, <1>2
    <3>2. ASSUME q >= 2 PROVE FALSE
      <4>1. s * q >= 2 * s BY <3>2, <2>1
      <4> QED BY <4>1, <2>1
    <3> QED BY <3>1, <3>2, <2>1
  <2> QED BY <2>1, <2>2, <1>2
<1> QED BY <1>1, <1>2


LEMMA AdvanceOnce ==
  ASSUME NEW i \in Index, NEW n \in 0..Size
  PROVE  Advance(i, n) = IF i + n < Size THEN i + n ELSE i + n - Size
<1>1. /\ i \in Nat /\ n \in Nat /\ Size \in Nat \ {0} /\ Word \in Nat \ {0} /\ 2 * Size <= Word
      /\ i + n \in Nat /\ i + n < 2 * Size /\ i + n < Word /\ i + n < 2 * Word
  BY RingbufferAssumption DEF RingbufferAssumption, Index
<1>2. (i + n) % Word = i + n
  <2>1. \A x \in Nat : x < Word => x % Word = x
    BY <1>1
  <2> QED BY <2>1, <1>1
<1>3. (i + n) % Size = IF i + n < Size THEN i + n ELSE i + n - Size
  <2>1. \A x \in Nat : x < 2 * Size => x % Size = IF x < Size THEN x ELSE x - Size
    BY <1>1, ModOnce
  <2> QED BY <2>1, <1>1
<1> QED BY <1>2, <1>3 DEF Advance

-----------------------------------------------------------------------------
(* The indices and the length agree.                                       *)

LEMMA InitTypeOK == Init => TypeOK
BY RingbufferAssumption DEF RingbufferAssumption, Init, TypeOK, Index

LEMMA InTypeOK ==
  ASSUME TypeOK, NEW len \in Request, NEW data \in [1..len -> Byte],
         ringbuffer_in(data, len)
  PROVE  TypeOK'
<1>0. Size \in Nat /\ len \in Nat
  BY RingbufferAssumption DEF RingbufferAssumption
<1> DEFINE w == Least(len, ringbuffer_avail)
<1>1. CASE ringbuffer_is_full
  BY <1>1 DEF ringbuffer_in, TypeOK
<1>2. CASE ~ringbuffer_is_full
  <2>1. /\ Size # 0 /\ data_len \in 0..Size /\ write \in Index /\ read \in Index
        /\ ringbuffer_avail \in 1..Size
    BY <1>0, <1>2 DEF TypeOK, Index, ringbuffer_is_full, ringbuffer_avail
  <2>2. w \in 0..Size /\ w <= len /\ w <= ringbuffer_avail
    BY <2>1, <1>0 DEF Least
  <2>3. FirstIn(len) \in 0..w /\ FirstIn(len) \in Nat
    BY <2>1, <2>2, <1>0 DEF FirstIn, Index, Least
  <2>4. write' = IF write + w < Size THEN write + w ELSE write + w - Size
    BY <2>1, <2>2, AdvanceOnce, <1>2 DEF ringbuffer_in
  <2>5. buffer' \in [Index -> Byte]
    <3>1. w - FirstIn(len) \in Nat /\ w - FirstIn(len) <= len - FirstIn(len)
      BY <2>2, <2>3, <1>0
    <3>2. ASSUME NEW i \in Index, write <= i, i < write + FirstIn(len)
          PROVE  data[i - write + 1] \in Byte
      BY <3>2, <2>1, <2>2, <2>3, <1>0 DEF Index
    <3>3. ASSUME NEW i \in Index, i < w - FirstIn(len)
          PROVE  data[FirstIn(len) + i + 1] \in Byte
      BY <3>3, <3>1, <2>2, <2>3, <1>0 DEF Index
    <3>4. buffer' = [i \in Index |->
             IF write <= i /\ i < write + FirstIn(len) THEN data[i - write + 1]
             ELSE IF i < w - FirstIn(len) THEN data[FirstIn(len) + i + 1]
             ELSE buffer[i]]
      BY <1>2 DEF ringbuffer_in
    <3> QED BY <3>2, <3>3, <3>4 DEF TypeOK
  <2>6. data_len' = data_len + w /\ read' = read
    BY <1>2 DEF ringbuffer_in
  <2>7. data_len' \in 0..Size /\ write' \in Index
    BY <2>1, <2>2, <2>4, <2>6, <1>0 DEF Index, ringbuffer_avail
  <2>8. write' = read' + data_len' \/ write' = read' + data_len' - Size
    <3>1. write = read + data_len \/ write = read + data_len - Size
      BY DEF TypeOK
    <3>2. w <= Size - data_len
      BY <2>2 DEF ringbuffer_avail
    <3>3. /\ write \in Int /\ read \in Int /\ data_len \in Int /\ w \in Int
          /\ write >= 0 /\ write < Size /\ read >= 0 /\ read < Size
      BY <2>1, <2>2, <1>0 DEF Index
    <3> HIDE DEF w
    <3> QED BY <3>1, <3>2, <3>3, <2>4, <2>6, <1>0
  <2> QED BY <2>1, <2>5, <2>6, <2>7, <2>8, <1>0 DEF TypeOK, Index
<1> QED BY <1>1, <1>2

LEMMA OutTypeOK ==
  ASSUME TypeOK, NEW len \in Request, NEW wanted \in BOOLEAN,
         ringbuffer_out(len, wanted)
  PROVE  TypeOK'
<1>0. Size \in Nat /\ len \in Nat
  BY RingbufferAssumption DEF RingbufferAssumption
<1> DEFINE r == Least(len, data_len)
<1>1. CASE ringbuffer_is_empty
  BY <1>1 DEF ringbuffer_out, TypeOK
<1>2. CASE ~ringbuffer_is_empty
  <2>1. Size # 0 /\ data_len \in 1..Size /\ write \in Index /\ read \in Index
    BY <1>0, <1>2 DEF TypeOK, Index, ringbuffer_is_empty
  <2>2. r \in 0..Size /\ r <= data_len
    BY <2>1, <1>0 DEF Least
  <2>3. read' = IF read + r < Size THEN read + r ELSE read + r - Size
    BY <2>1, <2>2, AdvanceOnce, <1>2 DEF ringbuffer_out
  <2>4. data_len' = data_len - r /\ write' = write /\ buffer' = buffer
    BY <1>2 DEF ringbuffer_out
  <2>5. data_len' \in 0..Size /\ read' \in Index
    BY <2>1, <2>2, <2>3, <2>4, <1>0 DEF Index
  <2>6. write' = read' + data_len' \/ write' = read' + data_len' - Size
    <3>1. write = read + data_len \/ write = read + data_len - Size
      BY DEF TypeOK
    <3>2. /\ write \in Int /\ read \in Int /\ data_len \in Int /\ r \in Int
          /\ write >= 0 /\ write < Size /\ read >= 0 /\ read < Size
      BY <2>1, <2>2, <1>0 DEF Index
    <3> HIDE DEF r
    <3> QED BY <3>1, <3>2, <2>2, <2>3, <2>4, <1>0
  <2> QED BY <2>1, <2>4, <2>5, <2>6, <1>0 DEF TypeOK, Index
<1> QED BY <1>1, <1>2

LEMMA NextTypeOK == TypeOK /\ [Next]_vars => TypeOK'
<1> SUFFICES ASSUME TypeOK, [Next]_vars PROVE TypeOK'
  OBVIOUS
<1>1. ASSUME NEW len \in Request, NEW data \in [1..len -> Byte],
             ringbuffer_in(data, len)
      PROVE TypeOK'
  BY <1>1, InTypeOK
<1>2. ASSUME NEW len \in Request, NEW wanted \in BOOLEAN,
             ringbuffer_out(len, wanted)
      PROVE TypeOK'
  BY <1>2, OutTypeOK
<1>3. CASE ringbuffer_reset
  BY <1>3, RingbufferAssumption
  DEF RingbufferAssumption, ringbuffer_reset, TypeOK, Index
<1>4. CASE UNCHANGED vars
  BY <1>4 DEF vars, TypeOK
<1> QED BY <1>1, <1>2, <1>3, <1>4 DEF Next

(* The three fields of a ring buffer never disagree, for any size.         *)
THEOREM TypeCorrect == Spec => []TypeOK
BY InitTypeOK, NextTypeOK, PTL DEF Spec

LEMMA TypeBounds == TypeOK => CopiesInBounds
<1> SUFFICES ASSUME TypeOK, NEW len \in Request
    PROVE /\ ~ringbuffer_is_full =>
               /\ write + FirstIn(len) <= Size
               /\ Least(len, ringbuffer_avail) - FirstIn(len) <= read
               /\ write < read => write + FirstIn(len) <= read
          /\ ~ringbuffer_is_empty =>
               /\ read + FirstOut(len) <= Size
               /\ Least(len, data_len) - FirstOut(len) <= Size
  BY DEF CopiesInBounds
<1>0. Size \in Nat /\ len \in Nat
  BY RingbufferAssumption DEF RingbufferAssumption
<1>1. ~ringbuffer_is_full =>
        /\ write + FirstIn(len) <= Size
        /\ Least(len, ringbuffer_avail) - FirstIn(len) <= read
        /\ write < read => write + FirstIn(len) <= read
  BY <1>0 DEF TypeOK, FirstIn, Least, ringbuffer_avail, ringbuffer_is_full
<1>2. ~ringbuffer_is_empty =>
        /\ read + FirstOut(len) <= Size
        /\ Least(len, data_len) - FirstOut(len) <= Size
  BY <1>0 DEF TypeOK, FirstOut, Least, ringbuffer_is_empty
<1> QED BY <1>1, <1>2

(* No copy leaves the buffer or touches an unread byte, for any size and   *)
(* any request.                                                            *)
THEOREM InBounds == Spec => []CopiesInBounds
BY TypeCorrect, TypeBounds, PTL

-----------------------------------------------------------------------------
(* The refinement of BoundedFifo.                                          *)

LEMMA SlotRange ==
  ASSUME NEW from \in Nat, NEW n \in 0..Size, NEW k \in 1..n,
         Size # 0 => from < Size
  PROVE  Slot(from, k) \in Index
<1>1. Size \in Nat /\ n \in Nat /\ k \in Nat /\ 1 <= k /\ k <= Size
  BY RingbufferAssumption DEF RingbufferAssumption
<1> QED BY <1>1 DEF Slot, Index

LEMMA SlotInIndex ==
  ASSUME TypeOK, NEW k \in 1..data_len
  PROVE  Slot(read, k) \in Index
BY SlotRange DEF TypeOK

LEMMA ContentsIsSeq ==
  ASSUME TypeOK
  PROVE  /\ Contents \in Seq(Byte)
         /\ Len(Contents) = data_len
         /\ \A k \in 1..data_len : Contents[k] = buffer[Slot(read, k)]
<1>1. \A k \in 1..data_len : buffer[Slot(read, k)] \in Byte
  BY SlotInIndex DEF TypeOK
<1>2. data_len \in Nat
  BY RingbufferAssumption DEF RingbufferAssumption, TypeOK
<1>3. Contents \in [1..data_len -> Byte]
  BY <1>1 DEF Contents
<1>4. Contents \in Seq(Byte)
  BY <1>2, <1>3, SeqDef
<1>5. Len(Contents) = data_len
  BY <1>2, <1>3, <1>4, LenProperties
<1> QED BY <1>4, <1>5 DEF Contents

(* The same in the next state.                                             *)
LEMMA ContentsIsSeqNext ==
  ASSUME TypeOK'
  PROVE  /\ Contents' \in Seq(Byte)
         /\ Len(Contents') = data_len'
         /\ \A k \in 1..data_len' : Contents'[k] = buffer'[Slot(read', k)]
<1>1. \A k \in 1..data_len' : Slot(read', k) \in Index
  <2>1. /\ Size \in Nat /\ data_len' \in 0..Size /\ read' \in Nat
        /\ Size # 0 => read' < Size
    BY RingbufferAssumption DEF RingbufferAssumption, TypeOK
  <2> QED BY <2>1, SlotRange
<1>2. \A k \in 1..data_len' : buffer'[Slot(read', k)] \in Byte
  BY <1>1 DEF TypeOK
<1>3. data_len' \in Nat
  BY RingbufferAssumption DEF RingbufferAssumption, TypeOK
<1>4. Contents' \in [1..data_len' -> Byte]
  BY <1>2 DEF Contents
<1>5. Contents' \in Seq(Byte)
  BY <1>3, <1>4, SeqDef
<1>6. Len(Contents') = data_len'
  BY <1>3, <1>4, <1>5, LenProperties
<1> QED BY <1>5, <1>6 DEF Contents

LEMMA InitFifo == Init => Fifo!FifoInit
<1> SUFFICES ASSUME Init PROVE Fifo!FifoInit
  OBVIOUS
<1>1. TypeOK /\ data_len = 0
  BY InitTypeOK DEF Init
<1>2. Contents = <<>>
  BY <1>1, ContentsIsSeq, EmptySeq
<1> QED BY <1>2 DEF Fifo!FifoInit, Init

LEMMA InFifo ==
  ASSUME TypeOK, NEW len \in Request, NEW data \in [1..len -> Byte],
         ringbuffer_in(data, len)
  PROVE  Fifo!Put(data, len)
<1>0. /\ Size \in Nat /\ len \in Nat /\ data_len \in 0..Size
      /\ write \in Nat /\ read \in Nat
  BY RingbufferAssumption DEF RingbufferAssumption, TypeOK
<1> DEFINE w == Least(len, ringbuffer_avail)
           f == FirstIn(len)
<1>1. w \in Nat /\ w <= len /\ w <= Size - data_len
  BY <1>0 DEF Least, ringbuffer_avail
<1>2. Fifo!Least(len, Size - Len(Contents)) = w
  BY ContentsIsSeq DEF Fifo!Least, Least, ringbuffer_avail
<1>3. returned' = w /\ outbuf' = <<>>
  BY DEF ringbuffer_in
<1>4. Contents' = Contents \o SubSeq(data, 1, w)
  <2>0. TypeOK' /\ data_len' = data_len + w /\ read' = read
    <3>1. CASE ringbuffer_is_full
      BY <3>1, <1>0, <1>1, InTypeOK DEF ringbuffer_in, ringbuffer_is_full,
         ringbuffer_avail
    <3>2. CASE ~ringbuffer_is_full
      BY <3>2, InTypeOK DEF ringbuffer_in
    <3> QED BY <3>1, <3>2
  <2>1. /\ SubSeq(data, 1, w) \in Seq(Byte) /\ Len(SubSeq(data, 1, w)) = w
        /\ \A k \in 1..w : SubSeq(data, 1, w)[k] = data[k]
    <3>1. \A k \in 1..w : data[k] \in Byte
      BY <1>0, <1>1
    <3> QED BY <3>1, <1>1, SubSeqProperties
  <2> DEFINE t == Contents \o SubSeq(data, 1, w)
  <2>2. /\ t \in Seq(Byte) /\ Len(t) = data_len + w
        /\ \A k \in 1 .. data_len + w :
              t[k] = IF k <= data_len THEN buffer[Slot(read, k)] ELSE data[k - data_len]
    <3>1. /\ t \in Seq(Byte) /\ Len(t) = data_len + w
          /\ \A k \in 1 .. data_len + w :
                t[k] = IF k <= data_len THEN Contents[k]
                       ELSE SubSeq(data, 1, w)[k - data_len]
      BY <2>1, ContentsIsSeq, ConcatProperties
    <3>2. \A k \in 1 .. data_len + w :
            IF k <= data_len THEN Contents[k] = buffer[Slot(read, k)]
            ELSE SubSeq(data, 1, w)[k - data_len] = data[k - data_len]
      BY <2>1, <1>0, <1>1, ContentsIsSeq
    <3> QED BY <3>1, <3>2
  <2>3. ASSUME NEW k \in 1 .. data_len + w
        PROVE  buffer'[Slot(read', k)] =
                 IF k <= data_len THEN buffer[Slot(read, k)] ELSE data[k - data_len]
    <3>0. Slot(read', k) = Slot(read, k)
      BY <2>0 DEF Slot
    <3>1. CASE ringbuffer_is_full
      <4>1. w = 0
        BY <3>1, <1>0, <1>1 DEF ringbuffer_is_full, ringbuffer_avail
      <4> QED BY <3>0, <3>1, <4>1, <1>0 DEF ringbuffer_in
    <3>2. CASE ~ringbuffer_is_full
      <4>1. /\ write < Size /\ read < Size
            /\ write = read + data_len \/ write = read + data_len - Size
            /\ data_len < Size
        BY <3>2, <1>0
        DEF TypeOK, ringbuffer_is_full, ringbuffer_avail
      <4>2. f = IF write < read THEN w
                ELSE IF w < Size - write THEN w ELSE Size - write
        BY DEF FirstIn, Least
      <4>3. Slot(read, k) = IF read + k - 1 < Size THEN read + k - 1
                      ELSE read + k - 1 - Size
        BY DEF Slot
      <4>4. buffer' = [i \in Index |->
               IF write <= i /\ i < write + f THEN data[i - write + 1]
               ELSE IF i < w - f THEN data[f + i + 1]
               ELSE buffer[i]]
        BY <3>2 DEF ringbuffer_in
      <4> HIDE DEF w, f
      <4>5. k \in Nat /\ k >= 1 /\ k <= data_len + w /\ data_len \in Nat
        BY <1>0, <1>1
      <4>6. Slot(read, k) \in Index
        BY <1>0, <1>1, <4>1, <4>3, <4>5 DEF Index
      <4>7. CASE k <= data_len
        <5>1. /\ ~(write <= Slot(read, k) /\ Slot(read, k) < write + f)
              /\ ~(Slot(read, k) < w - f)
          BY <4>7, <1>0, <1>1, <4>1, <4>2, <4>3, <4>5
        <5> QED BY <5>1, <3>0, <4>4, <4>6, <4>7
      <4>8. CASE k > data_len
        <5>1. CASE k - data_len <= f
          <6>1. Slot(read, k) = write + (k - data_len) - 1
            BY <5>1, <4>8, <1>0, <1>1, <4>1, <4>2, <4>3, <4>5
          <6>2. /\ write <= Slot(read, k) /\ Slot(read, k) < write + f
                /\ Slot(read, k) - write + 1 = k - data_len
            BY <6>1, <5>1, <4>8, <1>0, <1>1, <4>2, <4>5
          <6> QED BY <6>2, <3>0, <4>4, <4>6, <4>8, <4>5, <1>0
        <5>2. CASE k - data_len > f
          <6>1. Slot(read, k) = k - data_len - f - 1 /\ f \in Nat
            BY <5>2, <4>8, <1>0, <1>1, <4>1, <4>2, <4>3, <4>5
          <6>2. /\ ~(write <= Slot(read, k) /\ Slot(read, k) < write + f)
                /\ Slot(read, k) < w - f
                /\ f + Slot(read, k) + 1 = k - data_len
            BY <6>1, <5>2, <4>8, <1>0, <1>1, <4>1, <4>2, <4>5
          <6> QED BY <6>2, <3>0, <4>4, <4>6, <4>8, <4>5, <1>0
        <5> QED
          <6>1. f \in Int BY <4>2, <1>0, <1>1
          <6> QED BY <5>1, <5>2, <6>1, <4>5
      <4> QED BY <4>7, <4>8, <4>5, <1>0
    <3> QED BY <3>1, <3>2
  <2> HIDE DEF t
  <2>4. \A k \in 1 .. Len(t) : Contents'[k] = t[k]
    BY <2>0, <2>2, <2>3, ContentsIsSeqNext
  <2>5. Contents' = t
    BY <2>0, <2>2, <2>4, ContentsIsSeqNext, SeqEqual
  <2> QED BY <2>5 DEF t
<1> HIDE DEF w, f
<1> QED BY <1>2, <1>3, <1>4 DEF Fifo!Put

LEMMA OutFifo ==
  ASSUME TypeOK, NEW len \in Request, NEW wanted \in BOOLEAN,
         ringbuffer_out(len, wanted)
  PROVE  Fifo!Take(len, wanted)
<1>0. /\ Size \in Nat /\ len \in Nat /\ data_len \in Nat
      /\ write \in Nat /\ read \in Nat
  BY RingbufferAssumption DEF RingbufferAssumption, TypeOK
<1> DEFINE r == Least(len, data_len)
           f == FirstOut(len)
<1>1. r \in Nat /\ r <= len /\ r <= data_len
  BY <1>0 DEF Least
<1>2. Fifo!Least(len, Len(Contents)) = r
  BY ContentsIsSeq DEF Fifo!Least, Least
<1>3. returned' = r
  BY DEF ringbuffer_out
<1>4. /\ SubSeq(Contents, 1, r) \in Seq(Byte) /\ Len(SubSeq(Contents, 1, r)) = r
      /\ \A k \in 1..r : SubSeq(Contents, 1, r)[k] = Contents[k]
      /\ SubSeq(Contents, r + 1, data_len) \in Seq(Byte)
      /\ Len(SubSeq(Contents, r + 1, data_len)) = data_len - r
      /\ \A k \in 1 .. data_len - r :
           SubSeq(Contents, r + 1, data_len)[k] = Contents[k + r]
  <2>1. \A k \in 1..data_len : Contents[k] \in Byte
    BY ContentsIsSeq, SlotInIndex DEF TypeOK
  <2> HIDE DEF r
  <2>2. /\ SubSeq(Contents, 1, r) \in Seq(Byte) /\ Len(SubSeq(Contents, 1, r)) = r
        /\ \A k \in 1..r : SubSeq(Contents, 1, r)[k] = Contents[k]
    <3>1. \A k \in 1..r : Contents[k] \in Byte
      BY <2>1, <1>0, <1>1
    <3> QED BY <3>1, <1>1, SubSeqProperties
  <2>3. /\ SubSeq(Contents, r + 1, data_len) \in Seq(Byte)
        /\ Len(SubSeq(Contents, r + 1, data_len)) = data_len - r
        /\ \A k \in 1 .. data_len - r :
             SubSeq(Contents, r + 1, data_len)[k] = Contents[k + r]
    <3>1. \A k \in r + 1 .. data_len : Contents[k] \in Byte
      BY <2>1, <1>0, <1>1
    <3> QED BY <3>1, <1>0, <1>1, SubSeqProperties
  <2> QED BY <2>2, <2>3
<1>5. outbuf' = IF wanted THEN SubSeq(Contents, 1, r) ELSE <<>>
  <2>1. CASE ~wanted
    BY <2>1 DEF ringbuffer_out
  <2>2. CASE wanted
    <3>1. outbuf' = [i \in 1..r |->
              buffer[IF i <= f THEN read + i - 1 ELSE i - f - 1]]
      BY <2>2 DEF ringbuffer_out
    <3>2. f = IF r < Size - read THEN r ELSE Size - read
      BY DEF FirstOut, Least
    <3>3. data_len # 0 => read < Size
      BY <1>0, RingbufferAssumption DEF TypeOK, RingbufferAssumption
    <3> HIDE DEF r, f
    <3>4. ASSUME NEW k \in 1..r
          PROVE  (IF k <= f THEN read + k - 1 ELSE k - f - 1) = Slot(read, k)
      BY <1>0, <1>1, <3>2, <3>3 DEF Slot
    <3>5. \A k \in 1..r : outbuf'[k] = buffer[Slot(read, k)]
      BY <3>1, <3>4
    <3>6. \A k \in 1..r : Contents[k] = buffer[Slot(read, k)] /\ buffer[Slot(read, k)] \in Byte
      BY <1>0, <1>1, ContentsIsSeq, SlotInIndex DEF TypeOK
    <3>7. outbuf' \in [1..r -> Byte]
      BY <3>1, <3>4, <3>6
    <3>8. outbuf' \in Seq(Byte) /\ Len(outbuf') = r
      BY <3>7, <1>1, SeqDef, LenProperties
    <3>9. \A k \in 1 .. Len(outbuf') : outbuf'[k] = SubSeq(Contents, 1, r)[k]
      BY <3>5, <3>6, <3>8, <1>4
    <3> QED BY <2>2, <3>8, <3>9, <1>4, SeqEqual
  <2> QED BY <2>1, <2>2
<1>6. Contents' = SubSeq(Contents, r + 1, data_len)
  <2>0. TypeOK' /\ data_len' = data_len - r /\ buffer' = buffer
    <3>1. CASE ringbuffer_is_empty
      <4>1. data_len = 0 /\ r = 0
        BY <3>1, <1>0, <1>1 DEF ringbuffer_is_empty
      <4>2. data_len' = data_len /\ buffer' = buffer
        BY <3>1 DEF ringbuffer_out
      <4> HIDE DEF r
      <4> QED BY <4>1, <4>2, OutTypeOK
    <3>2. CASE ~ringbuffer_is_empty
      BY <3>2, OutTypeOK DEF ringbuffer_out
    <3> QED BY <3>1, <3>2
  <2>1. ASSUME NEW k \in 1 .. data_len - r
        PROVE  Slot(read', k) = Slot(read, k + r)
    <3>1. ~ringbuffer_is_empty
      BY <1>0, <1>1 DEF ringbuffer_is_empty
    <3>2. read \in Index /\ r \in 0..Size /\ data_len <= Size
      BY <3>1, <1>0, <1>1, RingbufferAssumption
      DEF TypeOK, Index, ringbuffer_is_empty, RingbufferAssumption
    <3>3. read' = IF read + r < Size THEN read + r ELSE read + r - Size
      BY <3>1, <3>2, AdvanceOnce DEF ringbuffer_out
    <3> HIDE DEF r
    <3> QED BY <1>0, <1>1, <3>2, <3>3 DEF Slot, Index
  <2> HIDE DEF r
  <2>2. ASSUME NEW k \in 1 .. data_len - r
        PROVE  Contents'[k] = SubSeq(Contents, r + 1, data_len)[k]
    <3>1. k + r \in 1..data_len
      BY <1>0, <1>1
    <3>2. Contents[k + r] = buffer[Slot(read, k + r)]
      BY <3>1, ContentsIsSeq
    <3>3. Contents'[k] = buffer'[Slot(read', k)]
      BY <2>0, ContentsIsSeqNext
    <3> QED BY <3>2, <3>3, <2>0, <2>1, <1>4
  <2> QED BY <2>0, <2>2, <1>4, ContentsIsSeqNext, SeqEqual
<1>7. Len(Contents) = data_len
  BY ContentsIsSeq
<1> HIDE DEF r, f
<1> QED BY <1>2, <1>3, <1>5, <1>6, <1>7 DEF Fifo!Take

LEMMA ResetFifo ==
  ASSUME TypeOK, ringbuffer_reset
  PROVE  Fifo!Clear
<1>1. TypeOK' /\ data_len' = 0
  BY RingbufferAssumption
  DEF RingbufferAssumption, ringbuffer_reset, TypeOK, Index
<1>2. Contents' = <<>>
  BY <1>1, ContentsIsSeqNext, EmptySeq
<1> QED BY <1>2 DEF Fifo!Clear, ringbuffer_reset

LEMMA NextFifo ==
  ASSUME TypeOK, [Next]_vars
  PROVE  [Fifo!FifoNext]_(Fifo!fifoVars)
<1>1. ASSUME NEW len \in Request, NEW data \in [1..len -> Byte],
             ringbuffer_in(data, len)
      PROVE  Fifo!FifoNext
  BY <1>1, InFifo DEF Fifo!FifoNext
<1>2. ASSUME NEW len \in Request, NEW wanted \in BOOLEAN,
             ringbuffer_out(len, wanted)
      PROVE  Fifo!FifoNext
  BY <1>2, OutFifo DEF Fifo!FifoNext
<1>3. CASE ringbuffer_reset
  BY <1>3, ResetFifo DEF Fifo!FifoNext
<1>4. CASE UNCHANGED vars
  BY <1>4 DEF vars, Fifo!fifoVars, Contents, Slot
<1> QED BY <1>1, <1>2, <1>3, <1>4 DEF Next

(* A ring buffer of any size is a bounded queue, through every wrap.       *)
THEOREM Refinement == Spec => ImplementsFifo
BY InitTypeOK, NextTypeOK, InitFifo, NextFifo, PTL
DEF Spec, ImplementsFifo, Fifo!FifoSpec
=============================================================================
