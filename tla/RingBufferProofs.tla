-------------------------- MODULE RingBufferProofs --------------------------
(***************************************************************************)
(* What the operations of ring_buffer.c do to the sequence of unread       *)
(* elements, for every size that fits the uint8_t and every buffer the     *)
(* operations can produce.                                                 *)
(***************************************************************************)
EXTENDS RingBuffer, TLAPS

(* The fields of a buffer. *)
LEMMA Fields ==
  ASSUME NEW Data, NEW size \in 2 .. 255, NEW rb \in RingBuffers(Data, size)
  PROVE  /\ rb.head_index \in 0 .. size - 1
         /\ rb.tail_index \in 0 .. size - 1
         /\ rb.size = size
         /\ rb.buffer \in [0 .. size - 1 -> Data]
BY DEF RingBuffers

(* Its head moved on: the uint8_t does not overflow, the index stays in range. *)
LEMMA HeadAfter ==
  ASSUME NEW Data, NEW size \in 2 .. 255, NEW rb \in RingBuffers(Data, size)
  PROVE  /\ IndexAfter(rb, rb.head_index) \in 0 .. size - 1
         /\ rb.head_index + 1 = size => IndexAfter(rb, rb.head_index) = 0
         /\ rb.head_index + 1 # size =>
              IndexAfter(rb, rb.head_index) = rb.head_index + 1
<1>1. (rb.head_index + 1) % UINT8 = rb.head_index + 1
  BY DEF UINT8, RingBuffers
<1> QED
  BY <1>1 DEF IndexAfter, RingBuffers

(* Its tail moved on. *)
LEMMA TailAfter ==
  ASSUME NEW Data, NEW size \in 2 .. 255, NEW rb \in RingBuffers(Data, size)
  PROVE  /\ IndexAfter(rb, rb.tail_index) \in 0 .. size - 1
         /\ rb.tail_index + 1 = size => IndexAfter(rb, rb.tail_index) = 0
         /\ rb.tail_index + 1 # size =>
              IndexAfter(rb, rb.tail_index) = rb.tail_index + 1
<1>1. (rb.tail_index + 1) % UINT8 = rb.tail_index + 1
  BY DEF UINT8, RingBuffers
<1> QED
  BY <1>1 DEF IndexAfter, RingBuffers

(* ring_buffer_put leaves a buffer of the same size, with indices in range. *)
LEMMA PutType ==
  ASSUME NEW Data, NEW size \in 2 .. 255, NEW rb \in RingBuffers(Data, size),
         NEW d \in Data
  PROVE  ring_buffer_put(rb, d) \in RingBuffers(Data, size)
<1>1. IndexAfter(rb, rb.head_index) \in 0 .. size - 1
  BY HeadAfter, Zenon
<1> QED
  BY <1>1 DEF ring_buffer_put, RingBuffers

(* So does ring_buffer_get. *)
LEMMA GetType ==
  ASSUME NEW Data, NEW size \in 2 .. 255, NEW rb \in RingBuffers(Data, size)
  PROVE  ring_buffer_get(rb) \in RingBuffers(Data, size)
<1>1. IndexAfter(rb, rb.tail_index) \in 0 .. size - 1
  BY TailAfter, Zenon
<1> QED
  BY <1>1 DEF ring_buffer_get, RingBuffers

(* At most size - 1 elements are unread. *)
LEMMA CountInRange ==
  ASSUME NEW Data, NEW size \in 2 .. 255, NEW rb \in RingBuffers(Data, size)
  PROVE  Count(rb) \in 0 .. size - 1
BY DEF Count, RingBuffers

(* Every unread element is in a slot. *)
LEMMA ElementType ==
  ASSUME NEW Data, NEW size \in 2 .. 255, NEW rb \in RingBuffers(Data, size)
  PROVE  \A k \in 1 .. Count(rb) : Element(rb, k) \in Data
<1>1. Count(rb) \in 0 .. size - 1
  BY CountInRange, Zenon
<1>2. ASSUME NEW k \in 1 .. Count(rb) PROVE Element(rb, k) \in Data
  <2>1. SlotOf(rb, k) \in 0 .. size - 1
    BY <1>1 DEF SlotOf, RingBuffers
  <2> QED
    BY <2>1 DEF Element, RingBuffers
<1> QED
  BY <1>2

(* ring_buffer_empty answers whether nothing is unread. *)
LEMMA EmptyIsCountZero ==
  ASSUME NEW Data, NEW size \in 2 .. 255, NEW rb \in RingBuffers(Data, size)
  PROVE  ring_buffer_empty(rb) <=> Count(rb) = 0
BY DEF ring_buffer_empty, Count, RingBuffers

(* ring_buffer_full answers whether size - 1 elements are unread: one slot *)
(* is never used, which is what tells full from empty.                     *)
LEMMA FullIsCountMax ==
  ASSUME NEW Data, NEW size \in 2 .. 255, NEW rb \in RingBuffers(Data, size)
  PROVE  ring_buffer_full(rb) <=> Count(rb) = size - 1
<1>1. /\ rb.head_index + 1 = size => IndexAfter(rb, rb.head_index) = 0
      /\ rb.head_index + 1 # size =>
           IndexAfter(rb, rb.head_index) = rb.head_index + 1
  BY HeadAfter, Zenon
<1> QED
  BY <1>1 DEF ring_buffer_full, Count, RingBuffers

(* ring_buffer_peek returns the oldest unread element. *)
LEMMA PeekIsFirst ==
  ASSUME NEW Data, NEW size \in 2 .. 255, NEW rb \in RingBuffers(Data, size)
  PROVE  ring_buffer_peek(rb) = Element(rb, 1)
BY DEF ring_buffer_peek, Element, SlotOf, RingBuffers

(* On a buffer that is not full, ring_buffer_put moves the head, not onto the *)
(* tail.                                                                      *)
LEMMA PutHead ==
  ASSUME NEW Data, NEW size \in 2 .. 255, NEW rb \in RingBuffers(Data, size),
         ~ring_buffer_full(rb)
  PROVE  /\ rb.head_index + 1 = size =>
              IndexAfter(rb, rb.head_index) = 0 /\ rb.tail_index # 0
         /\ rb.head_index + 1 # size =>
              /\ IndexAfter(rb, rb.head_index) = rb.head_index + 1
              /\ rb.tail_index # rb.head_index + 1
<1>1. /\ rb.head_index + 1 = size => IndexAfter(rb, rb.head_index) = 0
      /\ rb.head_index + 1 # size =>
           IndexAfter(rb, rb.head_index) = rb.head_index + 1
  BY HeadAfter, Zenon
<1> QED
  BY <1>1 DEF ring_buffer_full, RingBuffers

(* So the buffer has one element more, the new one, ...                    *)
LEMMA PutAppends ==
  ASSUME NEW Data, NEW size \in 2 .. 255, NEW rb \in RingBuffers(Data, size),
         NEW d \in Data,
         ~ring_buffer_full(rb)
  PROVE  /\ Count(ring_buffer_put(rb, d)) = Count(rb) + 1
         /\ Element(ring_buffer_put(rb, d), Count(rb) + 1) = d
<1>1. PICK after \in RingBuffers(Data, size) : after = ring_buffer_put(rb, d)
  BY PutType, Zenon
<1>2. /\ after.head_index = IndexAfter(rb, rb.head_index)
      /\ after.tail_index = rb.tail_index
      /\ after.buffer = [rb.buffer EXCEPT ![rb.head_index] = d]
  BY <1>1 DEF ring_buffer_put, RingBuffers
<1>3. /\ rb.head_index + 1 = size =>
           IndexAfter(rb, rb.head_index) = 0 /\ rb.tail_index # 0
      /\ rb.head_index + 1 # size =>
           /\ IndexAfter(rb, rb.head_index) = rb.head_index + 1
           /\ rb.tail_index # rb.head_index + 1
  BY PutHead, Zenon
<1>4. Count(after) = Count(rb) + 1
  BY <1>2, <1>3 DEF Count, RingBuffers
<1>5. Element(after, Count(rb) + 1) = d
  <2>1. SlotOf(after, Count(rb) + 1) = rb.head_index
    BY <1>2 DEF SlotOf, Count, RingBuffers
  <2> QED
    BY <1>2, <2>1 DEF Element, RingBuffers
<1> QED
  BY <1>1, <1>4, <1>5

(* ... and the elements it had are where they were.                        *)
LEMMA PutKeeps ==
  ASSUME NEW Data, NEW size \in 2 .. 255, NEW rb \in RingBuffers(Data, size),
         NEW d \in Data,
         ~ring_buffer_full(rb),
         NEW k \in 1 .. Count(rb)
  PROVE  Element(ring_buffer_put(rb, d), k) = Element(rb, k)
<1>1. PICK after \in RingBuffers(Data, size) : after = ring_buffer_put(rb, d)
  BY PutType, Zenon
<1>2. /\ after.tail_index = rb.tail_index
      /\ after.buffer = [rb.buffer EXCEPT ![rb.head_index] = d]
  BY <1>1 DEF ring_buffer_put, RingBuffers
<1>3. Count(rb) \in Nat
  BY DEF Count, RingBuffers
<1>4. SlotOf(after, k) = SlotOf(rb, k)
  BY <1>2, <1>3 DEF SlotOf, RingBuffers
<1>5. SlotOf(rb, k) \in 0 .. size - 1 /\ SlotOf(rb, k) # rb.head_index
  <2>1. CASE rb.head_index >= rb.tail_index
    <3>1. Count(rb) = rb.head_index - rb.tail_index
      BY <2>1 DEF Count
    <3> QED
      BY <1>3, <2>1, <3>1 DEF SlotOf, RingBuffers
  <2>2. CASE ~(rb.head_index >= rb.tail_index)
    <3>1. Count(rb) = rb.head_index + size - rb.tail_index
      BY <2>2 DEF Count, RingBuffers
    <3> QED
      BY <1>3, <2>2, <3>1 DEF SlotOf, RingBuffers
  <2> QED
    BY <2>1, <2>2
<1> QED
  BY <1>1, <1>2, <1>4, <1>5 DEF Element, RingBuffers

(* On a buffer that is not empty, ring_buffer_get removes the oldest element. *)
LEMMA GetRemovesFirst ==
  ASSUME NEW Data, NEW size \in 2 .. 255, NEW rb \in RingBuffers(Data, size),
         ~ring_buffer_empty(rb)
  PROVE  /\ Count(ring_buffer_get(rb)) = Count(rb) - 1
         /\ \A k \in 1 .. Count(rb) - 1 :
              Element(ring_buffer_get(rb), k) = Element(rb, k + 1)
<1>1. PICK after \in RingBuffers(Data, size) : after = ring_buffer_get(rb)
  BY GetType, Zenon
<1>2. /\ after.tail_index = IndexAfter(rb, rb.tail_index)
      /\ after.head_index = rb.head_index
      /\ after.buffer = rb.buffer
  BY <1>1 DEF ring_buffer_get, RingBuffers
<1>3. /\ rb.tail_index + 1 = size => after.tail_index = 0
      /\ rb.tail_index + 1 # size => after.tail_index = rb.tail_index + 1
  BY <1>2, TailAfter, Zenon
<1>4. rb.head_index # rb.tail_index
  BY DEF ring_buffer_empty
<1>5. Count(after) = Count(rb) - 1
  BY <1>2, <1>3, <1>4 DEF Count, RingBuffers
<1>6. ASSUME NEW k \in 1 .. Count(rb) - 1
      PROVE  Element(after, k) = Element(rb, k + 1)
  <2>1. Count(rb) \in 0 .. size - 1
    BY DEF Count, RingBuffers
  <2>2. SlotOf(after, k) = SlotOf(rb, k + 1)
    BY <1>3, <2>1 DEF SlotOf, RingBuffers
  <2> QED
    BY <1>2, <2>2 DEF Element
<1> QED
  BY <1>1, <1>5, <1>6

(* On a full buffer, ring_buffer_put makes all of its size elements look   *)
(* read: the callers must ask ring_buffer_full first.                      *)
THEOREM PutOnFullEmpties ==
  ASSUME NEW Data, NEW size \in 2 .. 255, NEW rb \in RingBuffers(Data, size),
         NEW d \in Data,
         ring_buffer_full(rb)
  PROVE  ring_buffer_empty(ring_buffer_put(rb, d))
<1>1. ring_buffer_put(rb, d).head_index = IndexAfter(rb, rb.head_index)
  BY DEF ring_buffer_put, RingBuffers
<1>2. ring_buffer_put(rb, d).tail_index = rb.tail_index
  BY DEF ring_buffer_put, RingBuffers
<1> QED
  BY <1>1, <1>2 DEF ring_buffer_empty, ring_buffer_full
=============================================================================
