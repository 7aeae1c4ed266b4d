----------------------------- MODULE RingBuffer -----------------------------
(***************************************************************************)
(* The circular byte queue of ring_buffer.c: the operations, as operators  *)
(* on a record with the fields of struct ring_buffer, and the sequence of  *)
(* unread elements that such a record stands for.                          *)
(*                                                                         *)
(* The field `full` of the struct is left out: no line of the repository   *)
(* reads or writes it.  head_index is the next slot to write, tail_index   *)
(* the oldest unread slot.  The caller, not the buffer, keeps the queue    *)
(* within its limits: neither put nor get looks at the other index.        *)
(***************************************************************************)
EXTENDS Naturals, Sequences

(* The number of values of a uint8_t, the type of size and of both indices. *)
UINT8 == 256

(* A buffer as its static initialiser leaves it: zeroed, both indices 0. *)
NewRingBuffer(size, zero) ==
  [buffer     |-> [slot \in 0 .. size - 1 |-> zero],
   size       |-> size,
   head_index |-> 0,
   tail_index |-> 0]

(* Mutant: the wrap-around comes one slot late. *)
IndexAfterLate(rb, index) ==
  LET next == (index + 1) % UINT8
  IN  IF next = rb.size + 1 THEN 0 ELSE next

(* index++, then back to 0 when it has reached size. *)
IndexAfter(rb, index) ==
  LET next == (index + 1) % UINT8
  IN  IF next = rb.size THEN 0 ELSE next

(* rb after ring_buffer_put(rb, data). *)
ring_buffer_put(rb, data) ==
  [rb EXCEPT !.buffer     = [@ EXCEPT ![rb.head_index] = data],
             !.head_index = IndexAfter(rb, @)]

(* rb after ring_buffer_get(rb); what the call returns is ring_buffer_peek(rb). *)
ring_buffer_get(rb) ==
  [rb EXCEPT !.tail_index = IndexAfter(rb, @)]

ring_buffer_peek(rb) == rb.buffer[rb.tail_index]

ring_buffer_empty(rb) == rb.head_index = rb.tail_index

ring_buffer_full(rb) == IndexAfter(rb, rb.head_index) = rb.tail_index

-----------------------------------------------------------------------------
(***************************************************************************)
(* What a buffer holds.                                                    *)
(***************************************************************************)

(* The buffers of `size` slots over Data that the operations can produce. *)
RingBuffers(Data, size) ==
  [buffer     : [0 .. size - 1 -> Data],
   size       : {size},
   head_index : 0 .. size - 1,
   tail_index : 0 .. size - 1]

(* The number of unread elements. *)
Count(rb) ==
  IF rb.head_index >= rb.tail_index
  THEN rb.head_index - rb.tail_index
  ELSE rb.head_index + rb.size - rb.tail_index

(* The slot of the k-th unread element, counting from 1. *)
SlotOf(rb, k) ==
  IF rb.tail_index + k - 1 < rb.size
  THEN rb.tail_index + k - 1
  ELSE rb.tail_index + k - 1 - rb.size

(* The k-th unread element. *)
Element(rb, k) == rb.buffer[SlotOf(rb, k)]
=============================================================================
