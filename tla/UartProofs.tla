----------------------------- MODULE UartProofs -----------------------------
(***************************************************************************)
(* The safety properties of the interrupt-driven transmitter, for every    *)
(* set of bytes, every buffer size that fits the uint8_t, every set of     *)
(* strings and every number of calls.  LengthAssumption is not used: a     *)
(* string that never ends repeats itself, but what it prints stays in      *)
(* order.                                                                  *)
(***************************************************************************)
EXTENDS Uart, RingBufferProofs

Datum == Byte \cup {NoByte}

-----------------------------------------------------------------------------
(* The lemmas on ring buffers, for tx_buffer. *)

LEMMA QueueFacts ==
  ASSUME TypeOK
  PROVE  /\ Count(tx_buffer) \in 0 .. UART_BUFFER_SIZE - 1
         /\ ring_buffer_empty(tx_buffer) <=> Count(tx_buffer) = 0
         /\ ring_buffer_full(tx_buffer) <=> Count(tx_buffer) = UART_BUFFER_SIZE - 1
         /\ ring_buffer_peek(tx_buffer) = Element(tx_buffer, 1)
<1>1. tx_buffer \in RingBuffers(Datum, UART_BUFFER_SIZE)
  BY DEF TypeOK, Datum
<1> QED
  BY <1>1, SizeAssumption, CountInRange, EmptyIsCountZero, FullIsCountMax,
     PeekIsFirst, Zenon

LEMMA PutFacts ==
  ASSUME TypeOK, ~ring_buffer_full(tx_buffer), NEW d \in Byte,
         tx_buffer' = ring_buffer_put(tx_buffer, d)
  PROVE  /\ tx_buffer' \in RingBuffers(Datum, UART_BUFFER_SIZE)
         /\ Count(tx_buffer') = Count(tx_buffer) + 1
         /\ Element(tx_buffer', Count(tx_buffer) + 1) = d
         /\ \A k \in 1 .. Count(tx_buffer) :
              Element(tx_buffer', k) = Element(tx_buffer, k)
<1>1. tx_buffer \in RingBuffers(Datum, UART_BUFFER_SIZE) /\ d \in Datum
  BY DEF TypeOK, Datum
<1>2. ring_buffer_put(tx_buffer, d) \in RingBuffers(Datum, UART_BUFFER_SIZE)
  BY <1>1, SizeAssumption, PutType, Zenon
<1>3. /\ Count(ring_buffer_put(tx_buffer, d)) = Count(tx_buffer) + 1
      /\ Element(ring_buffer_put(tx_buffer, d), Count(tx_buffer) + 1) = d
  BY <1>1, SizeAssumption, PutAppends, Zenon
<1>4. ASSUME NEW k \in 1 .. Count(tx_buffer)
      PROVE  Element(ring_buffer_put(tx_buffer, d), k) = Element(tx_buffer, k)
  BY <1>1, SizeAssumption, PutKeeps, Zenon
<1> QED
  BY <1>2, <1>3, <1>4

LEMMA GetFacts ==
  ASSUME TypeOK, ~ring_buffer_empty(tx_buffer),
         tx_buffer' = ring_buffer_get(tx_buffer)
  PROVE  /\ tx_buffer' \in RingBuffers(Datum, UART_BUFFER_SIZE)
         /\ ~ring_buffer_full(tx_buffer')
         /\ Count(tx_buffer') = Count(tx_buffer) - 1
         /\ \A k \in 1 .. Count(tx_buffer) - 1 :
              Element(tx_buffer', k) = Element(tx_buffer, k + 1)
<1>1. tx_buffer \in RingBuffers(Datum, UART_BUFFER_SIZE)
  BY DEF TypeOK, Datum
<1>2. /\ ring_buffer_get(tx_buffer) \in RingBuffers(Datum, UART_BUFFER_SIZE)
      /\ Count(ring_buffer_get(tx_buffer)) = Count(tx_buffer) - 1
      /\ \A k \in 1 .. Count(tx_buffer) - 1 :
           Element(ring_buffer_get(tx_buffer), k) = Element(tx_buffer, k + 1)
  BY <1>1, SizeAssumption, GetType, GetRemovesFirst, Zenon
<1>3. ring_buffer_full(ring_buffer_get(tx_buffer)) <=>
        Count(ring_buffer_get(tx_buffer)) = UART_BUFFER_SIZE - 1
  BY <1>2, SizeAssumption, FullIsCountMax, Zenon
<1>4. Count(tx_buffer) \in 0 .. UART_BUFFER_SIZE - 1
  BY QueueFacts
<1>5. ~ring_buffer_full(ring_buffer_get(tx_buffer))
  BY <1>2, <1>3, <1>4, SizeAssumption
<1> QED
  BY <1>2, <1>5

(* What uart_tx_start loads is the oldest byte that the ISR has not removed. *)
LEMMA OldestByte ==
  ASSUME IInv, Count(tx_buffer) > 0
  PROVE  /\ ring_buffer_peek(tx_buffer) = Element(tx_buffer, 1)
         /\ Element(tx_buffer, 1) = accepted[Removed + 1]
         /\ Element(tx_buffer, 1) \in Byte
         /\ Element(tx_buffer, 1) # NoByte
<1>1. Count(tx_buffer) \in Nat /\ ring_buffer_peek(tx_buffer) = Element(tx_buffer, 1)
  BY QueueFacts, SizeAssumption DEF IInv
<1>2. Count(tx_buffer) <= Len(accepted) /\ accepted \in Seq(Byte)
  BY DEF IInv, TypeOK, QueueIsBacklog
<1>3. Element(tx_buffer, 1) = accepted[Removed + 1]
  BY <1>1 DEF IInv, QueueIsBacklog
<1>4. Removed + 1 \in 1 .. Len(accepted)
  BY <1>1, <1>2 DEF Removed
<1>5. Element(tx_buffer, 1) \in Byte
  BY <1>2, <1>3, <1>4
<1> QED
  BY <1>1, <1>3, <1>5, ByteAssumption

(* As long as nothing has been printed, the queue is empty. *)
LEMMA BootIsQuiet ==
  ASSUME IInv, pc \in {"boot", "init_clear", "init_enable"}
  PROVE  Count(tx_buffer) = 0 /\ Removed = 0 /\ Loaded = 0
<1>1. Count(tx_buffer) \in Nat
  BY QueueFacts, SizeAssumption DEF IInv
<1> QED
  BY <1>1 DEF IInv, BootInv, QueueIsBacklog, Removed, Loaded

-----------------------------------------------------------------------------
LEMMA InitIInv == Init => IInv
<1> SUFFICES ASSUME Init PROVE IInv
  OBVIOUS
<1>1. tx_buffer \in RingBuffers(Byte \cup {NoByte}, UART_BUFFER_SIZE)
  BY SizeAssumption DEF Init, NewRingBuffer, RingBuffers
<1>2. Count(tx_buffer) = 0
  BY DEF Init, NewRingBuffer, Count
<1>3. TypeOK
  <2>1. <<>> \in Seq(Byte) /\ 0 \in 0 .. MaxPrints
    BY BoundAssumption
  <2>2. /\ GIE \in BOOLEAN /\ UCA0TXIE \in BOOLEAN /\ UCA0TXIFG \in BOOLEAN
        /\ uart_ready \in BOOLEAN /\ tx_ongoing \in BOOLEAN
    BY DEF Init
  <2>3. pc = "boot" /\ isr = "off" /\ UCA0TXBUF = NoByte /\ shifter = NoByte
    BY DEF Init
  <2>4. /\ accepted \in Seq(Byte) /\ wire \in Seq(Byte) /\ string \in Seq(Byte)
        /\ i \in Nat /\ prints \in 0 .. MaxPrints
    BY <2>1 DEF Init
  <2> QED
    BY <1>1, <2>2, <2>3, <2>4 DEF TypeOK
<1>4. QueueIsBacklog /\ WireInOrder /\ ShifterIsNext
  BY <1>2 DEF Init, QueueIsBacklog, WireInOrder, ShifterIsNext
<1>5. IsrNeverHangs /\ BootInv /\ PutcharInv
  BY DEF Init, IsrNeverHangs, BootInv, PutcharInv
<1>6. PhaseInv
  BY <1>2 DEF Init, PhaseInv, Loaded, Removed
<1> QED
  BY <1>3, <1>4, <1>5, <1>6 DEF IInv

(* A step that leaves the queue, the shifter and the two histories alone *)
(* leaves the data part of the invariant alone.                          *)
LEMMA DataUnchanged ==
  ASSUME IInv, UNCHANGED <<tx_buffer, shifter, accepted, wire>>
  PROVE  /\ QueueIsBacklog' /\ WireInOrder' /\ ShifterIsNext'
         /\ Count(tx_buffer') = Count(tx_buffer)
         /\ Removed' = Removed /\ Loaded' = Loaded
BY DEF IInv, QueueIsBacklog, WireInOrder, ShifterIsNext, Removed, Loaded

(* Boot: before it is over, nothing is queued and the interrupt is off. *)
LEMMA BootPreserves == IInv /\ Boot => IInv'
<1> SUFFICES ASSUME IInv, Boot PROVE IInv'
  OBVIOUS
<1>1. CASE mcu_init
  <2>1. UNCHANGED <<tx_buffer, shifter, accepted, wire>>
    BY <1>1 DEF mcu_init, MainStep, usci, call
  <2>2. TypeOK'
    BY <1>1 DEF IInv, TypeOK, mcu_init, MainStep, usci, call
  <2>3. (IsrNeverHangs /\ BootInv /\ PutcharInv)'
    BY <1>1, <2>1, DataUnchanged, QueueFacts
    DEF IInv, TypeOK, IsrNeverHangs, BootInv, PutcharInv, PhaseInv,
        mcu_init, MainStep, usci, call
  <2>4. PhaseInv'
    BY <1>1, <2>1, DataUnchanged, QueueFacts
    DEF IInv, TypeOK, PhaseInv, BootInv, PutcharInv, mcu_init, MainStep, usci,
        call
  <2> QED
    BY <2>1, <2>2, <2>3, <2>4, DataUnchanged DEF IInv
<1>2. CASE UartReset
  <2>1. UNCHANGED <<tx_buffer, shifter, accepted, wire>>
    BY <1>2 DEF IInv, BootInv, MainStep, UartReset, call
  <2>2. TypeOK'
    BY <1>2 DEF IInv, TypeOK, UartReset, MainStep, call
  <2>3. (IsrNeverHangs /\ BootInv /\ PutcharInv)'
    BY <1>2, <2>1, DataUnchanged, QueueFacts
    DEF IInv, TypeOK, IsrNeverHangs, BootInv, PutcharInv, PhaseInv,
        UartReset, MainStep, call
  <2>4. PhaseInv'
    BY <1>2, <2>1, DataUnchanged, QueueFacts
    DEF IInv, TypeOK, PhaseInv, BootInv, PutcharInv, UartReset, MainStep, call
  <2> QED
    BY <2>1, <2>2, <2>3, <2>4, DataUnchanged DEF IInv
<1>3. CASE UartInitClear
  <2>1. UNCHANGED <<tx_buffer, shifter, accepted, wire>>
    BY <1>3 DEF UartInitClear, MainStep, uart_tx_clear_interrupt, call
  <2>2. TypeOK'
    BY <1>3
    DEF IInv, TypeOK, UartInitClear, MainStep, uart_tx_clear_interrupt, call
  <2>3. (IsrNeverHangs /\ BootInv /\ PutcharInv)'
    BY <1>3, <2>1, DataUnchanged, QueueFacts, BootIsQuiet
    DEF IInv, TypeOK, IsrNeverHangs, BootInv, PutcharInv, PhaseInv,
        UartInitClear, MainStep, uart_tx_clear_interrupt, call
  <2>4. PhaseInv'
    BY <1>3, <2>1, DataUnchanged, QueueFacts, BootIsQuiet
    DEF IInv, TypeOK, PhaseInv, BootInv, PutcharInv, UartInitClear, MainStep,
        uart_tx_clear_interrupt, call
  <2> QED
    BY <2>1, <2>2, <2>3, <2>4, DataUnchanged DEF IInv
<1>4. CASE UartInitEnable
  <2>1. UNCHANGED <<tx_buffer, shifter, accepted, wire>>
    BY <1>4 DEF UartInitEnable, MainStep, uart_tx_interrupt_enable, call
  <2>2. TypeOK'
    BY <1>4
    DEF IInv, TypeOK, UartInitEnable, MainStep, uart_tx_interrupt_enable, call
  <2>3. (IsrNeverHangs /\ BootInv /\ PutcharInv)'
    BY <1>4, <2>1, DataUnchanged, QueueFacts
    DEF IInv, TypeOK, IsrNeverHangs, BootInv, PutcharInv, PhaseInv,
        UartInitEnable, MainStep, uart_tx_interrupt_enable, call
  <2>4. PhaseInv'
    BY <1>4, <2>1, DataUnchanged, QueueFacts
    DEF IInv, TypeOK, PhaseInv, BootInv, PutcharInv, UartInitEnable, MainStep,
        uart_tx_interrupt_enable, call
  <2> QED
    BY <2>1, <2>2, <2>3, <2>4, DataUnchanged DEF IInv
<1> QED
  BY <1>1, <1>2, <1>3, <1>4 DEF Boot

(* A call of uart_print_interrupt moves no byte. *)
LEMMA PrintPreserves == IInv /\ (\E s \in Strings : uart_print_interrupt(s)) => IInv'
<1> SUFFICES ASSUME IInv, NEW s \in Strings, uart_print_interrupt(s) PROVE IInv'
  OBVIOUS
<1>1. CASE uart_print_interrupt(s)
  <2>1. UNCHANGED <<tx_buffer, shifter, accepted, wire>>
    BY <1>1 DEF uart_print_interrupt, MainStep, usci
  <2>2. TypeOK'
    BY <1>1, StringsAssumption, BoundAssumption
    DEF IInv, TypeOK, uart_print_interrupt, MainStep, usci
  <2>3. (IsrNeverHangs /\ BootInv /\ PutcharInv)'
    BY <1>1, <2>1, DataUnchanged, QueueFacts
    DEF IInv, TypeOK, IsrNeverHangs, BootInv, PutcharInv, PhaseInv,
        uart_print_interrupt, MainStep, usci
  <2>4. PhaseInv'
    BY <1>1, <2>1, DataUnchanged, QueueFacts
    DEF IInv, TypeOK, PhaseInv, BootInv, PutcharInv, uart_print_interrupt,
        MainStep, usci
  <2> QED
    BY <2>1, <2>2, <2>3, <2>4, DataUnchanged DEF IInv
<1> QED
  BY <1>1

(* Neither does the loop around the characters. *)
LEMMA LoopPreserves == IInv /\ (Elsewhere \/ PrintTest) => IInv'
<1> SUFFICES ASSUME IInv, Elsewhere \/ PrintTest PROVE IInv'
  OBVIOUS
<1>1. CASE PrintTest
  <2>1. UNCHANGED <<tx_buffer, shifter, accepted, wire>>
    BY <1>1 DEF PrintTest, MainStep, usci, call
  <2>2. TypeOK'
    BY <1>1 DEF IInv, TypeOK, PrintTest, MainStep, usci, call
  <2>3. (IsrNeverHangs /\ BootInv /\ PutcharInv)'
    BY <1>1, <2>1, DataUnchanged, QueueFacts
    DEF IInv, TypeOK, IsrNeverHangs, BootInv, PutcharInv, PhaseInv,
        PrintTest, MainStep, usci, call
  <2>4. PhaseInv'
    BY <1>1, <2>1, DataUnchanged, QueueFacts
    DEF IInv, TypeOK, PhaseInv, BootInv, PutcharInv, PrintTest, MainStep, usci,
        call
  <2> QED
    BY <2>1, <2>2, <2>3, <2>4, DataUnchanged DEF IInv
<1>2. CASE Elsewhere
  BY <1>2 DEF Elsewhere, MainStep, IInv, TypeOK, IsrNeverHangs, QueueIsBacklog,
     WireInOrder, ShifterIsNext, BootInv, PutcharInv, PhaseInv, Removed, Loaded,
     vars, usci, call
<1> QED
  BY <1>1, <1>2

(* putchar: with the interrupt off, only the USCI runs between its steps. *)
LEMMA PutcharPreserves == IInv /\ Putchar => IInv'
<1> SUFFICES ASSUME IInv, Putchar PROVE IInv'
  OBVIOUS
<1>1. CASE PutcharPoll
  <2>1. UNCHANGED <<tx_buffer, shifter, accepted, wire>>
    BY <1>1 DEF PutcharPoll, MainStep, usci, call
  <2>2. TypeOK'
    BY <1>1 DEF IInv, TypeOK, PutcharPoll, MainStep, usci, call
  <2>3. (IsrNeverHangs /\ BootInv /\ PutcharInv)'
    BY <1>1, <2>1, DataUnchanged, QueueFacts
    DEF IInv, TypeOK, IsrNeverHangs, BootInv, PutcharInv, PhaseInv,
        PutcharPoll, MainStep, usci, call
  <2>4. PhaseInv'
    BY <1>1, <2>1, DataUnchanged, QueueFacts
    DEF IInv, TypeOK, PhaseInv, BootInv, PutcharInv, PutcharPoll, MainStep,
        usci, call
  <2> QED
    BY <2>1, <2>2, <2>3, <2>4, DataUnchanged DEF IInv
<1>2. CASE PutcharDisable
  <2>1. UNCHANGED <<tx_buffer, shifter, accepted, wire>>
    BY <1>2 DEF PutcharDisable, MainStep, uart_tx_interrupt_disable, call
  <2>2. TypeOK'
    BY <1>2
    DEF IInv, TypeOK, PutcharDisable, MainStep, uart_tx_interrupt_disable, call
  <2>3. (IsrNeverHangs /\ BootInv /\ PutcharInv)'
    BY <1>2, <2>1, DataUnchanged, QueueFacts
    DEF IInv, TypeOK, IsrNeverHangs, BootInv, PutcharInv, PhaseInv,
        PutcharDisable, MainStep, uart_tx_interrupt_disable, call
  <2>4. PhaseInv'
    BY <1>2, <2>1, DataUnchanged, QueueFacts
    DEF IInv, TypeOK, PhaseInv, BootInv, PutcharInv, PutcharDisable, MainStep,
        uart_tx_interrupt_disable, call
  <2> QED
    BY <2>1, <2>2, <2>3, <2>4, DataUnchanged DEF IInv
<1>3. CASE PutcharOngoing
  <2>1. UNCHANGED <<tx_buffer, shifter, accepted, wire>>
    BY <1>3 DEF PutcharOngoing, MainStep, usci
  <2>2. TypeOK'
    BY <1>3 DEF IInv, TypeOK, PutcharOngoing, MainStep, usci
  <2>3. (IsrNeverHangs /\ BootInv /\ PutcharInv)'
    BY <1>3, <2>1, DataUnchanged, QueueFacts
    DEF IInv, TypeOK, IsrNeverHangs, BootInv, PutcharInv, PhaseInv,
        PutcharOngoing, MainStep, usci
  <2>4. PhaseInv'
    BY <1>3, <2>1, DataUnchanged, QueueFacts
    DEF IInv, TypeOK, PhaseInv, BootInv, PutcharInv, PutcharOngoing, MainStep,
        usci
  <2> QED
    BY <2>1, <2>2, <2>3, <2>4, DataUnchanged DEF IInv
<1>4. CASE PutcharPut
  <2> DEFINE d == string[i + 1]
  <2>1. /\ pc = "put" /\ i < Len(string) /\ d \in Byte
        /\ ~ring_buffer_full(tx_buffer)
    BY <1>4 DEF PutcharPut, MainStep, IInv, TypeOK, PutcharInv
  <2>2. /\ tx_buffer' = ring_buffer_put(tx_buffer, d)
        /\ accepted' = Append(accepted, d)
        /\ UNCHANGED <<shifter, wire>>
    BY <1>4 DEF PutcharPut, usci
  <2>3. /\ tx_buffer' \in RingBuffers(Datum, UART_BUFFER_SIZE)
        /\ Count(tx_buffer') = Count(tx_buffer) + 1
        /\ Element(tx_buffer', Count(tx_buffer) + 1) = d
        /\ \A k \in 1 .. Count(tx_buffer) :
             Element(tx_buffer', k) = Element(tx_buffer, k)
    BY <2>1, <2>2, PutFacts DEF IInv
  <2>4. Count(tx_buffer) \in Nat /\ (ring_buffer_empty(tx_buffer) <=> Count(tx_buffer) = 0)
    BY QueueFacts, SizeAssumption DEF IInv
  <2>5. TypeOK'
    BY <1>4, <2>1, <2>2, <2>3
    DEF IInv, TypeOK, PutcharPut, MainStep, usci, call, Datum
  <2>6. QueueIsBacklog' /\ Removed' = Removed
    <3>1. accepted \in Seq(Byte) /\ Count(tx_buffer) <= Len(accepted)
      BY DEF IInv, TypeOK, QueueIsBacklog
    <3>2. Removed' = Removed /\ Count(tx_buffer') <= Len(accepted')
      BY <2>1, <2>2, <2>3, <2>4, <3>1 DEF Removed
    <3>3. ASSUME NEW k \in 1 .. Count(tx_buffer)
          PROVE  Element(tx_buffer', k) = accepted'[Removed + k]
      <4>1. Element(tx_buffer', k) = accepted[Removed + k]
        BY <2>3 DEF IInv, QueueIsBacklog
      <4>2. Removed + k \in 1 .. Len(accepted)
        BY <2>4, <3>1 DEF Removed
      <4> QED
        BY <2>1, <2>2, <3>1, <4>1, <4>2
    <3>4. Element(tx_buffer', Count(tx_buffer) + 1) =
            accepted'[Removed + Count(tx_buffer) + 1]
      BY <2>1, <2>2, <2>3, <2>4, <3>1 DEF Removed
    <3>5. ASSUME NEW k \in 1 .. Count(tx_buffer')
          PROVE  Element(tx_buffer', k) = accepted'[Removed' + k]
      <4>1. CASE k \in 1 .. Count(tx_buffer)
        BY <3>2, <3>3, <4>1
      <4>2. CASE k = Count(tx_buffer) + 1
        BY <3>2, <3>4, <4>2, <2>4, <3>1 DEF Removed
      <4> QED
        BY <2>3, <2>4, <4>1, <4>2
    <3> QED
      BY <3>2, <3>5 DEF QueueIsBacklog
  <2>7. WireInOrder' /\ ShifterIsNext' /\ Loaded' = Loaded
    BY <2>1, <2>2 DEF IInv, TypeOK, WireInOrder, ShifterIsNext, Loaded
  <2>8. (IsrNeverHangs /\ BootInv /\ PutcharInv)'
    BY <1>4, <2>1, <2>3, <2>4
    DEF IInv, TypeOK, IsrNeverHangs, BootInv, PutcharInv, PutcharPut, MainStep,
        usci, call
  <2>9. PhaseInv'
    <3>1. uart_ready /\ isr = "off" /\ pc' \in {"enable", "start"}
          /\ UNCHANGED <<UCA0TXIE, UCA0TXIFG, UCA0TXBUF, isr, uart_ready>>
      BY <1>4, <2>1 DEF IInv, TypeOK, BootInv, PutcharPut, MainStep, usci
    <3>2. CASE tx_ongoing
      <4>1. /\ Count(tx_buffer) > 0 /\ pc' = "enable"
            /\ Element(tx_buffer', 1) = Element(tx_buffer, 1)
        <5>1. Count(tx_buffer) > 0
          BY <2>1, <3>2 DEF IInv, TypeOK, PutcharInv
        <5>2. pc' = "enable"
          BY <1>4, <3>2 DEF PutcharPut, MainStep
        <5> QED
          BY <2>3, <2>4, <5>1, <5>2
      <4>2. UCA0TXIFG \/ UCA0TXBUF # NoByte
        BY <2>1, <3>1, <4>1, <2>4 DEF IInv, TypeOK, PhaseInv
      <4> QED
        BY <2>1, <2>3, <2>4, <2>6, <2>7, <3>1, <4>1, <4>2
        DEF IInv, TypeOK, PhaseInv
    <3>3. CASE ~tx_ongoing
      <4>1. /\ Count(tx_buffer) = 0 /\ pc' = "start"
            /\ UCA0TXIFG = FALSE /\ UCA0TXBUF = NoByte
        BY <1>4, <2>1, <2>4, <3>1, <3>3
        DEF IInv, TypeOK, PutcharInv, PhaseInv, PutcharPut, MainStep
      <4> QED
        BY <2>1, <2>3, <2>6, <2>7, <3>1, <4>1 DEF IInv, TypeOK, PhaseInv
    <3> QED
      BY <3>2, <3>3 DEF IInv, TypeOK
  <2> QED
    BY <2>5, <2>6, <2>7, <2>8, <2>9 DEF IInv
<1>5. CASE PutcharStart
  <2>0. \/ ring_buffer_empty(tx_buffer) /\ Count(tx_buffer) = 0
        \/ /\ ~ring_buffer_empty(tx_buffer) /\ Count(tx_buffer) > 0
           /\ ring_buffer_peek(tx_buffer) = Element(tx_buffer, 1)
           /\ Element(tx_buffer, 1) \in Byte /\ Element(tx_buffer, 1) # NoByte
    BY QueueFacts, OldestByte, SizeAssumption DEF IInv
  <2>1. UNCHANGED <<tx_buffer, shifter, accepted, wire>>
    BY <1>5 DEF PutcharStart, MainStep, uart_tx_start, call
  <2>2. TypeOK'
    BY <1>5, <2>0 DEF IInv, TypeOK, PutcharStart, MainStep, uart_tx_start, call
  <2>3. (IsrNeverHangs /\ BootInv /\ PutcharInv)'
    BY <1>5, <2>1, DataUnchanged, QueueFacts, <2>0
    DEF IInv, TypeOK, IsrNeverHangs, BootInv, PutcharInv, PhaseInv,
        PutcharStart, MainStep, uart_tx_start, call
  <2>4. PhaseInv'
    BY <1>5, <2>1, DataUnchanged, QueueFacts, <2>0
    DEF IInv, TypeOK, PhaseInv, BootInv, PutcharInv, PutcharStart, MainStep,
        uart_tx_start, call
  <2> QED
    BY <2>1, <2>2, <2>3, <2>4, DataUnchanged DEF IInv
<1>6. CASE PutcharEnable
  <2>1. UNCHANGED <<tx_buffer, shifter, accepted, wire>>
    BY <1>6 DEF PutcharEnable, MainStep, uart_tx_interrupt_enable
  <2>2. TypeOK'
    BY <1>6, StringsAssumption
    DEF IInv, TypeOK, PutcharEnable, MainStep, uart_tx_interrupt_enable
  <2>3. (IsrNeverHangs /\ BootInv /\ PutcharInv)'
    BY <1>6, <2>1, DataUnchanged, QueueFacts
    DEF IInv, TypeOK, IsrNeverHangs, BootInv, PutcharInv, PhaseInv,
        PutcharEnable, MainStep, uart_tx_interrupt_enable
  <2>4. PhaseInv'
    BY <1>6, <2>1, DataUnchanged, QueueFacts
    DEF IInv, TypeOK, PhaseInv, BootInv, PutcharInv, PutcharEnable, MainStep,
        uart_tx_interrupt_enable
  <2> QED
    BY <2>1, <2>2, <2>3, <2>4, DataUnchanged DEF IInv
<1> QED
  BY <1>1, <1>2, <1>3, <1>4, <1>5, <1>6 DEF Putchar

(* The ISR: it takes out of the queue the byte that the USCI has loaded. *)
LEMMA IsrPreserves == IInv /\ Isr => IInv'
<1> SUFFICES ASSUME IInv, Isr PROVE IInv'
  OBVIOUS
<1>1. CASE IsrEnter
  <2>1. UNCHANGED <<tx_buffer, shifter, accepted, wire>>
    BY <1>1 DEF IsrEnter, IsrStep, usci, call
  <2>2. TypeOK'
    BY <1>1 DEF IInv, TypeOK, IsrEnter, IsrStep, usci, call
  <2>3. (IsrNeverHangs /\ BootInv /\ PutcharInv)'
    BY <1>1, <2>1, DataUnchanged, QueueFacts, BootIsQuiet
    DEF IInv, TypeOK, IsrNeverHangs, BootInv, PutcharInv, PhaseInv,
        IsrEnter, IsrStep, usci, call
  <2>4. PhaseInv'
    BY <1>1, <2>1, DataUnchanged, QueueFacts, BootIsQuiet
    DEF IInv, TypeOK, PhaseInv, BootInv, PutcharInv, IsrEnter, IsrStep, usci,
        call
  <2> QED
    BY <2>1, <2>2, <2>3, <2>4, DataUnchanged DEF IInv
<1>2. CASE IsrEmpty
  <2>1. UNCHANGED <<tx_buffer, shifter, accepted, wire>>
    BY <1>2 DEF IsrEmpty, IsrStep, usci, call
  <2>2. TypeOK'
    BY <1>2 DEF IInv, TypeOK, IsrEmpty, IsrStep, usci, call
  <2>3. (IsrNeverHangs /\ BootInv /\ PutcharInv)'
    BY <1>2, <2>1, DataUnchanged, QueueFacts
    DEF IInv, TypeOK, IsrNeverHangs, BootInv, PutcharInv, PhaseInv,
        IsrEmpty, IsrStep, usci, call
  <2>4. PhaseInv'
    BY <1>2, <2>1, DataUnchanged, QueueFacts
    DEF IInv, TypeOK, PhaseInv, BootInv, PutcharInv, IsrEmpty, IsrStep, usci,
        call
  <2> QED
    BY <2>1, <2>2, <2>3, <2>4, DataUnchanged DEF IInv
<1>3. CASE IsrGet
  <2>1. Count(tx_buffer) > 0 /\ Loaded = Removed + 1 /\ Count(tx_buffer) \in Nat
    BY <1>3, QueueFacts, SizeAssumption
    DEF IInv, TypeOK, IsrGet, IsrStep, PhaseInv, BootInv
  <2>2. /\ tx_buffer' = ring_buffer_get(tx_buffer)
        /\ UNCHANGED <<shifter, wire, accepted>>
    BY <1>3 DEF IsrGet, IsrStep, usci
  <2>3. /\ tx_buffer' \in RingBuffers(Datum, UART_BUFFER_SIZE)
        /\ ~ring_buffer_full(tx_buffer')
        /\ Count(tx_buffer') = Count(tx_buffer) - 1
        /\ \A k \in 1 .. Count(tx_buffer) - 1 :
             Element(tx_buffer', k) = Element(tx_buffer, k + 1)
    BY <2>1, <2>2, GetFacts, QueueFacts DEF IInv
  <2>4. TypeOK'
    BY <1>3, <2>2, <2>3 DEF IInv, TypeOK, IsrGet, IsrStep, usci, call, Datum
  <2>5. QueueIsBacklog' /\ Removed' = Removed + 1
    <3>1. Len(accepted) \in Nat /\ Count(tx_buffer) <= Len(accepted)
      BY DEF IInv, TypeOK, QueueIsBacklog
    <3>2. Removed' = Removed + 1 /\ Count(tx_buffer') <= Len(accepted')
      BY <2>1, <2>2, <2>3, <3>1 DEF Removed
    <3>3. ASSUME NEW k \in 1 .. Count(tx_buffer) - 1
          PROVE  Element(tx_buffer', k) = accepted[Removed + 1 + k]
      <4>1. Element(tx_buffer', k) = Element(tx_buffer, k + 1)
        BY <2>3
      <4>2. Element(tx_buffer, k + 1) = accepted[Removed + (k + 1)]
        BY <2>1 DEF IInv, QueueIsBacklog
      <4> QED
        BY <2>1, <3>1, <4>1, <4>2 DEF Removed
    <3> QED
      BY <2>2, <2>3, <3>2, <3>3 DEF QueueIsBacklog
  <2>6. WireInOrder' /\ ShifterIsNext' /\ Loaded' = Loaded
    BY <2>2 DEF IInv, TypeOK, WireInOrder, ShifterIsNext, Loaded
  <2>7. (IsrNeverHangs /\ BootInv /\ PutcharInv)'
    BY <1>3, <2>1, <2>3
    DEF IInv, TypeOK, IsrNeverHangs, BootInv, PutcharInv, PhaseInv, IsrGet,
        IsrStep, usci, call
  <2>8. PhaseInv'
    BY <1>3, <2>1, <2>3, <2>5, <2>6
    DEF IInv, TypeOK, PhaseInv, BootInv, PutcharInv, IsrGet, IsrStep, usci,
        call
  <2> QED
    BY <2>4, <2>5, <2>6, <2>7, <2>8 DEF IInv
<1>4. CASE IsrClear
  <2>1. UNCHANGED <<tx_buffer, shifter, accepted, wire>>
    BY <1>4 DEF IsrClear, IsrStep, uart_tx_clear_interrupt, call
  <2>2. TypeOK'
    BY <1>4 DEF IInv, TypeOK, IsrClear, IsrStep, uart_tx_clear_interrupt, call
  <2>3. (IsrNeverHangs /\ BootInv /\ PutcharInv)'
    BY <1>4, <2>1, DataUnchanged, QueueFacts
    DEF IInv, TypeOK, IsrNeverHangs, BootInv, PutcharInv, PhaseInv,
        IsrClear, IsrStep, uart_tx_clear_interrupt, call
  <2>4. PhaseInv'
    BY <1>4, <2>1, DataUnchanged, QueueFacts
    DEF IInv, TypeOK, PhaseInv, BootInv, PutcharInv, IsrClear, IsrStep,
        uart_tx_clear_interrupt, call
  <2> QED
    BY <2>1, <2>2, <2>3, <2>4, DataUnchanged DEF IInv
<1>5. CASE IsrStart
  <2>0. \/ ring_buffer_empty(tx_buffer) /\ Count(tx_buffer) = 0
        \/ /\ ~ring_buffer_empty(tx_buffer) /\ Count(tx_buffer) > 0
           /\ ring_buffer_peek(tx_buffer) = Element(tx_buffer, 1)
           /\ Element(tx_buffer, 1) \in Byte /\ Element(tx_buffer, 1) # NoByte
    BY QueueFacts, OldestByte, SizeAssumption DEF IInv
  <2>1. UNCHANGED <<tx_buffer, shifter, accepted, wire>>
    BY <1>5 DEF IsrStart, IsrStep, uart_tx_start, call
  <2>2. TypeOK'
    BY <1>5, <2>0 DEF IInv, TypeOK, IsrStart, IsrStep, uart_tx_start, call
  <2>3. (IsrNeverHangs /\ BootInv /\ PutcharInv)'
    BY <1>5, <2>1, DataUnchanged, QueueFacts, <2>0
    DEF IInv, TypeOK, IsrNeverHangs, BootInv, PutcharInv, PhaseInv,
        IsrStart, IsrStep, uart_tx_start, call
  <2>4. PhaseInv'
    BY <1>5, <2>1, DataUnchanged, QueueFacts, <2>0
    DEF IInv, TypeOK, PhaseInv, BootInv, PutcharInv, IsrStart, IsrStep,
        uart_tx_start, call
  <2> QED
    BY <2>1, <2>2, <2>3, <2>4, DataUnchanged DEF IInv
<1> QED
  BY <1>1, <1>2, <1>3, <1>4, <1>5 DEF Isr

(* The USCI: it may move a byte between any two steps of the others. *)
LEMMA UsciPreserves == IInv /\ (UsciLoad \/ UsciShiftOut) => IInv'
<1> SUFFICES ASSUME IInv, UsciLoad \/ UsciShiftOut PROVE IInv'
  OBVIOUS
<1>1. CASE UsciLoad
  <2>1. /\ UCA0TXBUF = accepted[Removed + 1] /\ UCA0TXBUF \in Byte
        /\ Count(tx_buffer) > 0 /\ Count(tx_buffer) \in Nat
        /\ Loaded = Removed
    BY <1>1, QueueFacts, SizeAssumption
    DEF IInv, TypeOK, UsciLoad, PhaseInv, QueueIsBacklog
  <2>2. UNCHANGED <<tx_buffer, accepted, wire>> /\ shifter' = UCA0TXBUF /\ shifter = NoByte
    BY <1>1 DEF UsciLoad
  <2>3. TypeOK'
    BY <1>1 DEF IInv, TypeOK, UsciLoad, call
  <2>4. QueueIsBacklog' /\ WireInOrder' /\ Removed' = Removed
    BY <2>2 DEF IInv, QueueIsBacklog, WireInOrder, Removed
  <2>5. ShifterIsNext' /\ Loaded' = Removed + 1
    BY <1>1, <2>1, <2>2
    DEF IInv, TypeOK, ShifterIsNext, Loaded, Removed, UsciLoad, QueueIsBacklog
  <2>6. (IsrNeverHangs /\ BootInv /\ PutcharInv)'
    <3>1. pc \notin {"boot", "init_clear", "init_enable"}
      BY <2>1, BootIsQuiet
    <3> QED
      BY <1>1, <2>1, <2>2, <3>1
      DEF IInv, TypeOK, IsrNeverHangs, BootInv, PutcharInv, UsciLoad, call
  <2>7. PhaseInv'
    BY <1>1, <2>1, <2>2, <2>4, <2>5
    DEF IInv, TypeOK, PhaseInv, BootInv, UsciLoad, call
  <2> QED
    BY <2>3, <2>4, <2>5, <2>6, <2>7 DEF IInv
<1>2. CASE UsciShiftOut
  <2>1. UNCHANGED <<tx_buffer, accepted>> /\ shifter \in Byte /\ shifter' = NoByte
        /\ wire' = Append(wire, shifter)
    BY <1>2 DEF UsciShiftOut, IInv, TypeOK
  <2>2. TypeOK'
    BY <1>2 DEF IInv, TypeOK, UsciShiftOut, call
  <2>3. QueueIsBacklog' /\ Removed' = Removed
    BY <2>1 DEF IInv, QueueIsBacklog, Removed
  <2>4. WireInOrder' /\ ShifterIsNext' /\ Loaded' = Loaded
    BY <1>2, <2>1
    DEF IInv, TypeOK, WireInOrder, ShifterIsNext, Loaded, UsciShiftOut
  <2>5. (IsrNeverHangs /\ BootInv /\ PutcharInv)'
    BY <1>2, <2>1
    DEF IInv, TypeOK, IsrNeverHangs, BootInv, PutcharInv, UsciShiftOut, call
  <2>6. PhaseInv'
    BY <1>2, <2>1, <2>3, <2>4
    DEF IInv, TypeOK, PhaseInv, UsciShiftOut, call
  <2> QED
    BY <2>2, <2>3, <2>4, <2>5, <2>6 DEF IInv
<1> QED
  BY <1>1, <1>2

LEMMA StutterPreserves == IInv /\ UNCHANGED vars => IInv'
BY DEF IInv, TypeOK, IsrNeverHangs, QueueIsBacklog, WireInOrder, ShifterIsNext,
   BootInv, PutcharInv, PhaseInv, Removed, Loaded, vars, usci, call

LEMMA StepIInv == IInv /\ [Next]_vars => IInv'
BY BootPreserves, PrintPreserves, LoopPreserves, PutcharPreserves,
    IsrPreserves,
   UsciPreserves, StutterPreserves DEF Next

-----------------------------------------------------------------------------
(***************************************************************************)
(* The theorems.                                                           *)
(***************************************************************************)

(* The invariant holds in every reachable state. *)
THEOREM InvariantHolds == Spec => []IInv
<1>1. Init => IInv
  BY InitIInv
<1>2. IInv /\ [Next]_vars => IInv'
  BY StepIInv
<1> QED
  BY <1>1, <1>2, PTL DEF Spec, Safety

(* Every variable keeps its type; both indices of tx_buffer stay in range. *)
THEOREM TypeCorrect == Spec => []TypeOK
<1>1. IInv => TypeOK
  BY DEF IInv
<1> QED
  BY <1>1, InvariantHolds, PTL

(* isr_uart_tx never enters its while(1). *)
THEOREM IsrNeverHangsHolds == Spec => []IsrNeverHangs
<1>1. IInv => IsrNeverHangs
  BY DEF IInv
<1> QED
  BY <1>1, InvariantHolds, PTL

(* Both writers of UCA0TXBUF find it free. *)
THEOREM TxbufFree == Spec => []TxbufFreeAtStart
<1>1. IInv => TxbufFreeAtStart
  BY DEF IInv, PhaseInv, TxbufFreeAtStart
<1> QED
  BY <1>1, InvariantHolds, PTL

(* Bytes in the queue always have an interrupt to come. *)
THEOREM QueueNeverStalls == Spec => []NoStalledQueue
<1>1. IInv => NoStalledQueue
  <2> SUFFICES ASSUME IInv, pc \in {"idle", "print", "full"}, isr = "off",
                      ~ring_buffer_empty(tx_buffer)
               PROVE  UCA0TXIE /\ (UCA0TXIFG \/ UCA0TXBUF # NoByte)
    BY DEF NoStalledQueue
  <2>1. uart_ready
    BY DEF IInv, TypeOK, BootInv
  <2>2. Count(tx_buffer) # 0
    BY QueueFacts DEF IInv
  <2>3. UCA0TXIE
    BY <2>1 DEF IInv, TypeOK, PutcharInv
  <2>4. UCA0TXIFG \/ UCA0TXBUF # NoByte
    BY <2>2 DEF IInv, TypeOK, PhaseInv
  <2> QED
    BY <2>3, <2>4
<1> QED
  BY <1>1, InvariantHolds, PTL

(* The wire carries a prefix of what was handed over. *)
THEOREM InOrder == Spec => []WireInOrder
<1>1. IInv => WireInOrder
  BY DEF IInv
<1> QED
  BY <1>1, InvariantHolds, PTL

(* At the put, the backlog has room for one byte more. *)
LEMMA BacklogBound ==
  ASSUME IInv, pc = "put"
  PROVE  Len(accepted) - Len(wire) < UART_BUFFER_SIZE
<1>1. Count(tx_buffer) \in 0 .. UART_BUFFER_SIZE - 1
      /\ Count(tx_buffer) # UART_BUFFER_SIZE - 1
  BY QueueFacts DEF IInv, PutcharInv
<1>2. Loaded = Removed \/ Loaded = Removed + 1
  BY DEF IInv, TypeOK, PhaseInv, BootInv
<1>3. Len(accepted) \in Nat /\ Len(wire) \in Nat
  BY DEF IInv, TypeOK
<1> QED
  BY <1>1, <1>2, <1>3, SizeAssumption DEF Loaded, Removed

(* The transmitter implements the safety part of SerialLine: every step is *)
(* the acceptance of a byte, the emission of the oldest one of the         *)
(* backlog, or leaves both sequences alone.                                *)
THEOREM ImplementsLine == Spec => LineSafety
<1>1. Init => Line!Init
  BY DEF Init, Line!Init
<1>2. IInv /\ [Next]_vars => [Line!Next]_(Line!lineVars)
  <2> SUFFICES ASSUME IInv, [Next]_vars
               PROVE  [Line!Next]_(Line!lineVars)
    OBVIOUS
  <2>1. CASE PutcharPut
    <3>1. string[i + 1] \in Byte
      BY <2>1 DEF PutcharPut, MainStep, IInv, TypeOK, PutcharInv
    <3>2. Line!Accept(string[i + 1])
      BY <2>1, BacklogBound DEF PutcharPut, MainStep, usci, Line!Accept
    <3> QED
      BY <3>1, <3>2 DEF Line!Next
  <2>2. CASE UsciShiftOut
    <3>1. Line!Emit
      BY <2>2 DEF UsciShiftOut, Line!Emit, IInv, ShifterIsNext
    <3> QED
      BY <3>1 DEF Line!Next
  <2>3. CASE Boot
    BY <2>3 DEF Boot, mcu_init, UartReset, UartInitClear, UartInitEnable, usci,
       Line!lineVars
  <2>4. CASE (\E s \in Strings : uart_print_interrupt(s)) \/ PrintTest \/ Elsewhere
    BY <2>4
    DEF uart_print_interrupt, PrintTest, Elsewhere, vars, usci, Line!lineVars
  <2>5. CASE PutcharPoll \/ PutcharDisable \/ PutcharOngoing \/ PutcharStart
             \/ PutcharEnable
    BY <2>5 DEF PutcharPoll, PutcharDisable, PutcharOngoing, PutcharStart,
       PutcharEnable, usci, Line!lineVars
  <2>6. CASE Isr
    BY <2>6
    DEF Isr, IsrEnter, IsrEmpty, IsrGet, IsrClear, IsrStart, IsrStep, usci,
       Line!lineVars
  <2>7. CASE UsciLoad \/ UNCHANGED vars
    BY <2>7 DEF UsciLoad, vars, usci, Line!lineVars
  <2> QED
    BY <2>1, <2>2, <2>3, <2>4, <2>5, <2>6, <2>7 DEF Next, Putchar
<1> QED
  BY <1>1, <1>2, InvariantHolds, PTL
  DEF Spec, Safety, LineSafety, Line!Safety
=============================================================================
