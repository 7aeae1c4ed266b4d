--------------------------- MODULE IrRemoteProofs ---------------------------
(***************************************************************************)
(* The safety properties of the infrared receiver, for every size of the   *)
(* fields and of the buffer, every timeout above the leader and the        *)
(* pauses, every range of pulse_count that holds a message and any number  *)
(* of frames and lost edges.                                               *)
(***************************************************************************)
EXTENDS IrRemote, RingBufferProofs, SequenceTheorems

USE DEF remote, receiver, buffering

Ticks == {1, 2, LEADER_MS}

-----------------------------------------------------------------------------
(* Bytes, messages and gaps are sequences. *)

LEMMA InvertedType ==
  ASSUME NEW byte \in Bytes
  PROVE  Inverted(byte) \in Bytes
BY FieldAssumption DEF Inverted, Bytes

LEMMA BytesAreSeqs ==
  ASSUME NEW byte \in Bytes
  PROVE  byte \in Seq({0, 1}) /\ Len(byte) = FIELD_BITS
BY FieldAssumption DEF Bytes

(* A message has four bytes, and DecodedCmd takes out the command. *)
LEMMA MessageFacts ==
  ASSUME NEW command \in Bytes
  PROVE  /\ Message(command) \in [1 .. 4 * FIELD_BITS -> {0, 1}]
         /\ DecodedCmd(Message(command)) = command
<1> DEFINE two == ADDRESS \o Inverted(ADDRESS)
           three == two \o command
           four == three \o Inverted(command)
<1>1. ADDRESS \in Bytes /\ Inverted(ADDRESS) \in Bytes /\ Inverted(command) \in Bytes
  BY FieldAssumption, InvertedType
<1>2. two \in Seq({0, 1}) /\ Len(two) = 2 * FIELD_BITS
  <2>1. /\ ADDRESS \in Seq({0, 1}) /\ Len(ADDRESS) = FIELD_BITS
        /\ Inverted(ADDRESS) \in Seq({0, 1}) /\ Len(Inverted(ADDRESS)) = FIELD_BITS
    BY <1>1, BytesAreSeqs
  <2> QED
    BY <2>1, FieldAssumption
<1>3. /\ three \in Seq({0, 1}) /\ Len(three) = 3 * FIELD_BITS
      /\ \A k \in 1 .. FIELD_BITS : three[2 * FIELD_BITS + k] = command[k]
  <2> HIDE DEF two
  <2>1. command \in Seq({0, 1}) /\ Len(command) = FIELD_BITS
    BY BytesAreSeqs
  <2> QED
    BY <1>2, <2>1, FieldAssumption
<1>4. /\ four \in Seq({0, 1}) /\ Len(four) = 4 * FIELD_BITS
      /\ \A k \in 1 .. 3 * FIELD_BITS : four[k] = three[k]
  <2> HIDE DEF three
  <2>1. Inverted(command) \in Seq({0, 1}) /\ Len(Inverted(command)) = FIELD_BITS
    BY <1>1, BytesAreSeqs
  <2> QED
    BY <1>3, <2>1, FieldAssumption
<1>5. Message(command) = four
  BY DEF Message
<1> HIDE DEF four, three
<1>6. four \in [1 .. 4 * FIELD_BITS -> {0, 1}]
  BY <1>4, LenProperties
<1>7. DecodedCmd(four) = command
  <2>1. \A k \in 1 .. FIELD_BITS : four[2 * FIELD_BITS + k] = command[k]
    BY <1>3, <1>4, FieldAssumption
  <2> QED
    BY <2>1 DEF DecodedCmd, Bytes
<1> QED
  BY <1>5, <1>6, <1>7

(* The gaps of a command are its leader and one or two ticks for each bit. *)
LEMMA GapsFacts ==
  ASSUME NEW f \in Commands \cup {Repeat}
  PROVE  /\ Gaps(f) \in Seq(Ticks)
         /\ Len(Gaps(f)) \in 1 .. LAST_BIT_PULSE - 1
         /\ f \in Commands =>
              /\ Len(Gaps(f)) = LAST_BIT_PULSE - 1
              /\ \A k \in 1 .. 4 * FIELD_BITS : Gaps(f)[1 + k] = 1 + Message(f)[k]
<1>1. LAST_BIT_PULSE \in Nat /\ LAST_BIT_PULSE = 2 + 4 * FIELD_BITS
  BY FieldAssumption DEF LAST_BIT_PULSE
<1>2. <<LEADER_MS>> \in Seq(Ticks) /\ Len(<<LEADER_MS>>) = 1
  BY DEF Ticks
<1>3. CASE f = Repeat
  BY <1>1, <1>2, <1>3, FieldAssumption DEF Gaps
<1>4. CASE f \in Commands
  <2> DEFINE bits == [k \in 1 .. 4 * FIELD_BITS |-> 1 + Message(f)[k]]
  <2>1. f # Repeat /\ f \in Bytes
    BY <1>4, FieldAssumption
  <2>2. Message(f) \in [1 .. 4 * FIELD_BITS -> {0, 1}]
    BY <2>1, MessageFacts
  <2>3. bits \in [1 .. 4 * FIELD_BITS -> Ticks]
    BY <2>2 DEF Ticks
  <2>4. bits \in Seq(Ticks) /\ Len(bits) = 4 * FIELD_BITS
    BY <2>3, FieldAssumption
  <2>5. Gaps(f) = <<LEADER_MS>> \o bits
    BY <2>1 DEF Gaps
  <2>6. \A k \in 1 .. 4 * FIELD_BITS : bits[k] = 1 + Message(f)[k]
    OBVIOUS
  <2> HIDE DEF bits
  <2>7. Gaps(f) \in Seq(Ticks) /\ Len(Gaps(f)) = 1 + 4 * FIELD_BITS
    BY <1>2, <2>4, <2>5, ConcatProperties
  <2>8. ASSUME NEW k \in 1 .. 4 * FIELD_BITS
        PROVE  Gaps(f)[1 + k] = bits[k]
    BY <1>2, <2>4, <2>5, FieldAssumption
  <2> QED
    BY <1>1, <2>6, <2>7, <2>8, FieldAssumption
<1> QED
  BY <1>3, <1>4

(* A bit is shifted in at the end. *)
LEMMA ShiftFacts ==
  ASSUME NEW message \in [1 .. 4 * FIELD_BITS -> {0, 1}], NEW ms
  PROVE  /\ ShiftIn(message, ms) \in [1 .. 4 * FIELD_BITS -> {0, 1}]
         /\ \A k \in 1 .. 4 * FIELD_BITS - 1 : ShiftIn(message, ms)[k] = message[k + 1]
         /\ ShiftIn(message, ms)[4 * FIELD_BITS] = IF ms >= 2 THEN 1 ELSE 0
<1> DEFINE bit == IF ms >= 2 THEN 1 ELSE 0
<1>1. bit \in {0, 1}
  OBVIOUS
<1> HIDE DEF bit
<1>2. /\ message \in Seq({0, 1}) /\ Len(message) = 4 * FIELD_BITS
      /\ message # <<>>
  BY FieldAssumption
<1>3. /\ Tail(message) \in Seq({0, 1}) /\ Len(Tail(message)) = 4 * FIELD_BITS - 1
      /\ \A k \in 1 .. 4 * FIELD_BITS - 1 : Tail(message)[k] = message[k + 1]
  BY <1>2, HeadTailProperties
<1>4. /\ Append(Tail(message), bit) \in Seq({0, 1})
      /\ Len(Append(Tail(message), bit)) = 4 * FIELD_BITS
      /\ \A k \in 1 .. 4 * FIELD_BITS - 1 :
           Append(Tail(message), bit)[k] = Tail(message)[k]
      /\ Append(Tail(message), bit)[4 * FIELD_BITS] = bit
  BY <1>1, <1>3, FieldAssumption
<1>5. ShiftIn(message, ms) = Append(Tail(message), bit)
  BY DEF ShiftIn, bit
<1> QED
  BY <1>3, <1>4, <1>5, LenProperties DEF bit

-----------------------------------------------------------------------------
(* The frame and the buffer in a state of the invariant. *)

(* A count below the modulus. *)
LEMMA SmallRemainder ==
  ASSUME NEW a \in Nat, NEW n \in Nat, a < n
  PROVE  a % n = a
OBVIOUS

(* No gap is as long as the timeout. *)
LEMMA TicksBelowTimeout ==
  ASSUME NEW ms \in Ticks
  PROVE  ms \in 1 .. TIMER_TIMEOUT_MS - 1
BY TimeAssumption DEF Ticks

(* Gaps still to come are the whole frame exactly when there are as many. *)
LEMMA WholeFrame ==
  ASSUME NEW f \in Commands \cup {Repeat}, NEW gaps \in Seq(Ticks),
         \A k \in 1 .. Len(gaps) :
           gaps[k] = Gaps(f)[Len(Gaps(f)) - Len(gaps) + k]
  PROVE  gaps = Gaps(f) <=> Len(gaps) = Len(Gaps(f))
<1>1. Gaps(f) \in Seq(Ticks)
  BY GapsFacts
<1>2. ASSUME Len(gaps) = Len(Gaps(f)) PROVE gaps = Gaps(f)
  <2>1. \A k \in 1 .. Len(gaps) : gaps[k] = Gaps(f)[k]
    BY <1>1, <1>2
  <2> QED
    BY <1>1, <1>2, <2>1, SeqEqual
<1> QED
  BY <1>2

(* The remote is in a frame, or its last edge is being served. *)
InFrame == todo # <<>> \/ P2IFG

LEMMA FrameFacts ==
  ASSUME TypeOK, FrameInv, InFrame
  PROVE  /\ frame \in Commands \cup {Repeat}
         /\ Len(todo) \in 0 .. Len(Gaps(frame))
         /\ Len(Gaps(frame)) \in 1 .. LAST_BIT_PULSE - 1
         /\ AtFirstEdge <=> Len(todo) = Len(Gaps(frame))
         /\ AtFirstEdge => todo # <<>>
         /\ todo # <<>> => Head(todo) \in 1 .. TIMER_TIMEOUT_MS - 1
<1>1. frame \in Commands \cup {Repeat}
  BY DEF TypeOK, FrameInv, InFrame
<1>2. todo \in Seq(Ticks)
  BY DEF TypeOK, Ticks
<1>3. /\ Len(todo) <= Len(Gaps(frame))
      /\ \A k \in 1 .. Len(todo) :
           todo[k] = Gaps(frame)[Len(Gaps(frame)) - Len(todo) + k]
  BY DEF FrameInv, InFrame
<1>4. AtFirstEdge <=> Len(todo) = Len(Gaps(frame))
  BY <1>1, <1>2, <1>3, WholeFrame DEF AtFirstEdge
<1>5. Len(Gaps(frame)) \in 1 .. LAST_BIT_PULSE - 1
  BY <1>1, GapsFacts
<1>6. todo # <<>> => Head(todo) \in 1 .. TIMER_TIMEOUT_MS - 1
  BY <1>2, HeadTailProperties, TicksBelowTimeout
<1> QED
  BY <1>1, <1>2, <1>3, <1>4, <1>5, <1>6

(* A frame the receiver can follow is not reset between its edges. *)
LEMMA NoResetWithinFrame ==
  ASSUME IInv, lost = 0 \/ good, InFrame, ~(AtFirstEdge /\ P2IFG), CCIFG
  PROVE  ~TimedOut
<1>1. TypeOK /\ FrameInv /\ GapInv
  BY DEF IInv
<1>2. ~P2IFG /\ todo # <<>>
  BY <1>1 DEF FrameInv, InFrame
<1>3. timer_ms + 1 <= elapsed + 1
  BY <1>1, <1>2 DEF GapInv, TypeOK, Bit
<1>4. elapsed <= TIMER_TIMEOUT_MS - 1
  BY <1>1, <1>2, FrameFacts, TimeAssumption DEF FrameInv, TypeOK
<1> QED
  BY <1>1, <1>3, <1>4, TimeAssumption DEF TimedOut, TypeOK

(* The buffer is one of those that RingBufferProofs is about. *)
LEMMA BufferFacts ==
  ASSUME TypeOK
  PROVE  /\ BUFFER_ELEMENT_CNT \in 2 .. 255
         /\ ir_cmd_buffer \in RingBuffers(Bytes, BUFFER_ELEMENT_CNT)
BY SizesAssumption DEF TypeOK

-----------------------------------------------------------------------------
(* After ir_remote_init. *)
LEMMA InitIInv == Init => IInv
<1> SUFFICES ASSUME Init PROVE IInv
  OBVIOUS
<1>1. TypeOK
  <2>1. ZeroBits(FIELD_BITS) \in Bytes /\ NoMessage \in [1 .. 4 * FIELD_BITS -> {0, 1}]
    BY DEF ZeroBits, NoMessage, Bytes
  <2>2. ir_cmd_buffer \in RingBuffers(Bytes, BUFFER_ELEMENT_CNT)
    BY <2>1, SizesAssumption DEF Init, NewRingBuffer, RingBuffers
  <2>3. /\ todo \in Seq({1, 2, LEADER_MS})
        /\ {expected, decoded, taken} \subseteq Seq(Bytes)
    BY DEF Init
  <2>4. /\ pulse_count \in 0 .. PULSE_RANGE - 1
        /\ timer_ms \in 0 .. TIMER_TIMEOUT_MS
        /\ elapsed \in 0 .. TIMER_TIMEOUT_MS + 1
        /\ frames \in 0 .. MaxFrames /\ lost \in 0 .. MaxLost
    BY FieldAssumption, TimeAssumption, SizesAssumption DEF Init
  <2> QED
    BY <2>1, <2>2, <2>3, <2>4 DEF Init, TypeOK
<1>2. FrameInv
  BY DEF Init, FrameInv
<1>3. TimerInv /\ GapInv /\ GoodInv
  BY DEF Init, TimerInv, GapInv, GoodInv
<1>4. GhostInv
  BY FieldAssumption DEF Init, GhostInv, Bit, LAST_BIT_PULSE
<1>5. BufferInv
  BY SizesAssumption DEF Init, BufferInv, NewRingBuffer, Count
<1> QED
  BY <1>1, <1>2, <1>3, <1>4, <1>5 DEF IInv

-----------------------------------------------------------------------------
(* The remote control. *)

(* An edge it sends. *)
LEMMA ArrivesFacts ==
  ASSUME TypeOK, Arrives
  PROVE  /\ P2IFG' \in BOOLEAN
         /\ lost' \in 0 .. MaxLost
         /\ lost' = 0 => lost = 0 /\ P2IFG'
<1>1. P2IFG' \in BOOLEAN
  BY DEF Arrives
<1>2. lost' \in 0 .. MaxLost
  BY SizesAssumption DEF Arrives, TypeOK
<1>3. lost + 1 # 0
  BY SizesAssumption DEF TypeOK
<1>4. lost' = 0 => lost = 0 /\ P2IFG'
  BY <1>3 DEF Arrives
<1> QED
  BY <1>1, <1>2, <1>4

(* It starts a frame. *)
LEMMA StartFrameStep ==
  ASSUME IInv, NEW f \in Commands \cup {Repeat}, StartFrame(f)
  PROVE  IInv'
<1> USE DEF StartFrame
<1>1. TypeOK /\ FrameInv /\ TimerInv
  BY DEF IInv
<1>2. /\ Gaps(f) \in Seq(Ticks)
      /\ Len(Gaps(f)) \in 1 .. LAST_BIT_PULSE - 1
  BY GapsFacts
<1>3. LAST_BIT_PULSE \in Nat
  BY FieldAssumption DEF LAST_BIT_PULSE
<1>4. P2IFG' \in BOOLEAN /\ lost' \in 0 .. MaxLost
  BY <1>1, ArrivesFacts
<1>5. lost' = 0 => lost = 0 /\ P2IFG'
  BY <1>1, ArrivesFacts
<1>6. TypeOK'
  <2>1. frames' \in 0 .. MaxFrames /\ elapsed' \in 0 .. TIMER_TIMEOUT_MS + 1
    BY <1>1, SizesAssumption, TimeAssumption DEF TypeOK
  <2>2. todo' \in Seq({1, 2, LEADER_MS})
    BY <1>2 DEF Ticks
  <2> QED
    BY <1>1, <1>4, <2>1, <2>2 DEF TypeOK
<1>7. FrameInv'
  <2>1. frame' # NoFrame
    BY FieldAssumption
  <2>2. AtFirstEdge'
    BY DEF AtFirstEdge
  <2>3. \A k \in 1 .. Len(Gaps(f)) : Gaps(f)[k] = Gaps(f)[Len(Gaps(f)) - Len(Gaps(f)) + k]
    BY <1>2
  <2>4. todo' # <<>> => elapsed' <= Head(todo')
    BY <1>2, HeadTailProperties, TicksBelowTimeout
  <2> QED
    BY <1>2, <2>1, <2>2, <2>3, <2>4 DEF FrameInv
<1>8. TimerInv'
  BY <1>1 DEF TimerInv, TypeOK, Bit
<1>9. GapInv'
  BY <1>5 DEF GapInv
<1>10. GoodInv'
  BY DEF GoodInv
<1>11. GhostInv'
  <2> SUFFICES ASSUME lost' = 0, ~strayed', ~wrapped' PROVE GhostInv'
    BY DEF GhostInv
  <2>1. GhostInv /\ lost = 0 /\ ~strayed /\ ~wrapped /\ P2IFG'
    BY <1>5 DEF IInv
  <2>2. AtFirstEdge'
    BY DEF AtFirstEdge
  <2>3. expected' = decoded'
    BY <2>1 DEF GhostInv
  <2> QED
    BY <2>1, <2>2, <2>3 DEF GhostInv
<1>12. BufferInv'
  BY DEF IInv, BufferInv
<1> QED
  BY <1>6, <1>7, <1>8, <1>9, <1>10, <1>11, <1>12 DEF IInv

(* It sends the next edge of a frame. *)
LEMMA NextEdgeStep ==
  ASSUME IInv, NextEdge
  PROVE  IInv'
<1> USE DEF NextEdge
<1>1. TypeOK /\ FrameInv /\ TimerInv /\ GapInv /\ GoodInv /\ InFrame
  BY DEF IInv, InFrame
<1>2. P2IFG' \in BOOLEAN /\ lost' \in 0 .. MaxLost
  BY <1>1, ArrivesFacts
<1>3. lost' = 0 => lost = 0 /\ P2IFG'
  BY <1>1, ArrivesFacts
<1>4. /\ todo \in Seq(Ticks) /\ todo' \in Seq(Ticks)
      /\ Len(todo) \in Nat \ {0} /\ Len(todo') = Len(todo) - 1
      /\ \A k \in 1 .. Len(todo') : todo'[k] = todo[k + 1]
      /\ todo' = <<>> <=> Len(todo) = 1
  <2>1. todo \in Seq(Ticks)
    BY <1>1 DEF TypeOK, Ticks
  <2>2. /\ Tail(todo) \in Seq(Ticks) /\ Len(Tail(todo)) = Len(todo) - 1
        /\ \A k \in 1 .. Len(Tail(todo)) : Tail(todo)[k] = todo[k + 1]
    BY <2>1, HeadTailProperties
  <2>3. /\ todo \in Seq(Ticks) /\ todo' \in Seq(Ticks)
        /\ Len(todo) \in Nat \ {0} /\ Len(todo') = Len(todo) - 1
        /\ \A k \in 1 .. Len(todo') : todo'[k] = todo[k + 1]
    BY <2>1, <2>2, EmptySeq
  <2>4. todo' = <<>> <=> Len(todo') = 0
    BY <2>3, EmptySeq
  <2> QED
    BY <2>3, <2>4
<1>5. good' \in BOOLEAN /\ (good' => good /\ P2IFG')
  BY <1>1, <1>2 DEF TypeOK
<1>6. TypeOK'
  <2>1. (expected \in Seq(Bytes))'
    BY <1>1, <1>5, FieldAssumption DEF TypeOK
  <2>2. elapsed' \in 0 .. TIMER_TIMEOUT_MS + 1
    BY TimeAssumption
  <2>3. todo' \in Seq({1, 2, LEADER_MS})
    BY <1>4 DEF Ticks
  <2> QED
    BY <1>1, <1>2, <1>5, <2>1, <2>2, <2>3 DEF TypeOK
<1>7. FrameInv' /\ ~AtFirstEdge'
  <2>1. /\ frame \in Commands \cup {Repeat} /\ frame # NoFrame
        /\ Len(todo) \in 0 .. Len(Gaps(frame))
        /\ Len(Gaps(frame)) \in Nat
    BY <1>1, FrameFacts, FieldAssumption
  <2>2. \A k \in 1 .. Len(todo) :
          todo[k] = Gaps(frame)[Len(Gaps(frame)) - Len(todo) + k]
    BY <1>1, <2>1 DEF FrameInv
  <2>3. ASSUME NEW k \in 1 .. Len(todo')
        PROVE  todo'[k] = Gaps(frame)[Len(Gaps(frame)) - Len(todo') + k]
    <3>1. todo'[k] = todo[k + 1] /\ k + 1 \in 1 .. Len(todo)
      BY <1>4
    <3>2. Len(Gaps(frame)) - Len(todo) + (k + 1) = Len(Gaps(frame)) - Len(todo') + k
      BY <1>4, <2>1
    <3> QED
      BY <2>2, <3>1, <3>2
  <2>4. todo' # <<>> => elapsed' <= Head(todo')
    BY <1>4, HeadTailProperties, TicksBelowTimeout
  <2>5. ~AtFirstEdge'
    BY <1>4, <2>1 DEF AtFirstEdge
  <2> QED
    BY <1>4, <2>1, <2>3, <2>4, <2>5 DEF FrameInv
<1>8. TimerInv'
  BY <1>1 DEF TimerInv, TypeOK, Bit
<1>9. GapInv'
  BY <1>3, <1>5 DEF GapInv
<1>10. GoodInv'
  <2> SUFFICES ASSUME good' PROVE GoodInv'
    BY DEF GoodInv
  <2>1. good /\ P2IFG' /\ ~P2IFG /\ frame \in Commands
    BY <1>1, <1>5 DEF TypeOK
  <2>2. pulse_count + Len(todo) = LAST_BIT_PULSE
    BY <1>1, <1>4, <2>1 DEF GoodInv, Bit, TypeOK
  <2>3. ASSUME pulse_count >= 2 PROVE timer_ms = Gaps(frame)[pulse_count]
    <3>1. Len(Gaps(frame)) = LAST_BIT_PULSE - 1 /\ LAST_BIT_PULSE \in Nat
      BY <2>1, GapsFacts, FieldAssumption DEF LAST_BIT_PULSE
    <3>2. ~AtFirstEdge
      BY <1>1, <1>4, <2>2, <2>3, <3>1, FrameFacts DEF TypeOK
    <3>3. timer_ms = Head(todo)
      BY <1>1, <2>1, <3>2 DEF GapInv, Bit, TypeOK
    <3>4. Head(todo) = Gaps(frame)[Len(Gaps(frame)) - Len(todo) + 1]
      BY <1>1, <1>4, <2>1, FieldAssumption DEF FrameInv
    <3> QED
      BY <1>1, <1>4, <2>2, <3>1, <3>3, <3>4 DEF TypeOK
  <2>4. pulse_count + Bit(P2IFG') + Len(todo') = LAST_BIT_PULSE
    BY <1>1, <1>4, <2>1, <2>2 DEF Bit, TypeOK
  <2>5. \A j \in 1 .. pulse_count - 2 :
          raw[4 * FIELD_BITS + 2 - pulse_count + j] = Message(frame)[j]
    BY <1>1, <2>1 DEF GoodInv
  <2> QED
    BY <1>7, <2>1, <2>3, <2>4, <2>5 DEF GoodInv
<1>11. GhostInv'
  <2> SUFFICES ASSUME lost' = 0, ~strayed', ~wrapped' PROVE GhostInv'
    BY DEF GhostInv
  <2>1. GhostInv /\ lost = 0 /\ ~strayed /\ ~wrapped /\ P2IFG' /\ ~P2IFG
    BY <1>3 DEF IInv
  <2>2. good' <=> good
    BY <2>1
  <2>3. good \/ pulse_count >= LAST_BIT_PULSE
    BY <2>1 DEF GhostInv
  <2>4. expected = decoded
    BY <2>1 DEF GhostInv
  <2>5. expected' = IF good' /\ todo' = <<>> /\ P2IFG'
                    THEN Append(decoded, frame) ELSE decoded
    BY <1>4, <2>1, <2>4
  <2> QED
    BY <2>1, <2>2, <2>3, <2>5 DEF GhostInv
<1>12. BufferInv'
  BY DEF IInv, BufferInv
<1> QED
  BY <1>6, <1>7, <1>8, <1>9, <1>10, <1>11, <1>12 DEF IInv

(* A step that leaves the receiver, its interrupts and the remote alone. *)
LEMMA ReceiverUnchanged ==
  ASSUME IInv, UNCHANGED <<remote, receiver, CCIFG, P2IFG, decoded>>
  PROVE  (FrameInv /\ TimerInv /\ GapInv /\ GoodInv /\ GhostInv)'
BY DEF IInv, FrameInv, TimerInv, GapInv, GoodInv, GhostInv, AtFirstEdge

-----------------------------------------------------------------------------
(* The timer. *)

(* A millisecond passes. *)
LEMMA MillisecondStep ==
  ASSUME IInv, Millisecond
  PROVE  IInv'
<1> USE DEF Millisecond
<1>1. TypeOK /\ FrameInv /\ TimerInv /\ GapInv /\ GoodInv
  BY DEF IInv
<1>2. AtFirstEdge' <=> AtFirstEdge
  BY DEF AtFirstEdge
<1>3. TypeOK'
  <2>1. todo # <<>> => Head(todo) \in 1 .. TIMER_TIMEOUT_MS - 1
    BY <1>1, FrameFacts DEF InFrame
  <2>2. elapsed' \in 0 .. TIMER_TIMEOUT_MS + 1
    BY <1>1, <2>1, TimeAssumption DEF TypeOK
  <2>3. CCIFG' \in BOOLEAN
    BY <1>1 DEF TypeOK
  <2> QED
    BY <1>1, <2>2, <2>3 DEF TypeOK
<1>4. FrameInv'
  <2>1. todo # <<>> => elapsed + 1 <= Head(todo)
    <3>1. todo # <<>> => Head(todo) \in 1 .. TIMER_TIMEOUT_MS - 1
      BY <1>1, FrameFacts DEF InFrame
    <3> QED
      BY <1>1, <3>1, TimeAssumption DEF TypeOK
  <2> QED
    BY <1>1, <1>2, <2>1 DEF FrameInv
<1>5. TimerInv'
  BY <1>1, TimeAssumption DEF TimerInv, TypeOK, Bit
<1>6. GapInv'
  BY <1>1, <1>2, TimeAssumption DEF GapInv, TypeOK, Bit
<1>7. GoodInv'
  BY <1>1, <1>2 DEF GoodInv
<1>8. GhostInv'
  BY <1>2 DEF IInv, GhostInv
<1>9. BufferInv'
  BY DEF IInv, BufferInv
<1> QED
  BY <1>3, <1>4, <1>5, <1>6, <1>7, <1>8, <1>9 DEF IInv

(* The interrupt of the timer is served. *)
LEMMA TimerIsrStep ==
  ASSUME IInv, isr_timer_a0
  PROVE  IInv'
<1> USE DEF isr_timer_a0
<1>1. TypeOK /\ FrameInv /\ TimerInv /\ GapInv /\ GoodInv
  BY DEF IInv
<1>2. AtFirstEdge' <=> AtFirstEdge
  BY DEF AtFirstEdge
<1>3. FrameInv'
  BY <1>1, <1>2 DEF FrameInv
<1>4. BufferInv'
  BY DEF IInv, BufferInv
<1>5. CASE ~TimedOut /\ CountTick
  <2> USE <1>5 DEF CountTick
  <2>1. TypeOK'
    <3>1. timer_ms' \in 0 .. TIMER_TIMEOUT_MS
      BY <1>1, TimeAssumption DEF TypeOK, TimedOut
    <3> QED
      BY <1>1, <3>1 DEF TypeOK
  <2>2. TimerInv'
    BY <1>1, TimeAssumption DEF TimerInv, TypeOK, Bit
  <2>3. GapInv'
    BY <1>1, <1>2, TimeAssumption DEF GapInv, TypeOK, Bit
  <2>4. good => ~P2IFG
    BY <1>1 DEF FrameInv, GoodInv
  <2>5. GoodInv'
    BY <1>1, <1>2, <2>4 DEF GoodInv
  <2>6. GhostInv'
    BY <1>2 DEF IInv, GhostInv
  <2> QED
    BY <1>3, <1>4, <2>1, <2>2, <2>3, <2>5, <2>6 DEF IInv
<1>6. CASE TimedOut /\ Reset
  <2> USE <1>6 DEF Reset
  <2>1. TypeOK'
    <3>1. NoMessage \in [1 .. 4 * FIELD_BITS -> {0, 1}]
      BY DEF NoMessage, ZeroBits
    <3>2. timer_ms' \in 0 .. TIMER_TIMEOUT_MS /\ pulse_count' \in 0 .. PULSE_RANGE - 1
      BY TimeAssumption, SizesAssumption, FieldAssumption
    <3> QED
      BY <1>1, <3>1, <3>2 DEF TypeOK
  <2>2. TimerInv'
    BY DEF TimerInv
  <2>3. (lost = 0 \/ good) /\ InFrame => AtFirstEdge /\ P2IFG
    BY NoResetWithinFrame
  <2>4. GapInv'
    BY <2>3 DEF GapInv, InFrame
  <2>5. good => ~InFrame
    BY <1>1, <2>3 DEF GoodInv
  <2>6. GoodInv'
    BY <1>1, <1>2, <2>5 DEF GoodInv, InFrame
  <2>7. GhostInv'
    <3> SUFFICES ASSUME lost = 0, ~strayed, ~wrapped PROVE GhostInv'
      BY DEF GhostInv
    <3>1. GhostInv
      BY DEF IInv
    <3>2. InFrame => AtFirstEdge /\ P2IFG
      BY <2>3
    <3> QED
      BY <1>2, <3>1, <3>2 DEF GhostInv, InFrame
  <2> QED
    BY <1>3, <1>4, <2>1, <2>2, <2>4, <2>6, <2>7 DEF IInv
<1> QED
  BY <1>5, <1>6

-----------------------------------------------------------------------------
(* The edges. *)

(* What a put does to the commands in the buffer, from RingBufferProofs. *)
LEMMA PutFacts ==
  ASSUME TypeOK, NEW d \in Bytes, ir_cmd_buffer' = ring_buffer_put(ir_cmd_buffer, d)
  PROVE  /\ ir_cmd_buffer' \in RingBuffers(Bytes, BUFFER_ELEMENT_CNT)
         /\ ~ring_buffer_full(ir_cmd_buffer) =>
              /\ Count(ir_cmd_buffer') = Count(ir_cmd_buffer) + 1
              /\ Element(ir_cmd_buffer', Count(ir_cmd_buffer) + 1) = d
              /\ \A k \in 1 .. Count(ir_cmd_buffer) :
                   Element(ir_cmd_buffer', k) = Element(ir_cmd_buffer, k)
<1>1. /\ BUFFER_ELEMENT_CNT \in 2 .. 255
      /\ ir_cmd_buffer \in RingBuffers(Bytes, BUFFER_ELEMENT_CNT)
  BY BufferFacts
<1>2. ring_buffer_put(ir_cmd_buffer, d) \in RingBuffers(Bytes, BUFFER_ELEMENT_CNT)
  BY <1>1, PutType, Zenon
<1>3. ASSUME ~ring_buffer_full(ir_cmd_buffer)
      PROVE  /\ Count(ring_buffer_put(ir_cmd_buffer, d)) = Count(ir_cmd_buffer) + 1
             /\ Element(ring_buffer_put(ir_cmd_buffer, d), Count(ir_cmd_buffer) + 1) = d
  BY <1>1, <1>3, PutAppends, Zenon
<1>4. ASSUME ~ring_buffer_full(ir_cmd_buffer), NEW k \in 1 .. Count(ir_cmd_buffer)
      PROVE  Element(ring_buffer_put(ir_cmd_buffer, d), k) = Element(ir_cmd_buffer, k)
  BY <1>1, <1>4, PutKeeps, Zenon
<1> QED
  BY <1>2, <1>3, <1>4

(* The bits that isr_pulse has of a good frame after the edge. *)
LEMMA BitsAfterPulse ==
  ASSUME IInv, isr_pulse, good, ~AtFirstEdge
  PROVE  /\ pulse_count' = pulse_count + 1
         /\ pulse_count + 1 + Len(todo) = LAST_BIT_PULSE
         /\ \A j \in 1 .. pulse_count' - 2 :
              raw'[4 * FIELD_BITS + 2 - pulse_count' + j] = Message(frame)[j]
<1>1. TypeOK /\ GoodInv /\ P2IFG
  BY DEF IInv, isr_pulse
<1>2. frame \in Commands /\ frame \in Bytes
  BY <1>1, FieldAssumption DEF TypeOK
<1>3. pulse_count + 1 + Len(todo) = LAST_BIT_PULSE /\ pulse_count \in Nat /\ Len(todo) \in Nat
  <2>1. pulse_count \in Nat /\ Len(todo) \in Nat
    BY <1>1, SizesAssumption, LenProperties DEF TypeOK
  <2> QED
    BY <1>1, <2>1 DEF GoodInv, Bit
<1>4. pulse_count' = pulse_count + 1
  <2>1. pulse_count + 1 < PULSE_RANGE
    BY <1>3, SizesAssumption, FieldAssumption DEF LAST_BIT_PULSE
  <2> QED
    BY <1>3, <2>1, SizesAssumption, SmallRemainder DEF isr_pulse
<1>5. ASSUME NEW j \in 1 .. pulse_count' - 2
      PROVE  raw'[4 * FIELD_BITS + 2 - pulse_count' + j] = Message(frame)[j]
  <2>1. pulse_count' \in FIRST_BIT_PULSE .. LAST_BIT_PULSE
    BY <1>3, <1>4, FieldAssumption DEF FIRST_BIT_PULSE, LAST_BIT_PULSE
  <2>2. raw' = ShiftIn(raw, timer_ms)
    BY <2>1 DEF isr_pulse
  <2>3. /\ \A k \in 1 .. 4 * FIELD_BITS - 1 : raw'[k] = raw[k + 1]
        /\ raw'[4 * FIELD_BITS] = IF timer_ms >= 2 THEN 1 ELSE 0
    BY <1>1, <2>2, ShiftFacts DEF TypeOK
  <2>4. CASE j = pulse_count' - 2
    <3>1. /\ pulse_count = 1 + j /\ j \in 1 .. 4 * FIELD_BITS
          /\ 4 * FIELD_BITS + 2 - pulse_count' + j = 4 * FIELD_BITS
      BY <1>3, <1>4, <2>1, <2>4, FieldAssumption DEF FIRST_BIT_PULSE, LAST_BIT_PULSE
    <3>2. timer_ms = 1 + Message(frame)[j]
      BY <1>1, <1>2, <3>1, GapsFacts DEF GoodInv
    <3>3. Message(frame)[j] \in {0, 1}
      BY <1>2, <3>1, MessageFacts
    <3> QED
      BY <2>3, <3>1, <3>2, <3>3
  <2>5. CASE j # pulse_count' - 2
    <3>1. /\ j \in 1 .. pulse_count - 2
          /\ 4 * FIELD_BITS + 2 - pulse_count' + j \in 1 .. 4 * FIELD_BITS - 1
          /\ 4 * FIELD_BITS + 2 - pulse_count' + j + 1
               = 4 * FIELD_BITS + 2 - pulse_count + j
      BY <1>3, <1>4, <2>1, <2>5, FieldAssumption DEF FIRST_BIT_PULSE, LAST_BIT_PULSE
    <3>2. raw[4 * FIELD_BITS + 2 - pulse_count + j] = Message(frame)[j]
      BY <1>1, <3>1 DEF GoodInv
    <3> QED
      BY <2>3, <3>1, <3>2
  <2> QED
    BY <2>4, <2>5
<1> QED
  BY <1>3, <1>4, <1>5

(* The last edge of a good frame queues its command. *)
LEMMA LastPulseDecodes ==
  ASSUME IInv, isr_pulse, good, ~AtFirstEdge, todo = <<>>
  PROVE  decoded' = Append(decoded, frame)
<1>1. TypeOK /\ frame \in Bytes
  BY FieldAssumption DEF IInv, TypeOK
<1>2. /\ pulse_count' = LAST_BIT_PULSE
      /\ \A j \in 1 .. pulse_count' - 2 :
           raw'[4 * FIELD_BITS + 2 - pulse_count' + j] = Message(frame)[j]
  BY <1>1, BitsAfterPulse, SizesAssumption DEF TypeOK
<1>3. ASSUME NEW j \in 1 .. 4 * FIELD_BITS PROVE raw'[j] = Message(frame)[j]
  <2>1. pulse_count' - 2 = 4 * FIELD_BITS /\ 4 * FIELD_BITS + 2 - pulse_count' + j = j
    BY <1>2, FieldAssumption DEF LAST_BIT_PULSE
  <2> QED
    BY <1>2, <2>1
<1>4. ASSUME NEW k \in 1 .. FIELD_BITS
      PROVE  raw'[2 * FIELD_BITS + k] = Message(frame)[2 * FIELD_BITS + k]
  BY <1>3, FieldAssumption
<1>5. DecodedCmd(raw') = DecodedCmd(Message(frame))
  BY <1>4 DEF DecodedCmd
<1>6. DecodedCmd(raw') = frame
  BY <1>1, <1>5, MessageFacts
<1> QED
  BY <1>2, <1>6 DEF isr_pulse, CompletesMessage

(* The interrupt of P2.0 is served. *)
LEMMA PulseStep ==
  ASSUME IInv, isr_pulse
  PROVE  IInv'
<1>1. TypeOK /\ FrameInv /\ TimerInv /\ GapInv /\ GoodInv /\ BufferInv /\ P2IFG /\ InFrame
  BY DEF IInv, isr_pulse, InFrame
<1>2. UNCHANGED <<todo, elapsed, frame, frames, lost, expected, taken, CCIFG, P2IE, pc>>
  BY DEF isr_pulse
<1>3. ~P2IFG' /\ timer_on' /\ timer_ms' = 0
  BY DEF isr_pulse, timer_start
<1>4. AtFirstEdge' <=> AtFirstEdge
  BY <1>2 DEF AtFirstEdge
<1>5. /\ frame \in Commands \cup {Repeat}
      /\ Len(todo) \in Nat
      /\ AtFirstEdge => todo # <<>> /\ Len(todo) = Len(Gaps(frame))
  BY <1>1, FrameFacts
<1>6. /\ pulse_count \in Nat
      /\ pulse_count' \in Nat /\ pulse_count' \in 0 .. PULSE_RANGE - 1
      /\ LAST_BIT_PULSE \in Nat
  BY <1>1, SizesAssumption, FieldAssumption DEF TypeOK, isr_pulse, LAST_BIT_PULSE
<1>7. raw' \in [1 .. 4 * FIELD_BITS -> {0, 1}]
  BY <1>1, ShiftFacts DEF TypeOK, isr_pulse
<1>8. DecodedCmd(raw') \in Bytes
  BY <1>7, FieldAssumption DEF DecodedCmd, Bytes
<1>9. \/ /\ CompletesMessage(pulse_count')
         /\ ir_cmd_buffer' = ring_buffer_put(ir_cmd_buffer, DecodedCmd(raw'))
         /\ decoded' = Append(decoded, DecodedCmd(raw'))
      \/ /\ ~CompletesMessage(pulse_count')
         /\ ir_cmd_buffer' = ir_cmd_buffer
         /\ decoded' = decoded
  BY DEF isr_pulse
<1>10. TypeOK'
  <2>1. ir_cmd_buffer' \in RingBuffers(Bytes, BUFFER_ELEMENT_CNT)
    BY <1>1, <1>8, <1>9, PutFacts DEF TypeOK
  <2>2. decoded' \in Seq(Bytes)
    <3>1. decoded \in Seq(Bytes)
      BY <1>1 DEF TypeOK
    <3>2. decoded' = decoded \/ decoded' = Append(decoded, DecodedCmd(raw'))
      BY <1>9
    <3> QED
      BY <1>8, <3>1, <3>2
  <2>3. timer_ms' \in 0 .. TIMER_TIMEOUT_MS
    BY <1>3, TimeAssumption
  <2>4. good' \in BOOLEAN /\ (good' => frame' \in Commands)
    BY <1>1, <1>5 DEF isr_pulse, TypeOK
  <2>5. strayed' \in BOOLEAN /\ wrapped' \in BOOLEAN /\ overrun' \in BOOLEAN
    BY <1>1 DEF isr_pulse, TypeOK
  <2>6. /\ timer_on' \in BOOLEAN /\ CCIFG' \in BOOLEAN /\ P2IFG' \in BOOLEAN
        /\ P2IE' = (pc' = "idle") /\ pc' \in {"idle", "get", "enable"}
    BY <1>1, <1>2 DEF isr_pulse, timer_start, TypeOK
  <2>7. /\ todo' \in Seq({1, 2, LEADER_MS})
        /\ elapsed' \in 0 .. TIMER_TIMEOUT_MS + 1
        /\ frame' \in Commands \cup {Repeat, NoFrame}
        /\ frames' \in 0 .. MaxFrames /\ lost' \in 0 .. MaxLost
        /\ expected' \in Seq(Bytes) /\ taken' \in Seq(Bytes)
    BY <1>1, <1>2 DEF TypeOK
  <2> QED
    BY <1>6, <1>7, <2>1, <2>2, <2>3, <2>4, <2>5, <2>6, <2>7 DEF TypeOK
<1>11. FrameInv'
  BY <1>1, <1>2, <1>3 DEF FrameInv
<1>12. TimerInv'
  <2>1. elapsed' = 0
    BY <1>1, <1>2 DEF FrameInv
  <2> QED
    BY <1>3, <2>1 DEF TimerInv, Bit
<1>13. GapInv'
  <2>1. elapsed' = 0 /\ (CCIFG' => AtFirstEdge')
    BY <1>1, <1>2, <1>4 DEF FrameInv
  <2> QED
    BY <1>3, <2>1 DEF GapInv, Bit
<1>14. GoodInv'
  <2> SUFFICES ASSUME good' PROVE GoodInv'
    BY DEF GoodInv
  <2>1. CASE AtFirstEdge
    <3>1. frame \in Commands /\ pulse_count = 0
      BY <1>5, <2>1 DEF isr_pulse
    <3>2. pulse_count' = 1
      <4>1. 1 < PULSE_RANGE
        BY SizesAssumption, FieldAssumption
      <4> QED
        BY <3>1, <4>1, SizesAssumption, SmallRemainder DEF isr_pulse
    <3>3. Len(todo) = LAST_BIT_PULSE - 1 /\ todo # <<>>
      BY <1>5, <2>1, <3>1, GapsFacts
    <3>4. pulse_count' + Bit(P2IFG') + Len(todo') = LAST_BIT_PULSE
      BY <1>2, <1>3, <1>6, <3>2, <3>3 DEF Bit
    <3>5. 1 .. pulse_count' - 2 = {}
      BY <3>2
    <3> QED
      BY <1>2, <1>3, <3>3, <3>4, <3>5 DEF GoodInv
  <2>2. CASE ~AtFirstEdge
    <3>1. good
      BY <2>2 DEF isr_pulse
    <3>2. /\ pulse_count' + Len(todo) = LAST_BIT_PULSE
          /\ \A j \in 1 .. pulse_count' - 2 :
               raw'[4 * FIELD_BITS + 2 - pulse_count' + j] = Message(frame)[j]
      BY <2>2, <3>1, BitsAfterPulse
    <3>3. ASSUME todo = <<>>
          PROVE  decoded' # <<>> /\ decoded'[Len(decoded')] = frame
      <4>1. decoded' = Append(decoded, frame) /\ decoded \in Seq(Bytes) /\ frame \in Bytes
        BY <1>1, <2>2, <3>1, <3>3, LastPulseDecodes, FieldAssumption DEF TypeOK
      <4> QED
        BY <4>1
    <3>4. pulse_count' + Bit(P2IFG') + Len(todo') = LAST_BIT_PULSE
      BY <1>2, <1>3, <1>5, <1>6, <3>2 DEF Bit
    <3> QED
      BY <1>2, <1>3, <1>4, <2>2, <3>2, <3>3, <3>4 DEF GoodInv
  <2> QED
    BY <2>1, <2>2
<1>15. GhostInv'
  <2> SUFFICES ASSUME lost = 0, ~strayed', ~wrapped' PROVE GhostInv'
    BY <1>2 DEF GhostInv
  <2>1. GhostInv /\ ~strayed /\ ~wrapped /\ pulse_count' # 0
    BY DEF IInv, isr_pulse
  <2>4. pulse_count' = pulse_count + 1
    <3>1. CASE pulse_count + 1 = PULSE_RANGE
      <4>1. PULSE_RANGE % PULSE_RANGE = 0
        BY SizesAssumption, FieldAssumption
      <4> QED
        BY <2>1, <3>1, <4>1 DEF isr_pulse
    <3>2. CASE pulse_count + 1 < PULSE_RANGE
      BY <1>6, <3>2, SizesAssumption, SmallRemainder DEF isr_pulse
    <3> QED
      BY <1>1, <3>1, <3>2, SizesAssumption DEF TypeOK
  <2>6. expected = IF good /\ todo = <<>> THEN Append(decoded, frame) ELSE decoded
    BY <1>1, <2>1 DEF GhostInv
  <2>7. CASE AtFirstEdge
    <3>1. good' <=> frame # Repeat /\ pulse_count = 0
      BY <2>7 DEF isr_pulse
    <3>2. ~(frame = Repeat /\ pulse_count = 0)
      BY <2>7 DEF isr_pulse
    <3>3. ~good /\ todo # <<>>
      BY <1>1, <1>5, <2>7 DEF GoodInv
    <3>4. pulse_count = 0 \/ pulse_count >= LAST_BIT_PULSE
      BY <2>1, <3>3 DEF GhostInv
    <3>5. good' \/ pulse_count' >= LAST_BIT_PULSE
      BY <1>6, <2>4, <3>1, <3>2, <3>4
    <3>6. ~CompletesMessage(pulse_count')
      BY <1>6, <2>4, <3>4, FieldAssumption DEF CompletesMessage, LAST_BIT_PULSE
    <3>7. expected' = decoded'
      BY <1>2, <1>9, <2>6, <3>3, <3>6
    <3> QED
      BY <1>2, <1>3, <3>3, <3>5, <3>7 DEF GhostInv
  <2>8. CASE ~AtFirstEdge
    <3>1. good' <=> good
      BY <1>1, <2>8 DEF isr_pulse, TypeOK
    <3>2. good \/ pulse_count >= LAST_BIT_PULSE
      BY <1>1, <2>1, <2>8 DEF GhostInv
    <3>3. CASE good
      <4>1. pulse_count' + Len(todo) = LAST_BIT_PULSE
        BY <2>8, <3>3, BitsAfterPulse
      <4>2. todo # <<>> => decoded' = decoded /\ expected = decoded
        <5> SUFFICES ASSUME todo # <<>> PROVE decoded' = decoded /\ expected = decoded
          OBVIOUS
        <5>1. Len(todo) # 0
          BY <1>1, EmptySeq DEF TypeOK
        <5>2. ~CompletesMessage(pulse_count')
          BY <1>5, <1>6, <4>1, <5>1 DEF CompletesMessage
        <5> QED
          BY <1>9, <2>6, <5>2
      <4>3. todo = <<>> => decoded' = expected /\ pulse_count' = LAST_BIT_PULSE
        <5>1. todo = <<>> => Len(todo) = 0
          OBVIOUS
        <5>2. ASSUME todo = <<>> PROVE pulse_count' = LAST_BIT_PULSE
          <6>1. pulse_count + 1 + 0 = LAST_BIT_PULSE /\ pulse_count' = pulse_count + 1
            BY <2>8, <3>3, <5>1, <5>2, BitsAfterPulse
          <6> QED
            BY <1>6, <6>1
        <5>3. todo = <<>> => decoded' = expected
          BY <2>6, <2>8, <3>3, LastPulseDecodes
        <5> QED
          BY <5>1, <5>2, <5>3
      <4> QED
        BY <1>2, <1>3, <1>6, <3>1, <3>3, <4>2, <4>3 DEF GhostInv
    <3>4. CASE ~good
      <4>1. pulse_count' > LAST_BIT_PULSE
        BY <1>6, <2>4, <3>2, <3>4
      <4>2. expected' = decoded'
        BY <1>2, <1>6, <1>9, <2>6, <3>4, <4>1 DEF CompletesMessage
      <4> QED
        BY <1>2, <1>3, <1>6, <3>1, <3>4, <4>1, <4>2 DEF GhostInv
    <3> QED
      BY <3>3, <3>4
  <2> QED
    BY <2>7, <2>8
<1>16. BufferInv'
  <2> SUFFICES ASSUME ~overrun' PROVE BufferInv'
    BY DEF BufferInv
  <2>1. ~overrun /\ (CompletesMessage(pulse_count') => ~ring_buffer_full(ir_cmd_buffer))
    BY DEF isr_pulse
  <2>2. CASE ir_cmd_buffer' = ir_cmd_buffer /\ decoded' = decoded
    BY <1>1, <1>2, <2>1, <2>2 DEF BufferInv
  <2>3. CASE /\ ir_cmd_buffer' = ring_buffer_put(ir_cmd_buffer, DecodedCmd(raw'))
             /\ decoded' = Append(decoded, DecodedCmd(raw'))
             /\ ~ring_buffer_full(ir_cmd_buffer)
    <3>1. /\ Count(ir_cmd_buffer') = Count(ir_cmd_buffer) + 1
          /\ Element(ir_cmd_buffer', Count(ir_cmd_buffer) + 1) = DecodedCmd(raw')
          /\ \A k \in 1 .. Count(ir_cmd_buffer) :
               Element(ir_cmd_buffer', k) = Element(ir_cmd_buffer, k)
      BY <1>1, <1>8, <2>3, PutFacts
    <3>2. Count(ir_cmd_buffer) \in Nat
      <4>1. Count(ir_cmd_buffer) \in 0 .. BUFFER_ELEMENT_CNT - 1
        BY <1>1, BufferFacts, CountInRange, Zenon
      <4> QED
        BY <4>1, SizesAssumption
    <3>3. decoded \in Seq(Bytes) /\ taken \in Seq(Bytes)
      BY <1>1 DEF TypeOK
    <3>4. /\ Len(decoded') = Len(decoded) + 1
          /\ decoded'[Len(decoded) + 1] = DecodedCmd(raw')
          /\ \A k \in 1 .. Len(decoded) : decoded'[k] = decoded[k]
      BY <1>8, <2>3, <3>3
    <3>5. /\ Len(decoded) = Len(taken) + Count(ir_cmd_buffer)
          /\ \A k \in 1 .. Len(taken) : decoded[k] = taken[k]
          /\ \A k \in 1 .. Count(ir_cmd_buffer) :
               decoded[Len(taken) + k] = Element(ir_cmd_buffer, k)
      BY <1>1, <2>1 DEF BufferInv
    <3>6. \A k \in 1 .. Len(taken) : decoded'[k] = taken[k]
      BY <3>2, <3>3, <3>4, <3>5
    <3>7. ASSUME NEW k \in 1 .. Count(ir_cmd_buffer')
          PROVE  decoded'[Len(taken) + k] = Element(ir_cmd_buffer', k)
      <4>1. CASE k = Count(ir_cmd_buffer) + 1
        BY <3>1, <3>2, <3>3, <3>4, <3>5, <4>1
      <4>2. CASE k # Count(ir_cmd_buffer) + 1
        <5>1. k \in 1 .. Count(ir_cmd_buffer)
          BY <3>1, <3>2, <4>2
        <5>2. decoded'[Len(taken) + k] = decoded[Len(taken) + k]
          BY <3>2, <3>3, <3>4, <3>5, <5>1
        <5> QED
          BY <3>1, <3>5, <5>1, <5>2
      <4> QED
        BY <4>1, <4>2
    <3> QED
      BY <1>2, <3>1, <3>2, <3>3, <3>4, <3>5, <3>6, <3>7 DEF BufferInv
  <2> QED
    BY <1>9, <2>1, <2>2, <2>3
<1> QED
  BY <1>10, <1>11, <1>12, <1>13, <1>14, <1>15, <1>16 DEF IInv

-----------------------------------------------------------------------------
(* Main. *)

(* What a get does to the commands in the buffer. *)
LEMMA GetFacts ==
  ASSUME TypeOK, ~ring_buffer_empty(ir_cmd_buffer)
  PROVE  /\ ring_buffer_get(ir_cmd_buffer) \in RingBuffers(Bytes, BUFFER_ELEMENT_CNT)
         /\ Count(ir_cmd_buffer) \in Nat \ {0}
         /\ Count(ring_buffer_get(ir_cmd_buffer)) = Count(ir_cmd_buffer) - 1
         /\ \A k \in 1 .. Count(ir_cmd_buffer) - 1 :
              Element(ring_buffer_get(ir_cmd_buffer), k) = Element(ir_cmd_buffer, k + 1)
         /\ ring_buffer_peek(ir_cmd_buffer) = Element(ir_cmd_buffer, 1)
         /\ Element(ir_cmd_buffer, 1) \in Bytes
<1>1. /\ BUFFER_ELEMENT_CNT \in 2 .. 255
      /\ ir_cmd_buffer \in RingBuffers(Bytes, BUFFER_ELEMENT_CNT)
  BY BufferFacts
<1>2. /\ ring_buffer_get(ir_cmd_buffer) \in RingBuffers(Bytes, BUFFER_ELEMENT_CNT)
      /\ Count(ring_buffer_get(ir_cmd_buffer)) = Count(ir_cmd_buffer) - 1
      /\ \A k \in 1 .. Count(ir_cmd_buffer) - 1 :
           Element(ring_buffer_get(ir_cmd_buffer), k) = Element(ir_cmd_buffer, k + 1)
      /\ ring_buffer_peek(ir_cmd_buffer) = Element(ir_cmd_buffer, 1)
  BY <1>1, GetType, GetRemovesFirst, PeekIsFirst, Zenon
<1>3. /\ Count(ir_cmd_buffer) \in 0 .. BUFFER_ELEMENT_CNT - 1
      /\ Count(ir_cmd_buffer) # 0
      /\ \A k \in 1 .. Count(ir_cmd_buffer) : Element(ir_cmd_buffer, k) \in Bytes
  BY <1>1, CountInRange, EmptyIsCountZero, ElementType, Zenon
<1>4. Count(ir_cmd_buffer) \in Nat \ {0} /\ Element(ir_cmd_buffer, 1) \in Bytes
  BY <1>1, <1>3
<1> QED
  BY <1>2, <1>4

(* The interrupt of P2.0 is disabled. *)
LEMMA GetCommandStep ==
  ASSUME IInv, ir_remote_get_command
  PROVE  IInv'
<1> USE DEF ir_remote_get_command, GetStep
<1>1. TypeOK'
  BY DEF IInv, TypeOK
<1>2. BufferInv'
  BY DEF IInv, BufferInv
<1> QED
  BY <1>1, <1>2, ReceiverUnchanged DEF IInv

(* The oldest command is taken. *)
LEMMA GetOldestStep ==
  ASSUME IInv, GetOldest
  PROVE  IInv'
<1>1. TypeOK /\ BufferInv
  BY DEF IInv
<1>2. /\ UNCHANGED <<remote, receiver, CCIFG, P2IFG, overrun, decoded, P2IE>>
      /\ pc = "get" /\ pc' = "enable"
  BY DEF GetOldest, GetStep
<1>3. CASE ring_buffer_empty(ir_cmd_buffer)
  <2>1. UNCHANGED <<ir_cmd_buffer, taken>>
    BY <1>3 DEF GetOldest
  <2>2. TypeOK'
    BY <1>1, <1>2, <2>1 DEF TypeOK
  <2>3. BufferInv'
    BY <1>1, <1>2, <2>1 DEF BufferInv
  <2> QED
    BY <1>2, <2>2, <2>3, ReceiverUnchanged DEF IInv
<1>4. CASE ~ring_buffer_empty(ir_cmd_buffer)
  <2>1. /\ ir_cmd_buffer' = ring_buffer_get(ir_cmd_buffer)
        /\ taken' = Append(taken, Element(ir_cmd_buffer, 1))
    BY <1>1, <1>4, GetFacts DEF GetOldest
  <2>2. /\ ir_cmd_buffer' \in RingBuffers(Bytes, BUFFER_ELEMENT_CNT)
        /\ Count(ir_cmd_buffer) \in Nat \ {0}
        /\ Count(ir_cmd_buffer') = Count(ir_cmd_buffer) - 1
        /\ \A k \in 1 .. Count(ir_cmd_buffer) - 1 :
             Element(ir_cmd_buffer', k) = Element(ir_cmd_buffer, k + 1)
        /\ Element(ir_cmd_buffer, 1) \in Bytes
    BY <1>1, <1>4, <2>1, GetFacts
  <2>3. /\ taken \in Seq(Bytes) /\ taken' \in Seq(Bytes)
        /\ Len(taken') = Len(taken) + 1
        /\ taken'[Len(taken) + 1] = Element(ir_cmd_buffer, 1)
        /\ \A k \in 1 .. Len(taken) : taken'[k] = taken[k]
    <3>1. taken \in Seq(Bytes)
      BY <1>1 DEF TypeOK
    <3> QED
      BY <2>1, <2>2, <3>1
  <2>4. TypeOK'
    BY <1>1, <1>2, <2>2, <2>3 DEF TypeOK
  <2>5. BufferInv'
    <3> SUFFICES ASSUME ~overrun PROVE BufferInv'
      BY <1>2 DEF BufferInv
    <3>1. /\ Len(decoded) = Len(taken) + Count(ir_cmd_buffer)
          /\ \A k \in 1 .. Len(taken) : decoded[k] = taken[k]
          /\ \A k \in 1 .. Count(ir_cmd_buffer) :
               decoded[Len(taken) + k] = Element(ir_cmd_buffer, k)
      BY <1>1 DEF BufferInv
    <3>2. Len(taken) \in Nat
      BY <2>3
    <3>3. Len(decoded) = Len(taken') + Count(ir_cmd_buffer')
      BY <2>2, <2>3, <3>1, <3>2
    <3>4. ASSUME NEW k \in 1 .. Len(taken') PROVE decoded[k] = taken'[k]
      BY <2>2, <2>3, <3>1, <3>2
    <3>5. ASSUME NEW k \in 1 .. Count(ir_cmd_buffer')
          PROVE  decoded[Len(taken') + k] = Element(ir_cmd_buffer', k)
      <4>1. k \in 1 .. Count(ir_cmd_buffer) - 1 /\ k + 1 \in 1 .. Count(ir_cmd_buffer)
        BY <2>2
      <4>2. Len(taken') + k = Len(taken) + (k + 1)
        BY <2>3, <3>2, <4>1
      <4> QED
        BY <2>2, <3>1, <4>1, <4>2
    <3> QED
      BY <1>2, <3>3, <3>4, <3>5 DEF BufferInv
  <2> QED
    BY <1>2, <2>4, <2>5, ReceiverUnchanged DEF IInv
<1> QED
  BY <1>3, <1>4

(* The interrupt is enabled. *)
LEMMA GetReturnStep ==
  ASSUME IInv, GetReturn
  PROVE  IInv'
<1> USE DEF GetReturn, GetStep
<1>1. TypeOK'
  BY DEF IInv, TypeOK
<1>2. BufferInv'
  BY DEF IInv, BufferInv
<1> QED
  BY <1>1, <1>2, ReceiverUnchanged DEF IInv

-----------------------------------------------------------------------------
(* Every step keeps the invariant. *)
LEMMA StepIInv == IInv /\ [Next]_vars => IInv'
<1> SUFFICES ASSUME IInv, [Next]_vars PROVE IInv'
  OBVIOUS
<1>1. CASE \E f \in Commands \cup {Repeat} : StartFrame(f)
  BY <1>1, StartFrameStep
<1>2. CASE NextEdge
  BY <1>2, NextEdgeStep
<1>3. CASE Millisecond
  BY <1>3, MillisecondStep
<1>4. CASE isr_pulse
  BY <1>4, PulseStep
<1>5. CASE isr_timer_a0
  BY <1>5, TimerIsrStep
<1>6. CASE ir_remote_get_command
  BY <1>6, GetCommandStep
<1>7. CASE GetOldest
  BY <1>7, GetOldestStep
<1>8. CASE GetReturn
  BY <1>8, GetReturnStep
<1>9. CASE UNCHANGED vars
  <2>1. TypeOK'
    BY <1>9 DEF IInv, TypeOK, vars
  <2>2. BufferInv'
    BY <1>9 DEF IInv, BufferInv, vars
  <2> QED
    BY <1>9, <2>1, <2>2, ReceiverUnchanged DEF IInv, vars
<1> QED
  BY <1>1, <1>2, <1>3, <1>4, <1>5, <1>6, <1>7, <1>8, <1>9 DEF Next, Isr

(* The inductive invariant of ir_remote.c and the remote control. *)
THEOREM InvariantHolds == Spec => []IInv
BY InitIInv, StepIInv, PTL DEF Spec

(* The counters of ir_remote.c stay within their types, the buffer is one  *)
(* that the ring buffer's operations produce, and P2.0 is masked exactly   *)
(* while main is inside ir_remote_get_command.                             *)
THEOREM TypeCorrect == Spec => []TypeOK
<1>1. IInv => TypeOK
  BY DEF IInv
<1> QED
  BY <1>1, InvariantHolds, PTL

(* Whatever was lost before: a frame that finds the receiver idle and      *)
(* loses no edge ends with its command at the end of what isr_pulse has    *)
(* put into the buffer.                                                    *)
THEOREM CompleteFramesDecoded == Spec => []CompleteFrameDecoded
<1>1. IInv => CompleteFrameDecoded
  BY DEF IInv, GoodInv, CompleteFrameDecoded, Served
<1> QED
  BY <1>1, InvariantHolds, PTL

(* As long as pulse_count does not go around, no edge is lost and no       *)
(* repeat code finds the receiver idle, isr_pulse puts the commands of the *)
(* messages that find it idle into the buffer, and nothing else.           *)
THEOREM GhostsExcluded == Spec => []NoGhostCommands
<1>1. IInv => NoGhostCommands
  BY DEF IInv, GhostInv, NoGhostCommands, Served
<1> QED
  BY <1>1, InvariantHolds, PTL

(* After a silence longer than the timeout isr_timer_a0 has reset the      *)
(* count, the message and the timer.                                       *)
THEOREM SilenceAlwaysResets == Spec => []SilenceResets
<1>1. ASSUME IInv PROVE SilenceResets
  <2>1. TypeOK /\ TimerInv
    BY <1>1 DEF IInv
  <2> QED
    BY <2>1, TimeAssumption DEF TypeOK, TimerInv, Bit, SilenceResets, Served
<1> QED
  BY <1>1, InvariantHolds, PTL

(* Commands are taken in the order in which isr_pulse put them, none is    *)
(* lost and none comes twice, until a put meets a full buffer.             *)
THEOREM CommandsStayInOrder == Spec => []CommandsInOrder
<1>1. ASSUME IInv PROVE CommandsInOrder
  <2> SUFFICES ASSUME ~overrun
               PROVE  decoded = taken \o [k \in 1 .. Count(ir_cmd_buffer) |->
                                            Element(ir_cmd_buffer, k)]
    BY DEF CommandsInOrder
  <2> DEFINE queued == [k \in 1 .. Count(ir_cmd_buffer) |-> Element(ir_cmd_buffer, k)]
  <2>1. TypeOK /\ BufferInv
    BY <1>1 DEF IInv
  <2>2. /\ Count(ir_cmd_buffer) \in 0 .. BUFFER_ELEMENT_CNT - 1
        /\ \A k \in 1 .. Count(ir_cmd_buffer) : Element(ir_cmd_buffer, k) \in Bytes
    BY <2>1, BufferFacts, CountInRange, ElementType, Zenon
  <2>3. queued \in Seq(Bytes) /\ Len(queued) = Count(ir_cmd_buffer)
    BY <2>2, SizesAssumption
  <2>4. taken \in Seq(Bytes) /\ decoded \in Seq(Bytes)
    BY <2>1 DEF TypeOK
  <2>5. \A k \in 1 .. Count(ir_cmd_buffer) : decoded[Len(taken) + k] = queued[k]
    BY <2>1 DEF BufferInv
  <2>6. /\ Len(decoded) = Len(taken) + Len(queued)
        /\ \A k \in 1 .. Len(taken) : decoded[k] = taken[k]
    BY <2>1, <2>3 DEF BufferInv
  <2> HIDE DEF queued
  <2>7. taken \o queued \in Seq(Bytes) /\ Len(taken \o queued) = Len(decoded)
    BY <2>3, <2>4, <2>6, ConcatProperties
  <2>8. ASSUME NEW k \in 1 .. Len(decoded) PROVE decoded[k] = (taken \o queued)[k]
    <3>0. k <= Len(taken) \/ k > Len(taken)
      BY <2>4
    <3>1. CASE k <= Len(taken)
      BY <2>3, <2>4, <2>6, <3>1
    <3>2. CASE k > Len(taken)
      <4>1. k - Len(taken) \in 1 .. Count(ir_cmd_buffer)
        BY <2>3, <2>4, <2>6, <3>2
      <4>2. decoded[Len(taken) + (k - Len(taken))] = queued[k - Len(taken)]
        BY <2>5, <4>1
      <4> QED
        BY <2>3, <2>4, <2>6, <3>2, <4>2
    <3> QED
      BY <3>0, <3>1, <3>2, Zenon
  <2>9. decoded = taken \o queued
    BY <2>4, <2>7, <2>8, SeqEqual
  <2> QED
    BY <2>9 DEF queued
<1> QED
  BY <1>1, InvariantHolds, PTL

(* From the service of its first edge to its last edge no step stops the   *)
(* timer.  In the leader's gap the timer is at most the tick ahead that    *)
(* was pending when the frame began, and the gap is that much shorter than *)
(* the timeout (NoResetWithinFrame).                                       *)
THEOREM TimeoutOutsideFrames == Spec => NoTimeoutWithinFrame
<1> DEFINE Kept == lost = 0 /\ todo # <<>> /\ ~(AtFirstEdge /\ P2IFG)
                     => ~(timer_on /\ ~timer_on')
<1>1. ASSUME IInv, [Next]_vars PROVE [Kept]_vars
  <2>1. SUFFICES ASSUME lost = 0, todo # <<>>, ~(AtFirstEdge /\ P2IFG),
                        timer_on, ~timer_on', Next
                 PROVE  FALSE
    BY <1>1 DEF vars
  <2>2. isr_timer_a0 /\ TimedOut /\ CCIFG
    BY <2>1 DEF Next, Isr, StartFrame, NextEdge, Millisecond, isr_pulse, timer_start,
               isr_timer_a0, CountTick, ir_remote_get_command, GetOldest, GetReturn, GetStep
  <2> QED
    BY <1>1, <2>1, <2>2, NoResetWithinFrame DEF InFrame
<1> QED
  BY <1>1, InvariantHolds, PTL DEF Spec, NoTimeoutWithinFrame
=============================================================================
