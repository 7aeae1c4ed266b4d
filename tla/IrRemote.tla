------------------------------ MODULE IrRemote ------------------------------
(***************************************************************************)
(* The infrared receiver of ir_remote.c.  Falling edges on P2.0 are        *)
(* counted, the milliseconds between two of them tell a 1 from a 0, the    *)
(* edge after the last bit queues the command byte, and silence resets the *)
(* count.                                                                  *)
(*                                                                         *)
(* The actors are the NEC remote control (external), timer A0, the two     *)
(* ISRs, each of which runs to completion, and the main program, which     *)
(* calls ir_remote_get_command.  Time is counted in the timer's            *)
(* milliseconds since the remote's last edge; a gap that lasts n and a bit *)
(* milliseconds is n ticks long.  An interrupt that is not masked is       *)
(* served before the next millisecond, so a tick and an edge are pending   *)
(* together only where a frame starts, at a moment a human chooses.        *)
(* Bytes and the raw message are sequences of bits, the most significant   *)
(* one first, which is the order in which the remote sends them.           *)
(***************************************************************************)
EXTENDS RingBuffer

CONSTANTS
  FIELD_BITS,         \* Bits of address, command and of their inverses: 8.
  TIMER_TIMEOUT_MS,   \* 150.
  PULSE_RANGE,        \* Values of the uint16_t pulse_count.
  BUFFER_ELEMENT_CNT, \* 10.
  LEADER_MS,          \* Between the first two edges of a frame: 13.
  PAUSE_MS,           \* The least pause between two frames: 40.
  Commands,           \* The commands the remote sends.
  ADDRESS,            \* The address it sends.
  Repeat,             \* What a repeat code carries instead of a command.
  NoFrame,            \* The remote has not sent a frame yet.
  MaxFrames,          \* Bound: the frames the remote sends.
  MaxLost             \* Bound: the edges that do not reach the receiver.

Bytes == [1 .. FIELD_BITS -> {0, 1}]

ASSUME FieldAssumption ==
  /\ FIELD_BITS \in Nat \ {0}
  /\ Commands \cup {ADDRESS} \subseteq Bytes
  /\ {Repeat, NoFrame} \cap Bytes = {} /\ Repeat # NoFrame
ASSUME TimeAssumption ==
  /\ {LEADER_MS, PAUSE_MS} \subseteq 2 .. TIMER_TIMEOUT_MS - 1
  /\ TIMER_TIMEOUT_MS \in 3 .. 254
ASSUME SizesAssumption ==
  /\ BUFFER_ELEMENT_CNT \in 2 .. 255
  /\ PULSE_RANGE \in Nat /\ PULSE_RANGE > 2 + 4 * FIELD_BITS
  /\ {MaxFrames, MaxLost} \subseteq Nat

VARIABLES
  pulse_count,   \* As in ir_remote.c.
  timer_ms,      \* As in ir_remote.c.
  raw,           \* ir_message.raw.
  ir_cmd_buffer, \* The ring buffer of ir_remote.c.
  timer_on,      \* Timer A0 counts up (MC_1).
  CCIFG,         \* Its interrupt is pending.
  P2IFG,         \* The interrupt of P2.0 is pending.
  P2IE,          \* ... and enabled.
  pc,            \* Where ir_remote_get_command is, or "idle".
  todo,          \* The gaps before the edges the remote has yet to send.
  elapsed,       \* Ticks since its last edge, up to TIMER_TIMEOUT_MS + 1.
  frame,         \* The frame it sent last: a command, Repeat or NoFrame.
  good,          \* It is a command, began at an idle receiver and lost no edge.
  frames,        \* Frames sent so far.
  lost,          \* Edges lost so far.
  strayed,       \* History: a repeat code found the receiver idle.
  wrapped,       \* History: pulse_count went around to 0.
  overrun,       \* History: a command was put into a full buffer.
  expected,      \* History: the commands of the frames that ended good.
  decoded,       \* History: the bytes put into the buffer.
  taken          \* History: the bytes got out of it.

remote == <<todo, elapsed, frame, good, frames, lost, strayed, wrapped, expected>>
receiver == <<pulse_count, raw, timer_on, timer_ms>>
buffering == <<ir_cmd_buffer, overrun, decoded, taken>>
vars == <<remote, receiver, buffering, CCIFG, P2IFG, P2IE, pc>>

FIRST_BIT_PULSE == 3
LAST_BIT_PULSE == 2 + 4 * FIELD_BITS

ZeroBits(n) == [k \in 1 .. n |-> 0]
NoMessage == ZeroBits(4 * FIELD_BITS)

(* The receiver after ir_remote_init, and the remote after a long silence. *)
Init ==
  /\ pulse_count = 0
  /\ timer_ms = 0
  /\ raw = NoMessage
  /\ ir_cmd_buffer = NewRingBuffer(BUFFER_ELEMENT_CNT, ZeroBits(FIELD_BITS))
  /\ timer_on = FALSE
  /\ CCIFG = FALSE
  /\ P2IFG = FALSE
  /\ P2IE = TRUE
  /\ pc = "idle"
  /\ todo = <<>>
  /\ elapsed = TIMER_TIMEOUT_MS + 1
  /\ frame = NoFrame
  /\ good = FALSE
  /\ frames = 0
  /\ lost = 0
  /\ strayed = FALSE
  /\ wrapped = FALSE
  /\ overrun = FALSE
  /\ expected = <<>>
  /\ decoded = <<>>
  /\ taken = <<>>

-----------------------------------------------------------------------------
(***************************************************************************)
(* The remote control and the timer (hardware).                            *)
(***************************************************************************)

Inverted(byte) == [k \in 1 .. FIELD_BITS |-> 1 - byte[k]]

Message(command) == ADDRESS \o Inverted(ADDRESS) \o command \o Inverted(command)

(* The gaps between the edges of a frame: the leader, then the bits.  A 0  *)
(* lasts 1.125 ms from edge to edge, a 1 lasts 2.25 ms.  A repeat code is  *)
(* a leader alone.                                                         *)
Gaps(f) ==
  IF f = Repeat
  THEN <<LEADER_MS>>
  ELSE LET message == Message(f)
       IN  <<LEADER_MS>> \o [k \in 1 .. 4 * FIELD_BITS |-> 1 + message[k]]

(* An edge reaches P2.0, or is lost on the way. *)
Arrives ==
  \/ P2IFG' = TRUE /\ lost' = lost
  \/ lost < MaxLost /\ P2IFG' = FALSE /\ lost' = lost + 1

(* The remote starts a frame; a tick of the timer may be pending. *)
StartFrame(f) ==
  /\ todo = <<>> /\ ~P2IFG
  /\ frames < MaxFrames
  /\ elapsed >= PAUSE_MS
  /\ f = Repeat => frame # NoFrame
  /\ todo' = Gaps(f)
  /\ elapsed' = 0
  /\ frame' = f
  /\ frames' = frames + 1
  /\ Arrives
  /\ good' = FALSE
  /\ UNCHANGED <<strayed, wrapped, expected, receiver, buffering, CCIFG, P2IE, pc>>

(* The remote sends the next edge of the frame. *)
NextEdge ==
  /\ todo # <<>> /\ elapsed = Head(todo)
  /\ ~CCIFG /\ ~P2IFG
  /\ todo' = Tail(todo)
  /\ elapsed' = 0
  /\ Arrives
  /\ good' = (good /\ P2IFG')
  /\ expected' = IF good' /\ Len(todo) = 1 THEN Append(expected, frame) ELSE expected
  /\ UNCHANGED <<frame, frames, strayed, wrapped, receiver, buffering, CCIFG, P2IE, pc>>

(* A millisecond passes: the timer, if it counts, reaches TACCR0. *)
Millisecond ==
  /\ ~CCIFG /\ ~P2IFG
  /\ IF todo = <<>> THEN elapsed <= TIMER_TIMEOUT_MS ELSE elapsed < Head(todo)
  /\ elapsed' = elapsed + 1
  /\ CCIFG' = timer_on
  /\ UNCHANGED <<todo, frame, good, frames, lost, strayed, wrapped, expected,
                 receiver, buffering, P2IFG, P2IE, pc>>

-----------------------------------------------------------------------------
(***************************************************************************)
(* The interrupt service routines.                                         *)
(***************************************************************************)

(* ir_message.decoded.cmd: the third byte sent is the second lowest. *)
DecodedCmd(message) == [k \in 1 .. FIELD_BITS |-> message[2 * FIELD_BITS + k]]

(* The edge being served is the first one of the frame. *)
AtFirstEdge == todo = Gaps(frame)

(* Mutant: a gap of one tick is a 1 already. *)
ShiftInEarly(message, ms) == Append(Tail(message), IF ms >= 1 THEN 1 ELSE 0)

(* The message with one more bit: the highest one is shifted out. *)
ShiftIn(message, ms) == Append(Tail(message), IF ms >= 2 THEN 1 ELSE 0)

(* Mutant: every edge from the last bit on completes a message. *)
CompletesFromLastBit(count) == count >= LAST_BIT_PULSE

CompletesMessage(count) == count = LAST_BIT_PULSE

(* Mutant: the milliseconds are not set back. *)
TimerStartKeepsTime ==
  /\ timer_on' = TRUE
  /\ timer_ms' = timer_ms

timer_start ==
  /\ timer_on' = TRUE
  /\ timer_ms' = 0

(* isr_falling_edge_incoming, which calls isr_pulse.  timer_start clears the *)
(* counter, not a tick that is already pending.                              *)
isr_pulse ==
  /\ P2IFG /\ P2IE
  /\ pulse_count' = (pulse_count + 1) % PULSE_RANGE
  /\ raw' = IF pulse_count' \in FIRST_BIT_PULSE .. LAST_BIT_PULSE
            THEN ShiftIn(raw, timer_ms)
            ELSE raw
  /\ IF CompletesMessage(pulse_count')
     THEN /\ ir_cmd_buffer' = ring_buffer_put(ir_cmd_buffer, DecodedCmd(raw'))
          /\ overrun' = (overrun \/ ring_buffer_full(ir_cmd_buffer))
          /\ decoded' = Append(decoded, DecodedCmd(raw'))
     ELSE UNCHANGED <<ir_cmd_buffer, overrun, decoded>>
  /\ timer_start
  /\ P2IFG' = FALSE
  /\ good' = IF AtFirstEdge THEN frame # Repeat /\ pulse_count = 0 ELSE good
  /\ strayed' = (strayed \/ (AtFirstEdge /\ frame = Repeat /\ pulse_count = 0))
  /\ wrapped' = (wrapped \/ pulse_count' = 0)
  /\ UNCHANGED <<todo, elapsed, frame, frames, lost, expected, taken, CCIFG, P2IE, pc>>

(* Mutant: one tick too many is counted. *)
TimedOutLate == timer_ms > TIMER_TIMEOUT_MS

TimedOut == timer_ms >= TIMER_TIMEOUT_MS

CountTick ==
  /\ timer_ms' = timer_ms + 1
  /\ UNCHANGED <<timer_on, pulse_count, raw>>

(* Mutant: the edges of an unfinished message stay counted. *)
ResetKeepsCount ==
  /\ timer_on' = FALSE
  /\ timer_ms' = 0
  /\ raw' = NoMessage
  /\ UNCHANGED pulse_count

(* Mutant: the timer is not stopped. *)
ResetKeepsTimer ==
  /\ timer_ms' = 0
  /\ pulse_count' = 0
  /\ raw' = NoMessage
  /\ UNCHANGED timer_on

(* timer_stop, and the message is forgotten. *)
Reset ==
  /\ timer_on' = FALSE
  /\ timer_ms' = 0
  /\ pulse_count' = 0
  /\ raw' = NoMessage

(* Below the timeout a tick is counted; at the timeout everything is reset. *)
isr_timer_a0 ==
  /\ CCIFG
  /\ CCIFG' = FALSE
  /\ \/ ~TimedOut /\ CountTick
     \/ TimedOut /\ Reset
  /\ UNCHANGED <<remote, buffering, P2IFG, P2IE, pc>>

-----------------------------------------------------------------------------
(***************************************************************************)
(* Main: ir_remote_get_command.                                            *)
(***************************************************************************)

GetStep(from, to) ==
  /\ pc = from
  /\ pc' = to
  /\ UNCHANGED <<remote, receiver, CCIFG, P2IFG>>

(* The interrupt of P2.0 is disabled. *)
ir_remote_get_command ==
  /\ GetStep("idle", "get")
  /\ P2IE' = FALSE
  /\ UNCHANGED buffering

(* Mutant: the buffer is not asked whether it holds a command. *)
GetOldestUnchecked ==
  /\ GetStep("get", "enable")
  /\ ir_cmd_buffer' = ring_buffer_get(ir_cmd_buffer)
  /\ taken' = Append(taken, ring_buffer_peek(ir_cmd_buffer))
  /\ UNCHANGED <<overrun, decoded, P2IE>>

(* The oldest command is taken, if there is one: otherwise IR_CMD_NONE. *)
GetOldest ==
  /\ GetStep("get", "enable")
  /\ IF ring_buffer_empty(ir_cmd_buffer)
     THEN UNCHANGED <<ir_cmd_buffer, taken>>
     ELSE /\ ir_cmd_buffer' = ring_buffer_get(ir_cmd_buffer)
          /\ taken' = Append(taken, ring_buffer_peek(ir_cmd_buffer))
  /\ UNCHANGED <<overrun, decoded, P2IE>>

(* The interrupt is enabled and the command returned. *)
GetReturn ==
  /\ GetStep("enable", "idle")
  /\ P2IE' = TRUE
  /\ UNCHANGED buffering

Isr == isr_pulse \/ isr_timer_a0

Next ==
  \/ \E f \in Commands \cup {Repeat} : StartFrame(f)
  \/ NextEdge
  \/ Millisecond
  \/ Isr
  \/ ir_remote_get_command
  \/ GetOldest
  \/ GetReturn

(* Time passes and interrupts are served, that of P2.0 also when main masks *)
(* it again and again: it is accepted at the first instruction without the  *)
(* mask.  Nobody has to press a key or to ask for commands, but a call of   *)
(* ir_remote_get_command returns.                                           *)
Spec ==
  /\ Init
  /\ [][Next]_vars
  /\ WF_vars(isr_timer_a0)
  /\ SF_vars(isr_pulse)
  /\ WF_vars(NextEdge \/ Millisecond)
  /\ WF_vars(GetOldest \/ GetReturn)

-----------------------------------------------------------------------------
(***************************************************************************)
(* Properties.                                                             *)
(***************************************************************************)

TypeOK ==
  /\ pulse_count \in 0 .. PULSE_RANGE - 1
  /\ timer_ms \in 0 .. TIMER_TIMEOUT_MS
  /\ raw \in [1 .. 4 * FIELD_BITS -> {0, 1}]
  /\ ir_cmd_buffer \in RingBuffers(Bytes, BUFFER_ELEMENT_CNT)
  /\ timer_on \in BOOLEAN /\ CCIFG \in BOOLEAN /\ P2IFG \in BOOLEAN
  /\ P2IE = (pc = "idle")
  /\ pc \in {"idle", "get", "enable"}
  /\ todo \in Seq({1, 2, LEADER_MS})
  /\ elapsed \in 0 .. TIMER_TIMEOUT_MS + 1
  /\ frame \in Commands \cup {Repeat, NoFrame}
  /\ good \in BOOLEAN /\ (good => frame \in Commands)
  /\ frames \in 0 .. MaxFrames /\ lost \in 0 .. MaxLost
  /\ strayed \in BOOLEAN /\ wrapped \in BOOLEAN /\ overrun \in BOOLEAN
  /\ {expected, decoded, taken} \subseteq Seq(Bytes)

Served == ~P2IFG /\ ~CCIFG

(* As long as no edge is lost, no repeat code finds the receiver idle and  *)
(* pulse_count does not go around, the receiver queues the command of      *)
(* every message that finds it idle and nothing else: neither the repeat   *)
(* codes of a key held down nor a message that follows another within the  *)
(* timeout is taken for a command.  The hypotheses are needed: edges that  *)
(* are counted from 0 without being those of a message shift the bits of   *)
(* the message that begins before the timeout, and nothing compares the    *)
(* command with its inverse.                                               *)
NoGhostCommands ==
  lost = 0 /\ ~strayed /\ ~wrapped /\ Served => decoded = expected

(* A lost edge costs the frame it belongs to, not the ones after the next  *)
(* silence: a frame that finds the receiver idle and loses no edge is      *)
(* decoded whatever was lost before.                                       *)
CompleteFrameDecoded ==
  good /\ todo = <<>> /\ Served =>
    decoded # <<>> /\ decoded[Len(decoded)] = frame

(* Silence for longer than the timeout leaves the receiver idle, whatever  *)
(* part of a frame it has seen.                                            *)
SilenceResets ==
  Served /\ elapsed > TIMER_TIMEOUT_MS =>
    pulse_count = 0 /\ raw = NoMessage /\ timer_ms = 0 /\ ~timer_on

(* The timeout does not strike within a frame, from the moment its first   *)
(* edge has been served: neither in the leader's gap, the longest, which   *)
(* may begin with a tick pending that belongs to the pause before it, nor  *)
(* in the gaps of the bits.  While the first edge waits to be served, that *)
(* tick may still end the pause with a reset.                              *)
NoTimeoutWithinFrame ==
  [][lost = 0 /\ todo # <<>> /\ ~(AtFirstEdge /\ P2IFG)
       => ~(timer_on /\ ~timer_on')]_vars

(* Commands are taken in the order of their reception, the oldest first,   *)
(* none is lost and none comes twice, as long as no put met a full buffer. *)
(* This is what the queue does; the header says otherwise, see below.      *)
CommandsInOrder ==
  ~overrun =>
    decoded = taken \o [k \in 1 .. Count(ir_cmd_buffer) |-> Element(ir_cmd_buffer, k)]

(* A buffer that holds commands nobody has taken is not mistaken for an    *)
(* empty one, however many there are.  (The code does not keep this.)      *)
FullIsNotEmpty ==
  Len(decoded) > Len(taken) => ~ring_buffer_empty(ir_cmd_buffer)

(* "Function to get the most recent command from the remote": what         *)
(* ir_remote_get_command takes is the command that was received last, also *)
(* when others are waiting.  (The code does not keep this.)                *)
MostRecentFirst ==
  [][taken' # taken => taken'[Len(taken')] = decoded[Len(decoded)]]_vars

(* The receiver comes to rest: after the last frame the timeout stops the  *)
(* timer, which would otherwise interrupt for ever.                        *)
ComesToRest == <>[](~timer_on /\ pulse_count = 0)
-----------------------------------------------------------------------------
(***************************************************************************)
(* The inductive invariant from which the safety properties are proved.    *)
(***************************************************************************)

Bit(flag) == IF flag THEN 1 ELSE 0

(* The gaps still to come are the last ones of the frame, and the present  *)
(* one has not gone by.  An edge is served before the next millisecond,    *)
(* and a tick is pending with it at the first edge of a frame only.        *)
FrameInv ==
  /\ frame = NoFrame => todo = <<>> /\ ~P2IFG
  /\ frame # NoFrame =>
       /\ Len(todo) <= Len(Gaps(frame))
       /\ \A k \in 1 .. Len(todo) :
            todo[k] = Gaps(frame)[Len(Gaps(frame)) - Len(todo) + k]
  /\ todo # <<>> => elapsed <= Head(todo)
  /\ P2IFG => elapsed = 0 /\ (CCIFG => AtFirstEdge)

(* A stopped timer has been reset, a running one misses no millisecond.    *)
TimerInv ==
  /\ ~timer_on => pulse_count = 0 /\ raw = NoMessage /\ timer_ms = 0 /\ ~CCIFG
  /\ timer_on => elapsed <= timer_ms + Bit(CCIFG)

(* Between the edges of a frame that has lost none the timer runs and      *)
(* measures the gap; only the tick that was pending when the frame began   *)
(* may be counted too much, into the leader's gap.                         *)
GapInv ==
  (lost = 0 \/ good) /\ todo # <<>> /\ ~P2IFG =>
    /\ timer_on
    /\ AtFirstEdge => timer_ms + Bit(CCIFG) <= elapsed + 1
    /\ ~AtFirstEdge => timer_ms + Bit(CCIFG) = elapsed

(* The receiver has seen every edge of a good frame and has the bits       *)
(* between them at the low end of raw; of the edge being served it knows   *)
(* the gap before.  The complete frame has been decoded.                   *)
GoodInv ==
  good =>
    /\ AtFirstEdge => ~P2IFG
    /\ todo # <<>> \/ P2IFG =>
         /\ pulse_count + Bit(P2IFG) + Len(todo) = LAST_BIT_PULSE
         /\ \A j \in 1 .. pulse_count - 2 :
              raw[4 * FIELD_BITS + 2 - pulse_count + j] = Message(frame)[j]
         /\ P2IFG /\ pulse_count >= 2 => timer_ms = Gaps(frame)[pulse_count]
    /\ todo = <<>> /\ ~P2IFG =>
         decoded # <<>> /\ decoded[Len(decoded)] = frame

(* The receiver counts part of a message only while it sees a good frame,  *)
(* and every other frame finds it beyond the last bit and leaves it there. *)
(* What it has queued is what the good frames carried, but for the one     *)
(* whose last edge is being served.                                        *)
GhostInv ==
  lost = 0 /\ ~strayed /\ ~wrapped =>
    /\ \/ pulse_count = 0
       \/ pulse_count >= LAST_BIT_PULSE
       \/ good /\ (todo # <<>> \/ P2IFG)
    /\ (todo # <<>> \/ P2IFG) /\ ~(AtFirstEdge /\ P2IFG) =>
         good \/ pulse_count >= LAST_BIT_PULSE
    /\ expected = IF good /\ todo = <<>> /\ P2IFG THEN Append(decoded, frame) ELSE decoded

(* CommandsInOrder, element by element. *)
BufferInv ==
  ~overrun =>
    /\ Len(decoded) = Len(taken) + Count(ir_cmd_buffer)
    /\ \A k \in 1 .. Len(taken) : decoded[k] = taken[k]
    /\ \A k \in 1 .. Count(ir_cmd_buffer) :
         decoded[Len(taken) + k] = Element(ir_cmd_buffer, k)

IInv ==
  /\ TypeOK
  /\ FrameInv
  /\ TimerInv
  /\ GapInv
  /\ GoodInv
  /\ GhostInv
  /\ BufferInv
=============================================================================
