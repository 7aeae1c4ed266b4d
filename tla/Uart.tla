-------------------------------- MODULE Uart --------------------------------
(***************************************************************************)
(* The interrupt-driven transmitter of uart.c, with the parts of the       *)
(* MSP430's USCI_A0 it drives.                                             *)
(*                                                                         *)
(* Three actors share the state:                                           *)
(*   - the main program, which boots (mcu_init and uart_init, in either    *)
(*     order) and then calls uart_print_interrupt;                         *)
(*   - isr_uart_tx, which runs to completion before main goes on;          *)
(*   - the USCI, which moves a byte from UCA0TXBUF into its shift register *)
(*     and from there to the TXD pin, at any moment, also while one of the *)
(*     other two is half way through a function.                           *)
(*                                                                         *)
(* One action is one C statement that touches shared state.  Baud-rate     *)
(* registers are not modelled: they do not change what is sent.            *)
(***************************************************************************)
EXTENDS RingBuffer

CONSTANTS
  Byte,              \* The characters that are printed.
  NoByte,            \* An empty UCA0TXBUF, an empty shift register.
  UART_BUFFER_SIZE,  \* 16 in uart.c.
  INDEX_RANGE,       \* Values of the uint8_t index of uart_print_interrupt: 256.
  Strings,           \* The strings main may print (without their final '\0').
  MaxPrints          \* Bound: the number of calls of uart_print_interrupt.

ASSUME ByteAssumption == NoByte \notin Byte
ASSUME SizeAssumption == UART_BUFFER_SIZE \in 2 .. 255
ASSUME StringsAssumption ==
  /\ INDEX_RANGE \in Nat \ {0}
  /\ Strings \subseteq Seq(Byte)
(* Left to the caller: the index must reach the terminating '\0'. *)
ASSUME LengthAssumption == \A s \in Strings : Len(s) < INDEX_RANGE
ASSUME BoundAssumption == MaxPrints \in Nat

VARIABLES
  GIE,           \* Interrupts are enabled globally.
  UCA0TXIE,      \* The transmit interrupt is enabled (IE2).
  UCA0TXIFG,     \* The transmit interrupt flag (IFG2).
  UCA0TXBUF,     \* The byte waiting for the shift register, or NoByte.
  shifter,       \* The byte being sent, or NoByte.
  tx_buffer,     \* The ring buffer of uart.c.
  uart_ready,    \* uart_init has returned.
  pc,            \* Where main is.
  string,        \* The argument of the current uart_print_interrupt.
  i,             \* Its index.
  tx_ongoing,    \* The local of uart_putchar_interrupt.
  isr,           \* Where isr_uart_tx is, or "off".
  prints,        \* Calls of uart_print_interrupt so far.
  accepted,      \* History: the bytes put into tx_buffer.
  wire           \* History: the bytes that left on the TXD pin.

usci == <<UCA0TXIE, UCA0TXIFG, UCA0TXBUF, shifter, wire>>
call == <<string, i, tx_ongoing, prints>>
vars == <<GIE, usci, tx_buffer, uart_ready, pc, call, isr, accepted>>

(* The device after power-up: the USCI is held in reset, its flag set. *)
Init ==
  /\ GIE = FALSE
  /\ UCA0TXIE = FALSE
  /\ UCA0TXIFG = TRUE
  /\ UCA0TXBUF = NoByte
  /\ shifter = NoByte
  /\ tx_buffer = NewRingBuffer(UART_BUFFER_SIZE, NoByte)
  /\ uart_ready = FALSE
  /\ pc = "boot"
  /\ string = <<>>
  /\ i = 0
  /\ tx_ongoing = FALSE
  /\ isr = "off"
  /\ prints = 0
  /\ accepted = <<>>
  /\ wire = <<>>

(* Main is at `from`, and is at `to` after the step.  It runs outside the ISR. *)
MainStep(from, to) ==
  /\ isr = "off"
  /\ pc = from
  /\ pc' = to

(* uart_tx_start: load the oldest byte.  Writing UCA0TXBUF clears the flag. *)
uart_tx_start ==
  IF ring_buffer_empty(tx_buffer)
  THEN UNCHANGED <<UCA0TXBUF, UCA0TXIFG>>
  ELSE /\ UCA0TXBUF' = ring_buffer_peek(tx_buffer)
       /\ UCA0TXIFG' = FALSE

uart_tx_clear_interrupt == UCA0TXIFG' = FALSE
uart_tx_interrupt_enable == UCA0TXIE' = TRUE
uart_tx_interrupt_disable == UCA0TXIE' = FALSE

-----------------------------------------------------------------------------
(***************************************************************************)
(* Main: boot.                                                             *)
(***************************************************************************)

(* mcu_init, whose last statement enables interrupts globally. *)
mcu_init ==
  /\ ~GIE
  /\ MainStep("boot", IF uart_ready THEN "idle" ELSE "boot")
  /\ GIE' = TRUE
  /\ UNCHANGED <<usci, tx_buffer, uart_ready, call, isr, accepted>>

(* uart_init up to UCSWRST = 0.  The reset empties the USCI, clears UCA0TXIE *)
(* and sets UCA0TXIFG.                                                       *)
UartReset ==
  /\ ~uart_ready
  /\ MainStep("boot", "init_clear")
  /\ UCA0TXIE' = FALSE
  /\ UCA0TXIFG' = TRUE
  /\ UCA0TXBUF' = NoByte
  /\ shifter' = NoByte
  /\ UNCHANGED <<GIE, tx_buffer, uart_ready, call, isr, accepted, wire>>

(* Mutant: uart_init does not clear the flag that the reset has set. *)
UartInitKeepsFlag ==
  /\ MainStep("init_clear", "init_enable")
  /\ UNCHANGED <<GIE, usci, tx_buffer, uart_ready, call, isr, accepted>>

UartInitClear ==
  /\ MainStep("init_clear", "init_enable")
  /\ uart_tx_clear_interrupt
  /\ UNCHANGED <<GIE, UCA0TXIE, UCA0TXBUF, shifter, wire, tx_buffer,
                 uart_ready, call, isr, accepted>>

(* The last statement of uart_init. *)
UartInitEnable ==
  /\ MainStep("init_enable", IF GIE THEN "idle" ELSE "boot")
  /\ uart_tx_interrupt_enable
  /\ uart_ready' = TRUE
  /\ UNCHANGED <<GIE, UCA0TXIFG, UCA0TXBUF, shifter, wire, tx_buffer, call,
                 isr, accepted>>

-----------------------------------------------------------------------------
(***************************************************************************)
(* Main: uart_print_interrupt and uart_putchar_interrupt.                  *)
(***************************************************************************)

(* The application calls uart_print_interrupt(s). *)
uart_print_interrupt(s) ==
  /\ prints < MaxPrints
  /\ MainStep("idle", "print")
  /\ string' = s
  /\ i' = 0
  /\ prints' = prints + 1
  /\ UNCHANGED <<GIE, usci, tx_buffer, uart_ready, tx_ongoing, isr, accepted>>

(* Or it does something else, for ever if it likes. *)
Elsewhere ==
  /\ MainStep("idle", "idle")
  /\ UNCHANGED vars

(* The loop's test: string[i] is '\0' at i = Len(string). *)
PrintTest ==
  /\ MainStep("print", IF i < Len(string) THEN "full" ELSE "idle")
  /\ UNCHANGED <<GIE, usci, tx_buffer, uart_ready, call, isr, accepted>>

(* Mutant: putchar does not wait for room. *)
PutcharUnpolled ==
  /\ MainStep("full", "disable")
  /\ UNCHANGED <<GIE, usci, tx_buffer, uart_ready, call, isr, accepted>>

(* while (ring_buffer_full(&tx_buffer)) {}: the exit from the polling loop. *)
PutcharPoll ==
  /\ ~ring_buffer_full(tx_buffer)
  /\ MainStep("full", "disable")
  /\ UNCHANGED <<GIE, usci, tx_buffer, uart_ready, call, isr, accepted>>

(* Mutant: the transmit interrupt stays enabled during the put. *)
PutcharUnmasked ==
  /\ MainStep("disable", "ongoing")
  /\ UNCHANGED <<GIE, usci, tx_buffer, uart_ready, call, isr, accepted>>

PutcharDisable ==
  /\ MainStep("disable", "ongoing")
  /\ uart_tx_interrupt_disable
  /\ UNCHANGED <<GIE, UCA0TXIFG, UCA0TXBUF, shifter, wire, tx_buffer,
                 uart_ready, call, isr, accepted>>

PutcharOngoing ==
  /\ MainStep("ongoing", "put")
  /\ tx_ongoing' = ~ring_buffer_empty(tx_buffer)
  /\ UNCHANGED <<GIE, usci, tx_buffer, uart_ready, string, i, prints, isr,
                 accepted>>

(* Mutant: the transmission is started whether or not one is going on. *)
PutcharAlwaysStarts ==
  /\ MainStep("put", "start")
  /\ tx_buffer' = ring_buffer_put(tx_buffer, string[i + 1])
  /\ accepted' = Append(accepted, string[i + 1])
  /\ UNCHANGED <<GIE, usci, uart_ready, call, isr>>

PutcharPut ==
  /\ MainStep("put", IF tx_ongoing THEN "enable" ELSE "start")
  /\ tx_buffer' = ring_buffer_put(tx_buffer, string[i + 1])
  /\ accepted' = Append(accepted, string[i + 1])
  /\ UNCHANGED <<GIE, usci, uart_ready, call, isr>>

PutcharStart ==
  /\ MainStep("start", "enable")
  /\ uart_tx_start
  /\ UNCHANGED <<GIE, UCA0TXIE, shifter, wire, tx_buffer, uart_ready, call,
                 isr, accepted>>

(* Mutant: the transmit interrupt is enabled only when putchar has started. *)
PutcharEnableOnStart ==
  /\ MainStep("enable", "print")
  /\ UCA0TXIE' = (UCA0TXIE \/ ~tx_ongoing)
  /\ i' = (i + 1) % INDEX_RANGE
  /\ UNCHANGED <<GIE, UCA0TXIFG, UCA0TXBUF, shifter, wire, tx_buffer,
                 uart_ready, string, tx_ongoing, prints, isr, accepted>>

(* The last statement of uart_putchar_interrupt, and the caller's i++. *)
PutcharEnable ==
  /\ MainStep("enable", "print")
  /\ uart_tx_interrupt_enable
  /\ i' = (i + 1) % INDEX_RANGE
  /\ UNCHANGED <<GIE, UCA0TXIFG, UCA0TXBUF, shifter, wire, tx_buffer,
                 uart_ready, string, tx_ongoing, prints, isr, accepted>>

-----------------------------------------------------------------------------
(***************************************************************************)
(* isr_uart_tx.  Main and further interrupts wait until it returns; the    *)
(* USCI does not.                                                          *)
(***************************************************************************)

IsrStep(from, to) ==
  /\ isr = from
  /\ isr' = to
  /\ UNCHANGED <<GIE, pc, uart_ready, call, accepted>>

(* The CPU accepts the interrupt, between two statements of main. *)
IsrEnter ==
  /\ GIE /\ UCA0TXIE /\ UCA0TXIFG
  /\ IsrStep("off", "empty")
  /\ UNCHANGED <<usci, tx_buffer>>

(* An empty buffer sends the ISR into while(1). *)
IsrEmpty ==
  /\ IsrStep("empty", IF ring_buffer_empty(tx_buffer) THEN "hang" ELSE "get")
  /\ UNCHANGED <<usci, tx_buffer>>

IsrGet ==
  /\ IsrStep("get", "clear")
  /\ tx_buffer' = ring_buffer_get(tx_buffer)
  /\ UNCHANGED usci

(* Mutant: the ISR leaves clearing the flag to the write of UCA0TXBUF. *)
IsrClearForgotten ==
  /\ IsrStep("clear", "start")
  /\ UNCHANGED <<usci, tx_buffer>>

IsrClear ==
  /\ IsrStep("clear", "start")
  /\ uart_tx_clear_interrupt
  /\ UNCHANGED <<UCA0TXIE, UCA0TXBUF, shifter, wire, tx_buffer>>

(* Mutant: the ISR leaves the next byte to the next call of putchar. *)
IsrStartForgotten ==
  /\ IsrStep("start", "off")
  /\ UNCHANGED <<usci, tx_buffer>>

(* Start on the next byte, if there is one (the test before the call repeats *)
(* the one in uart_tx_start), and return.                                    *)
IsrStart ==
  /\ IsrStep("start", "off")
  /\ uart_tx_start
  /\ UNCHANGED <<UCA0TXIE, shifter, wire, tx_buffer>>

-----------------------------------------------------------------------------
(***************************************************************************)
(* The USCI (hardware): UCA0TXIFG is set when UCA0TXBUF has been emptied   *)
(* into the shift register, not when the byte has been sent.               *)
(***************************************************************************)

UsciLoad ==
  /\ UCA0TXBUF # NoByte
  /\ shifter = NoByte
  /\ shifter' = UCA0TXBUF
  /\ UCA0TXBUF' = NoByte
  /\ UCA0TXIFG' = TRUE
  /\ UNCHANGED <<GIE, UCA0TXIE, wire, tx_buffer, uart_ready, pc, call, isr,
                 accepted>>

UsciShiftOut ==
  /\ shifter # NoByte
  /\ wire' = Append(wire, shifter)
  /\ shifter' = NoByte
  /\ UNCHANGED <<GIE, UCA0TXIE, UCA0TXIFG, UCA0TXBUF, tx_buffer, uart_ready,
                 pc, call, isr, accepted>>

-----------------------------------------------------------------------------
Boot == mcu_init \/ UartReset \/ UartInitClear \/ UartInitEnable

Putchar ==
  \/ PutcharPoll
  \/ PutcharDisable
  \/ PutcharOngoing
  \/ PutcharPut
  \/ PutcharStart
  \/ PutcharEnable

Isr == IsrEnter \/ IsrEmpty \/ IsrGet \/ IsrClear \/ IsrStart

Next ==
  \/ Boot
  \/ \E s \in Strings : uart_print_interrupt(s)
  \/ Elsewhere
  \/ PrintTest
  \/ Putchar
  \/ Isr
  \/ UsciLoad
  \/ UsciShiftOut

(***************************************************************************)
(* Each actor goes on when it can.  Only the application's choice to print *)
(* again carries no fairness.                                              *)
(***************************************************************************)
Fairness ==
  /\ WF_vars(Boot \/ PrintTest \/ Putchar)
  /\ WF_vars(Isr)
  /\ WF_vars(UsciLoad)
  /\ WF_vars(UsciShiftOut)

Safety == Init /\ [][Next]_vars
Spec == Safety /\ Fairness

-----------------------------------------------------------------------------
(***************************************************************************)
(* Properties.                                                             *)
(***************************************************************************)

TypeOK ==
  /\ GIE \in BOOLEAN
  /\ UCA0TXIE \in BOOLEAN
  /\ UCA0TXIFG \in BOOLEAN
  /\ UCA0TXBUF \in Byte \cup {NoByte}
  /\ shifter \in Byte \cup {NoByte}
  /\ tx_buffer \in RingBuffers(Byte \cup {NoByte}, UART_BUFFER_SIZE)
  /\ uart_ready \in BOOLEAN
  /\ pc \in {"boot", "init_clear", "init_enable", "idle", "print", "full",
            "disable", "ongoing", "put", "start", "enable"}
  /\ string \in Seq(Byte)
  /\ i \in Nat
  /\ tx_ongoing \in BOOLEAN
  /\ isr \in {"off", "empty", "get", "clear", "start", "hang"}
  /\ prints \in 0 .. MaxPrints
  /\ accepted \in Seq(Byte)
  /\ wire \in Seq(Byte)

(* isr_uart_tx never finds the buffer empty, where it would spin for ever: *)
(* every interrupt it serves belongs to a byte that is still queued.       *)
IsrNeverHangs == isr # "hang"

(* Nobody writes UCA0TXBUF over a byte that has not reached the shift      *)
(* register, although putchar and the ISR both write it and neither looks  *)
(* at UCA0TXIFG: the empty and non-empty states of the queue stand in for  *)
(* the flag.                                                               *)
TxbufFreeAtStart == pc = "start" \/ isr = "start" => UCA0TXBUF = NoByte

(* A queue with bytes in it is never left behind: outside of putchar and   *)
(* the ISR, the interrupt is enabled and either pending or about to become *)
(* so, when UCA0TXBUF is emptied.                                          *)
NoStalledQueue ==
  /\ pc \in {"idle", "print", "full"}
  /\ isr = "off"
  /\ ~ring_buffer_empty(tx_buffer)
  => UCA0TXIE /\ (UCA0TXIFG \/ UCA0TXBUF # NoByte)

(* What has been sent is what was handed over, in order, without a gap and *)
(* without a repetition.                                                   *)
WireInOrder ==
  /\ Len(wire) <= Len(accepted)
  /\ \A k \in 1 .. Len(wire) : wire[k] = accepted[k]

(* uart_print_interrupt returns: the polling loop on the full queue ends,  *)
(* because the ISR goes on making room.                                    *)
PrintReturns == pc = "print" ~> pc = "idle"

(* The transmitter is a serial line that keeps at most UART_BUFFER_SIZE    *)
(* accepted bytes and sends every one of them.                             *)
Line == INSTANCE SerialLine WITH Capacity <- UART_BUFFER_SIZE
LineSafety == Line!Safety
LineSpec == Line!Spec

-----------------------------------------------------------------------------
(***************************************************************************)
(* Why it works.  Bytes leave the queue in the ISR, not when they leave    *)
(* UCA0TXBUF, so the queue and the hardware disagree about how far the     *)
(* transmission has come; the invariant says by how much, and when.        *)
(***************************************************************************)

(* The bytes the ISR has taken out of the queue. *)
Removed == Len(accepted) - Count(tx_buffer)

(* The bytes the USCI has taken out of UCA0TXBUF. *)
Loaded == Len(wire) + (IF shifter = NoByte THEN 0 ELSE 1)

(* The queue holds the tail of what was handed over. *)
QueueIsBacklog ==
  /\ Count(tx_buffer) <= Len(accepted)
  /\ \A k \in 1 .. Count(tx_buffer) :
       Element(tx_buffer, k) = accepted[Removed + k]

ShifterIsNext ==
  shifter # NoByte =>
    /\ Len(wire) < Len(accepted)
    /\ shifter = accepted[Len(wire) + 1]

(* Before the end of uart_init nothing moves; after it, until mcu_init has *)
(* returned as well, nothing has been printed.                             *)
BootInv ==
  /\ ~uart_ready <=> UCA0TXIE = FALSE /\ pc \in {"boot", "init_clear", "init_enable"}
  /\ ~uart_ready => UCA0TXBUF = NoByte
  /\ pc \in {"boot", "init_clear", "init_enable"} =>
       accepted = <<>> /\ wire = <<>> /\ shifter = NoByte /\ isr = "off"
  /\ pc = "init_enable" => ~UCA0TXIFG
  /\ pc \notin {"boot", "init_clear", "init_enable"} => GIE

(* Where main is in uart_putchar_interrupt. *)
PutcharInv ==
  /\ pc \in {"full", "disable", "ongoing", "put"} => i < Len(string)
  /\ pc \in {"disable", "ongoing", "put"} => ~ring_buffer_full(tx_buffer)
  /\ pc \in {"ongoing", "put", "start", "enable"} => ~UCA0TXIE
  /\ pc = "put" => tx_ongoing = (Count(tx_buffer) > 0)
  /\ pc \in {"start", "enable"} => Count(tx_buffer) > 0
  /\ uart_ready /\ pc \notin {"ongoing", "put", "start", "enable"} => UCA0TXIE

(* How far the ISR is behind the USCI, by the state of flag, UCA0TXBUF and *)
(* ISR.                                                                    *)
PhaseInv ==
  /\ uart_ready /\ UCA0TXIFG /\ isr # "clear" =>
       Loaded = Removed + 1 /\ Count(tx_buffer) > 0
  /\ ~UCA0TXIFG \/ isr = "clear" => Loaded = Removed
  /\ UCA0TXIFG \/ isr # "off" \/ pc = "start" => UCA0TXBUF = NoByte
  /\ UCA0TXBUF # NoByte =>
       Count(tx_buffer) > 0 /\ UCA0TXBUF = Element(tx_buffer, 1)
  /\ isr \in {"empty", "get", "clear"} => UCA0TXIFG
  /\ isr = "start" \/ pc = "start" => ~UCA0TXIFG
  /\ isr # "off" => UCA0TXIE
  /\ ~UCA0TXIFG /\ isr = "off" /\ pc # "start" /\ UCA0TXBUF = NoByte =>
       Count(tx_buffer) = 0

(* The inductive invariant behind the safety theorems. *)
IInv ==
  /\ TypeOK
  /\ IsrNeverHangs
  /\ QueueIsBacklog
  /\ WireInOrder
  /\ ShifterIsNext
  /\ BootInv
  /\ PutcharInv
  /\ PhaseInv
=============================================================================
