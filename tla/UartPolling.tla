----------------------------- MODULE UartPolling ----------------------------
(***************************************************************************)
(* Uart with the other way to send a character, uart_putchar_polling,      *)
(* which main may call as well once uart_init has returned.                *)
(***************************************************************************)
EXTENDS Uart

(* while (!(IFG2 & UCA0TXIFG)) {}: main enters the loop, ... *)
uart_putchar_polling ==
  /\ MainStep("idle", "poll")
  /\ UNCHANGED <<GIE, usci, tx_buffer, uart_ready, call, isr, accepted>>

(* ... stays in it while the flag is clear ... *)
PollingSpin ==
  /\ ~UCA0TXIFG
  /\ MainStep("poll", "poll")
  /\ UNCHANGED vars

(* ... and leaves it when the flag is set, to send character c. *)
PollingLoad(c) ==
  /\ UCA0TXIFG
  /\ MainStep("poll", "idle")
  /\ UCA0TXBUF' = c
  /\ UCA0TXIFG' = FALSE
  /\ UNCHANGED <<GIE, UCA0TXIE, shifter, wire, tx_buffer, uart_ready, call, isr,
                 accepted>>

PollingNext ==
  \/ Next
  \/ uart_putchar_polling
  \/ PollingSpin
  \/ \E c \in Byte : PollingLoad(c)

PollingSpec ==
  /\ Init
  /\ [][PollingNext]_vars
  /\ Fairness
  /\ WF_vars(\E c \in Byte : PollingLoad(c))

(* uart_putchar_polling returns: with an empty UCA0TXBUF the flag "will    *)
(* set", as uart.c:133 says, whether or not the interrupt is enabled.      *)
PollingReturns == pc = "poll" ~> pc = "idle"
=============================================================================
