----------------------------- MODULE SerialLine -----------------------------
(***************************************************************************)
(* What the interrupt-driven transmitter of uart.c promises to its caller: *)
(* every byte it accepts appears on the wire, once, in the order of the    *)
(* calls, and the backlog of accepted bytes never exceeds Capacity.        *)
(***************************************************************************)
EXTENDS Naturals, Sequences

CONSTANTS
  Byte,       \* The bytes that may be sent.
  Capacity    \* The largest backlog of accepted bytes.

VARIABLES
  accepted,   \* The bytes handed over, in order.
  wire        \* The bytes that have left on the TXD pin, in order.

lineVars == <<accepted, wire>>

Init ==
  /\ accepted = <<>>
  /\ wire = <<>>

(* A call hands over byte b. *)
Accept(b) ==
  /\ Len(accepted) - Len(wire) < Capacity
  /\ accepted' = Append(accepted, b)
  /\ UNCHANGED wire

(* The oldest byte of the backlog has been sent. *)
Emit ==
  /\ Len(wire) < Len(accepted)
  /\ wire' = Append(wire, accepted[Len(wire) + 1])
  /\ UNCHANGED accepted

Next ==
  \/ \E b \in Byte : Accept(b)
  \/ Emit

Safety == Init /\ [][Next]_lineVars

Spec == Safety /\ WF_lineVars(Emit)
=============================================================================
