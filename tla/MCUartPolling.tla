---------------------------- MODULE MCUartPolling ---------------------------
(* One character to print and one to poll for. *)
EXTENDS UartPolling

CONSTANT a

MCByte == {a}
MCStrings == {<<a>>}
=============================================================================
