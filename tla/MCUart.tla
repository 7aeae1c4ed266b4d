------------------------------- MODULE MCUart -------------------------------
(* A transmitter with a queue of four slots and two strings to print, one *)
(* longer than the three bytes the queue holds.                              *)
EXTENDS Uart

CONSTANTS a, b, c

MCByte == {a, b, c}
MCStrings == {<<a, b, c, a>>, <<c, b>>}
=============================================================================
