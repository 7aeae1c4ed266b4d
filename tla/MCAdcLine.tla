----------------------------- MODULE MCAdcLine -----------------------------
(* The four pins that the comments of adc.c name, in an order of their own, *)
(* with a gap between the channels; voltages on both sides of the threshold. *)
EXTENDS AdcLine

MCPins == <<4, 3, 5, 0>>
MCChannel == [front_left |-> 3, front_right |-> 4, back_left |-> 5, back_right |-> 0]
MCVoltages == {649, 650}
=============================================================================
