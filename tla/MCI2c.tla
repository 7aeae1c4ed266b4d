------------------------------- MODULE MCI2c -------------------------------
(* Waits of at most three rounds, addresses of one and two bytes, data of  *)
(* none to three.                                                          *)
EXTENDS I2c

MCAddrSizes == {1, 2}
MCDataSizes == 0 .. 3
=============================================================================
