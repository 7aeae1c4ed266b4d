--------------------------- MODULE MCIoInterrupt ---------------------------
(* Two ports of two pins each, of which one is not used. *)
EXTENDS IoInterrupt
=============================================================================
