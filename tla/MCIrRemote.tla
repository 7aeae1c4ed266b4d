----------------------------- MODULE MCIrRemote -----------------------------
(* Fields of two bits, so that a message has eight and the tenth edge is   *)
(* the last one; a buffer that holds two commands.                         *)
EXTENDS IrRemote

MCCommands == {<<0, 1>>, <<1, 0>>}
MCAddress == <<0, 1>>
=============================================================================
