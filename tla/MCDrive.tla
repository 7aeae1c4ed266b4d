------------------------------ MODULE MCDrive ------------------------------
(* The drive layer has no constants: its whole table and every sequence of *)
(* commands are checked.                                                   *)
EXTENDS Drive
=============================================================================
