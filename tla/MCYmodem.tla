------------------------------ MODULE MCYmodem ------------------------------
(* Ymodem on small instances. *)
EXTENDS Ymodem

MCSizes == {0, 3}
=============================================================================
