----------------------------- MODULE MCCamStream -----------------------------
(* Instances of CamStream for TLC.                                          *)
EXTENDS CamStream, TLC

CONSTANTS nn, aux, manual, c1, c2
=============================================================================
