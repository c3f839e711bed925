------------------------------- MODULE CamOwn -------------------------------
(***************************************************************************)
(* The lifecycle of a camera step's owner (port/camera/cam_own.c): which of *)
(* its states lets a start or a stop through, and where a drain leaves it.  *)
(***************************************************************************)

Owns == {"IDLE", "STARTING", "RUNNING", "DRAINING", "SETTLING", "PENDING"}

StartGoes(st) == st = "IDLE"
StopGoes(st)  == st \in {"RUNNING", "PENDING", "SETTLING"}

StartDone(st, ok) ==
  CASE st # "STARTING" -> st
    [] st = "STARTING" -> IF ok THEN "RUNNING" ELSE "IDLE"

(* A pin still out outranks a worker still in.                              *)
DrainNext(drained, parked) ==
  CASE ~drained           -> "PENDING"
    [] drained /\ parked  -> "IDLE"
    [] drained /\ ~parked -> "SETTLING"

SettledFrom(st) == IF st = "SETTLING" THEN "IDLE" ELSE st
=============================================================================
