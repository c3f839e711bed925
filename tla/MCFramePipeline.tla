--------------------------- MODULE MCFramePipeline ---------------------------
(* Model values for TLC: sinks of each kind the boards and the tests use.  *)
(* The one that re-queues is a dropping one, as in the tests, so that what *)
(* is promised of sinks that do not is checked of the coalescing one.      *)
EXTENDS FramePipeline

CONSTANTS latestAsync, dropAsync, dropSync

CrowdSinks == {dropAsync, latestAsync, dropSync}
=============================================================================
