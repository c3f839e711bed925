------------------------------- MODULE CamGen -------------------------------
(***************************************************************************)
(* Stream generations: svc/camera/cam_gen.h.  A generation is a 32-bit      *)
(* counter that skips 0 when it wraps; two generations are compared by      *)
(* their signed distance.  HalfSpace is 2^31 in the code and small in the   *)
(* runs, so that they cross the wrap.                                       *)
(***************************************************************************)
EXTENDS Integers

CONSTANT HalfSpace     \* half the values of the counter: 2^31 in the code

ASSUME GenSpaceAssumption == HalfSpace \in Nat /\ HalfSpace >= 2

GenSpace == 2 * HalfSpace
Gens     == 0 .. GenSpace - 1
NoGen    == 0                    \* CAM_GEN_NONE: "no stream to wait for"

(* The generation after g, skipping NoGen on the wrap.                      *)
NextGen(g) == IF g = GenSpace - 1 THEN 1 ELSE g + 1

(* (int32_t)(to - from) >= 0: is `to` less than half the circle ahead?      *)
NotBefore(to, from) ==
  \/ 0 <= to - from /\ to - from < HalfSpace
  \/ to - from < -HalfSpace

(* Has stream `want` ended, when `done` is the last recorded end?  The twin *)
(* above it, here and in the modules of the camera stream, is a mistake the *)
(* code could have made.                                                    *)
EndedUnsigned(done, want) == want = NoGen \/ done >= want
Ended(done, want) == want = NoGen \/ NotBefore(done, want)
=============================================================================
