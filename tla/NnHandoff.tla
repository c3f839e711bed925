------------------------------ MODULE NnHandoff ------------------------------
(***************************************************************************)
(* The hand-over word between the camera producer, which writes the model's *)
(* input, and the inference worker, which reads it (svc/nn/nn_handoff.c).    *)
(***************************************************************************)

Words == {"IDLE", "WANT", "FILLING", "HANDED", "RUNNING"}
Ops   == {"ARM", "BEGIN", "HAND", "ABANDON", "TAKE", "DONE", "DONE_LAST", "JOIN"}

(* Nobody is in the input, or will be.                                      *)
Settled == {"IDLE", "WANT", "FILLING"}

From == [op \in Ops |->
  CASE op = "ARM"                  -> {"IDLE"}
    [] op = "BEGIN"                -> {"WANT"}
    [] op \in {"HAND", "ABANDON"}  -> {"FILLING"}
    [] op = "TAKE"                 -> {"HANDED"}
    [] op \in {"DONE", "DONE_LAST"} -> {"RUNNING"}
    [] op = "JOIN"                 -> Settled]

ToFreesAtTake == [op \in Ops |->
  CASE op \in {"ARM", "ABANDON", "DONE", "TAKE"} -> "WANT"
    [] op = "BEGIN"                              -> "FILLING"
    [] op = "HAND"                               -> "HANDED"
    [] op \in {"DONE_LAST", "JOIN"}              -> "IDLE"]

To == [op \in Ops |->
  CASE op \in {"ARM", "ABANDON", "DONE"} -> "WANT"
    [] op = "BEGIN"                      -> "FILLING"
    [] op = "HAND"                       -> "HANDED"
    [] op = "TAKE"                       -> "RUNNING"
    [] op \in {"DONE_LAST", "JOIN"}      -> "IDLE"]

Moves(w, op)  == w \in From[op]
Stepped(w, op) == IF Moves(w, op) THEN To[op] ELSE w
=============================================================================
