------------------------------ MODULE JobLedger ------------------------------
(***************************************************************************)
(* What the shell's background jobs promise whoever types the commands,    *)
(* whatever pool they run in.  A job is known by the number printed when it *)
(* was started.  Numbers are used once.  A job that never returns by itself *)
(* ends only because it was killed; a kill is accepted from the moment the  *)
(* job runs until its end is announced, and then never taken back; the end  *)
(* is announced once, and only after the job really ended.                  *)
(***************************************************************************)
CONSTANTS
  Ids,      \* job numbers
  Endless   \* those whose command returns only when cancelled

VARIABLES
  stage,    \* number -> "new", "live", "over" or "told"
  killed    \* numbers of the accepted kills

Init ==
  /\ stage = [k \in Ids |-> "new"]
  /\ killed = {}

Start(k) ==
  /\ stage[k] = "new"
  /\ stage' = [stage EXCEPT ![k] = "live"]
  /\ UNCHANGED killed

Kill(k) ==
  /\ stage[k] \in {"live", "over"}
  /\ killed' = killed \cup {k}
  /\ UNCHANGED stage

End(k) ==
  /\ stage[k] = "live"
  /\ k \in Endless => k \in killed
  /\ stage' = [stage EXCEPT ![k] = "over"]
  /\ UNCHANGED killed

Announce(k) ==
  /\ stage[k] = "over"
  /\ stage' = [stage EXCEPT ![k] = "told"]
  /\ UNCHANGED killed

Next == \E k \in Ids : Start(k) \/ Kill(k) \/ End(k) \/ Announce(k)

Spec == Init /\ [][Next]_<<stage, killed>>
==============================================================================
