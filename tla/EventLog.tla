------------------------------ MODULE EventLog ------------------------------
(***************************************************************************)
(* What a log that outlives a reset promises: the records it shows are      *)
(* those appended and not yet dropped, oldest dropped first; a reset drops  *)
(* none of them and brings none back; a number is given to one record only, *)
(* though its record may never appear.                                      *)
(***************************************************************************)
EXTENDS Naturals, Sequences

VARIABLES
  up,      \* the system runs
  recs,    \* the numbers of the records kept, oldest first
  next     \* the next record's number

Init ==
  /\ up = FALSE
  /\ next \in Nat
  /\ recs = <<>> \/ \E k \in 1 .. next : recs = [i \in 1 .. k |-> next - k + i - 1]

Number == up /\ next' = next + 1 /\ UNCHANGED <<up, recs>>

Keep ==
  /\ up
  /\ \A i \in DOMAIN recs : recs[i] < next - 1
  /\ recs' = Append(recs, next - 1)
  /\ UNCHANGED <<up, next>>

Drop  == up /\ recs # <<>> /\ recs' = Tail(recs) /\ UNCHANGED <<up, next>>
Clear == up /\ recs' = <<>> /\ UNCHANGED <<up, next>>

Reset     == up' = FALSE /\ UNCHANGED <<recs, next>>
PowerLoss == up' = FALSE /\ recs' = <<>> /\ next' = 0
Boot      == ~up /\ up' = TRUE /\ UNCHANGED <<recs, next>>

Next == Number \/ Keep \/ Drop \/ Clear \/ Reset \/ PowerLoss \/ Boot

Spec == Init /\ [][Next]_<<up, recs, next>>
=============================================================================
