------------------------------ MODULE Transfer ------------------------------
(***************************************************************************)
(* What a file transfer promises both its ends, whatever the line between   *)
(* them does: the sink is given the blocks the sender took from the file in *)
(* their order, each once and nothing else, and a receiver that reports     *)
(* success has given it the whole file.  A source that runs dry within a    *)
(* block may leave that one to be filled up, and is then not read again.    *)
(***************************************************************************)
EXTENDS Naturals, Sequences

CONSTANT Filler    \* what stands in for a block the source did not have whole

VARIABLES
  size,       \* the blocks of the file
  sent,       \* how many the sender has taken so far
  got,        \* what the sink was given
  sender,     \* "RUN", "OK" or an error
  receiver

Init ==
  /\ size \in Nat
  /\ sent = 0
  /\ got = <<>>
  /\ sender = "RUN"
  /\ receiver = "RUN"

Take ==
  /\ sender = "RUN"
  /\ sent < size
  /\ sent' = sent + 1
  /\ UNCHANGED <<size, got, sender, receiver>>

Deliver ==
  /\ receiver = "RUN"
  /\ Len(got) < sent
  /\ Filler \notin {got[i] : i \in DOMAIN got}
  /\ got' \in {Append(got, Len(got) + 1), Append(got, Filler)}
  /\ UNCHANGED <<size, sent, sender, receiver>>

ReceiverEnds ==
  /\ receiver = "RUN"
  /\ receiver' # "RUN"
  /\ receiver' = "OK" => Len(got) = size
  /\ UNCHANGED <<size, sent, got, sender>>

SenderEnds ==
  /\ sender = "RUN"
  /\ sender' # "RUN"
  /\ UNCHANGED <<size, sent, got, receiver>>

Next == Take \/ Deliver \/ ReceiverEnds \/ SenderEnds

Spec == Init /\ [][Next]_<<size, sent, got, sender, receiver>>
=============================================================================
