----------------------------- MODULE MCNnModel -----------------------------
(* Two consoles and two containers, both alike, and one bare model.         *)
EXTENDS NnModel, TLC
Sym == Permutations(Consoles) \cup Permutations(Plugged)
=============================================================================
