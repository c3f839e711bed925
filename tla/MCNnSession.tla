---------------------------- MODULE MCNnSession ----------------------------
(* Two consoles, which are alike: a start of one against a stop of the      *)
(* other.                                                                   *)
EXTENDS NnSession, TLC
Sym == Permutations(Consoles)
=============================================================================
