---------------------------- MODULE MCBlobStore ----------------------------
(* Instances of BlobStore for TLC.                                          *)
EXTENDS BlobStore, TLC

CONSTANTS short, long

Lengths == short :> 1 @@ long :> 2
Symmetric == Permutations(Tasks) \cup Permutations(Slots) \cup Permutations(Names)
=============================================================================
