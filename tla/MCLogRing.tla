------------------------------ MODULE MCLogRing ------------------------------
(* A ring of two records, fresh and one lap before its offsets wrap.         *)
EXTENDS LogRing

MCStarts == {0, Wrap - Size}
=============================================================================
