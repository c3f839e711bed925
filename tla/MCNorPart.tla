------------------------------ MODULE MCNorPart ------------------------------
(* Model values for TLC: one foreground shell and background jobs on a part of two units. *)
EXTENDS NorPart

CONSTANTS fg, j1, j2, data1, data2, erased, junk, absent, none

OneJob == {j1}
TwoJobs == {j1, j2}
OnePattern == {data1}
TwoPatterns == {data1, data2}
ScanAndBlob == {"SCAN", "BLOB"}
AllReaders == {"SCAN", "DEVMEM", "BLOB"}
=============================================================================
