----------------------------- MODULE MCShellJobs -----------------------------
(* ShellJobs on small instances. *)
EXTENDS ShellJobs

CONSTANTS c1, c2

OneConsole  == {c1}
TwoConsoles == {c1, c2}
MCEndless   == {1, 3}
==============================================================================
