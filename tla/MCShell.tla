-------------------------------- MODULE MCShell --------------------------------
(* The shell for TLC: two jobs, whose processes may all run at once. *)
EXTENDS Shell
=============================================================================
