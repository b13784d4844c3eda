--------------------------- MODULE MCCommandLine ---------------------------
(* An instance of CommandLine for TLC: one and two scans, and no limit. *)
EXTENDS CommandLine

MCRetries == {-1, 2}
=============================================================================
