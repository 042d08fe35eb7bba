------------------------------- MODULE MCConsole -------------------------------
(* Small instances of Console for TLC. *)
EXTENDS Console

CONSTANTS a1, o1, o2
=============================================================================
