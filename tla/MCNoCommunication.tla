-------------------------- MODULE MCNoCommunication --------------------------
(* Small instances of NoCommunication for TLC: the constants of the .cfg   *)
(* files are all there is to choose.                                       *)
EXTENDS NoCommunication
=============================================================================
