----------------------------- MODULE MCWebSession -----------------------------
(* A small instance of WebSession for TLC. *)
EXTENDS WebSession, TLC

CONSTANTS t1, u1, u2

Roles == (u1 :> "OPERATOR") @@ (u2 :> "TECHNICIAN")
=============================================================================
