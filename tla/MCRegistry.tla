------------------------------- MODULE MCRegistry -------------------------------
(* A small instance of Registry for TLC.  Nothing tells the devices apart. *)
EXTENDS Registry, TLC

CONSTANTS d1, d2, s1, k1, w1, g1

(* "Copie-a e configure no firmware do sensor ou gateway de campo": a key  *)
(* shown over the details of a device is that device's.                    *)
SecretUnderItsDevice ==
  secret # None /\ At("device") => child[secret].of = panel.of

Symmetry == Permutations({d1, d2})
=============================================================================
