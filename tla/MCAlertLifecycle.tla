--------------------------- MODULE MCAlertLifecycle ---------------------------
(* Small instances of AlertLifecycle for TLC. *)
EXTENDS AlertLifecycle, TLC

Symmetry == Permutations(AlertIds) \cup Permutations(Detectors)
              \cup Permutations(Operators) \cup Permutations(Keys)
=============================================================================
