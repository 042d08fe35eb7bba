------------------------ MODULE MCUserAdministration ------------------------
(* Small instances of UserAdministration for TLC. *)
EXTENDS UserAdministration

Nothing == [role |-> Keep, active |-> Keep]
Demote  == [Nothing EXCEPT !.role = "VIEWER"]
Retire  == [Nothing EXCEPT !.active = FALSE]

(* Requests that only take away, and those that also give.                 *)
Removals   == {Demote, Retire}
AllChanges == Removals \cup {[Nothing EXCEPT !.role = "ADMIN"],
                             [Nothing EXCEPT !.active = TRUE]}
=============================================================================
