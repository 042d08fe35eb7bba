----------------------------- MODULE MCWorkOrders -----------------------------
(* Small instances of WorkOrders for TLC. *)
EXTENDS WorkOrders, TLC

(* One request of each kind that decides something in the handler or in a  *)
(* CHECK; the closing moves bring what their CHECK asks for, and taking    *)
(* the assignee away also clears the diagnosis.                            *)
NoField == [status |-> Keep, assignee |-> Keep, diagnosed |-> Keep, reasoned |-> Keep]
MCRequests ==
  {[NoField EXCEPT !.assignee = p] : p \in People}
  \cup {[NoField EXCEPT !.assignee = NoOne, !.diagnosed = FALSE],
        [NoField EXCEPT !.status = "IN_PROGRESS"],
        [NoField EXCEPT !.status = "COMPLETED", !.diagnosed = TRUE],
        [NoField EXCEPT !.status = "CANCELLED", !.reasoned = TRUE]}

Symmetry == Permutations(AlertIds) \cup Permutations(Editors)
=============================================================================
