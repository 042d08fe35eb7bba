------------------------------ MODULE MCMapPage ------------------------------
(* Small instances of MapPage for TLC. *)
EXTENDS MapPage, TLC

CONSTANTS d1, d2, s1, s2, pipe

(* A pressure sensor in one sector, a flow meter in another, which the     *)
(* list does not hold at first, and a pipe that is in none.                *)
Kinds == (d1 :> "PRESSURE_SENSOR") @@ (d2 :> "FLOW_METER") @@ (pipe :> "PIPE")
Places == (d1 :> s1) @@ (d2 :> s2) @@ (pipe :> None)
FindsOne == [t \in Search |-> {d2, s2}]
AskedOfTheApi == [sectors |-> 100, devices |-> 200, assets |-> 200, alerts |-> 200]
StartingRows == [status |-> [d \in Devices |-> "ACTIVE"],
                 alert |-> [d \in Devices |-> IF d = d1 THEN "CRITICAL" ELSE None],
                 sectors |-> {s1}]
WholeList == {{s1, s2}}

FewFilters == {NoFilter, [NoFilter EXCEPT !.sector = s1], [NoFilter EXCEPT !.status = "ALERT"]}
=============================================================================
