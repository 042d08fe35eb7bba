------------------------------ MODULE AlertBoard ------------------------------
(***************************************************************************)
(* What the alert tables promise, with no request, statement or constraint *)
(* in sight: for every deduplication key there is a board with room for    *)
(* one active alert; alerts that left it are filed and may come back, and  *)
(* no alert is ever lost, renamed or replaced in place.                    *)
(***************************************************************************)
CONSTANTS Keys, AlertIds

VARIABLES
  active, \* key -> the alerts on the board, none or one
  filed   \* key -> the closed alerts

boardVars == <<active, filed>>

Init ==
  /\ active = [k \in Keys |-> {}]
  /\ filed = [k \in Keys |-> {}]

Known == UNION {active[k] \cup filed[k] : k \in Keys}

Raise(k, a) ==
  /\ active[k] = {}
  /\ a \notin Known
  /\ active' = [active EXCEPT ![k] = {a}]
  /\ UNCHANGED filed

File(k, a) ==
  /\ active[k] = {a}
  /\ active' = [active EXCEPT ![k] = {}]
  /\ filed' = [filed EXCEPT ![k] = @ \cup {a}]

Reopen(k, a) ==
  /\ active[k] = {}
  /\ a \in filed[k]
  /\ active' = [active EXCEPT ![k] = {a}]
  /\ filed' = [filed EXCEPT ![k] = @ \ {a}]

Next == \E k \in Keys, a \in AlertIds : Raise(k, a) \/ File(k, a) \/ Reopen(k, a)

Spec == Init /\ [][Next]_boardVars
=============================================================================
