------------------------------ MODULE WorkOrders ------------------------------
(***************************************************************************)
(* Work orders beside the alerts they repair: WorkOrdersService.create and *)
(* .update (apps/api/src/modules/work-orders) on the tables work_orders    *)
(* and work_order_events (migration 0006), composed with every request of  *)
(* AlertLifecycle.  Both handlers run in a transaction that begins with an *)
(* unlocked SELECT (one step) and decides everything else from what it     *)
(* read; from its first UPDATE to COMMIT is the other step.  That stretch  *)
(* locks the alert's row before the order's in every request, so requests  *)
(* wait for one another but never in a circle, and a violated constraint   *)
(* undoes the writes of both tables.                                       *)
(***************************************************************************)
EXTENDS AlertLifecycle

CONSTANTS
  OrderIds,    \* primary keys the table may hand out; a bound of the model
  Editors,     \* API requests that create or update orders
  People,      \* users an order may be assigned to
  NoOne, Keep, \* assigned_to NULL; a field left out of a request or of a SET
  Requests,    \* bodies of the update requests sent
  MaxVersion   \* bound: an update starts only on an older row

InWork == {"ASSIGNED", "IN_PROGRESS", "AWAITING_RESOURCES"}
OrderStatuses == InWork \cup {"OPEN", "COMPLETED", "CANCELLED"}

(* updateWorkOrderRequestSchema; Keep everywhere: only fields left out here*)
RequestBody == [status : OrderStatuses \cup {Keep}, assignee : People \cup {NoOne, Keep},
                diagnosed : BOOLEAN \cup {Keep}, reasoned : BOOLEAN \cup {Keep}]

ASSUME OrderAssumption ==
  /\ Requests \subseteq RequestBody
  /\ NoOne \notin People
  /\ Keep \notin People \cup {NoOne}
  /\ Keep \notin OrderStatuses
  /\ Keep \notin BOOLEAN
  /\ MaxVersion \in Nat

VARIABLES
  orders, \* table work_orders
  logged, \* the to_status values of an order's rows in work_order_events
  editor  \* program counter and locals of create and update

orderVars == <<orders, logged, editor>>
systemVars == <<alertVars, orderVars>>
bystanders == <<detected, rules, detector, operator, detections, crashes, orphans>>

-----------------------------------------------------------------------------
(* Rows *)

(* The columns an update may write.  The last three are time stamps, told  *)
(* apart only as NULL or not; reasoned: a reason of five characters.       *)
Columns == [status : OrderStatuses, assignee : People \cup {NoOne},
            diagnosed : BOOLEAN, reasoned : BOOLEAN,
            inspected : BOOLEAN, completed : BOOLEAN, cancelled : BOOLEAN]
Edits   == [status : OrderStatuses \cup {Keep}, assignee : People \cup {NoOne, Keep},
            diagnosed : BOOLEAN \cup {Keep}, reasoned : BOOLEAN \cup {Keep},
            inspected : {TRUE, Keep}, completed : {TRUE, Keep}, cancelled : {TRUE, Keep}]
OrderRow == [version : Nat \ {0}, alert : AlertIds \cup {NoAlert}, data : Columns]
NoOrder  == [version |-> 0]
Ordered(w) == orders[w] # NoOrder

(* UPDATE ... SET: only the columns of the edit are written.               *)
Merge(data, edit) ==
  [c \in DOMAIN data |-> IF edit[c] = Keep THEN data[c] ELSE edit[c]]

(* The three status CHECKs of work_orders.                                 *)
RowAdmitted(data) ==
  /\ data.status \in InWork => data.assignee # NoOne
  /\ data.status = "COMPLETED" => data.completed /\ data.diagnosed
  /\ data.status = "CANCELLED" => data.cancelled /\ data.reasoned

IdleEditor == [pc |-> "idle"]
EditorState ==
  {IdleEditor}
  \cup [pc : {"create"}, alert : AlertIds \cup {NoAlert}, advance : BOOLEAN,
        assignee : People \cup {NoOne}]
  \cup [pc : {"update"}, order : OrderIds, seen : Nat, edit : Edits,
        moves : BOOLEAN]

OrderTypeOK ==
  /\ AlertTypeOK
  /\ orders \in [OrderIds -> OrderRow \cup {NoOrder}]
  /\ logged \in [OrderIds -> SUBSET OrderStatuses]
  /\ editor \in [Editors -> EditorState]

Init ==
  /\ AlertInit
  /\ orders = [w \in OrderIds |-> NoOrder]
  /\ logged = [w \in OrderIds |-> {}]
  /\ editor = [e \in Editors |-> IdleEditor]

EditorDone(e) == editor' = [editor EXCEPT ![e] = IdleEditor]

-----------------------------------------------------------------------------
(* WorkOrdersService.create *)

(* findAlert, for a request that names an alert; `advance` is the branch   *)
(* an OPEN alert takes.                                                    *)
ReadForCreate(e, a, assignee) ==
  /\ editor[e] = IdleEditor
  /\ a # NoAlert => Exists(a)
  /\ editor' = [editor EXCEPT ![e] =
       [pc |-> "create", alert |-> a, assignee |-> assignee,
        advance |-> a # NoAlert /\ alert[a].status = "OPEN"]]
  /\ UNCHANGED <<alertVars, orders, logged>>

(* updateAlert writes INVESTIGATING whatever the status is by now (the     *)
(* first, wrong on purpose: a status of orders).                           *)
AdvanceToOrderStatus == [from |-> "OPEN", to |-> "IN_PROGRESS", by |-> "order"]
Advance == [from |-> "OPEN", to |-> "INVESTIGATING", by |-> "order"]
CreateAdmittedIfSeenOpen(e) == editor[e].pc = "create" \* wrong on purpose: no index
CreateAdmitted(e) ==
  editor[e].advance =>
    IndexAdmits(editor[e].alert, alert[editor[e].alert].key, Advance.to)

CommitCreate(e) ==
  LET l == editor[e]
      status == IF l.assignee = NoOne THEN "OPEN" ELSE "ASSIGNED" IN
  /\ l.pc = "create"
  /\ CreateAdmitted(e)
  /\ IF l.advance THEN Moves(l.alert, Advance) ELSE UNCHANGED <<alert, trail>>
  /\ \E w \in OrderIds :
       /\ ~Ordered(w)
       /\ orders' = [orders EXCEPT ![w] =
            [version |-> 1, alert |-> l.alert,
             data |-> [status |-> status, assignee |-> l.assignee,
                       diagnosed |-> FALSE, reasoned |-> FALSE, inspected |-> FALSE,
                       completed |-> FALSE, cancelled |-> FALSE]]]
       /\ logged' = [logged EXCEPT ![w] = {status}]
  /\ EditorDone(e)
  /\ UNCHANGED bystanders

RollbackCreate(e) ==
  /\ editor[e].pc = "create"
  /\ ~CreateAdmitted(e)
  /\ EditorDone(e)
  /\ UNCHANGED <<alertVars, orders, logged>>

-----------------------------------------------------------------------------
(* WorkOrdersService.update *)

(* The request names another status: work_order_events gets a              *)
(* STATUS_CHANGED row, which an assignment alone does not write.           *)
Moved(data, in) == in.status \notin {Keep, data.status}

(* Wrong on purpose: the stamp of the status the order leaves.              *)
StampOnLeaving(data, in, s) == IF Moved(data, in) /\ data.status = s THEN TRUE ELSE Keep
Stamp(data, in, s) == IF Moved(data, in) /\ in.status = s THEN TRUE ELSE Keep

(* The columns `changes` gets from the row read and the request.           *)
EditFor(data, in) ==
  LET assigns == in.assignee \notin {Keep, data.assignee}
      moves   == Moved(data, in) IN
  [status    |-> IF moves THEN in.status
                 ELSE IF assigns /\ in.assignee # NoOne /\ data.status = "OPEN"
                      THEN "ASSIGNED" ELSE Keep,
   assignee  |-> IF assigns THEN in.assignee ELSE Keep,
   diagnosed |-> in.diagnosed,
   reasoned  |-> in.reasoned,
   inspected |-> IF data.inspected THEN Keep ELSE Stamp(data, in, "IN_PROGRESS"),
   completed |-> Stamp(data, in, "COMPLETED"),
   cancelled |-> Stamp(data, in, "CANCELLED")]

ReadForUpdate(e, w, in) ==
  /\ editor[e] = IdleEditor
  /\ Ordered(w)
  /\ orders[w].version < MaxVersion
  /\ editor' = [editor EXCEPT ![e] =
       [pc |-> "update", order |-> w, seen |-> orders[w].version,
        edit |-> EditFor(orders[w].data, in), moves |-> Moved(orders[w].data, in)]]
  /\ UNCHANGED <<alertVars, orders, logged>>

Resolution == [from |-> "INVESTIGATING", to |-> "RESOLVED", by |-> "order"]

(* A completed order resolves its alert (the first, wrong on purpose:   *)
(* only when the order was being worked on).                               *)
ResolvesWhenInProgress(w, edit) ==
  /\ edit.completed = TRUE
  /\ orders[w].alert # NoAlert
  /\ orders[w].data.status = "IN_PROGRESS"
ResolvesAlert(w, edit) == edit.completed = TRUE /\ orders[w].alert # NoAlert

CommitUpdate(e) ==
  LET l == editor[e]
      w == l.order
      data == Merge(orders[w].data, l.edit) IN
  /\ l.pc = "update"
  /\ RowAdmitted(data)
  /\ IF ResolvesAlert(w, l.edit)
     THEN Moves(orders[w].alert, Resolution)
     ELSE UNCHANGED <<alert, trail>>
  /\ orders' = [orders EXCEPT ![w] =
       [version |-> @.version + 1, alert |-> @.alert, data |-> data]]
  /\ logged' = [logged EXCEPT ![w] =
                  @ \cup (IF l.moves THEN {l.edit.status} ELSE {})]
  /\ EditorDone(e)
  /\ UNCHANGED bystanders

RollbackUpdate(e) ==
  /\ editor[e].pc = "update"
  /\ ~RowAdmitted(Merge(orders[editor[e].order].data, editor[e].edit))
  /\ EditorDone(e)
  /\ UNCHANGED <<alertVars, orders, logged>>

Editor(e) ==
  \/ \E a \in AlertIds \cup {NoAlert}, p \in People \cup {NoOne} : ReadForCreate(e, a, p)
  \/ CommitCreate(e) \/ RollbackCreate(e)
  \/ \E w \in OrderIds, in \in Requests : ReadForUpdate(e, w, in)
  \/ CommitUpdate(e) \/ RollbackUpdate(e)

-----------------------------------------------------------------------------
Next ==
  \/ AlertNext /\ UNCHANGED orderVars
  \/ \E e \in Editors : Editor(e)

Spec == Init /\ [][Next]_systemVars

-----------------------------------------------------------------------------
(* Properties *)

(* Whatever stale edits two requests merge into one row, the status of an  *)
(* order is backed by its other columns (the CHECKs look at the merged     *)
(* row), by its inspection stamp and by a row of its history; only an      *)
(* assignment changes the status without one.                              *)
BackedUp(data, log) ==
  /\ RowAdmitted(data)
  /\ data.status = "IN_PROGRESS" => data.inspected
  /\ data.status \in log \cup {"ASSIGNED"}
StatusIsBackedUp ==
  \A w \in OrderIds : Ordered(w) => BackedUp(orders[w].data, logged[w])

(* Orders and alerts change together or not at all: a completed order has  *)
(* resolved its alert, an alert an order resolved has an order that was    *)
(* completed, and one an order advanced has an order.                      *)
OrdersOf(a) == {w \in OrderIds : Ordered(w) /\ orders[w].alert = a}
Shows(a, change) == \E i \in DOMAIN trail[a] : trail[a][i] = change
CompletionResolves ==
  \A a \in AlertIds :
    /\ (\E w \in OrdersOf(a) : orders[w].data.completed) <=> Shows(a, Resolution)
    /\ Shows(a, Advance) => OrdersOf(a) # {}

(* A new order takes an alert to INVESTIGATING only if the alert is OPEN.  *)
AdvancesOnlyOpen ==
  [][\A e \in Editors, a \in AlertIds :
       CommitCreate(e) /\ editor[e].advance /\ editor[e].alert = a
         => alert[a].status = "OPEN"]_systemVars

(* `version` detects conflicts: an update is committed only on the row it  *)
(* was computed from.                                                      *)
NoStaleUpdate ==
  [][\A e \in Editors :
       CommitUpdate(e) => orders[editor[e].order].version = editor[e].seen]_systemVars
=============================================================================
