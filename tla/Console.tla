-------------------------------- MODULE Console --------------------------------
(***************************************************************************)
(* The pages of alerts and of work orders in a browser tab: AlertsPage.tsx *)
(* and WorkOrdersPage.tsx over the hooks of alerts-api.ts and              *)
(* work-orders-api.ts.  Each page shows a list kept in the cache of        *)
(* TanStack Query, and dialogs opened on a row of the list as it was then. *)
(* A dialog's form sends one mutation; the hook, once answered, invalidates*)
(* lists and waits for those on screen to be fetched again, and only then  *)
(* does the page close the dialog.  Other clients write meanwhile.         *)
(*                                                                         *)
(* Rows are stamped with the number of writes the API had applied when it  *)
(* read them.  A tab has one filter here, and texts of forms are left out. *)
(***************************************************************************)
EXTENDS Integers, FiniteSets

CONSTANTS
  Alerts, Orders,
  Assigned,    \* orders that have an assignee: no form of the tab gives one
  Elsewhere,   \* pages that show neither list
  Can,         \* permissions of the user, of those the two pages ask for
  None,
  ByOthers,    \* statuses other clients set,
  ByUser,      \* statuses of orders the user tries
  MaxCalls,    \* bounds: mutations under way at a time,
  MaxWrites,   \* writes the API applies,
  MaxFailures  \* requests that fail on the way there or back

Permissions == {"alerts:transition", "work-orders:create", "work-orders:execute"}

ASSUME ConsoleAssumption ==
  /\ Assigned \subseteq Orders
  /\ Can \subseteq Permissions
  /\ None \notin Alerts \cup Orders
  /\ MaxCalls \in Nat /\ MaxWrites \in Nat /\ MaxFailures \in Nat

VARIABLES
  server,   \* the API's rows: alert, order, and the number of writes
  list,     \* cache of each list: what it holds and the fetch under way
  page,     \* the page on screen
  dialog,   \* the dialog that is open on it
  mutation, \* the call each mutation hook has under way
  failures

vars == <<server, list, page, dialog, mutation, failures>>

Lists == {"alerts", "orders"}
Pages == Lists \cup Elsewhere
Hooks == {"useTransitionAlert", "useCreateWorkOrder", "useUpdateWorkOrder"}
Final == {"RESOLVED", "DISMISSED"}
AlertStatuses == {"OPEN", "ACKNOWLEDGED", "INVESTIGATING"} \cup Final
Chosen == {"IN_PROGRESS", "AWAITING_RESOURCES", "COMPLETED", "CANCELLED"}
OrderStatuses == Chosen \cup {"OPEN", "ASSIGNED"}
Stamps == 0..MaxWrites
ASSUME StatusAssumption == ByOthers \subseteq AlertStatuses /\ ByUser \subseteq Chosen

(* An order that is there has a status and perhaps the alert it repairs.   *)
OrderRow == [status : OrderStatuses, alert : Alerts \cup {None}]
ASSUME NoneIsNoOrder == None \notin OrderRow
Rows(l) == IF l = "alerts" THEN [Alerts -> AlertStatuses] ELSE [Orders -> OrderRow \cup {None}]

(* fetch: none under way, asked of the API, or answered with the rows of a *)
(* stamp; awaited: the mutation hooks that wait for it.                    *)
Fetches == [phase : {"idle", "asked"}] \cup [phase : {"read"}, rows : UNION {Rows(l) : l \in Lists}, at : Stamps]
Idle == [phase |-> "idle"]
Asked == [phase |-> "asked"]
ListState == [has : BOOLEAN, rows : UNION {Rows(l) : l \in Lists}, at : Stamps, failed : BOOLEAN, stale : BOOLEAN,
              fetch : Fetches]

NoDialog == [kind |-> "none"]
Actions == {"ACKNOWLEDGE", "INVESTIGATE", "RESOLVE"}
Dialogs == {NoDialog}
           \cup [kind : {"transition"}, row : Alerts, action : Actions]
           \cup [kind : {"createWo"}, row : Alerts]
           \cup [kind : {"create"}]
           \cup [kind : {"manage"}, row : Orders, status : Chosen]

NoCall == [phase |-> "none"]
Refusal == [phase |-> "refused"]
Calls == {NoCall, Refusal}
         \cup [phase : {"sent"}, asks : Dialogs \ {NoDialog}, mounted : BOOLEAN]
         \cup [phase : {"done", "refreshing"}, at : Stamps, mounted : BOOLEAN]

-----------------------------------------------------------------------------
(* The API, as alerts.service.ts and work-orders.service.ts answer.        *)

TargetStatus(action) == CASE action = "ACKNOWLEDGE" -> "ACKNOWLEDGED"
                          [] action = "INVESTIGATE" -> "INVESTIGATING"
                          [] action = "RESOLVE" -> "RESOLVED"

(* The CHECKs of work_orders on the row an update leaves: work needs an    *)
(* assignee, and a cancellation the reason no form asks for.               *)
OrderAdmitted(o, status) ==
  \/ status = server.order[o].status
  \/ status \in {"IN_PROGRESS", "AWAITING_RESOURCES"} /\ o \in Assigned
  \/ status = "COMPLETED"

Numbered(o) == server.order[o] # None
Written(rows) == server' = [rows EXCEPT !.writes = server.writes + 1]

Opened(a, o) ==
  [server EXCEPT !.order[o] = [status |-> "OPEN", alert |-> a],
                 !.alert = IF a # None /\ server.alert[a] = "OPEN"
                           THEN [server.alert EXCEPT ![a] = "INVESTIGATING"] ELSE @]

Updated(o, status) ==
  LET a == server.order[o].alert
  IN [server EXCEPT !.order[o].status = status,
                    !.alert = IF status = "COMPLETED" /\ server.order[o].status # status /\ a # None
                              THEN [server.alert EXCEPT ![a] = "RESOLVED"] ELSE @]

Accepts(ask) == ask.kind = "manage" => OrderAdmitted(ask.row, ask.status)

(* What the request of a dialog's form makes of the rows.                  *)
Serves(ask) ==
  CASE ask.kind = "transition" -> Written([server EXCEPT !.alert[ask.row] = TargetStatus(ask.action)])
    [] ask.kind = "manage" -> Written(Updated(ask.row, ask.status))
    [] OTHER ->
         \E o \in Orders : /\ ~Numbered(o) /\ o \notin Assigned
                           /\ Written(Opened(IF ask.kind = "createWo" THEN ask.row ELSE None, o))

-----------------------------------------------------------------------------
(* The cache of the lists.                                                 *)

Observed(l) == page = l
Shows(l) == IF l = "alerts" THEN server.alert ELSE server.order

(* Mutant: a list being fetched is not asked for again.                    *)
InvalidatedWithoutCancel(ls) ==
  [l \in Lists |->
     IF l \notin ls THEN list[l]
     ELSE [list[l] EXCEPT !.stale = TRUE,
                          !.fetch = IF Observed(l) /\ @ = Idle THEN Asked ELSE @]]

(* invalidateQueries: all are stale; those observed are fetched anew, and  *)
(* what a fetch under way brings is dropped.  One not observed goes on.    *)
Invalidated(ls) ==
  [l \in Lists |->
     IF l \notin ls THEN list[l]
     ELSE [list[l] EXCEPT !.stale = TRUE, !.fetch = IF Observed(l) THEN Asked ELSE @]]

Read(l) ==
  /\ list[l].fetch = Asked
  /\ list' = [list EXCEPT ![l].fetch =
       [phase |-> "read", rows |-> Shows(l), at |-> server.writes]]
  /\ UNCHANGED <<server, page, dialog, mutation, failures>>

(* Success makes the list fresh, also one invalidated since it was asked.  *)
Deliver(l) ==
  /\ list[l].fetch.phase = "read"
  /\ list' = [list EXCEPT ![l] =
       [has |-> TRUE, rows |-> @.fetch.rows, at |-> @.fetch.at, failed |-> FALSE,
        stale |-> FALSE, fetch |-> Idle]]
  /\ UNCHANGED <<server, page, dialog, mutation, failures>>

(* Retries exhausted: ErrorState in place of the table, the rows are kept. *)
FetchFails(l) ==
  /\ list[l].fetch # Idle
  /\ failures < MaxFailures
  /\ failures' = failures + 1
  /\ list' = [list EXCEPT ![l].failed = TRUE, ![l].fetch = Idle]
  /\ UNCHANGED <<server, page, dialog, mutation>>

(* Mutant: a list on screen is asked for only when something made it stale.*)
PollsWhenStale(l) == Observed(l) /\ list[l].fetch = Idle /\ list[l].stale
Polls(l) == Observed(l) /\ list[l].fetch = Idle
Poll(l) ==
  /\ Polls(l)
  /\ list' = [list EXCEPT ![l].fetch = Asked]
  /\ UNCHANGED <<server, page, dialog, mutation, failures>>

(* onRetry of the ErrorState: refetch drops a fetch under way.  A list that*)
(* never had rows shows that it is loading instead while it is fetched.    *)
Retry(l) ==
  /\ Observed(l) /\ list[l].failed
  /\ list[l].has \/ list[l].fetch = Idle
  /\ list' = [list EXCEPT ![l].fetch = Asked]
  /\ UNCHANGED <<server, page, dialog, mutation, failures>>

-----------------------------------------------------------------------------
(* Mutant: the dialog outlives its page.                                   *)
GoKeepingDialog(p) ==
  /\ p # page
  /\ page' = p
  /\ list' = [l \in Lists |-> IF l = p /\ list[l].fetch = Idle
                             THEN [list[l] EXCEPT !.fetch = Asked] ELSE list[l]]
  /\ UNCHANGED <<server, dialog, mutation, failures>>

(* Navigation.  A list is fetched as its page is mounted when there is     *)
(* none, when it is stale or when it is older than staleTime; the dialogs  *)
(* and the calls of the page that goes are its no more.                    *)
Go(p) ==
  /\ p # page
  /\ page' = p
  /\ dialog' = NoDialog
  /\ mutation' = [h \in Hooks |->
       IF mutation[h] \in {NoCall, Refusal} THEN mutation[h]
       ELSE [mutation[h] EXCEPT !.mounted = FALSE]]
  /\ \/ /\ p \in Lists /\ list[p].fetch = Idle
        /\ list' = [list EXCEPT ![p].fetch = Asked]
     \/ /\ p \in Lists => list[p].fetch # Idle \/ (list[p].has /\ ~list[p].stale)
        /\ UNCHANGED list
  /\ UNCHANGED <<server, failures>>

-----------------------------------------------------------------------------
(* Dialogs.                                                                *)

Table(l) == page = l /\ list[l].has /\ ~list[l].failed

Open(d) == /\ dialog = NoDialog
           /\ dialog' = d
           /\ UNCHANGED <<server, list, page, mutation, failures>>

(* The buttons of a row depend on its status in the list.                  *)
Offered(status) == (IF status = "OPEN" THEN {"ACKNOWLEDGE"} ELSE {})
                   \cup (IF status = "ACKNOWLEDGED" THEN {"INVESTIGATE"} ELSE {})
                   \cup (IF status \notin Final THEN {"RESOLVE"} ELSE {})
OpenTransition ==
  /\ Table("alerts") /\ "alerts:transition" \in Can
  /\ \E a \in Alerts : \E x \in Offered(list["alerts"].rows[a]) :
       Open([kind |-> "transition", row |-> a, action |-> x])

handleOpenCreateWo ==
  /\ Table("alerts") /\ "work-orders:create" \in Can
  /\ \E a \in Alerts :
       /\ list["alerts"].rows[a] \notin Final
       /\ Open([kind |-> "createWo", row |-> a])

OpenCreate ==
  /\ page = "orders" /\ "work-orders:create" \in Can
  /\ Open([kind |-> "create"])

handleOpenAction ==
  /\ Table("orders") /\ "work-orders:execute" \in Can
  /\ \E o \in Orders :
       LET row == list["orders"].rows[o]
       IN /\ row # None
          /\ Open([kind |-> "manage", row |-> o,
                   status |-> IF row.status = "COMPLETED" THEN "COMPLETED" ELSE "IN_PROGRESS"])

ChooseStatus ==
  /\ dialog.kind = "manage"
  /\ \E s \in ByUser \ {dialog.status} : dialog' = [dialog EXCEPT !.status = s]
  /\ UNCHANGED <<server, list, page, mutation, failures>>

(* Cancel, the cross, or Escape: also while the call is under way.         *)
Dismiss ==
  /\ dialog # NoDialog
  /\ dialog' = NoDialog
  /\ UNCHANGED <<server, list, page, mutation, failures>>

-----------------------------------------------------------------------------
(* Mutations.                                                              *)

HookOf(d) == CASE d.kind = "transition" -> "useTransitionAlert"
               [] d.kind = "manage" -> "useUpdateWorkOrder"
               [] OTHER -> "useCreateWorkOrder"
Kinds(h) == CASE h = "useTransitionAlert" -> {"transition"}
              [] h = "useUpdateWorkOrder" -> {"manage"}
              [] h = "useCreateWorkOrder" -> {"createWo", "create"}

(* The lists each hook invalidates.                                        *)
Touched(h) == CASE h = "useTransitionAlert" -> {"alerts"}
                [] h = "useUpdateWorkOrder" -> {"orders"}
                [] h = "useCreateWorkOrder" -> {"orders", "alerts"}

(* The submit button is disabled while the hook's call is pending.         *)
Submit ==
  LET h == HookOf(dialog)
  IN /\ dialog # NoDialog
     /\ mutation[h] = NoCall
     /\ Cardinality({g \in Hooks : mutation[g] # NoCall}) < MaxCalls
     /\ mutation' = [mutation EXCEPT ![h] =
          [phase |-> "sent", asks |-> dialog, mounted |-> TRUE]]
     /\ UNCHANGED <<server, list, page, dialog, failures>>

Apply(h) ==
  /\ mutation[h].phase = "sent"
  /\ \/ /\ Accepts(mutation[h].asks)
        /\ server.writes < MaxWrites
        /\ Serves(mutation[h].asks)
        /\ mutation' = [mutation EXCEPT ![h] =
             [phase |-> "done", at |-> server'.writes, mounted |-> @.mounted]]
     \/ /\ ~Accepts(mutation[h].asks)
        /\ mutation' = [mutation EXCEPT ![h] = Refusal]
        /\ UNCHANGED server
  /\ UNCHANGED <<list, page, dialog, failures>>

(* The request, or its answer, is lost: the form learns of a failure, and  *)
(* may send again what was done.                                           *)
CallFails(h) ==
  /\ mutation[h].phase \in {"sent", "done"}
  /\ failures < MaxFailures
  /\ failures' = failures + 1
  /\ mutation' = [mutation EXCEPT ![h] = Refusal]
  /\ UNCHANGED <<server, list, page, dialog>>

(* onSuccess of the hook.                                                  *)
OnSuccess(h) ==
  /\ mutation[h].phase = "done"
  /\ list' = Invalidated(Touched(h))
  /\ mutation' = [mutation EXCEPT ![h].phase = "refreshing"]
  /\ UNCHANGED <<server, page, dialog, failures>>

(* mutateAsync resolves when the lists on screen that were asked for anew  *)
(* are idle; the page then closes the dialog of that kind, if it is still  *)
(* the page that sent the call.                                            *)
Refreshed(h) == mutation[h].phase = "refreshing"
                /\ \A l \in Touched(h) : Observed(l) => list[l].fetch = Idle
Closes(h) == mutation[h].mounted /\ dialog.kind \in Kinds(h)
Resolve(h) ==
  /\ Refreshed(h)
  /\ dialog' = IF Closes(h) THEN NoDialog ELSE dialog
  /\ mutation' = [mutation EXCEPT ![h] = NoCall]
  /\ UNCHANGED <<server, list, page, failures>>

(* The message is shown in the dialog, which stays.                        *)
Reject(h) ==
  /\ mutation[h].phase = "refused"
  /\ mutation' = [mutation EXCEPT ![h] = NoCall]
  /\ UNCHANGED <<server, list, page, dialog, failures>>

-----------------------------------------------------------------------------
(* Other clients, detections, and the worker.                              *)
OtherWrites ==
  /\ server.writes < MaxWrites
  /\ \E a \in Alerts : \E s \in ByOthers \ {server.alert[a]} :
       Written([server EXCEPT !.alert[a] = s])
  /\ UNCHANGED <<list, page, dialog, mutation, failures>>

Init ==
  /\ server = [writes |-> 0, alert |-> [a \in Alerts |-> "OPEN"],
               order |-> [o \in Orders |->
                 IF o \in Assigned THEN [status |-> "ASSIGNED", alert |-> None] ELSE None]]
  /\ list = [l \in Lists |->
       [has |-> FALSE, rows |-> Shows(l), at |-> 0, failed |-> FALSE,
        stale |-> FALSE, fetch |-> Idle]]
  /\ page \in Pages
  /\ dialog = NoDialog
  /\ mutation = [h \in Hooks |-> NoCall]
  /\ failures = 0

Next ==
  \/ \E l \in Lists : Read(l) \/ Deliver(l) \/ FetchFails(l) \/ Poll(l) \/ Retry(l)
  \/ \E p \in Pages : Go(p)
  \/ OpenTransition \/ handleOpenCreateWo \/ OpenCreate \/ handleOpenAction \/ ChooseStatus
  \/ Dismiss \/ Submit
  \/ \E h \in Hooks : Apply(h) \/ CallFails(h) \/ OnSuccess(h) \/ Resolve(h) \/ Reject(h)
  \/ OtherWrites

(* A request sent is answered, and refetchInterval asks again while the    *)
(* page is on screen.                                                      *)
Fairness == \A l \in Lists : WF_vars(Read(l)) /\ WF_vars(Deliver(l)) /\ WF_vars(Poll(l))

Spec == Init /\ [][Next]_vars
FairSpec == Spec /\ Fairness

-----------------------------------------------------------------------------
(* Every list, dialog and call has the shape the pages give it, and no     *)
(* call that a page still waits for belongs to a hook of another page.     *)
ConsoleTypeOK ==
  /\ DOMAIN server = {"writes", "alert", "order"} /\ server.writes \in Stamps
  /\ \A l \in Lists : /\ Shows(l) \in Rows(l) /\ list[l].rows \in Rows(l)
                       /\ list[l].at <= server.writes
  /\ dialog \in Dialogs
  /\ \A h \in Hooks : /\ mutation[h] \in Calls
                      /\ mutation[h].phase = "sent" => mutation[h].asks.kind \in Kinds(h)
  /\ dialog.kind \in {"transition", "createWo"} => page = "alerts"
  /\ dialog.kind \in {"create", "manage"} => page = "orders"

(* When a dialog closes because its form was accepted, the list under it   *)
(* already shows the change, or says that it could not be loaded: a poll   *)
(* that was under way does not pass for the refresh.                       *)
ClosesOnFreshList ==
  [][\A h \in Hooks :
       Resolve(h) /\ mutation[h].mounted
         => \A l \in Touched(h) :
              Observed(l) => list[l].at >= mutation[h].at \/ list[l].failed]_vars

(* A page that stays on screen comes to show the rows as they are, whoever *)
(* wrote them, also after a failure, unless the user keeps pressing retry  *)
(* before the answer is there.                                             *)
ListCatchesUp ==
  \A l \in Lists :
    <>[](page = l) /\ <>[][~Retry(l)]_vars => <>[](list[l].at = server.writes)
=============================================================================
