----------------------------- MODULE ConsoleProofs -----------------------------
(***************************************************************************)
(* Proofs about Console, for every set of alerts, orders and pages, every  *)
(* permission and whatever the bounds: what a dialog is opened on exists,  *)
(* and a dialog closes on a list that shows its change.                    *)
(***************************************************************************)
EXTENDS Console, TLAPS

ServerState == [writes : Stamps, alert : [Alerts -> AlertStatuses],
                order : [Orders -> OrderRow \cup {None}]]

(* Orders are never taken back: what any reader has seen of them is there. *)
SeenRows(l, rows) == l = "orders" => \A o \in Orders : rows[o] # None => Numbered(o)

GoodRows(l, rows, at) == rows \in Rows(l) /\ at <= server.writes /\ SeenRows(l, rows)

GoodList(l, s) ==
  /\ s \in ListState
  /\ GoodRows(l, s.rows, s.at)
  /\ s.fetch.phase = "read" => GoodRows(l, s.fetch.rows, s.fetch.at)

GoodAsk(d) == d \in Dialogs /\ (d.kind = "manage" => Numbered(d.row))

OnItsPage ==
  /\ dialog.kind \in {"transition", "createWo"} => page = "alerts"
  /\ dialog.kind \in {"create", "manage"} => page = "orders"

GoodCall(h, c) ==
  /\ c \in Calls
  /\ c.phase = "sent" => GoodAsk(c.asks) /\ c.asks.kind \in Kinds(h)
  /\ c.phase \in {"done", "refreshing"} => c.at <= server.writes

(* A list that is to show the writes up to m will: it is asked for anew,   *)
(* was read since, or has arrived; or it has failed.                       *)
WillShow(s, m) ==
  \/ s.fetch = Asked
  \/ s.fetch.phase = "read" /\ m <= s.fetch.at
  \/ s.fetch = Idle /\ (m <= s.at \/ s.failed)

Refreshes(h) ==
  mutation[h].phase = "refreshing" /\ mutation[h].mounted =>
    \A l \in Touched(h) : Observed(l) => WillShow(list[l], mutation[h].at)

ConsoleInv ==
  /\ server \in ServerState
  /\ DOMAIN list = Lists /\ \A l \in Lists : GoodList(l, list[l])
  /\ GoodAsk(dialog) /\ OnItsPage
  /\ DOMAIN mutation = Hooks /\ \A h \in Hooks : GoodCall(h, mutation[h])
  /\ \A h \in Hooks : Refreshes(h)

-----------------------------------------------------------------------------
(* Shapes of the records.                                                  *)

LEMMA ListShape ==
  ASSUME NEW s \in ListState
  PROVE  /\ s = [has |-> s.has, rows |-> s.rows, at |-> s.at, failed |-> s.failed,
                 stale |-> s.stale, fetch |-> s.fetch]
         /\ s.has \in BOOLEAN /\ s.failed \in BOOLEAN /\ s.stale \in BOOLEAN
         /\ s.at \in Stamps /\ s.fetch \in Fetches
         /\ s.rows \in UNION {Rows(l) : l \in Lists}
  BY DEF ListState

LEMMA FetchKinds ==
  /\ Idle \in Fetches /\ Asked \in Fetches /\ Idle # Asked
  /\ Idle.phase = "idle" /\ Asked.phase = "asked"
  /\ \A f \in Fetches : \/ f = Idle \/ f = Asked
                        \/ f.phase = "read" /\ f.at \in Stamps
  BY DEF Idle, Asked, Fetches

LEMMA FetchPut ==
  ASSUME NEW s \in ListState, NEW f \in Fetches, NEW t, t = [s EXCEPT !.fetch = f]
  PROVE  t \in ListState /\ t.fetch = f /\ t.rows = s.rows /\ t.at = s.at /\ t.failed = s.failed
<1>1. t \in ListState
  BY Zenon DEF ListState
<1>2. DOMAIN s = {"has", "rows", "at", "failed", "stale", "fetch"}
  BY DEF ListState
<1> QED BY <1>1, <1>2

Failing(s) == [s EXCEPT !.failed = TRUE, !.fetch = Idle]

LEMMA FetchFailed ==
  ASSUME NEW s \in ListState, NEW t, t = Failing(s)
  PROVE  t \in ListState /\ t.fetch = Idle /\ t.rows = s.rows /\ t.at = s.at /\ t.failed = TRUE
<1>0. Idle \in Fetches
  BY FetchKinds
<1>1. t \in ListState
  BY <1>0, Zenon DEF ListState, Failing
<1>2. DOMAIN s = {"has", "rows", "at", "failed", "stale", "fetch"}
  BY DEF ListState
<1> QED BY <1>1, <1>2 DEF Failing

Marked(s, f) == [s EXCEPT !.stale = TRUE, !.fetch = f]

LEMMA FetchStale ==
  ASSUME NEW s \in ListState, NEW f \in Fetches, NEW t, t = Marked(s, f)
  PROVE  t \in ListState /\ t.fetch = f /\ t.rows = s.rows /\ t.at = s.at /\ t.failed = s.failed
<1>1. t \in ListState
  BY Zenon DEF ListState, Marked
<1>2. DOMAIN s = {"has", "rows", "at", "failed", "stale", "fetch"}
  BY DEF ListState
<1> QED BY <1>1, <1>2 DEF Marked

LEMMA CallShape ==
  ASSUME NEW c \in Calls
  PROVE  /\ c.phase \in {"none", "refused", "sent", "done", "refreshing"}
         /\ c.phase = "none" => c = NoCall
         /\ c.phase = "refused" => c = Refusal
         /\ c.phase \in {"sent", "done", "refreshing"} => c.mounted \in BOOLEAN
         /\ c.phase = "sent" =>
              /\ c.asks \in Dialogs \ {NoDialog}
              /\ c = [phase |-> "sent", asks |-> c.asks, mounted |-> c.mounted]
         /\ c.phase \in {"done", "refreshing"} =>
              /\ c.at \in Stamps
              /\ c = [phase |-> c.phase, at |-> c.at, mounted |-> c.mounted]
  BY DEF Calls, NoCall, Refusal

LEMMA DialogShape ==
  ASSUME NEW d \in Dialogs
  PROVE  /\ d.kind \in {"none", "transition", "createWo", "create", "manage"}
         /\ d.kind = "none" <=> d = NoDialog
         /\ d.kind \in {"transition", "createWo"} => d.row \in Alerts
         /\ d.kind = "transition" => d.action \in Actions
         /\ d.kind = "manage" => d.row \in Orders /\ d.status \in Chosen
                                 /\ d = [kind |-> "manage", row |-> d.row, status |-> d.status]
  BY DEF Dialogs, NoDialog

LEMMA InitInv == Init => ConsoleInv
<1> SUFFICES ASSUME Init PROVE ConsoleInv
  OBVIOUS
<1>1. 0 \in Stamps
  BY ConsoleAssumption DEF Stamps
<1>2. server \in ServerState /\ server.writes = 0
  BY <1>1 DEF Init, ServerState, AlertStatuses, OrderRow, OrderStatuses
<1>3. ASSUME NEW l \in Lists PROVE GoodList(l, list[l])
  <2>1. Shows(l) \in Rows(l)
    BY <1>2 DEF Shows, Rows, ServerState
  <2>2. list[l] = [has |-> FALSE, rows |-> Shows(l), at |-> 0, failed |-> FALSE,
                   stale |-> FALSE, fetch |-> Idle]
    BY DEF Init
  <2>3. list[l] \in ListState
    BY <1>1, <2>1, <2>2, FetchKinds DEF ListState
  <2>4. SeenRows(l, Shows(l))
    BY DEF SeenRows, Shows, Numbered
  <2> QED BY <1>1, <1>2, <2>1, <2>2, <2>3, <2>4, FetchKinds DEF GoodList, GoodRows, Stamps
<1>4. GoodAsk(dialog) /\ OnItsPage
  BY DEF Init, GoodAsk, OnItsPage, Dialogs, NoDialog
<1>5. \A h \in Hooks : GoodCall(h, mutation[h]) /\ Refreshes(h)
  BY DEF Init, GoodCall, Refreshes, Calls, NoCall
<1> QED BY <1>2, <1>3, <1>4, <1>5 DEF ConsoleInv, Init

-----------------------------------------------------------------------------
(* The lists.                                                              *)

(* A step of the cache of one list, after which it still will show what it *)
(* was to show.                                                            *)
LEMMA ListStep ==
  ASSUME ConsoleInv, NEW l \in Lists, NEW s, list' = [list EXCEPT ![l] = s],
         UNCHANGED <<server, page, dialog, mutation>>,
         GoodList(l, s),
         \A m \in Nat : m <= server.writes /\ WillShow(list[l], m) => WillShow(s, m)
  PROVE  ConsoleInv'
<1> USE DEF ConsoleInv
<1>1. DOMAIN list' = Lists /\ list'[l] = s /\ \A k \in Lists : k # l => list'[k] = list[k]
  OBVIOUS
<1>2. ASSUME NEW k \in Lists PROVE GoodList(k, list[k])'
  BY <1>1 DEF GoodList, GoodRows, SeenRows, Numbered
<1>3. ASSUME NEW h \in Hooks PROVE GoodCall(h, mutation[h])' /\ Refreshes(h)'
  <2>1. GoodCall(h, mutation[h])'
    BY DEF GoodCall, GoodAsk, Numbered
  <2>2. SUFFICES ASSUME mutation[h].phase = "refreshing", mutation[h].mounted,
                        NEW k \in Touched(h), Observed(k)
                 PROVE  WillShow(list'[k], mutation[h].at)
    BY <2>1 DEF Refreshes, Observed
  <2>3. WillShow(list[k], mutation[h].at) /\ mutation[h].at <= server.writes
    BY <2>2 DEF Refreshes, GoodCall
  <2>4. mutation[h].at \in Nat
    BY <2>2, CallShape DEF GoodCall, Stamps
  <2>5. k \in Lists
    BY DEF Touched, Hooks, Lists
  <2> QED BY <1>1, <2>3, <2>4, <2>5
<1>4. GoodAsk(dialog)' /\ OnItsPage'
  BY DEF GoodAsk, OnItsPage, Numbered
<1> QED BY <1>1, <1>2, <1>3, <1>4

LEMMA AskedAgain ==
  ASSUME ConsoleInv, NEW l \in Lists, list' = [list EXCEPT ![l].fetch = Asked],
         UNCHANGED <<server, page, dialog, mutation>>
  PROVE  ConsoleInv'
<1>1. GoodList(l, list[l]) /\ list[l] \in ListState
  BY DEF ConsoleInv, GoodList
<1>2. PICK s : s = [list[l] EXCEPT !.fetch = Asked]
  OBVIOUS
<1>3. s \in ListState /\ s.fetch = Asked /\ s.rows = list[l].rows /\ s.at = list[l].at
  BY <1>1, <1>2, FetchPut, FetchKinds
<1>4. GoodList(l, s)
  BY <1>1, <1>3, FetchKinds DEF GoodList
<1>5. list' = [list EXCEPT ![l] = s]
  BY <1>2
<1> QED BY <1>3, <1>4, <1>5, ListStep DEF WillShow

LEMMA ReadKeeps ==
  ASSUME ConsoleInv, NEW l \in Lists, Read(l)
  PROVE  ConsoleInv'
<1> DEFINE f == [phase |-> "read", rows |-> Shows(l), at |-> server.writes]
<1>1. GoodList(l, list[l]) /\ list[l] \in ListState /\ server \in ServerState
  BY DEF ConsoleInv, GoodList
<1>2. GoodRows(l, Shows(l), server.writes) /\ server.writes \in Stamps
  BY <1>1 DEF GoodRows, SeenRows, Numbered, Shows, Rows, ServerState, Stamps
<1>3. f \in Fetches /\ f.phase = "read" /\ f.rows = Shows(l) /\ f.at = server.writes
  BY <1>2 DEF Fetches, GoodRows
<1> HIDE DEF f
<1>4. PICK s : s = [list[l] EXCEPT !.fetch = f]
  OBVIOUS
<1>5. s \in ListState /\ s.fetch = f /\ s.rows = list[l].rows /\ s.at = list[l].at
  BY <1>1, <1>3, <1>4, FetchPut
<1>6. GoodList(l, s)
  BY <1>1, <1>2, <1>3, <1>5 DEF GoodList
<1>7. list' = [list EXCEPT ![l] = s] /\ UNCHANGED <<server, page, dialog, mutation>>
  BY <1>4 DEF Read, f
<1> QED BY <1>3, <1>5, <1>6, <1>7, ListStep DEF WillShow

LEMMA DeliverKeeps ==
  ASSUME ConsoleInv, NEW l \in Lists, Deliver(l)
  PROVE  ConsoleInv'
<1>1. GoodList(l, list[l]) /\ list[l] \in ListState /\ list[l].fetch.phase = "read"
  BY DEF ConsoleInv, GoodList, Deliver
<1>2. PICK s : s = [has |-> TRUE, rows |-> list[l].fetch.rows, at |-> list[l].fetch.at,
                    failed |-> FALSE, stale |-> FALSE, fetch |-> Idle]
  OBVIOUS
<1>3. /\ GoodRows(l, list[l].fetch.rows, list[l].fetch.at)
      /\ list[l].fetch # Idle /\ list[l].fetch # Asked /\ list[l].fetch.at \in Stamps
  BY <1>1, ListShape, FetchKinds DEF GoodList
<1>4. s \in ListState
  BY <1>2, <1>3, FetchKinds DEF ListState, GoodRows
<1>5. GoodList(l, s)
  BY <1>2, <1>3, <1>4, FetchKinds DEF GoodList
<1>6. list' = [list EXCEPT ![l] = s] /\ UNCHANGED <<server, page, dialog, mutation>>
  BY <1>2 DEF Deliver
<1>7. \A m \in Nat : WillShow(list[l], m) => WillShow(s, m)
  BY <1>2, <1>3 DEF WillShow
<1> QED BY <1>5, <1>6, <1>7, ListStep

LEMMA FetchFailsKeeps ==
  ASSUME ConsoleInv, NEW l \in Lists, FetchFails(l)
  PROVE  ConsoleInv'
<1>1. GoodList(l, list[l]) /\ list[l] \in ListState
  BY DEF ConsoleInv, GoodList
<1>2. PICK s : s = Failing(list[l])
  OBVIOUS
<1>3. /\ s \in ListState /\ s.fetch = Idle /\ s.rows = list[l].rows /\ s.at = list[l].at
      /\ s.failed = TRUE
  BY <1>1, <1>2, FetchFailed
<1>4. GoodList(l, s)
  BY <1>1, <1>3, FetchKinds DEF GoodList
<1>5. list' = [list EXCEPT ![l] = s] /\ UNCHANGED <<server, page, dialog, mutation>>
  BY <1>1, <1>2 DEF FetchFails, ConsoleInv, Failing
<1> QED BY <1>3, <1>4, <1>5, ListStep DEF WillShow

LEMMA ListsKeep ==
  ASSUME ConsoleInv, NEW l \in Lists,
         Read(l) \/ Deliver(l) \/ FetchFails(l) \/ Poll(l) \/ Retry(l)
  PROVE  ConsoleInv'
<1>1. CASE Poll(l) \/ Retry(l)
  BY <1>1, AskedAgain DEF Poll, Retry
<1> QED BY <1>1, ReadKeeps, DeliverKeeps, FetchFailsKeeps

-----------------------------------------------------------------------------
(* The API.                                                                *)

(* A write: one more of them, and no order is gone.                        *)
Grows == /\ server' \in ServerState
         /\ server'.writes = server.writes + 1
         /\ \A o \in Orders : Numbered(o) => Numbered(o)'

LEMMA WrittenGrows ==
  ASSUME server \in ServerState, server.writes < MaxWrites,
         NEW alert \in [Alerts -> AlertStatuses],
         NEW order \in [Orders -> OrderRow \cup {None}],
         \A o \in Orders : Numbered(o) => order[o] # None,
         NEW rows, rows = [writes |-> server.writes, alert |-> alert, order |-> order],
         Written(rows)
  PROVE  Grows
<1>1. server.writes \in Nat /\ server.writes + 1 \in Stamps
  BY ConsoleAssumption DEF ServerState, Stamps
<1>2. server' = [writes |-> server.writes + 1, alert |-> alert, order |-> order]
  BY DEF Written
<1>3. server'.writes = server.writes + 1 /\ server'.order = order
  BY <1>2
<1> QED BY <1>1, <1>2, <1>3 DEF Grows, ServerState, Numbered

LEMMA AlertWritten ==
  ASSUME server \in ServerState, server.writes < MaxWrites,
         NEW a \in Alerts, NEW x \in AlertStatuses,
         Written([server EXCEPT !.alert[a] = x])
  PROVE  Grows
<1>1. PICK rows : rows = [server EXCEPT !.alert[a] = x]
  OBVIOUS
<1>2. /\ rows = [writes |-> server.writes, alert |-> [server.alert EXCEPT ![a] = x],
                 order |-> server.order]
      /\ [server.alert EXCEPT ![a] = x] \in [Alerts -> AlertStatuses]
      /\ server.order \in [Orders -> OrderRow \cup {None}]
  BY <1>1 DEF ServerState
<1>3. Written(rows)
  BY <1>1
<1> QED BY <1>2, <1>3, WrittenGrows DEF Numbered

LEMMA ServesGrows ==
  ASSUME server \in ServerState, server.writes < MaxWrites,
         NEW ask, GoodAsk(ask), ask # NoDialog, Serves(ask)
  PROVE  Grows
<1>1. /\ server.alert \in [Alerts -> AlertStatuses]
      /\ server.order \in [Orders -> OrderRow \cup {None}]
      /\ server = [writes |-> server.writes, alert |-> server.alert, order |-> server.order]
  BY DEF ServerState
<1>2. ask \in Dialogs /\ ask.kind \in {"transition", "createWo", "create", "manage"}
  BY DialogShape DEF GoodAsk
<1>3. CASE ask.kind = "transition"
  <2>1. ask.row \in Alerts /\ TargetStatus(ask.action) \in AlertStatuses
    BY <1>2, <1>3, DialogShape DEF Actions, TargetStatus, AlertStatuses, Final
  <2> QED BY <1>3, <2>1, AlertWritten DEF Serves
<1>4. CASE ask.kind = "manage"
  <2> DEFINE o == ask.row
             a == server.order[o].alert
             alert == IF /\ ask.status = "COMPLETED" /\ server.order[o].status # ask.status
                         /\ a # None
                      THEN [server.alert EXCEPT ![a] = "RESOLVED"] ELSE server.alert
             order == [server.order EXCEPT ![o].status = ask.status]
  <2>1. /\ o \in Orders /\ ask.status \in Chosen /\ Numbered(o)
    BY <1>2, <1>4, DialogShape DEF GoodAsk
  <2>2. server.order[o] \in OrderRow
    BY <1>1, <2>1 DEF Numbered
  <2>3. alert \in [Alerts -> AlertStatuses]
    BY <1>1, <2>2 DEF OrderRow, AlertStatuses, Final
  <2>4. [server.order[o] EXCEPT !.status = ask.status] \in OrderRow
    <3>1. ask.status \in OrderStatuses
      BY <2>1 DEF OrderStatuses
    <3> QED BY <2>2, <3>1, Zenon DEF OrderRow
  <2>5. order \in [Orders -> OrderRow \cup {None}]
    BY <1>1, <2>1, <2>4
  <2>6. ASSUME NEW w \in Orders, Numbered(w) PROVE order[w] # None
    <3>1. CASE w # o
      BY <1>1, <2>1, <2>6, <3>1 DEF Numbered
    <3>2. CASE w = o
      BY <1>1, <2>1, <2>2, <2>4, <3>2, NoneIsNoOrder
    <3> QED BY <3>1, <3>2
  <2>7. PICK rows : rows = Updated(o, ask.status)
    OBVIOUS
  <2>8. rows = [writes |-> server.writes, alert |-> alert, order |-> order]
    BY <1>1, <2>7 DEF Updated
  <2>9. Written(rows)
    BY <1>4, <2>7 DEF Serves
  <2> HIDE DEF alert, order
  <2> QED BY <2>3, <2>5, <2>6, <2>8, <2>9, WrittenGrows
<1>5. CASE ask.kind \in {"createWo", "create"}
  <2>1. PICK o \in Orders, a \in Alerts \cup {None} : ~Numbered(o) /\ Written(Opened(a, o))
    BY <1>2, <1>5, DialogShape DEF Serves
  <2> DEFINE alert == IF a # None /\ server.alert[a] = "OPEN"
                      THEN [server.alert EXCEPT ![a] = "INVESTIGATING"] ELSE server.alert
             row == [status |-> "OPEN", alert |-> a]
             order == [server.order EXCEPT ![o] = row]
  <2>2. alert \in [Alerts -> AlertStatuses]
    BY <1>1 DEF AlertStatuses
  <2>3. row \in OrderRow
    BY DEF OrderRow, OrderStatuses
  <2>4. order \in [Orders -> OrderRow \cup {None}]
    BY <1>1, <2>3
  <2>5. ASSUME NEW w \in Orders, Numbered(w) PROVE order[w] # None
    BY <1>1, <2>1, <2>5 DEF Numbered
  <2>6. PICK rows : rows = Opened(a, o)
    OBVIOUS
  <2>7. rows = [writes |-> server.writes, alert |-> alert, order |-> order]
    BY <1>1, <2>6 DEF Opened
  <2> HIDE DEF alert, order
  <2> QED BY <2>1, <2>2, <2>4, <2>5, <2>6, <2>7, WrittenGrows
<1> QED BY <1>2, <1>3, <1>4, <1>5

(* What has been read, opened or sent is as good after a write.            *)
LEMMA GrowthKeeps ==
  ASSUME ConsoleInv, Grows, UNCHANGED <<list, page, dialog>>
  PROVE  /\ \A l \in Lists : GoodList(l, list[l])'
         /\ GoodAsk(dialog)' /\ OnItsPage'
         /\ \A h \in Hooks : mutation'[h] = mutation[h] => GoodCall(h, mutation[h])'
<1>0. /\ server.writes \in Nat /\ server'.writes = server.writes + 1
      /\ \A o \in Orders : Numbered(o) => Numbered(o)'
  BY DEF ConsoleInv, ServerState, Stamps, Grows
<1>1. ASSUME NEW l \in Lists PROVE GoodList(l, list[l])'
  <2>1. GoodList(l, list[l]) /\ list[l] \in ListState
    BY DEF ConsoleInv, GoodList
  <2>2. list[l].at \in Nat /\ (list[l].fetch.phase = "read" => list[l].fetch.at \in Nat)
    BY <2>1, ListShape, FetchKinds DEF Stamps
  <2>3. GoodRows(l, list[l].rows, list[l].at)'
    BY <2>1, <2>2, <1>0 DEF GoodList, GoodRows, SeenRows
  <2>4. list[l].fetch.phase = "read" => GoodRows(l, list[l].fetch.rows, list[l].fetch.at)'
    BY <2>1, <2>2, <1>0 DEF GoodList, GoodRows, SeenRows
  <2> QED BY <2>1, <2>3, <2>4 DEF GoodList
<1>2. GoodAsk(dialog)'
  BY <1>0, DialogShape DEF ConsoleInv, GoodAsk
<1>3. OnItsPage'
  BY DEF ConsoleInv, OnItsPage
<1>4. ASSUME NEW h \in Hooks, mutation'[h] = mutation[h] PROVE GoodCall(h, mutation[h])'
  <2>1. GoodCall(h, mutation[h]) /\ mutation[h] \in Calls
    BY DEF ConsoleInv, GoodCall
  <2>2. mutation[h].phase = "sent" => GoodAsk(mutation[h].asks)'
    BY <2>1, <1>0, <1>4, DialogShape DEF GoodCall, GoodAsk
  <2>3. mutation[h].phase \in {"done", "refreshing"} => mutation[h].at <= server'.writes
    BY <2>1, <1>0, CallShape DEF GoodCall, Stamps
  <2> QED BY <1>4, <2>1, <2>2, <2>3 DEF GoodCall, GoodAsk
<1> QED BY <1>1, <1>2, <1>3, <1>4

LEMMA OtherWritesKeeps ==
  ASSUME ConsoleInv, OtherWrites
  PROVE  ConsoleInv'
<1>1. Grows
  BY AlertWritten, StatusAssumption DEF OtherWrites, ConsoleInv
<1>2. UNCHANGED <<list, page, dialog, mutation>>
  BY DEF OtherWrites
<1>3. \A h \in Hooks : Refreshes(h)'
  BY <1>2 DEF ConsoleInv, Refreshes, Observed
<1> QED BY <1>1, <1>2, <1>3, GrowthKeeps DEF ConsoleInv, Grows

-----------------------------------------------------------------------------
(* Dialogs and calls.                                                      *)

(* A step of one call, or of none, beside the dialog.                      *)
LEMMA CallStep ==
  ASSUME ConsoleInv, UNCHANGED <<server, list, page>>,
         GoodAsk(dialog'), OnItsPage',
         NEW h \in Hooks, NEW c, mutation' = [mutation EXCEPT ![h] = c],
         GoodCall(h, c), c = mutation[h] \/ c.phase # "refreshing"
  PROVE  ConsoleInv'
<1>1. /\ DOMAIN mutation' = Hooks /\ mutation'[h] = c
      /\ \A g \in Hooks : g # h => mutation'[g] = mutation[g]
  BY DEF ConsoleInv
<1>2. \A l \in Lists : GoodList(l, list[l])'
  BY DEF ConsoleInv, GoodList, GoodRows, SeenRows, Numbered
<1>3. ASSUME NEW g \in Hooks PROVE GoodCall(g, mutation[g])' /\ Refreshes(g)'
  <2>1. GoodCall(g, mutation[g])'
    <3>1. GoodCall(g, mutation'[g])
      BY <1>1 DEF ConsoleInv
    <3> QED BY <3>1 DEF GoodCall, GoodAsk, Numbered
  <2>2. Refreshes(g)'
    BY <1>1 DEF ConsoleInv, Refreshes, Observed
  <2> QED BY <2>1, <2>2
<1>4. GoodAsk(dialog)'
  BY DEF GoodAsk, Numbered
<1> QED BY <1>1, <1>2, <1>3, <1>4 DEF ConsoleInv

(* A dialog that opens, changes or closes, and no call with it.            *)
LEMMA DialogStep ==
  ASSUME ConsoleInv, UNCHANGED <<server, list, page, mutation>>,
         GoodAsk(dialog'), OnItsPage'
  PROVE  ConsoleInv'
<1>1. /\ \A l \in Lists : GoodList(l, list[l])'
      /\ \A h \in Hooks : GoodCall(h, mutation[h])' /\ Refreshes(h)'
  BY DEF ConsoleInv, GoodList, GoodRows, SeenRows, Numbered, GoodCall, GoodAsk, Refreshes, Observed
<1>2. GoodAsk(dialog)'
  BY DEF GoodAsk, Numbered
<1> QED BY <1>1, <1>2 DEF ConsoleInv

LEMMA NoDialogGood == GoodAsk(NoDialog) /\ NoDialog.kind = "none"
  BY DEF GoodAsk, Dialogs, NoDialog

LEMMA OpenKeeps ==
  ASSUME ConsoleInv,
         OpenTransition \/ handleOpenCreateWo \/ OpenCreate \/ handleOpenAction
  PROVE  ConsoleInv'
<1>1. ASSUME NEW d, Open(d), GoodAsk(d),
             d.kind \in {"transition", "createWo"} => page = "alerts",
             d.kind \in {"create", "manage"} => page = "orders"
      PROVE  ConsoleInv'
  BY <1>1, DialogStep DEF Open, OnItsPage
<1>2. CASE OpenTransition
  <2>1. PICK a \in Alerts, x \in Actions : Open([kind |-> "transition", row |-> a, action |-> x])
    BY <1>2 DEF OpenTransition, Offered, Actions
  <2>2. GoodAsk([kind |-> "transition", row |-> a, action |-> x])
    BY DEF GoodAsk, Dialogs
  <2> QED BY <1>1, <1>2, <2>1, <2>2 DEF OpenTransition, Table
<1>3. CASE handleOpenCreateWo
  <2>1. PICK a \in Alerts : Open([kind |-> "createWo", row |-> a])
    BY <1>3 DEF handleOpenCreateWo
  <2>2. GoodAsk([kind |-> "createWo", row |-> a])
    BY DEF GoodAsk, Dialogs
  <2> QED BY <1>1, <1>3, <2>1, <2>2 DEF handleOpenCreateWo, Table
<1>4. CASE OpenCreate
  <2>1. GoodAsk([kind |-> "create"])
    BY DEF GoodAsk, Dialogs
  <2> QED BY <1>1, <1>4, <2>1 DEF OpenCreate
<1>5. CASE handleOpenAction
  <2>1. PICK o \in Orders, x \in Chosen :
          /\ list["orders"].rows[o] # None
          /\ Open([kind |-> "manage", row |-> o, status |-> x])
    BY <1>5 DEF handleOpenAction, Chosen
  <2>2. Numbered(o)
    BY <2>1 DEF ConsoleInv, GoodList, GoodRows, SeenRows, Lists
  <2>3. GoodAsk([kind |-> "manage", row |-> o, status |-> x])
    BY <2>2 DEF GoodAsk, Dialogs
  <2> QED BY <1>1, <1>5, <2>1, <2>3 DEF handleOpenAction, Table
<1> QED BY <1>2, <1>3, <1>4, <1>5

LEMMA ChooseOrDismissKeeps ==
  ASSUME ConsoleInv, ChooseStatus \/ Dismiss
  PROVE  ConsoleInv'
<1>1. CASE ChooseStatus
  <2>1. PICK x \in Chosen : dialog' = [dialog EXCEPT !.status = x]
    BY <1>1, StatusAssumption DEF ChooseStatus
  <2>2. /\ GoodAsk(dialog) /\ dialog.kind = "manage" /\ page = "orders"
        /\ dialog = [kind |-> "manage", row |-> dialog.row, status |-> dialog.status]
        /\ dialog.row \in Orders
    BY <1>1, DialogShape DEF ChooseStatus, ConsoleInv, GoodAsk, OnItsPage
  <2>3. dialog' = [kind |-> "manage", row |-> dialog.row, status |-> x]
    BY <2>1, <2>2
  <2>4. GoodAsk(dialog') /\ dialog'.kind = "manage"
    BY <2>2, <2>3 DEF GoodAsk, Dialogs
  <2> QED BY <1>1, <2>2, <2>4, DialogStep DEF ChooseStatus, OnItsPage
<1>2. CASE Dismiss
  BY <1>2, NoDialogGood, DialogStep DEF Dismiss, OnItsPage
<1> QED BY <1>1, <1>2

LEMMA SubmitKeeps ==
  ASSUME ConsoleInv, Submit
  PROVE  ConsoleInv'
<1>1. dialog \in Dialogs /\ dialog # NoDialog /\ dialog.kind # "none" /\ GoodAsk(dialog)
  BY DialogShape DEF Submit, ConsoleInv, GoodAsk
<1>2. PICK h \in Hooks : h = HookOf(dialog) /\ dialog.kind \in Kinds(h)
  BY <1>1, DialogShape DEF HookOf, Kinds, Hooks
<1>3. PICK c : c = [phase |-> "sent", asks |-> dialog, mounted |-> TRUE]
  OBVIOUS
<1>4. GoodCall(h, c) /\ c.phase # "refreshing"
  BY <1>1, <1>2, <1>3 DEF GoodCall, Calls
<1>5. mutation' = [mutation EXCEPT ![h] = c] /\ UNCHANGED <<server, list, page, dialog>>
  BY <1>2, <1>3 DEF Submit
<1> QED BY <1>1, <1>4, <1>5, CallStep DEF ConsoleInv, OnItsPage

LEMMA RefusalGood == \A h \in Hooks : /\ GoodCall(h, Refusal) /\ Refusal.phase # "refreshing"
                                     /\ GoodCall(h, NoCall) /\ NoCall.phase # "refreshing"
  BY DEF GoodCall, Calls, Refusal, NoCall

LEMMA ApplyKeeps ==
  ASSUME ConsoleInv, NEW h \in Hooks, Apply(h)
  PROVE  ConsoleInv'
<1>1. /\ mutation[h].phase = "sent" /\ mutation[h] \in Calls /\ GoodAsk(mutation[h].asks)
      /\ mutation[h].asks # NoDialog /\ mutation[h].mounted \in BOOLEAN
  BY CallShape DEF Apply, ConsoleInv, GoodCall
<1>2. CASE /\ mutation' = [mutation EXCEPT ![h] = Refusal]
           /\ UNCHANGED server
  BY <1>2, RefusalGood, CallStep DEF Apply, ConsoleInv, OnItsPage
<1>3. CASE /\ server.writes < MaxWrites /\ Serves(mutation[h].asks)
           /\ mutation' = [mutation EXCEPT ![h] =
                [phase |-> "done", at |-> server'.writes, mounted |-> @.mounted]]
  <2>1. Grows
    BY <1>1, <1>3, ServesGrows DEF ConsoleInv
  <2>2. UNCHANGED <<list, page, dialog>>
    BY DEF Apply
  <2>3. PICK c : c = [phase |-> "done", at |-> server'.writes, mounted |-> mutation[h].mounted]
    OBVIOUS
  <2>4. /\ DOMAIN mutation' = Hooks /\ mutation'[h] = c
        /\ \A g \in Hooks : g # h => mutation'[g] = mutation[g]
    BY <1>3, <2>3 DEF ConsoleInv
  <2>5. server'.writes \in Stamps /\ server'.writes \in Nat
    BY <2>1 DEF Grows, ServerState, Stamps
  <2>6. c \in Calls /\ c.phase = "done" /\ c.at = server'.writes
    BY <1>1, <2>3, <2>5 DEF Calls
  <2>7. GoodCall(h, mutation[h])'
    BY <2>4, <2>5, <2>6 DEF GoodCall
  <2>8. \A g \in Hooks : GoodCall(g, mutation[g])'
    BY <2>1, <2>2, <2>4, <2>7, GrowthKeeps
  <2>9. \A g \in Hooks : Refreshes(g)'
    BY <2>2, <2>4, <2>6 DEF ConsoleInv, Refreshes, Observed
  <2>10. /\ \A l \in Lists : GoodList(l, list[l])'
         /\ GoodAsk(dialog)' /\ OnItsPage'
    BY <2>1, <2>2, GrowthKeeps
  <2> QED BY <2>1, <2>2, <2>4, <2>8, <2>9, <2>10 DEF ConsoleInv, Grows
<1> QED BY <1>2, <1>3 DEF Apply

LEMMA EndsKeep ==
  ASSUME ConsoleInv, NEW h \in Hooks, CallFails(h) \/ Resolve(h) \/ Reject(h)
  PROVE  ConsoleInv'
<1>1. CASE CallFails(h) \/ Reject(h)
  BY <1>1, RefusalGood, CallStep DEF CallFails, Reject, ConsoleInv, OnItsPage
<1>2. CASE Resolve(h)
  <2>1. GoodAsk(dialog') /\ OnItsPage'
    BY <1>2, NoDialogGood DEF Resolve, ConsoleInv, OnItsPage
  <2> QED BY <1>2, <2>1, RefusalGood, CallStep DEF Resolve
<1> QED BY <1>1, <1>2

(* onSuccess: the lists on screen are asked for anew.                      *)
LEMMA OnSuccessKeeps ==
  ASSUME ConsoleInv, NEW h \in Hooks, OnSuccess(h)
  PROVE  ConsoleInv'
<1>0. UNCHANGED <<server, page, dialog>> /\ DOMAIN list' = Lists
  BY DEF OnSuccess, Invalidated
<1>1. ASSUME NEW l \in Lists
      PROVE  /\ GoodList(l, list'[l])
             /\ l \in Touched(h) /\ Observed(l) => list'[l].fetch = Asked
             /\ l \notin Touched(h) => list'[l] = list[l]
  <2>1. GoodList(l, list[l]) /\ list[l] \in ListState /\ list[l].fetch \in Fetches
    BY ListShape DEF ConsoleInv, GoodList
  <2>2. CASE l \notin Touched(h)
    BY <2>1, <2>2 DEF OnSuccess, Invalidated
  <2>3. CASE l \in Touched(h)
    <3>1. PICK f \in Fetches : f = IF Observed(l) THEN Asked ELSE list[l].fetch
      BY <2>1, FetchKinds
    <3>2. list'[l] = Marked(list[l], f)
      <4>1. list'[l] = [list[l] EXCEPT !.stale = TRUE,
                                       !.fetch = IF Observed(l) THEN Asked ELSE @]
        BY <2>3 DEF OnSuccess, Invalidated
      <4> QED BY <3>1, <4>1 DEF Marked
    <3>3. PICK s, t : s = list[l] /\ t = list'[l]
      OBVIOUS
    <3>4. t \in ListState /\ t.fetch = f /\ t.rows = s.rows /\ t.at = s.at
      BY <2>1, <3>2, <3>3, FetchStale
    <3> QED BY <2>1, <2>3, <3>1, <3>3, <3>4, FetchKinds DEF GoodList
  <2> QED BY <2>2, <2>3
<1>2. PICK c : c = [mutation[h] EXCEPT !.phase = "refreshing"]
  OBVIOUS
<1>3. /\ DOMAIN mutation' = Hooks /\ mutation'[h] = c
      /\ \A g \in Hooks : g # h => mutation'[g] = mutation[g]
  BY <1>2 DEF ConsoleInv, OnSuccess
<1>4. GoodCall(h, c)
  <2>1. /\ mutation[h] \in Calls /\ mutation[h].at \in Stamps /\ mutation[h].at <= server.writes
        /\ mutation[h].mounted \in BOOLEAN
        /\ mutation[h] = [phase |-> "done", at |-> mutation[h].at, mounted |-> mutation[h].mounted]
    BY CallShape DEF ConsoleInv, GoodCall, OnSuccess
  <2>2. c = [phase |-> "refreshing", at |-> mutation[h].at, mounted |-> mutation[h].mounted]
    BY <1>2, <2>1
  <2>3. c \in Calls
    BY <2>1, <2>2 DEF Calls
  <2> QED BY <2>1, <2>2, <2>3 DEF GoodCall
<1>5. ASSUME NEW g \in Hooks PROVE GoodCall(g, mutation[g])'
  <2>1. GoodCall(g, mutation'[g])
    BY <1>3, <1>4 DEF ConsoleInv
  <2> QED BY <1>0, <2>1 DEF GoodCall, GoodAsk, Numbered
<1>6. ASSUME NEW g \in Hooks PROVE Refreshes(g)'
  <2>1. SUFFICES ASSUME mutation'[g].phase = "refreshing", mutation'[g].mounted,
                        NEW l \in Touched(g), page = l
                 PROVE  WillShow(list'[l], mutation'[g].at)
    BY <1>0 DEF Refreshes, Observed
  <2>2. l \in Lists
    BY DEF Touched, Hooks, Lists
  <2>3. CASE l \in Touched(h)
    BY <1>1, <2>1, <2>2, <2>3 DEF WillShow, Observed
  <2>4. CASE l \notin Touched(h)
    <3>1. g # h
      BY <2>4
    <3> QED BY <1>1, <1>3, <2>1, <2>2, <2>4, <3>1 DEF ConsoleInv, Refreshes, Observed
  <2> QED BY <2>3, <2>4
<1>7. \A l \in Lists : GoodList(l, list[l])'
  BY <1>0, <1>1 DEF GoodList, GoodRows, SeenRows, Numbered
<1>8. GoodAsk(dialog)' /\ OnItsPage'
  BY <1>0 DEF ConsoleInv, GoodAsk, OnItsPage, Numbered
<1> QED BY <1>0, <1>3, <1>5, <1>6, <1>7, <1>8 DEF ConsoleInv

-----------------------------------------------------------------------------
(* Navigation: the calls of the page that goes close no dialog any more.   *)
LEMMA GoKeeps ==
  ASSUME ConsoleInv, NEW p \in Pages, Go(p)
  PROVE  ConsoleInv'
<1>0. UNCHANGED server /\ page' = p /\ dialog' = NoDialog
  BY DEF Go
<1>1. DOMAIN list' = Lists /\ \A l \in Lists : GoodList(l, list[l])'
  <2>1. \A l \in Lists : GoodList(l, list[l])
    BY DEF ConsoleInv
  <2>2. CASE UNCHANGED list
    BY <1>0, <2>1, <2>2 DEF ConsoleInv, GoodList, GoodRows, SeenRows, Numbered
  <2>3. CASE p \in Lists /\ list' = [list EXCEPT ![p].fetch = Asked]
    <3>1. PICK s : s = [list[p] EXCEPT !.fetch = Asked]
      OBVIOUS
    <3>2. s \in ListState /\ s.fetch = Asked /\ s.rows = list[p].rows /\ s.at = list[p].at
      BY <2>1, <2>3, <3>1, FetchPut, FetchKinds DEF GoodList
    <3>3. GoodList(p, s)
      BY <2>1, <2>3, <3>2, FetchKinds DEF GoodList
    <3>4. DOMAIN list' = Lists /\ \A l \in Lists : GoodList(l, list'[l])
      BY <2>1, <2>3, <3>1, <3>3 DEF ConsoleInv
    <3> QED BY <1>0, <3>4 DEF GoodList, GoodRows, SeenRows, Numbered
  <2> QED BY <2>2, <2>3 DEF Go
<1>2. ASSUME NEW h \in Hooks PROVE GoodCall(h, mutation[h])' /\ Refreshes(h)'
  <2>0. mutation[h] \in Calls /\ GoodCall(h, mutation[h])
    BY DEF ConsoleInv, GoodCall
  <2>1. CASE mutation[h] \in {NoCall, Refusal}
    <3>1. mutation'[h] = mutation[h]
      BY <2>1 DEF Go
    <3> QED BY <2>1, <3>1, RefusalGood DEF GoodCall, Refreshes, Calls, NoCall, Refusal
  <2>2. CASE mutation[h] \notin {NoCall, Refusal}
    <3>1. PICK c : c = [mutation[h] EXCEPT !.mounted = FALSE]
      OBVIOUS
    <3>2. mutation'[h] = c
      BY <2>2, <3>1 DEF Go
    <3>3. mutation[h].phase \in {"sent", "done", "refreshing"}
      BY <2>0, <2>2, CallShape
    <3>4. CASE mutation[h].phase = "sent"
      <4>1. /\ mutation[h].asks \in Dialogs \ {NoDialog}
            /\ c = [phase |-> "sent", asks |-> mutation[h].asks, mounted |-> FALSE]
        <5>0. mutation[h] \in [phase : {"sent"}, asks : Dialogs \ {NoDialog}, mounted : BOOLEAN]
          BY <2>0, <3>4 DEF Calls, NoCall, Refusal
        <5>1. PICK r : r = mutation[h]
          OBVIOUS
        <5>2. r = [phase |-> "sent", asks |-> r.asks, mounted |-> r.mounted]
          BY <5>0, <5>1
        <5>3. c = [phase |-> "sent", asks |-> r.asks, mounted |-> FALSE]
          <6>1. c = [r EXCEPT !.mounted = FALSE]
            BY <3>1, <5>1
          <6> QED BY <5>0, <5>1, <6>1
        <5> QED BY <5>0, <5>1, <5>3
      <4>2. GoodCall(h, c) /\ ~c.mounted
        BY <2>0, <3>4, <4>1 DEF GoodCall, Calls
      <4> QED BY <1>0, <3>2, <4>2 DEF GoodCall, GoodAsk, Numbered, Refreshes
    <3>5. CASE mutation[h].phase \in {"done", "refreshing"}
      <4>1. /\ mutation[h].at \in Stamps
            /\ c = [phase |-> mutation[h].phase, at |-> mutation[h].at, mounted |-> FALSE]
        <5>1. /\ mutation[h].at \in Stamps
              /\ mutation[h] = [phase |-> mutation[h].phase, at |-> mutation[h].at,
                                mounted |-> mutation[h].mounted]
          BY <2>0, <3>5, CallShape
        <5> QED BY <3>1, <5>1
      <4>2. GoodCall(h, c) /\ ~c.mounted
        BY <2>0, <3>5, <4>1 DEF GoodCall, Calls
      <4> QED BY <1>0, <3>2, <4>2 DEF GoodCall, GoodAsk, Numbered, Refreshes
    <3> QED BY <3>3, <3>4, <3>5
  <2> QED BY <2>1, <2>2
<1>3. GoodAsk(dialog)' /\ OnItsPage'
  BY <1>0, NoDialogGood DEF GoodAsk, OnItsPage, Numbered
<1> QED BY <1>0, <1>1, <1>2, <1>3 DEF ConsoleInv, Go

LEMMA NextKeepsInv == ConsoleInv /\ [Next]_vars => ConsoleInv'
<1> SUFFICES ASSUME ConsoleInv, [Next]_vars PROVE ConsoleInv'
  OBVIOUS
<1>1. CASE UNCHANGED vars
  BY <1>1, DialogStep DEF vars, ConsoleInv, OnItsPage
<1>2. CASE \E h \in Hooks : Apply(h) \/ CallFails(h) \/ OnSuccess(h) \/ Resolve(h) \/ Reject(h)
  BY <1>2, ApplyKeeps, EndsKeep, OnSuccessKeeps
<1> QED BY <1>1, <1>2, ListsKeep, GoKeeps, OpenKeeps, ChooseOrDismissKeeps, SubmitKeeps,
           OtherWritesKeeps DEF Next

(* The inductive invariant of the rows, the lists, the dialog and the      *)
(* calls.                                                                  *)
THEOREM ConsoleInvHolds == Spec => []ConsoleInv
  BY InitInv, NextKeepsInv, PTL DEF Spec

(* Lists hold rows the API had, the dialog is one of the page on screen,   *)
(* and each call is one of its hook's.                                     *)
THEOREM ConsoleTypes == Spec => []ConsoleTypeOK
<1>1. ConsoleInv => ConsoleTypeOK
  <2> SUFFICES ASSUME ConsoleInv PROVE ConsoleTypeOK
    OBVIOUS
  <2>1. /\ DOMAIN server = {"writes", "alert", "order"} /\ server.writes \in Stamps
        /\ \A l \in Lists : Shows(l) \in Rows(l)
    BY DEF ConsoleInv, ServerState, Shows, Rows
  <2> QED BY <2>1 DEF ConsoleInv, ConsoleTypeOK, GoodList, GoodRows, GoodAsk, GoodCall, OnItsPage
<1> QED BY <1>1, ConsoleInvHolds, PTL

(* A dialog whose form was accepted closes on a list that shows what it    *)
(* did, or that says it could not be loaded, whatever was being fetched    *)
(* when the answer came and whoever writes meanwhile.                      *)
THEOREM DialogsCloseOnFreshLists == Spec => ClosesOnFreshList
<1>1. ConsoleInv /\ [Next]_vars =>
        [\A h \in Hooks :
           Resolve(h) /\ mutation[h].mounted
             => \A l \in Touched(h) :
                  Observed(l) => list[l].at >= mutation[h].at \/ list[l].failed]_vars
  <2> SUFFICES ASSUME ConsoleInv, NEW h \in Hooks, Resolve(h), mutation[h].mounted,
                      NEW l \in Touched(h), Observed(l)
               PROVE  list[l].at >= mutation[h].at \/ list[l].failed
    OBVIOUS
  <2>1. list[l].fetch = Idle /\ WillShow(list[l], mutation[h].at)
    BY DEF Resolve, Refreshed, ConsoleInv, Refreshes
  <2>2. l \in Lists /\ list[l].at \in Nat /\ mutation[h].at \in Nat
    BY ListShape, CallShape
    DEF Touched, Hooks, Lists, Resolve, Refreshed, ConsoleInv, GoodList, GoodCall, Stamps
  <2> QED BY <2>1, <2>2, FetchKinds DEF WillShow
<1> QED BY <1>1, ConsoleInvHolds, PTL DEF Spec, ClosesOnFreshList
===============================================================================
