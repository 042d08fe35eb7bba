-------------------------------- MODULE Registry --------------------------------
(***************************************************************************)
(* The register of the network: devices with their keys (credentials), and *)
(* sectors with their maintenance windows, as devices.service.ts,          *)
(* sectors.service.ts and maintenance-windows.service.ts write them; the   *)
(* dialogs of DevicesPage.tsx and SectorsPage.tsx that ask for it; and the *)
(* lookup of a key with which a gateway's telemetry is let in.             *)
(*                                                                         *)
(* Every request is one transaction that decides by WHERE clauses and      *)
(* constraints on the rows it writes (nothing it read before is used but   *)
(* that a row is there, and rows are never removed), so it is one step.    *)
(* The lookup of a key is three statements outside a transaction.          *)
(***************************************************************************)
EXTENDS Integers, FiniteSets

CONSTANTS
  Devices, Sectors,  \* by their code
  Keys, Windows,
  Gateways,          \* senders of telemetry
  None,
  Levels,            \* values of the limits of a device's range
  Slots,             \* bounds: requests of the pages at a time,
  MaxFailures        \* answers lost

ASSUME RegistryAssumption ==
  /\ Levels \subseteq Int
  /\ Keys \cap Windows = {}
  /\ None \notin Devices \cup Sectors \cup Keys \cup Windows \cup Levels
  /\ MaxFailures \in Nat

VARIABLES
  device,   \* rows of devices
  sector,   \* sectors there are
  child,    \* device_credentials and maintenance_windows: owner, over or not
  audited,  \* rows of audit_logs that say a key or a window was ended
  ingest,   \* the request of each gateway
  call,     \* the requests the pages have under way
  page,     \* the page in view
  panel,    \* the dialog open on it
  secret,   \* the key shown once
  shown,    \* history: the keys that were shown
  missed,   \* history: the keys whose answer was lost, or was awaited by a
            \* page that was left
  failures

rows == <<device, sector, child, audited>>
view == <<page, panel, secret, shown>>
registryVars == <<rows, ingest, call, view, missed, failures>>

Children == Keys \cup Windows
Statuses == {"ACTIVE", "INACTIVE"}
DeviceRow == [status : Statuses, min : Levels, max : Levels]
ChildRow == [of : Devices \cup Sectors, over : BOOLEAN]

(* What the hooks of DevicesPage and of SectorsPage ask for.                *)
(* An update names the columns it changes: None for one it leaves.  That   *)
(* of the pages names the status.                                          *)
Asks == [op : {"createDevice"}, of : Devices, min : Levels, max : Levels]
        \cup [op : {"updateDevice"}, of : Devices, status : Statuses,
              min : Levels \cup {None}, max : Levels \cup {None}]
        \cup [op : {"createKey"}, of : Devices, child : Keys]
        \cup [op : {"endKey"}, of : Devices, child : Keys]
        \cup [op : {"createSector"}, of : Sectors]
        \cup [op : {"createWindow"}, of : Sectors, child : Windows]
        \cup [op : {"endWindow"}, child : Windows]
Calls == [ask : Asks, phase : {"sent", "done", "refused"}, heeded : BOOLEAN]
Ingests == [key : Keys, phase : {"sent", "found", "accepted"}, late : BOOLEAN]
Panels == [kind : {"device"}, of : Devices, status : Statuses]
          \cup [kind : {"sector"}, of : Sectors]
          \cup [kind : {"newDevice", "newSector"}]

ASSUME NoneIsNoRecord ==
  None \notin DeviceRow \cup ChildRow \cup Calls \cup Ingests \cup Panels

-----------------------------------------------------------------------------
(* The API.                                                                *)

(* Mutant: without devices_pressure_range_required, _flow_range_required.  *)
RangeUnchecked(row) == TRUE
RangeAdmitted(row) == row.max > row.min

Kept(new, old) == IF new = None THEN old ELSE new
Changed(ask) ==
  LET old == device[ask.of]
  IN [status |-> Kept(ask.status, old.status), min |-> Kept(ask.min, old.min),
      max |-> Kept(ask.max, old.max)]

(* Mutant: the WHERE clause does not look at revoked_at, cancelled_at.     *)
EndsAgain(c) == child[c] # None
Ends(c) == child[c] # None /\ ~child[c].over

createDevice(ask) ==
  /\ device[ask.of] = None
  /\ RangeAdmitted([status |-> "ACTIVE", min |-> ask.min, max |-> ask.max])
  /\ device' = [device EXCEPT ![ask.of] =
       [status |-> "ACTIVE", min |-> ask.min, max |-> ask.max]]
  /\ UNCHANGED <<sector, child, audited>>

updateDevice(ask) ==
  /\ device[ask.of] # None
  /\ RangeAdmitted(Changed(ask))
  /\ device' = [device EXCEPT ![ask.of] = Changed(ask)]
  /\ UNCHANGED <<sector, child, audited>>

createSector(ask) ==
  /\ ask.of \notin sector
  /\ sector' = sector \cup {ask.of}
  /\ UNCHANGED <<device, child, audited>>

(* The identifier of a key or a window is the database's.                  *)
createChild(ask) ==
  /\ child[ask.child] = None
  /\ IF ask.op = "createKey" THEN device[ask.of] # None ELSE ask.of \in sector
  /\ child' = [child EXCEPT ![ask.child] = [of |-> ask.of, over |-> FALSE]]
  /\ UNCHANGED <<device, sector, audited>>

endChild(ask) ==
  /\ Ends(ask.child)
  /\ ask.op = "endKey" => child[ask.child].of = ask.of
  /\ child' = [child EXCEPT ![ask.child].over = TRUE]
  /\ audited' = [audited EXCEPT ![ask.child] = @ + 1]
  /\ UNCHANGED <<device, sector>>

Done(ask) == \/ ask.op = "createDevice" /\ createDevice(ask)
             \/ ask.op = "updateDevice" /\ updateDevice(ask)
             \/ ask.op = "createSector" /\ createSector(ask)
             \/ ask.op \in {"createKey", "createWindow"} /\ createChild(ask)
             \/ ask.op \in {"endKey", "endWindow"} /\ endChild(ask)

(* 404, 409, and the CHECKs, which no handler answers but with 500.        *)
Refuses(ask) ==
  CASE ask.op = "createDevice" ->
         device[ask.of] = None => ~RangeAdmitted([status |-> "ACTIVE", min |-> ask.min, max |-> ask.max])
    [] ask.op = "updateDevice" -> device[ask.of] # None => ~RangeAdmitted(Changed(ask))
    [] ask.op = "createSector" -> ask.of \in sector
    [] ask.op = "createKey" -> device[ask.of] = None
    [] ask.op = "createWindow" -> ask.of \notin sector
    [] ask.op = "endKey" -> Ends(ask.child) => child[ask.child].of # ask.of
    [] ask.op = "endWindow" -> ~Ends(ask.child)

ServeCall(s) ==
  /\ call[s] # None /\ call[s].phase = "sent"
  /\ \/ Done(call[s].ask) /\ call' = [call EXCEPT ![s].phase = "done"]
     \/ Refuses(call[s].ask) = TRUE /\ UNCHANGED rows /\ call' = [call EXCEPT ![s].phase = "refused"]
  /\ UNCHANGED <<ingest, view, missed, failures>>

(* Another administrator, or another client of the API, sees nothing of    *)
(* the pages: limits one by one, and any key or window.                    *)
Elsewhere ==
  /\ \/ \E d \in Devices : \E v \in Levels : \E new \in {[lo |-> v, hi |-> None], [lo |-> None, hi |-> v]} :
          updateDevice([op |-> "updateDevice", of |-> d, status |-> None,
                        min |-> new.lo, max |-> new.hi])
     \/ \E c \in Children : Ends(c) /\ endChild([op |-> IF c \in Keys THEN "endKey" ELSE "endWindow",
                                                 of |-> child[c].of, child |-> c])
  /\ UNCHANGED <<ingest, call, view, missed, failures>>

-----------------------------------------------------------------------------
(* findDeviceBySecretHash: the key, its last use, then the device.  late   *)
(* remembers that the key was revoked when the request came.               *)
Send(g, k) ==
  /\ ingest[g] = None
  /\ child[k] # None
  /\ ingest' = [ingest EXCEPT ![g] = [key |-> k, phase |-> "sent", late |-> child[k].over]]
  /\ UNCHANGED <<rows, call, view, missed, failures>>

(* Mutant: any key there is will do.                                       *)
KnownKey(k) == child[k] # None
UsableKey(k) == child[k] # None /\ ~child[k].over

FindKey(g) ==
  /\ ingest[g] # None /\ ingest[g].phase = "sent"
  /\ ingest' = [ingest EXCEPT ![g] =
       IF UsableKey(ingest[g].key) THEN [ingest[g] EXCEPT !.phase = "found"] ELSE None]
  /\ UNCHANGED <<rows, call, view, missed, failures>>

FindDevice(g) ==
  /\ ingest[g] # None /\ ingest[g].phase = "found"
  /\ ingest' = [ingest EXCEPT ![g] =
       IF device[child[ingest[g].key].of].status = "ACTIVE"
       THEN [ingest[g] EXCEPT !.phase = "accepted"] ELSE None]
  /\ UNCHANGED <<rows, call, view, missed, failures>>

EndIngest(g) ==
  /\ ingest[g] # None /\ ingest[g].phase = "accepted"
  /\ ingest' = [ingest EXCEPT ![g] = None]
  /\ UNCHANGED <<rows, call, view, missed, failures>>

-----------------------------------------------------------------------------
(* The pages.  One dialog is open at a time; the details it shows are the  *)
(* row of a list that may be older than the table.  A hook has one call    *)
(* under way at most, but for those of a page that was left: the API       *)
(* serves them, and nobody heeds the answer.                               *)

Ask(ask) ==
  /\ \A z \in Slots : call[z] # None /\ call[z].heeded => call[z].ask.op # ask.op
  /\ \E s \in Slots :
       /\ call[s] = None
       /\ call' = [call EXCEPT ![s] = [ask |-> ask, phase |-> "sent", heeded |-> TRUE]]
  /\ UNCHANGED <<rows, ingest, view, missed, failures>>

(* An identifier not yet given to a key or a window.                       *)
Fresh(c) ==
  /\ child[c] = None
  /\ \A z \in Slots :
       call[z] # None /\ call[z].ask.op \in {"createKey", "createWindow"} => call[z].ask.child # c

Show(p) ==
  /\ panel = None
  /\ panel' = p
  /\ UNCHANGED <<rows, ingest, call, page, secret, shown, missed, failures>>
OpenDevice(d) ==
  /\ page = "devices" /\ device[d] # None
  /\ \E st \in Statuses : Show([kind |-> "device", of |-> d, status |-> st])
OpenSector(x) == page = "sectors" /\ x \in sector /\ Show([kind |-> "sector", of |-> x])
OpenCreate == Show([kind |-> IF page = "devices" THEN "newDevice" ELSE "newSector"])

Close ==
  /\ panel # None
  /\ panel' = None
  /\ UNCHANGED <<rows, ingest, call, page, secret, shown, missed, failures>>

CloseSecret ==
  /\ secret # None
  /\ secret' = None
  /\ UNCHANGED <<rows, ingest, call, page, panel, shown, missed, failures>>

KeyAsked(s) == call[s] # None /\ call[s].ask.op = "createKey"

(* Another page, which begins anew: the one left forgets its dialogs.      *)
Leave ==
  /\ page' = IF page = "devices" THEN "sectors" ELSE "devices"
  /\ panel' = None /\ secret' = None
  /\ call' = [s \in Slots |-> IF call[s] = None THEN None ELSE [call[s] EXCEPT !.heeded = FALSE]]
  /\ missed' = missed \cup {call[s].ask.child : s \in {z \in Slots : KeyAsked(z)}}
  /\ UNCHANGED <<rows, ingest, shown, failures>>

At(kind) == panel # None /\ panel.kind = kind

(* DevicesPage.tsx.                                                        *)
handleCreate ==
  /\ At("newDevice")
  /\ \E d \in Devices : \E lo, hi \in Levels :
       lo < hi /\ Ask([op |-> "createDevice", of |-> d, min |-> lo, max |-> hi])

(* Details of a device: what their buttons send is bound to the device and *)
(* the status shown.  The list of keys, too, may be older than the table.  *)
Opposite(st) == IF st = "ACTIVE" THEN "INACTIVE" ELSE "ACTIVE"
toggleStatus ==
  /\ At("device")
  /\ Ask([op |-> "updateDevice", of |-> panel.of,
                          status |-> Opposite(panel.status), min |-> None, max |-> None])
CreateCredential ==
  /\ At("device")
  /\ \E k \in Keys : /\ Fresh(k)
                    /\ Ask([op |-> "createKey", of |-> panel.of, child |-> k])
RevokeCredential ==
  /\ At("device")
  /\ \E k \in Keys : /\ child[k] # None /\ child[k].of = panel.of
                    /\ Ask([op |-> "endKey", of |-> panel.of, child |-> k])

(* SectorsPage.tsx.  A window is asked for with the form in the details of *)
(* a sector, which keeps what was typed for another one.                   *)
handleCreateSector ==
  /\ At("newSector")
  /\ \E x \in Sectors : Ask([op |-> "createSector", of |-> x])
handleScheduleMw ==
  /\ At("sector")
  /\ \E w \in Windows : /\ Fresh(w)
                       /\ Ask([op |-> "createWindow", of |-> panel.of, child |-> w])
CancelWindow ==
  /\ At("sector")
  /\ \E w \in Windows : /\ child[w] # None /\ child[w].of = panel.of
                       /\ Ask([op |-> "endWindow", child |-> w])

(* Mutant: the key is shown only if its device is still the one in view.   *)
SecretInView(ask) ==
  IF panel # None /\ panel.kind = "device" /\ panel.of = ask.of THEN ask.child ELSE secret
SecretOf(ask) == ask.child

(* What the page does when the call has succeeded.  A toggle that succeeds *)
(* writes the status into whichever device is open by then; and the key    *)
(* that was made is shown over whatever is in view.                        *)
Answer(s) ==
  /\ call[s] # None /\ call[s].phase \in {"done", "refused"}
  /\ call' = [call EXCEPT ![s] = None]
  /\ LET ask == call[s].ask
         ok == call[s].phase = "done" /\ call[s].heeded
     IN /\ panel' = IF ok /\ ask.op = "updateDevice" /\ panel # None /\ panel.kind = "device"
                    THEN [panel EXCEPT !.status = ask.status]
                    ELSE IF ok /\ panel # None
                            /\ <<ask.op, panel.kind>> \in {<<"createDevice", "newDevice">>,
                                                          <<"createSector", "newSector">>}
                         THEN None ELSE panel
        /\ secret' = IF ok /\ ask.op = "createKey" THEN SecretOf(ask) ELSE secret
        /\ shown' = shown \cup ({secret'} \cap Keys)
  /\ UNCHANGED <<rows, ingest, page, missed, failures>>

Lose(s) ==
  /\ call[s] # None /\ call[s].phase = "done"
  /\ failures < MaxFailures
  /\ failures' = failures + 1
  /\ call' = [call EXCEPT ![s].phase = "refused"]
  /\ missed' = IF KeyAsked(s) THEN missed \cup {call[s].ask.child} ELSE missed
  /\ UNCHANGED <<rows, ingest, view>>

-----------------------------------------------------------------------------
RegistryInit ==
  /\ device = [d \in Devices |-> None] /\ sector = {}
  /\ child = [c \in Children |-> None] /\ audited = [c \in Children |-> 0]
  /\ ingest = [g \in Gateways |-> None]
  /\ call = [s \in Slots |-> None]
  /\ page = "devices" /\ panel = None /\ secret = None
  /\ shown = {} /\ missed = {}
  /\ failures = 0

RegistryNext ==
  \/ \E s \in Slots : ServeCall(s) \/ Answer(s) \/ Lose(s)
  \/ \E g \in Gateways : \/ \E k \in Keys : Send(g, k)
                         \/ FindKey(g) \/ FindDevice(g) \/ EndIngest(g)
  \/ \E d \in Devices : OpenDevice(d)
  \/ \E x \in Sectors : OpenSector(x)
  \/ OpenCreate \/ Close \/ CloseSecret \/ Leave
  \/ handleCreate \/ toggleStatus \/ CreateCredential \/ RevokeCredential
  \/ handleCreateSector \/ handleScheduleMw \/ CancelWindow \/ Elsewhere

RegistrySpec == RegistryInit /\ [][RegistryNext]_registryVars

-----------------------------------------------------------------------------
(* The rows are of their types, a key or a window belongs to something that*)
(* is there, and the limits of a device are in order, however updates that *)
(* change one of them each follow one another.                             *)
RegistryTypeOK ==
  /\ device \in [Devices -> DeviceRow \cup {None}] /\ sector \subseteq Sectors
  /\ \A d \in Devices : device[d] # None => device[d].min < device[d].max
  /\ child \in [Children -> ChildRow \cup {None}]
  /\ \A k \in Keys : child[k] # None => child[k].of \in Devices /\ device[child[k].of] # None
  /\ \A w \in Windows : child[w] # None => child[w].of \in sector
  /\ audited \in [Children -> Nat]
  /\ ingest \in [Gateways -> Ingests \cup {None}]
  /\ call \in [Slots -> Calls \cup {None}]
  /\ page \in {"devices", "sectors"}
  /\ panel \in Panels \cup {None} /\ secret \in Keys \cup {None}
  /\ {shown, missed} \subseteq SUBSET Keys

(* A key is revoked, and a window cancelled, once: two requests at the same*)
(* time, or one repeated after its answer was lost, leave one audit row.   *)
EndsOnce ==
  \A c \in Children : audited[c] = IF child[c] # None /\ child[c].over THEN 1 ELSE 0

(* No telemetry is accepted from a request that came after its key was     *)
(* revoked, whatever happens to the device between the statements.         *)
RevocationTakesHold ==
  \A g \in Gateways : ingest[g] # None /\ ingest[g].phase = "accepted" => ~ingest[g].late

(* A key can be seen only when it is made ("Esta chave só será exibida uma *)
(* única vez"): whichever dialogs were closed and opened in the meantime,  *)
(* it is shown, unless its answer was lost or its page was left.           *)
EveryKeyIsShown ==
  \A k \in Keys :
    child[k] # None =>
      \/ k \in shown \cup missed
      \/ \E s \in Slots : KeyAsked(s) /\ call[s].phase = "done" /\ call[s].ask.child = k
=============================================================================
