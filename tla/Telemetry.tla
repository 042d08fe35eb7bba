------------------------------- MODULE Telemetry -------------------------------
(***************************************************************************)
(* Telemetry from a sender that repeats a batch until it is answered 200:  *)
(* TelemetryService.ingestFromDevice and .ingest (apps/api/src/modules/    *)
(* telemetry) on the table measurements (migration 0004).  The handlers    *)
(* run outside a transaction: every statement is a step, and an exception  *)
(* or a crash leaves what was written.                                     *)
(*                                                                         *)
(* A call to createOrDeduplicate is one step here, counted per reading;    *)
(* AlertLifecycle has its statements, and the errors it may end in.        *)
(***************************************************************************)
EXTENDS Naturals, FiniteSets

CONSTANTS
  Devices,
  Installed,    \* those registered from the start
  Senders,      \* devices, gateways and importing users
  Importers,    \* those that use the audited route (ingest)
  Readings,
  DeviceOf,     \* the device whose identifier a reading carries
  Batch,        \* the readings of a sender's batch
  Identified,   \* readings sent with an externalEventId
  Inadmissible, \* readings a CHECK refuses: unit and metric apart, or origin
                \* SIMULATED, which a fictional device gets with no simulation
  Anomalous,    \* readings in range and beyond an alert threshold
  MaxFailures   \* bound: crashes, lost answers and failed alerts

ASSUME TelemetryAssumption ==
  /\ Importers \subseteq Senders
  /\ Installed \subseteq Devices
  /\ DeviceOf \in [Readings -> Devices]
  /\ Batch \in [Senders -> SUBSET Readings \ {{}}]
  \* a device key stands for its device, which is then in the table
  /\ \A s \in Senders \ Importers :
       \E d \in Installed : \A r \in Batch[s] : DeviceOf[r] = d
  /\ Identified \cup Inadmissible \cup Anomalous \subseteq Readings
  /\ MaxFailures \in Nat

ASSUME SendersAssumption == IsFiniteSet(Senders)

VARIABLES
  registered, \* rows of devices
  stored,   \* rows of measurements per reading
  reported, \* calls to createOrDeduplicate per reading
  heard,    \* devices whose lastReceivedAt was renewed
  audited,  \* telemetry.ingested rows of audit_logs per importer
  request,  \* program counter and locals of the handlers
  failures  \* the bound

tables == <<registered, stored, reported, heard, audited>>
vars == <<tables, request, failures>>

Pcs == {"idle", "touch", "insert", "alerts", "audit", "answer", "done"}

(* found: the readings whose device the request found.  todo: those whose  *)
(* device is still to be touched, then those still to be reported.         *)
Idle == [pc |-> "idle", found |-> {}, todo |-> {}]
RequestState == [pc : Pcs, found : SUBSET Readings, todo : SUBSET Readings]

TypeOK ==
  /\ registered \subseteq Devices
  /\ {stored, reported} \subseteq [Readings -> Nat]
  /\ heard \subseteq registered
  /\ audited \in [Importers -> Nat]
  /\ request \in [Senders -> RequestState]
  /\ \A s \in Senders :
       /\ request[s].todo \subseteq request[s].found
       /\ request[s].todo # {} => request[s].pc \in {"touch", "alerts"}
  /\ failures \in 0..MaxFailures

Init ==
  /\ registered = Installed
  /\ stored = [r \in Readings |-> 0]
  /\ reported = [r \in Readings |-> 0]
  /\ heard = {}
  /\ audited = [s \in Importers |-> 0]
  /\ request = [s \in Senders |-> Idle]
  /\ failures = 0

At(s, pc) == request[s].pc = pc
GoTo(s, pc) == request' = [request EXCEPT ![s].pc = pc]
HangUp(s) == request' = [request EXCEPT ![s] = Idle]

-----------------------------------------------------------------------------
(* An operator creates a device: DevicesService.create.                    *)
Register(d) ==
  /\ d \notin registered
  /\ registered' = registered \cup {d}
  /\ UNCHANGED <<stored, reported, heard, audited, request, failures>>

(* The sender, the first time and every time it has no answer 200.  ingest *)
(* reads the organization's devices and leaves out, without a word, the    *)
(* readings of any other; with a device key the device is the key's.       *)
Found(s) == {r \in Batch[s] : DeviceOf[r] \in registered}

Send(s) ==
  /\ At(s, "idle")
  /\ request' = [request EXCEPT ![s] =
       [pc |-> "touch", found |-> Found(s), todo |-> Found(s)]]
  /\ UNCHANGED <<tables, failures>>

(* The loop over the items renews lastReceivedAt before anything is stored.*)
Touch(s) ==
  /\ At(s, "touch")
  /\ \E r \in request[s].todo :
       /\ heard' = heard \cup {DeviceOf[r]}
       /\ request' = [request EXCEPT ![s].todo = @ \ {r}]
  /\ UNCHANGED <<registered, stored, reported, audited, failures>>

TouchedAll(s) ==
  /\ At(s, "touch")
  /\ request[s].todo = {}
  /\ GoTo(s, "insert")
  /\ UNCHANGED <<tables, failures>>

(* insertMeasurements is one INSERT of what was found:                     *)
(* measurements_device_event_uniq and the CHECKs admit every row or none.  *)
AdmittedByChecks(s) == request[s].found \cap Inadmissible = {} \* wrong on purpose: no index
BatchAdmitted(s) ==
  /\ request[s].found \cap Inadmissible = {}
  /\ \A r \in request[s].found \cap Identified : stored[r] = 0

InsertMeasurements(s) ==
  /\ At(s, "insert")
  /\ BatchAdmitted(s)
  /\ stored' = [r \in Readings |->
       IF r \in request[s].found THEN stored[r] + 1 ELSE stored[r]]
  /\ request' = [request EXCEPT ![s].pc = "alerts", ![s].todo = request[s].found \cap Anomalous]
  /\ UNCHANGED <<registered, reported, heard, audited, failures>>

(* Wrong on purpose: a refused batch is taken for one already dealt with.   *)
RefusedIsDealtWith(s) ==
  /\ At(s, "insert")
  /\ ~BatchAdmitted(s)
  /\ GoTo(s, "answer")
  /\ UNCHANGED <<tables, failures>>

InsertRefused(s) ==
  /\ At(s, "insert")
  /\ ~BatchAdmitted(s)
  /\ HangUp(s)
  /\ UNCHANGED <<tables, failures>>

RaiseAlert(s) ==
  /\ At(s, "alerts")
  /\ \E r \in request[s].todo :
       /\ reported' = [reported EXCEPT ![r] = @ + 1]
       /\ request' = [request EXCEPT ![s].todo = @ \ {r}]
  /\ UNCHANGED <<registered, stored, heard, audited, failures>>

(* Wrong on purpose: the loop over the anomalies is not awaited.           *)
AlertsUnawaited(s) ==
  /\ At(s, "alerts")
  /\ GoTo(s, IF s \in Importers THEN "audit" ELSE "answer")
  /\ UNCHANGED <<tables, failures>>

AlertsDone(s) ==
  /\ At(s, "alerts")
  /\ request[s].todo = {}
  /\ GoTo(s, IF s \in Importers THEN "audit" ELSE "answer")
  /\ UNCHANGED <<tables, failures>>

Audit(s) ==
  /\ At(s, "audit")
  /\ audited' = [audited EXCEPT ![s] = @ + 1]
  /\ GoTo(s, "answer")
  /\ UNCHANGED <<registered, stored, reported, heard, failures>>

Answer(s) ==
  /\ At(s, "answer")
  /\ GoTo(s, "done")
  /\ UNCHANGED <<tables, failures>>

(* The API dies, a statement or createOrDeduplicate fails, or the answer   *)
(* is lost: the sender knows nothing and will send again.                  *)
Fail(s) ==
  /\ request[s].pc \notin {"idle", "done"}
  /\ failures < MaxFailures
  /\ failures' = failures + 1
  /\ HangUp(s)
  /\ UNCHANGED tables

Handle(s) ==
  \/ Send(s) \/ Touch(s) \/ TouchedAll(s)
  \/ InsertMeasurements(s) \/ InsertRefused(s)
  \/ RaiseAlert(s) \/ AlertsDone(s) \/ Audit(s) \/ Answer(s)

Next ==
  \/ \E d \in Devices : Register(d)
  \/ \E s \in Senders : Handle(s) \/ Fail(s)

(* The sender keeps sending and the API keeps working.                     *)
Spec == Init /\ [][Next]_vars /\ \A s \in Senders : WF_vars(Handle(s))

-----------------------------------------------------------------------------
(* Properties *)

(* An answer 200 stands for the readings whose device the request found,   *)
(* and none of a device installed from the start is left out: they are     *)
(* stored, their devices heard, their anomalies reported and an import     *)
(* audited, whatever failed before.  Of the others it says nothing.        *)
AnsweredMeansDone ==
  \A s \in Senders :
    At(s, "done") =>
      /\ \A r \in Batch[s] :
           r \in request[s].found \/ DeviceOf[r] \in Installed =>
             /\ DeviceOf[r] \in heard
             /\ stored[r] > 0
             /\ r \in Anomalous => reported[r] > 0
      /\ s \in Importers => audited[s] > 0

(* Repeating a batch, or sending the same reading in two, neither stores   *)
(* an identified reading again nor reports its anomaly again; and nothing  *)
(* is reported that is not stored.                                         *)
CountedOnce ==
  /\ \A r \in Identified : stored[r] <= 1 /\ reported[r] <= 1
  /\ \A r \in Readings : reported[r] <= stored[r]

(* external_event_id is the "base da idempotência": sending a batch again  *)
(* until it is answered ends in an answer.                                 *)
EveryBatchAnswered == \A s \in Senders : <>At(s, "done")
=============================================================================
