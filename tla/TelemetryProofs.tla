---------------------------- MODULE TelemetryProofs ----------------------------
(***************************************************************************)
(* Proofs about Telemetry, for every set of senders and readings, every    *)
(* way the batches overlap and any number of failures: what a batch that   *)
(* was answered left behind, and that repeating it counts nothing twice.   *)
(***************************************************************************)
EXTENDS Telemetry, FiniteSetTheorems, TLAPS

(* The request found whatever belongs to a device installed from the start,*)
(* and nothing of a device that is not in the table.                       *)
FoundItsOwn(s) ==
  /\ \A r \in Batch[s] : DeviceOf[r] \in Installed => r \in request[s].found
  /\ \A r \in request[s].found : DeviceOf[r] \in registered

(* What a handler has done when it comes to a statement; what it wrote is  *)
(* never taken back.                                                       *)
Touched(s) ==
  \A r \in request[s].found :
    (request[s].pc = "touch" /\ r \in request[s].todo) \/ DeviceOf[r] \in heard
Stored(s) == \A r \in request[s].found : stored[r] > 0
Reported(s) ==
  \A r \in request[s].found \cap Anomalous :
    (request[s].pc = "alerts" /\ r \in request[s].todo) \/ reported[r] > 0

Progress(s) ==
  /\ request[s].pc # "idle" => FoundItsOwn(s) /\ Touched(s)
  /\ request[s].pc \in {"alerts", "audit", "answer", "done"} => Stored(s) /\ Reported(s)
  /\ request[s].pc \in {"answer", "done"} /\ s \in Importers => audited[s] > 0

(* The handlers that still have to report a reading they stored.           *)
Reporting(r) == {s \in Senders : request[s].pc = "alerts" /\ r \in request[s].todo}

Counted ==
  /\ \A r \in Identified : stored[r] <= 1
  /\ \A r \in Readings : reported[r] + Cardinality(Reporting(r)) <= stored[r]

TelemetryInv ==
  /\ TypeOK
  /\ Installed \subseteq registered
  /\ \A s \in Senders : Progress(s)
  /\ Counted

-----------------------------------------------------------------------------
LEMMA ReportingFinite ==
  ASSUME NEW r
  PROVE  IsFiniteSet(Reporting(r)) /\ Cardinality(Reporting(r)) \in Nat
<1>1. Reporting(r) \in SUBSET Senders
  BY DEF Reporting
<1>2. IsFiniteSet(Reporting(r))
  BY <1>1, SendersAssumption, FS_Subset
<1> QED BY <1>2, FS_CardinalityType

LEMMA StateTyped ==
  ASSUME TypeOK, NEW s \in Senders
  PROVE  /\ request \in [Senders -> RequestState] /\ request[s].pc \in Pcs
         /\ request[s].found \subseteq Readings /\ request[s].todo \subseteq request[s].found
         /\ request[s] \in RequestState
         /\ stored \in [Readings -> Nat] /\ reported \in [Readings -> Nat]
         /\ audited \in [Importers -> Nat] /\ heard \subseteq registered
         /\ failures \in 0..MaxFailures
         /\ Batch[s] \subseteq Readings /\ Anomalous \subseteq Readings
         /\ Identified \subseteq Readings
  BY TelemetryAssumption DEF TypeOK, RequestState

LEMMA InitInv == Init => TelemetryInv
<1> SUFFICES ASSUME Init
             PROVE  TelemetryInv
  OBVIOUS
<1>1. Idle.pc = "idle" /\ Idle.found = {} /\ Idle.todo = {} /\ Idle \in RequestState
  BY DEF Idle, RequestState, Pcs
<1>2. \A s \in Senders : request[s] = Idle
  BY DEF Init
<1>3. TypeOK
  <2>1. request \in [Senders -> RequestState]
    BY <1>1 DEF Init
  <2>2. \A s \in Senders : request[s].todo \subseteq request[s].found /\ request[s].todo = {}
    BY <1>1, <1>2
  <2> QED BY <2>1, <2>2, TelemetryAssumption DEF Init, TypeOK
<1>4. \A s \in Senders : Progress(s)
  BY <1>1, <1>2 DEF Progress
<1>5. \A r : Reporting(r) = {}
  BY <1>1, <1>2 DEF Reporting
<1>6. Counted
  <2>1. Identified \subseteq Readings
    BY TelemetryAssumption
  <2> QED BY <1>5, <2>1, FS_EmptySet DEF Init, Counted
<1>7. Installed \subseteq registered
  BY DEF Init
<1> QED BY <1>3, <1>4, <1>6, <1>7 DEF TelemetryInv

-----------------------------------------------------------------------------
(* The tables only grow.                                                   *)
Grows ==
  /\ registered \subseteq registered' /\ registered' \subseteq Devices
  /\ heard \subseteq heard' /\ heard' \subseteq registered'
  /\ stored' \in [Readings -> Nat] /\ \A r \in Readings : stored[r] <= stored'[r]
  /\ reported' \in [Readings -> Nat] /\ \A r \in Readings : reported[r] <= reported'[r]
  /\ audited' \in [Importers -> Nat] /\ \A s \in Importers : audited[s] <= audited'[s]

LEMMA NothingGrows ==
  ASSUME TypeOK, UNCHANGED <<stored, reported, audited>>,
         registered \subseteq registered', registered' \subseteq Devices,
         heard \subseteq heard', heard' \subseteq registered'
  PROVE  Grows
<1>1. stored \in [Readings -> Nat] /\ reported \in [Readings -> Nat] /\ audited \in [Importers -> Nat]
  BY DEF TypeOK
<1>2. \A n \in Nat : n <= n
  OBVIOUS
<1> QED BY <1>1, <1>2 DEF Grows

(* What a handler has done stays done as the tables grow.                  *)
LEMMA ProgressStays ==
  ASSUME TelemetryInv, Grows, NEW x \in Senders, request'[x] = request[x]
  PROVE  (Progress(x))'
<1>1. Progress(x)
  BY DEF TelemetryInv
<1>2. /\ \A r \in request[x].found : stored[r] > 0 => stored'[r] > 0
      /\ \A r \in request[x].found : reported[r] > 0 => reported'[r] > 0
  BY StateTyped DEF TelemetryInv, Grows
<1>3. x \in Importers /\ audited[x] > 0 => audited'[x] > 0
  BY StateTyped DEF TelemetryInv, Grows
<1>4. \A d : (d \in heard => d \in heard') /\ (d \in registered => d \in registered')
  BY DEF Grows
<1>5. request[x].pc # "idle" => (FoundItsOwn(x))' /\ (Touched(x))'
  BY <1>1, <1>4 DEF Progress, FoundItsOwn, Touched
<1>6. Stored(x) => (Stored(x))'
  BY <1>2 DEF Stored
<1>7. Reported(x) => (Reported(x))'
  BY <1>2 DEF Reported
<1> QED BY <1>1, <1>3, <1>5, <1>6, <1>7 DEF Progress

LEMMA HandlerStep ==
  ASSUME TelemetryInv, Grows, NEW s \in Senders, NEW new \in RequestState,
         request' = [request EXCEPT ![s] = new], failures' \in 0..MaxFailures,
         new.todo \subseteq new.found, new.todo # {} => new.pc \in {"touch", "alerts"},
         (Progress(s))'
  PROVE  /\ TypeOK' /\ (Installed \subseteq registered)'
         /\ \A x \in Senders : (Progress(x))'
<1>1. request'[s] = new /\ \A x \in Senders : x # s => request'[x] = request[x]
  BY DEF TelemetryInv, TypeOK
<1>2. TypeOK'
  BY <1>1 DEF TelemetryInv, TypeOK, Grows
<1>3. \A x \in Senders : (Progress(x))'
  BY <1>1, ProgressStays
<1>4. (Installed \subseteq registered)'
  BY DEF TelemetryInv, Grows
<1> QED BY <1>2, <1>3, <1>4

(* A step that neither stores nor reports, nor comes to the alerts.        *)
LEMMA QuietStep ==
  ASSUME TelemetryInv, Grows, NEW s \in Senders, NEW new \in RequestState,
         request' = [request EXCEPT ![s] = new], failures' \in 0..MaxFailures,
         new.todo \subseteq new.found, new.todo # {} => new.pc = "touch",
         new.pc # "alerts", (Progress(s))', UNCHANGED <<stored, reported>>
  PROVE  TelemetryInv'
<1>1. request'[s] = new /\ \A x \in Senders : x # s => request'[x] = request[x]
  BY DEF TelemetryInv, TypeOK
<1>2. ASSUME NEW r \in Readings
      PROVE  reported[r] + Cardinality(Reporting(r)') <= stored[r]
  <2>1. Reporting(r)' \in SUBSET Reporting(r)
    BY <1>1 DEF Reporting
  <2>2. Cardinality(Reporting(r)') <= Cardinality(Reporting(r)) /\ IsFiniteSet(Reporting(r)')
    BY <2>1, ReportingFinite, FS_Subset
  <2>3. Cardinality(Reporting(r)') \in Nat
    BY <2>2, FS_CardinalityType
  <2>4. reported[r] \in Nat /\ stored[r] \in Nat /\ Cardinality(Reporting(r)) \in Nat
    BY ReportingFinite DEF TelemetryInv, TypeOK
  <2>5. reported[r] + Cardinality(Reporting(r)) <= stored[r]
    BY DEF TelemetryInv, Counted
  <2> QED BY <2>2, <2>3, <2>4, <2>5
<1>3. Counted'
  BY <1>2 DEF TelemetryInv, Counted
<1> QED BY <1>3, HandlerStep DEF TelemetryInv

(* From one statement to the next, with nothing left to do at the first.   *)
LEMMA GoToStep ==
  ASSUME TelemetryInv, Grows, NEW s \in Senders, NEW pc \in Pcs \ {"alerts"}, GoTo(s, pc),
         request[s].todo = {}, failures' \in 0..MaxFailures, UNCHANGED <<stored, reported>>,
         request'[s].pc = pc /\ request'[s].found = request[s].found
         /\ request'[s].todo = {} => (Progress(s))'
  PROVE  TelemetryInv'
<1> DEFINE new == [request[s] EXCEPT !.pc = pc]
<1>1. request[s] \in RequestState
  BY StateTyped DEF TelemetryInv
<1>2. new \in RequestState /\ new.pc = pc /\ new.found = request[s].found /\ new.todo = {}
  BY <1>1 DEF RequestState
<1>3. request' = [request EXCEPT ![s] = new]
  BY DEF GoTo
<1> HIDE DEF new
<1>4. request'[s] = new
  BY <1>3 DEF TelemetryInv, TypeOK
<1> QED BY <1>2, <1>3, <1>4, QuietStep

-----------------------------------------------------------------------------
LEMMA RegisterKeeps ==
  ASSUME TelemetryInv, NEW d \in Devices, Register(d)
  PROVE  TelemetryInv'
<1>1. /\ registered' = registered \cup {d}
      /\ UNCHANGED <<stored, reported, heard, audited, request, failures>>
  BY DEF Register
<1>2. Grows
  BY <1>1, NothingGrows DEF TelemetryInv, TypeOK
<1>3. TypeOK' /\ (Installed \subseteq registered)'
  BY <1>1 DEF TelemetryInv, TypeOK
<1>4. \A s \in Senders : (Progress(s))'
  BY <1>1, <1>2, ProgressStays
<1>5. Counted'
  BY <1>1 DEF TelemetryInv, Counted, Reporting
<1> QED BY <1>3, <1>4, <1>5 DEF TelemetryInv

(* The sender hangs up, or is hung up on: nothing is left of the request.  *)
LEMMA HangUpKeeps ==
  ASSUME TelemetryInv, NEW s \in Senders, InsertRefused(s) \/ Fail(s)
  PROVE  TelemetryInv'
<1>1. UNCHANGED tables /\ HangUp(s)
  BY DEF InsertRefused, Fail
<1>2. Grows
  BY <1>1, NothingGrows DEF TelemetryInv, TypeOK, tables
<1>3. failures' \in 0..MaxFailures
  BY StateTyped, TelemetryAssumption DEF InsertRefused, Fail, TelemetryInv
<1>4. Idle.pc = "idle" /\ Idle.found = {} /\ Idle.todo = {} /\ Idle \in RequestState
  BY DEF Idle, RequestState, Pcs
<1>5. request' = [request EXCEPT ![s] = Idle] /\ request'[s] = Idle
  BY <1>1 DEF HangUp, TelemetryInv, TypeOK
<1>6. (Progress(s))'
  BY <1>4, <1>5 DEF Progress
<1>7. UNCHANGED <<stored, reported>>
  BY <1>1 DEF tables
<1> QED BY <1>2, <1>3, <1>4, <1>5, <1>6, <1>7, QuietStep

(* The devices are read once, when the request comes.                      *)
LEMMA SendKeeps ==
  ASSUME TelemetryInv, NEW s \in Senders, Send(s)
  PROVE  TelemetryInv'
<1> DEFINE new == [pc |-> "touch", found |-> Found(s), todo |-> Found(s)]
<1>1. UNCHANGED <<registered, stored, reported, heard, audited, failures>>
      /\ request' = [request EXCEPT ![s] = new]
  BY DEF Send, tables
<1>2. Grows
  BY <1>1, NothingGrows DEF TelemetryInv, TypeOK
<1>3. /\ new \in RequestState /\ new.pc = "touch"
      /\ new.found = Found(s) /\ new.todo = Found(s)
  BY StateTyped DEF TelemetryInv, Found, RequestState, Pcs
<1> HIDE DEF new
<1>4. request'[s] = new
  BY <1>1 DEF TelemetryInv, TypeOK
<1>5. (FoundItsOwn(s))' /\ (Touched(s))'
  BY <1>1, <1>3, <1>4 DEF FoundItsOwn, Touched, Found, TelemetryInv
<1>6. (Progress(s))'
  BY <1>3, <1>4, <1>5 DEF Progress
<1>7. failures' \in 0..MaxFailures
  BY <1>1, StateTyped DEF TelemetryInv
<1> QED BY <1>1, <1>2, <1>3, <1>6, <1>7, QuietStep

LEMMA TouchKeeps ==
  ASSUME TelemetryInv, NEW s \in Senders, Touch(s)
  PROVE  TelemetryInv'
<1>1. PICK a \in request[s].todo :
        /\ heard' = heard \cup {DeviceOf[a]}
        /\ request' = [request EXCEPT ![s].todo = @ \ {a}]
  BY DEF Touch
<1> DEFINE new == [request[s] EXCEPT !.todo = @ \ {a}]
<1>2. /\ request[s].pc = "touch" /\ UNCHANGED <<registered, stored, reported, audited, failures>>
      /\ request[s] \in RequestState /\ a \in request[s].found
      /\ request[s].todo \subseteq request[s].found
      /\ request' = [request EXCEPT ![s] = new]
  BY <1>1, StateTyped DEF Touch, At, TelemetryInv
<1>3. /\ new \in RequestState /\ new.pc = "touch"
      /\ new.found = request[s].found /\ new.todo = request[s].todo \ {a}
  BY <1>2 DEF RequestState
<1> HIDE DEF new
<1>4. request'[s] = new
  BY <1>2 DEF TelemetryInv, TypeOK
<1>5. FoundItsOwn(s) /\ Touched(s)
  BY <1>2 DEF TelemetryInv, Progress
<1>6. DeviceOf[a] \in registered
  BY <1>2, <1>5 DEF FoundItsOwn
<1>7. Grows
  BY <1>1, <1>2, <1>6, NothingGrows DEF TelemetryInv, TypeOK
<1>8. (FoundItsOwn(s))' /\ (Touched(s))'
  BY <1>1, <1>2, <1>3, <1>4, <1>5 DEF FoundItsOwn, Touched
<1>9. (Progress(s))'
  BY <1>3, <1>4, <1>8 DEF Progress
<1>10. failures' \in 0..MaxFailures
  BY <1>2, StateTyped DEF TelemetryInv
<1>11. new.todo \subseteq new.found
  BY <1>2, <1>3
<1> QED BY <1>2, <1>3, <1>7, <1>9, <1>10, <1>11, QuietStep

(* The steps that only pass to the next statement.                         *)
LEMMA PassKeeps ==
  ASSUME TelemetryInv, NEW s \in Senders, TouchedAll(s) \/ AlertsDone(s) \/ Answer(s)
  PROVE  TelemetryInv'
<1>1. UNCHANGED <<registered, stored, reported, heard, audited, failures>>
  BY DEF TouchedAll, AlertsDone, Answer, tables
<1>2. Grows
  BY <1>1, NothingGrows DEF TelemetryInv, TypeOK
<1>3. failures' \in 0..MaxFailures
  BY <1>1, StateTyped DEF TelemetryInv
<1>4. Progress(s) /\ request[s].todo \subseteq request[s].found
      /\ (request[s].todo # {} => request[s].pc \in {"touch", "alerts"})
  BY DEF TelemetryInv, TypeOK
<1>5. PICK pc \in {"insert", "audit", "answer", "done"} :
        /\ GoTo(s, pc) /\ request[s].todo = {}
        /\ pc = "insert" => request[s].pc = "touch"
        /\ pc = "audit" => request[s].pc = "alerts"
        /\ pc = "answer" => request[s].pc = "alerts" /\ s \notin Importers
        /\ pc = "done" => request[s].pc = "answer"
  BY <1>4 DEF TouchedAll, AlertsDone, Answer, At
<1>6. pc \in Pcs \ {"alerts"}
  BY DEF Pcs
<1>7. ASSUME request'[s].pc = pc, request'[s].found = request[s].found, request'[s].todo = {}
      PROVE  (Progress(s))'
  <2>1. FoundItsOwn(s) /\ Touched(s)
    BY <1>4, <1>5 DEF Progress
  <2>2. (FoundItsOwn(s))' /\ (Touched(s))'
    BY <1>1, <1>5, <1>7, <2>1 DEF FoundItsOwn, Touched
  <2>3. pc # "insert" => (Stored(s))' /\ (Reported(s))'
    BY <1>1, <1>4, <1>5, <1>7 DEF Progress, Stored, Reported
  <2>4. pc \in {"answer", "done"} /\ s \in Importers => audited'[s] > 0
    BY <1>1, <1>4, <1>5 DEF Progress
  <2> QED BY <1>7, <2>2, <2>3, <2>4 DEF Progress
<1> QED BY <1>1, <1>2, <1>3, <1>5, <1>6, <1>7, GoToStep

LEMMA AuditKeeps ==
  ASSUME TelemetryInv, NEW s \in Senders, Audit(s)
  PROVE  TelemetryInv'
<1>1. /\ audited' = [audited EXCEPT ![s] = @ + 1] /\ GoTo(s, "answer")
      /\ "answer" \in Pcs \ {"alerts"} /\ request[s].pc = "audit"
      /\ UNCHANGED <<registered, stored, reported, heard, failures>>
  BY DEF Audit, At, Pcs
<1>2. Grows /\ (s \in Importers => audited'[s] > 0)
  <2>1. /\ audited \in [Importers -> Nat] /\ heard \subseteq registered /\ registered \subseteq Devices
        /\ stored \in [Readings -> Nat] /\ reported \in [Readings -> Nat]
    BY DEF TelemetryInv, TypeOK
  <2>2. \A x \in Importers : audited[x] \in Nat
    BY <2>1
  <2>3. \A x \in Importers : audited'[x] = IF x = s THEN audited[x] + 1 ELSE audited[x]
    BY <1>1, <2>1
  <2>4. \A x \in Importers : audited'[x] \in Nat /\ audited[x] <= audited'[x]
    BY <2>2, <2>3
  <2>5. audited' \in [Importers -> Nat]
    BY <1>1, <2>1, <2>4
  <2>6. s \in Importers => audited'[s] > 0
    BY <2>2, <2>3
  <2>7. Grows
    BY <1>1, <2>1, <2>4, <2>5 DEF Grows
  <2> QED BY <2>6, <2>7
<1>3. Progress(s) /\ request[s].todo = {}
  BY <1>1 DEF TelemetryInv, TypeOK
<1>4. ASSUME request'[s].pc = "answer", request'[s].found = request[s].found,
             request'[s].todo = {}
      PROVE  (Progress(s))'
  <2>1. (FoundItsOwn(s))' /\ (Touched(s))'
    BY <1>1, <1>3, <1>4 DEF Progress, FoundItsOwn, Touched
  <2>2. (Stored(s))' /\ (Reported(s))'
    BY <1>1, <1>3, <1>4 DEF Progress, Stored, Reported
  <2> QED BY <1>2, <1>4, <2>1, <2>2 DEF Progress
<1>5. failures' \in 0..MaxFailures
  BY <1>1, StateTyped DEF TelemetryInv
<1> QED BY <1>1, <1>2, <1>3, <1>4, <1>5, GoToStep

(* What was found is stored as a whole, where none of its identified       *)
(* readings was.                                                           *)
LEMMA InsertKeeps ==
  ASSUME TelemetryInv, NEW s \in Senders, InsertMeasurements(s)
  PROVE  TelemetryInv'
<1> DEFINE found == request[s].found
           new == [request[s] EXCEPT !.pc = "alerts", !.todo = found \cap Anomalous]
<1>1. /\ request[s].pc = "insert" /\ request[s] \in RequestState /\ found \subseteq Readings
      /\ stored' = [r \in Readings |-> IF r \in found THEN stored[r] + 1 ELSE stored[r]]
      /\ \A r \in found \cap Identified : stored[r] = 0
      /\ UNCHANGED <<registered, reported, heard, audited, failures>>
  BY StateTyped DEF InsertMeasurements, BatchAdmitted, At, TelemetryInv
<1>2. request' = [request EXCEPT ![s] = new]
  BY StateTyped DEF InsertMeasurements, TelemetryInv
<1>3. /\ new \in RequestState /\ new.pc = "alerts"
      /\ new.found = found /\ new.todo = found \cap Anomalous
  BY <1>1 DEF RequestState, Pcs
<1> HIDE DEF new
<1>4. request'[s] = new /\ \A x \in Senders : x # s => request'[x] = request[x]
  BY <1>2 DEF TelemetryInv, TypeOK
<1>5. Grows /\ (\A r \in found : stored'[r] > 0)
  BY <1>1 DEF Grows, TelemetryInv, TypeOK
<1>6. (Progress(s))'
  <2>1. FoundItsOwn(s) /\ Touched(s)
    BY <1>1 DEF TelemetryInv, Progress
  <2>2. (FoundItsOwn(s))' /\ (Touched(s))'
    BY <1>1, <1>3, <1>4, <2>1 DEF FoundItsOwn, Touched
  <2>3. (Stored(s))' /\ (Reported(s))'
    BY <1>3, <1>4, <1>5 DEF Stored, Reported
  <2> QED BY <1>3, <1>4, <2>2, <2>3 DEF Progress
<1>7. ASSUME NEW r \in Readings
      PROVE  reported[r] + Cardinality(Reporting(r)') <= stored'[r]
  <2>1. /\ reported[r] \in Nat /\ stored[r] \in Nat
        /\ stored'[r] = IF r \in found THEN stored[r] + 1 ELSE stored[r]
    BY <1>1 DEF TelemetryInv, TypeOK
  <2>2. reported[r] + Cardinality(Reporting(r)) <= stored[r] /\ Cardinality(Reporting(r)) \in Nat
    BY ReportingFinite DEF TelemetryInv, Counted
  <2>3. CASE r \in found \cap Anomalous
    <3>1. Reporting(r)' = Reporting(r) \cup {s} /\ s \notin Reporting(r)
      BY <1>1, <1>3, <1>4, <2>3 DEF Reporting
    <3>2. Cardinality(Reporting(r)') = Cardinality(Reporting(r)) + 1
      BY <3>1, ReportingFinite, FS_AddElement
    <3> QED BY <2>1, <2>2, <2>3, <3>2
  <2>4. CASE r \notin found \cap Anomalous
    <3>1. Reporting(r)' = Reporting(r)
      BY <1>1, <1>3, <1>4, <2>4 DEF Reporting
    <3> QED BY <2>1, <2>2, <3>1
  <2> QED BY <2>3, <2>4
<1>8. ASSUME NEW r \in Identified
      PROVE  stored'[r] <= 1
  <2>1. r \in Readings /\ stored[r] <= 1
    BY TelemetryAssumption DEF TelemetryInv, Counted
  <2>2. stored'[r] = IF r \in found THEN stored[r] + 1 ELSE stored[r]
    BY <1>1, <2>1
  <2> QED BY <1>1, <2>1, <2>2
<1>9. Counted'
  BY <1>1, <1>7, <1>8 DEF Counted
<1>10. failures' \in 0..MaxFailures
  BY <1>1, StateTyped DEF TelemetryInv
<1>11. new.todo \subseteq new.found /\ new.pc \in {"touch", "alerts"}
  BY <1>3
<1> QED BY <1>2, <1>3, <1>5, <1>6, <1>9, <1>10, <1>11, HandlerStep DEF TelemetryInv

(* A reading reported is one fewer to report.                              *)
LEMMA RaiseKeeps ==
  ASSUME TelemetryInv, NEW s \in Senders, RaiseAlert(s)
  PROVE  TelemetryInv'
<1>1. PICK a \in request[s].todo :
        /\ reported' = [reported EXCEPT ![a] = @ + 1]
        /\ request' = [request EXCEPT ![s].todo = @ \ {a}]
  BY DEF RaiseAlert
<1> DEFINE new == [request[s] EXCEPT !.todo = @ \ {a}]
<1>2. /\ request[s].pc = "alerts" /\ UNCHANGED <<registered, stored, heard, audited, failures>>
      /\ a \in Readings /\ request[s] \in RequestState
      /\ request[s].todo \subseteq request[s].found
      /\ request' = [request EXCEPT ![s] = new]
  BY <1>1, StateTyped DEF RaiseAlert, At, TelemetryInv
<1>3. /\ new \in RequestState /\ new.pc = "alerts"
      /\ new.found = request[s].found /\ new.todo = request[s].todo \ {a}
  BY <1>2 DEF RequestState
<1> HIDE DEF new
<1>4. request'[s] = new /\ \A x \in Senders : x # s => request'[x] = request[x]
  BY <1>2 DEF TelemetryInv, TypeOK
<1>5. reported'[a] = reported[a] + 1 /\ \A r \in Readings : r # a => reported'[r] = reported[r]
  BY <1>1, <1>2, StateTyped DEF TelemetryInv
<1>6. Grows
  BY <1>1, <1>2, StateTyped DEF Grows, TelemetryInv, TypeOK
<1>7. reported'[a] > 0
  BY <1>2, <1>5, StateTyped DEF TelemetryInv
<1>8. (Progress(s))'
  <2>1. FoundItsOwn(s) /\ Touched(s) /\ Stored(s) /\ Reported(s)
    BY <1>2 DEF TelemetryInv, Progress
  <2>2. (FoundItsOwn(s))' /\ (Touched(s))'
    BY <1>2, <1>3, <1>4, <2>1 DEF FoundItsOwn, Touched
  <2>3. \A r \in request[s].found \cap Anomalous : r \in new.todo \/ reported'[r] > 0
    BY <1>3, <1>5, <1>7, <2>1, StateTyped DEF Reported, TelemetryInv
  <2>4. (Stored(s))' /\ (Reported(s))'
    BY <1>2, <1>3, <1>4, <2>1, <2>3 DEF Stored, Reported
  <2> QED BY <1>3, <1>4, <2>2, <2>4 DEF Progress
<1>9. ASSUME NEW r \in Readings
      PROVE  reported'[r] + Cardinality(Reporting(r)') <= stored[r]
  <2>1. /\ reported[r] \in Nat /\ stored[r] \in Nat /\ Cardinality(Reporting(r)) \in Nat
        /\ reported[r] + Cardinality(Reporting(r)) <= stored[r]
    BY ReportingFinite DEF TelemetryInv, TypeOK, Counted
  <2>2. CASE r = a
    <3>1. Reporting(r)' = Reporting(r) \ {s} /\ s \in Reporting(r)
      BY <1>1, <1>2, <1>3, <1>4, <2>2 DEF Reporting
    <3>2. Cardinality(Reporting(r)') = Cardinality(Reporting(r)) - 1
      BY <3>1, ReportingFinite, FS_RemoveElement
    <3>3. reported'[r] = reported[r] + 1
      BY <1>5, <2>2
    <3> QED BY <2>1, <3>2, <3>3
  <2>3. CASE r # a
    <3>1. Reporting(r)' = Reporting(r)
      BY <1>2, <1>3, <1>4, <2>3 DEF Reporting
    <3> QED BY <1>5, <2>1, <2>3, <3>1
  <2> QED BY <2>2, <2>3
<1>10. Counted'
  BY <1>2, <1>9 DEF TelemetryInv, Counted
<1>11. failures' \in 0..MaxFailures
  BY <1>2, StateTyped DEF TelemetryInv
<1>12. new.todo \subseteq new.found /\ new.pc \in {"touch", "alerts"}
  BY <1>2, <1>3
<1> QED BY <1>2, <1>3, <1>6, <1>8, <1>10, <1>11, <1>12, HandlerStep DEF TelemetryInv

-----------------------------------------------------------------------------
LEMMA NextKeepsInv ==
  ASSUME TelemetryInv, [Next]_vars
  PROVE  TelemetryInv'
<1>1. CASE UNCHANGED vars
  BY <1>1 DEF vars, tables, TelemetryInv, TypeOK, Progress, FoundItsOwn, Touched, Stored,
              Reported, Counted, Reporting
<1>2. CASE \E d \in Devices : Register(d)
  BY <1>2, RegisterKeeps
<1>3. CASE \E s \in Senders : Handle(s) \/ Fail(s)
  BY <1>3, SendKeeps, HangUpKeeps, PassKeeps, TouchKeeps, AuditKeeps, InsertKeeps, RaiseKeeps
  DEF Handle
<1> QED BY <1>1, <1>2, <1>3 DEF Next

(* The inductive invariant: how far a handler is says what it has written  *)
(* of the readings whose device it found (none of an installed device is   *)
(* left out), and each reading still to report is one it has stored.       *)
THEOREM TelemetryInvariant == Spec => []TelemetryInv
<1>1. TelemetryInv /\ [Next]_vars => TelemetryInv'
  BY NextKeepsInv
<1> QED BY <1>1, InitInv, PTL DEF Spec

(* The tables and the handlers keep their types.                           *)
THEOREM TelemetryTypes == Spec => []TypeOK
<1>1. TelemetryInv => TypeOK
  BY DEF TelemetryInv
<1> QED BY <1>1, TelemetryInvariant, PTL

(* ingest and ingestFromDevice: an answer 200 stands for the readings whose *)
(* device was found, and for every one of a device installed from the      *)
(* start: stored, heard, reported and audited, whatever failed before.      *)
THEOREM TelemetryAnsweredMeansDone == Spec => []AnsweredMeansDone
<1>1. ASSUME TelemetryInv
      PROVE  AnsweredMeansDone
  <2> SUFFICES ASSUME NEW s \in Senders, request[s].pc = "done"
               PROVE  /\ \A r \in Batch[s] :
                           r \in request[s].found \/ DeviceOf[r] \in Installed =>
                             /\ DeviceOf[r] \in heard /\ stored[r] > 0
                             /\ r \in Anomalous => reported[r] > 0
                      /\ s \in Importers => audited[s] > 0
    BY DEF AnsweredMeansDone, At
  <2>1. FoundItsOwn(s) /\ Touched(s) /\ Stored(s) /\ Reported(s)
        /\ (s \in Importers => audited[s] > 0)
    BY <1>1 DEF TelemetryInv, Progress
  <2>2. ASSUME NEW r \in Batch[s], r \in request[s].found \/ DeviceOf[r] \in Installed
        PROVE  /\ DeviceOf[r] \in heard /\ stored[r] > 0
               /\ r \in Anomalous => reported[r] > 0
    <3>1. r \in request[s].found
      BY <2>1, <2>2 DEF FoundItsOwn
    <3> QED BY <2>1, <3>1 DEF Touched, Stored, Reported
  <2> QED BY <2>1, <2>2
<1> QED BY <1>1, TelemetryInvariant, PTL

(* insertMeasurements and measurements_device_event_uniq: sent again, or in *)
(* two batches, an identified reading is stored and reported once, and none *)
(* is reported that is not stored.                                          *)
THEOREM TelemetryCountedOnce == Spec => []CountedOnce
<1>1. ASSUME TelemetryInv
      PROVE  CountedOnce
  <2>1. ASSUME NEW r \in Readings
        PROVE  reported[r] <= stored[r]
    <3>1. /\ reported[r] \in Nat /\ stored[r] \in Nat /\ Cardinality(Reporting(r)) \in Nat
          /\ reported[r] + Cardinality(Reporting(r)) <= stored[r]
      BY <1>1, ReportingFinite DEF TelemetryInv, TypeOK, Counted
    <3> QED BY <3>1
  <2>2. ASSUME NEW r \in Identified
        PROVE  stored[r] <= 1 /\ reported[r] <= 1
    <3>1. r \in Readings /\ stored[r] <= 1
      BY <1>1, TelemetryAssumption DEF TelemetryInv, Counted
    <3>2. reported[r] \in Nat /\ stored[r] \in Nat
      BY <1>1, <3>1 DEF TelemetryInv, TypeOK
    <3> QED BY <2>1, <3>1, <3>2
  <2> QED BY <2>1, <2>2 DEF CountedOnce
<1> QED BY <1>1, TelemetryInvariant, PTL
=============================================================================
