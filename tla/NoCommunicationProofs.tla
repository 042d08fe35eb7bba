------------------------- MODULE NoCommunicationProofs -------------------------
(***************************************************************************)
(* Proofs about NoCommunication, for every set of devices and of jobs, any *)
(* number of scans at once, of attempts and of crashes: what repeating a   *)
(* scan that runs in no transaction may and may not do to the alerts.      *)
(***************************************************************************)
EXTENDS NoCommunication, FiniteSetTheorems, TLAPS

(* A scan that handles a device has chosen one.                            *)
DevicePcs == {"rule", "newRule", "insert", "event"}
DeviceChosen == \A j \in JobIds : job[j].pc \in DevicePcs => job[j].dev \in Devices

WorkerInv == TypeOK /\ DeviceChosen /\ NoDuplicateAlert /\ AnnouncedUnlessCrashed

-----------------------------------------------------------------------------
LEMMA NoJobTyped ==
  NoJob \in JobState /\ NoJob.pc = "none"
  BY WorkerAssumption DEF NoJob, JobState, Pcs

LEMMA JobTyped ==
  ASSUME TypeOK, NEW j \in JobIds
  PROVE  /\ job \in [JobIds -> JobState] /\ job[j] \in JobState
         /\ job[j].pc \in Pcs /\ job[j].attempt \in 1..MaxAttempts
         /\ job[j].stalled \in BOOLEAN /\ job[j].todo \subseteq Devices
         /\ job[j].dev \in Devices \cup {NoDevice}
  BY DEF TypeOK, JobState

LEMMA RunningFinite ==
  IsFiniteSet(Running) /\ Cardinality(Running) \in Nat
<1>1. Running \in SUBSET JobIds
  BY DEF Running
<1>2. IsFiniteSet(Running)
  BY <1>1, JobsAssumption, FS_Subset
<1> QED BY <1>2, FS_CardinalityType

LEMMA UnannouncedFinite ==
  ASSUME NEW d
  PROVE  IsFiniteSet(Unannounced(d)) /\ Cardinality(Unannounced(d)) \in Nat
<1>1. Unannounced(d) \in SUBSET JobIds
  BY DEF Unannounced
<1>2. IsFiniteSet(Unannounced(d))
  BY <1>1, JobsAssumption, FS_Subset
<1> QED BY <1>2, FS_CardinalityType

LEMMA InitInv == Init => WorkerInv
<1> SUFFICES ASSUME Init
             PROVE  WorkerInv
  OBVIOUS
<1>1. \A j \in JobIds : job[j] = NoJob /\ job[j].pc = "none"
  BY NoJobTyped DEF Init
<1>2. Running = {} /\ \A d : Unannounced(d) = {}
  BY <1>1 DEF Running, Unannounced
<1>3. Cardinality({}) = 0
  BY FS_EmptySet
<1>4. TypeOK
  BY <1>2, <1>3, NoJobTyped, WorkerAssumption DEF Init, TypeOK
<1>5. DeviceChosen
  BY <1>1 DEF DeviceChosen, DevicePcs
<1>6. NoDuplicateAlert /\ AnnouncedUnlessCrashed
  BY <1>2, <1>3 DEF Init, NoDuplicateAlert, AnnouncedUnlessCrashed
<1> QED BY <1>4, <1>5, <1>6 DEF WorkerInv

-----------------------------------------------------------------------------
(* A step of the queue or of a scan gives one job another state.           *)
LEMMA JobStep ==
  ASSUME TypeOK, DeviceChosen, NEW j \in JobIds, NEW new \in JobState,
         job' = [job EXCEPT ![j] = new],
         new.pc \notin {"none", "waiting"} =>
           j \in Running \/ Cardinality(Running) < Concurrency,
         new.pc \in DevicePcs => new.dev \in Devices
  PROVE  /\ job' \in [JobIds -> JobState] /\ Cardinality(Running') <= Concurrency
         /\ DeviceChosen'
<1>1. job \in [JobIds -> JobState]
  BY DEF TypeOK
<1>2. /\ job' \in [JobIds -> JobState]
      /\ job'[j] = new /\ \A i \in JobIds : i # j => job'[i] = job[i]
  BY <1>1
<1>3. DeviceChosen'
  BY <1>2 DEF DeviceChosen
<1>4. Running' \subseteq Running \cup {j}
  BY <1>2 DEF Running
<1>5. /\ Cardinality(Running) \in Nat /\ Cardinality(Running) <= Concurrency
      /\ Concurrency \in Nat
  BY RunningFinite, WorkerAssumption DEF TypeOK
<1>6. CASE j \in Running \/ new.pc \in {"none", "waiting"}
  <2>1. Running' \in SUBSET Running
    BY <1>2, <1>4, <1>6 DEF Running
  <2>2. Cardinality(Running') <= Cardinality(Running) /\ IsFiniteSet(Running')
    BY <2>1, RunningFinite, FS_Subset
  <2>3. Cardinality(Running') \in Nat
    BY <2>2, FS_CardinalityType
  <2> QED BY <1>2, <1>3, <1>5, <2>2, <2>3
<1>7. CASE Cardinality(Running) < Concurrency /\ j \notin Running
  <2>1. IsFiniteSet(Running \cup {j}) /\ Cardinality(Running \cup {j}) = Cardinality(Running) + 1
    BY <1>7, RunningFinite, FS_AddElement
  <2>2. Running' \in SUBSET (Running \cup {j})
    BY <1>4
  <2>3. Cardinality(Running') <= Cardinality(Running \cup {j}) /\ IsFiniteSet(Running')
    BY <2>1, <2>2, FS_Subset
  <2>4. Cardinality(Running') \in Nat
    BY <2>3, FS_CardinalityType
  <2> QED BY <1>2, <1>3, <1>5, <1>7, <2>1, <2>3, <2>4
<1> QED BY <1>6, <1>7

(* What becomes of the alerts a device waits to have announced.            *)
LEMMA OwedStep ==
  ASSUME TypeOK, NEW j \in JobIds, NEW new, job' = [job EXCEPT ![j] = new], NEW d
  PROVE  Unannounced(d)' = IF new.pc = "event" /\ new.dev = d THEN Unannounced(d) \cup {j}
                           ELSE Unannounced(d) \ {j}
<1>1. job'[j] = new /\ \A i \in JobIds : i # j => job'[i] = job[i]
  BY DEF TypeOK
<1> QED BY <1>1 DEF Unannounced

(* A step of a scan that neither raises an alert nor announces one.        *)
LEMMA QuietStep ==
  ASSUME WorkerInv, NEW j \in JobIds, NEW new \in JobState,
         job' = [job EXCEPT ![j] = new], job[j].pc # "event", new.pc # "event",
         new.pc \notin {"none", "waiting"} =>
           j \in Running \/ Cardinality(Running) < Concurrency,
         new.pc \in DevicePcs => new.dev \in Devices,
         UNCHANGED <<fieldVars, raised, closed, announced, crashes>>, rules' \in Nat
  PROVE  WorkerInv'
<1>1. /\ job' \in [JobIds -> JobState] /\ Cardinality(Running') <= Concurrency
      /\ DeviceChosen'
  BY JobStep DEF WorkerInv
<1>2. ASSUME NEW d
      PROVE  Unannounced(d)' = Unannounced(d)
  BY OwedStep DEF WorkerInv, Unannounced
<1>3. TypeOK'
  BY <1>1 DEF WorkerInv, TypeOK, fieldVars
<1>4. NoDuplicateAlert'
  BY DEF WorkerInv, NoDuplicateAlert
<1>5. AnnouncedUnlessCrashed'
  BY <1>2 DEF WorkerInv, AnnouncedUnlessCrashed
<1> QED BY <1>1, <1>3, <1>4, <1>5 DEF WorkerInv

(* A step that touches no job.                                             *)
LEMMA FieldStep ==
  ASSUME WorkerInv, UNCHANGED <<raised, announced, rules, job, crashes>>,
         silent' \subseteq Devices, maintained' \subseteq Devices, flips' \in 0..MaxFlips,
         closed' \in [Devices -> Nat], \A d \in Devices : closed[d] <= closed'[d]
  PROVE  WorkerInv'
<1>1. Running' = Running /\ \A d : Unannounced(d)' = Unannounced(d)
  BY DEF Running, Unannounced
<1>2. TypeOK'
  BY <1>1 DEF WorkerInv, TypeOK
<1>3. DeviceChosen'
  BY DEF WorkerInv, DeviceChosen
<1>4. NoDuplicateAlert'
  <2> SUFFICES ASSUME NEW d \in Devices
               PROVE  raised[d] <= closed'[d] + 1
    BY DEF NoDuplicateAlert
  <2>1. raised[d] \in Nat /\ closed[d] \in Nat /\ closed'[d] \in Nat
    BY DEF WorkerInv, TypeOK
  <2>2. raised[d] <= closed[d] + 1 /\ closed[d] <= closed'[d]
    BY DEF WorkerInv, NoDuplicateAlert
  <2> QED BY <2>1, <2>2
<1>5. AnnouncedUnlessCrashed'
  BY <1>1 DEF WorkerInv, AnnouncedUnlessCrashed
<1> QED BY <1>2, <1>3, <1>4, <1>5 DEF WorkerInv

-----------------------------------------------------------------------------
LEMMA FieldKeeps ==
  ASSUME WorkerInv, NEW d \in Devices, FlipSilence(d) \/ FlipMaintenance(d) \/ CloseAlert(d)
  PROVE  WorkerInv'
<1>1. /\ silent \subseteq Devices /\ maintained \subseteq Devices /\ flips \in 0..MaxFlips
      /\ closed \in [Devices -> Nat]
  BY DEF WorkerInv, TypeOK
<1>2. CASE FlipSilence(d)
  BY <1>1, <1>2, WorkerAssumption, FieldStep DEF FlipSilence, Flip, tableVars
<1>3. CASE FlipMaintenance(d)
  BY <1>1, <1>3, WorkerAssumption, FieldStep DEF FlipMaintenance, Flip, tableVars
<1>4. CASE CloseAlert(d)
  BY <1>1, <1>4, FieldStep DEF CloseAlert, fieldVars
<1> QED BY <1>2, <1>3, <1>4

LEMMA ScheduleKeeps ==
  ASSUME WorkerInv, NEW j \in JobIds, Schedule(j)
  PROVE  WorkerInv'
<1> DEFINE new == [job[j] EXCEPT !.pc = "waiting"]
<1>1. job[j] \in JobState /\ job \in [JobIds -> JobState] /\ rules \in Nat
  BY JobTyped DEF WorkerInv, TypeOK
<1>2. new \in JobState /\ new.pc = "waiting"
  BY <1>1 DEF JobState, Pcs
<1>3. /\ job' = [job EXCEPT ![j] = new] /\ job[j].pc = "none"
      /\ UNCHANGED <<fieldVars, raised, closed, announced, crashes, rules>>
  BY <1>1 DEF Schedule, tableVars
<1> HIDE DEF new
<1> QED BY <1>1, <1>2, <1>3, QuietStep DEF DevicePcs

LEMMA RetryTyped ==
  ASSUME TypeOK, NEW j \in JobIds, Retry(j)
  PROVE  \E new \in JobState : /\ job' = [job EXCEPT ![j] = new]
                               /\ new.pc \in {"none", "waiting"}
<1> DEFINE again == [NoJob EXCEPT !.pc = "waiting", !.attempt = job[j].attempt + 1,
                                  !.stalled = job[j].stalled]
           new == IF job[j].attempt < MaxAttempts THEN again ELSE NoJob
<1>1. job' = [job EXCEPT ![j] = new]
  BY DEF Retry
<1>2. again.pc = "waiting"
  BY DEF NoJob
<1>3. ASSUME job[j].attempt < MaxAttempts
      PROVE  again \in JobState
  <2>1. job[j].attempt + 1 \in 1..MaxAttempts /\ job[j].stalled \in BOOLEAN
    BY <1>3, JobTyped, WorkerAssumption
  <2> QED BY <2>1, NoJobTyped DEF JobState, Pcs
<1> HIDE DEF again
<1>4. new \in JobState /\ new.pc \in {"none", "waiting"}
  BY <1>2, <1>3, NoJobTyped
<1> QED BY <1>1, <1>4

LEMMA QuietScanKeeps ==
  ASSUME WorkerInv, NEW j \in JobIds,
         \/ ReadDevices(j) \/ ReadWindows(j) \/ FindActiveAlert(j)
         \/ FindRule(j) \/ CreateRule(j) \/ InsertRefused(j) \/ Complete(j)
  PROVE  WorkerInv'
<1>1. /\ job[j] \in JobState /\ job \in [JobIds -> JobState] /\ rules \in Nat
      /\ silent \subseteq Devices /\ job[j].todo \subseteq Devices
  BY JobTyped DEF WorkerInv, TypeOK
<1>2. job[j].pc \in DevicePcs => job[j].dev \in Devices
  BY DEF WorkerInv, DeviceChosen
<1>3. job[j].pc \notin {"none", "waiting"} => j \in Running
  BY DEF Running
<1>4. ASSUME ReadDevices(j)
      PROVE  WorkerInv'
  <2> DEFINE new == [job[j] EXCEPT !.pc = "windows", !.todo = silent]
  <2>1. new \in JobState /\ new.pc = "windows"
    BY <1>1 DEF JobState, Pcs
  <2>2. /\ job' = [job EXCEPT ![j] = new] /\ job[j].pc = "waiting"
        /\ Cardinality(Running) < Concurrency
        /\ UNCHANGED <<fieldVars, raised, closed, announced, crashes, rules>>
    BY <1>1, <1>4 DEF ReadDevices, tableVars
  <2> HIDE DEF new
  <2> QED BY <1>1, <2>1, <2>2, QuietStep DEF DevicePcs
<1>5. ASSUME ReadWindows(j)
      PROVE  WorkerInv'
  <2> DEFINE new == [job[j] EXCEPT !.pc = "scan", !.todo = @ \ maintained]
  <2>1. new \in JobState /\ new.pc = "scan"
    BY <1>1 DEF JobState, Pcs
  <2>2. /\ job' = [job EXCEPT ![j] = new] /\ job[j].pc = "windows"
        /\ UNCHANGED <<fieldVars, raised, closed, announced, crashes, rules>>
    BY <1>1, <1>5 DEF ReadWindows, tableVars
  <2> HIDE DEF new
  <2> QED BY <1>1, <1>3, <2>1, <2>2, QuietStep DEF DevicePcs
<1>6. ASSUME FindActiveAlert(j)
      PROVE  WorkerInv'
  <2>1. PICK d \in job[j].todo :
          job' = [job EXCEPT ![j] =
            IF Existing(d) THEN [job[j] EXCEPT !.todo = job[j].todo \ {d}]
                           ELSE [job[j] EXCEPT !.pc = "rule", !.dev = d]]
    BY <1>1, <1>6 DEF FindActiveAlert
  <2> DEFINE passed == [job[j] EXCEPT !.todo = job[j].todo \ {d}]
             taken == [job[j] EXCEPT !.pc = "rule", !.dev = d]
             new == IF Existing(d) THEN passed ELSE taken
  <2>2. job[j].pc = "scan" /\ UNCHANGED <<fieldVars, raised, closed, announced, crashes, rules>>
    BY <1>6 DEF FindActiveAlert, tableVars
  <2>3. passed \in JobState /\ passed.pc = "scan"
    BY <1>1, <2>2 DEF JobState, Pcs
  <2>4. taken \in JobState /\ taken.pc = "rule" /\ taken.dev \in Devices
    BY <1>1 DEF JobState, Pcs
  <2> HIDE DEF passed, taken
  <2>5. /\ new \in JobState /\ new.pc \in {"scan", "rule"}
        /\ new.pc \in DevicePcs => new.dev \in Devices
    BY <2>3, <2>4 DEF DevicePcs
  <2>6. job' = [job EXCEPT ![j] = new]
    BY <2>1 DEF passed, taken
  <2> HIDE DEF new
  <2> QED BY <1>1, <1>3, <2>2, <2>5, <2>6, QuietStep
<1>7. ASSUME NEW pc \in {"insert", "newRule"}, job[j].pc \in {"rule", "newRule"}, To(j, pc),
             UNCHANGED <<fieldVars, raised, closed, announced, crashes>>, rules' \in Nat
      PROVE  WorkerInv'
  <2> DEFINE new == [job[j] EXCEPT !.pc = pc]
  <2>1. new \in JobState /\ new.pc = pc /\ new.dev = job[j].dev
    BY <1>1 DEF JobState, Pcs
  <2>2. job' = [job EXCEPT ![j] = new]
    BY <1>1, <1>7 DEF To
  <2> HIDE DEF new
  <2> QED BY <1>2, <1>3, <1>7, <2>1, <2>2, QuietStep DEF DevicePcs
<1>8. CASE FindRule(j)
  <2>1. /\ job[j].pc = "rule"
        /\ To(j, "insert") \/ To(j, "newRule")
        /\ UNCHANGED <<fieldVars, raised, closed, announced, crashes, rules>>
    BY <1>8 DEF FindRule, tableVars
  <2> QED BY <1>1, <1>7, <2>1
<1>9. CASE CreateRule(j)
  BY <1>1, <1>7, <1>9 DEF CreateRule
<1>10. ASSUME InsertRefused(j)
       PROVE  WorkerInv'
  <2>1. PICK new \in JobState : /\ job' = [job EXCEPT ![j] = new]
                                /\ new.pc \in {"none", "waiting"}
    BY <1>10, RetryTyped DEF InsertRefused, WorkerInv
  <2>2. /\ job[j].pc = "insert"
        /\ UNCHANGED <<fieldVars, raised, closed, announced, crashes, rules>>
    BY <1>10 DEF InsertRefused, tableVars
  <2> QED BY <1>1, <2>1, <2>2, QuietStep DEF DevicePcs
<1>11. ASSUME Complete(j)
       PROVE  WorkerInv'
  <2>1. /\ job' = [job EXCEPT ![j] = NoJob] /\ job[j].pc = "scan"
        /\ UNCHANGED <<fieldVars, raised, closed, announced, crashes, rules>>
    BY <1>11 DEF Complete, tableVars
  <2> QED BY <1>1, <2>1, NoJobTyped, QuietStep DEF DevicePcs
<1> QED BY <1>4, <1>5, <1>6, <1>8, <1>9, <1>10, <1>11

-----------------------------------------------------------------------------
(* The three steps that count.                                             *)
LEMMA InsertAlertKeeps ==
  ASSUME WorkerInv, NEW j \in JobIds, InsertAlert(j)
  PROVE  WorkerInv'
<1> DEFINE dev == job[j].dev
           new == [job[j] EXCEPT !.pc = "event"]
<1>1. /\ job[j] \in JobState /\ job \in [JobIds -> JobState]
      /\ raised \in [Devices -> Nat] /\ closed \in [Devices -> Nat]
      /\ announced \in [Devices -> Nat] /\ crashes \in Nat
  BY JobTyped, WorkerAssumption DEF WorkerInv, TypeOK
<1>2. /\ job[j].pc = "insert" /\ dev \in Devices /\ ~HasActiveAlert(dev)
      /\ raised' = [raised EXCEPT ![dev] = @ + 1]
      /\ UNCHANGED <<fieldVars, closed, announced, rules, crashes>>
  BY DEF InsertAlert, InsertAdmitted, WorkerInv, DeviceChosen, DevicePcs
<1>3. new \in JobState /\ new.pc = "event" /\ new.dev = dev
  BY <1>1 DEF JobState, Pcs
<1>4. job' = [job EXCEPT ![j] = new]
  BY <1>1 DEF InsertAlert, To
<1>5. j \in Running
  BY <1>2 DEF Running
<1> HIDE DEF new, dev
<1>6. /\ job' \in [JobIds -> JobState] /\ Cardinality(Running') <= Concurrency
      /\ DeviceChosen'
  BY <1>2, <1>3, <1>4, <1>5, JobStep DEF WorkerInv
<1>7. raised' \in [Devices -> Nat] /\ raised'[dev] = raised[dev] + 1
      /\ \A d \in Devices : d # dev => raised'[d] = raised[d]
  BY <1>1, <1>2
<1>8. TypeOK'
  BY <1>2, <1>6, <1>7 DEF WorkerInv, TypeOK, fieldVars
<1>9. NoDuplicateAlert'
  <2>1. raised[dev] \in Nat /\ closed[dev] \in Nat /\ ~(raised[dev] > closed[dev])
    BY <1>1, <1>2 DEF HasActiveAlert
  <2>2. raised[dev] + 1 <= closed[dev] + 1
    BY <2>1
  <2> QED BY <1>2, <1>7, <2>2 DEF WorkerInv, NoDuplicateAlert
<1>10. ASSUME NEW d \in Devices
       PROVE  LET owed == raised'[d] - Cardinality(Unannounced(d)') IN
              announced[d] <= owed /\ owed <= announced[d] + crashes
  <2>1. LET owed == raised[d] - Cardinality(Unannounced(d)) IN
        announced[d] <= owed /\ owed <= announced[d] + crashes
    BY DEF WorkerInv, AnnouncedUnlessCrashed
  <2>2. j \notin Unannounced(d)
    BY <1>2 DEF Unannounced
  <2>3. CASE d = dev
    <3>1. Unannounced(d)' = Unannounced(d) \cup {j}
      BY <1>3, <1>4, <2>3, OwedStep DEF WorkerInv
    <3>2. Cardinality(Unannounced(d)') = Cardinality(Unannounced(d)) + 1
      BY <2>2, <3>1, UnannouncedFinite, FS_AddElement
    <3>3. raised'[d] - Cardinality(Unannounced(d)') = raised[d] - Cardinality(Unannounced(d))
      BY <1>1, <1>7, <2>3, <3>2, UnannouncedFinite
    <3> QED BY <2>1, <3>3
  <2>4. CASE d # dev
    <3>1. Unannounced(d)' = Unannounced(d) \ {j}
      BY <1>3, <1>4, <2>4, OwedStep DEF WorkerInv
    <3>2. Unannounced(d)' = Unannounced(d)
      BY <2>2, <3>1
    <3> QED BY <1>7, <2>1, <2>4, <3>2
  <2> QED BY <2>3, <2>4
<1>11. AnnouncedUnlessCrashed'
  BY <1>2, <1>10 DEF AnnouncedUnlessCrashed
<1> QED BY <1>6, <1>8, <1>9, <1>11 DEF WorkerInv

LEMMA InsertEventKeeps ==
  ASSUME WorkerInv, NEW j \in JobIds, InsertEvent(j)
  PROVE  WorkerInv'
<1> DEFINE dev == job[j].dev
           new == [job[j] EXCEPT !.pc = "scan", !.todo = @ \ {dev}, !.dev = NoDevice]
<1>1. /\ job[j] \in JobState /\ job \in [JobIds -> JobState]
      /\ raised \in [Devices -> Nat] /\ announced \in [Devices -> Nat] /\ crashes \in Nat
  BY JobTyped, WorkerAssumption DEF WorkerInv, TypeOK
<1>2. /\ job[j].pc = "event" /\ dev \in Devices
      /\ announced' = [announced EXCEPT ![dev] = @ + 1]
      /\ UNCHANGED <<fieldVars, raised, closed, rules, crashes>>
  BY DEF InsertEvent, WorkerInv, DeviceChosen, DevicePcs
<1>3. new \in JobState /\ new.pc = "scan"
  BY <1>1 DEF JobState, Pcs
<1>4. job' = [job EXCEPT ![j] = new]
  BY <1>1 DEF InsertEvent
<1>5. j \in Running
  BY <1>2 DEF Running
<1> HIDE DEF new
<1>6. /\ job' \in [JobIds -> JobState] /\ Cardinality(Running') <= Concurrency
      /\ DeviceChosen'
  BY <1>3, <1>4, <1>5, JobStep DEF WorkerInv, DevicePcs
<1>7. j \in Unannounced(dev) /\ \A d : d # dev => j \notin Unannounced(d)
  BY <1>2 DEF Unannounced
<1> HIDE DEF dev
<1>8. announced' \in [Devices -> Nat] /\ announced'[dev] = announced[dev] + 1
      /\ \A d \in Devices : d # dev => announced'[d] = announced[d]
  BY <1>1, <1>2
<1>9. TypeOK'
  BY <1>2, <1>6, <1>8 DEF WorkerInv, TypeOK, fieldVars
<1>10. NoDuplicateAlert'
  BY <1>2 DEF WorkerInv, NoDuplicateAlert
<1>11. ASSUME NEW d \in Devices
       PROVE  LET owed == raised[d] - Cardinality(Unannounced(d)') IN
              announced'[d] <= owed /\ owed <= announced'[d] + crashes
  <2>1. LET owed == raised[d] - Cardinality(Unannounced(d)) IN
        announced[d] <= owed /\ owed <= announced[d] + crashes
    BY DEF WorkerInv, AnnouncedUnlessCrashed
  <2>2. Unannounced(d)' = Unannounced(d) \ {j}
    BY <1>3, <1>4, OwedStep DEF WorkerInv
  <2>3. CASE d = dev
    <3>1. Cardinality(Unannounced(d)') = Cardinality(Unannounced(d)) - 1
      BY <1>7, <2>2, <2>3, UnannouncedFinite, FS_RemoveElement
    <3>2. /\ Cardinality(Unannounced(d)) \in Nat /\ raised[d] \in Nat /\ announced[d] \in Nat
          /\ announced'[d] = announced[d] + 1
      BY <1>1, <1>8, <2>3, UnannouncedFinite
    <3> DEFINE card == Cardinality(Unannounced(d))
    <3>3. announced[d] <= raised[d] - card /\ raised[d] - card <= announced[d] + crashes
      BY <2>1
    <3>4. Cardinality(Unannounced(d)') = card - 1
      BY <3>1
    <3> HIDE DEF card
    <3>5. /\ announced'[d] <= raised[d] - (card - 1)
          /\ raised[d] - (card - 1) <= announced'[d] + crashes
      BY <1>1, <3>2, <3>3 DEF card
    <3> QED BY <3>4, <3>5
  <2>4. CASE d # dev
    <3>1. Unannounced(d)' = Unannounced(d)
      BY <1>7, <2>2, <2>4
    <3> QED BY <1>8, <2>1, <2>4, <3>1
  <2> QED BY <2>3, <2>4
<1>12. AnnouncedUnlessCrashed'
  BY <1>2, <1>11 DEF AnnouncedUnlessCrashed
<1> QED BY <1>6, <1>9, <1>10, <1>12 DEF WorkerInv

LEMMA CrashKeeps ==
  ASSUME WorkerInv, NEW j \in JobIds, Crash(j)
  PROVE  WorkerInv'
<1> DEFINE again == [NoJob EXCEPT !.pc = "waiting", !.attempt = job[j].attempt, !.stalled = TRUE]
           new == IF job[j].stalled THEN NoJob ELSE again
<1>1. /\ job[j].attempt \in 1..MaxAttempts /\ job \in [JobIds -> JobState]
      /\ raised \in [Devices -> Nat] /\ announced \in [Devices -> Nat]
      /\ crashes \in Nat /\ crashes + 1 \in 0..MaxCrashes
  BY JobTyped, WorkerAssumption DEF WorkerInv, TypeOK, Crash
<1>2. crashes' = crashes + 1 /\ UNCHANGED <<fieldVars, tableVars>>
  BY DEF Crash
<1>3. again \in JobState /\ again.pc = "waiting"
  BY <1>1, NoJobTyped DEF JobState, Pcs
<1>4. job' = [job EXCEPT ![j] = new]
  BY DEF Crash
<1> HIDE DEF again
<1>5. new \in JobState /\ new.pc \in {"none", "waiting"}
  BY <1>3, NoJobTyped
<1> HIDE DEF new
<1>6. /\ job' \in [JobIds -> JobState] /\ Cardinality(Running') <= Concurrency
      /\ DeviceChosen'
  BY <1>4, <1>5, JobStep DEF WorkerInv, DevicePcs
<1>7. TypeOK'
  BY <1>1, <1>2, <1>6 DEF WorkerInv, TypeOK, fieldVars, tableVars
<1>8. NoDuplicateAlert'
  BY <1>2 DEF WorkerInv, NoDuplicateAlert, tableVars
<1>9. ASSUME NEW d \in Devices
      PROVE  LET owed == raised[d] - Cardinality(Unannounced(d)') IN
             announced[d] <= owed /\ owed <= announced[d] + (crashes + 1)
  <2>1. LET owed == raised[d] - Cardinality(Unannounced(d)) IN
        announced[d] <= owed /\ owed <= announced[d] + crashes
    BY DEF WorkerInv, AnnouncedUnlessCrashed
  <2>2. Unannounced(d)' = Unannounced(d) \ {j}
    BY <1>4, <1>5, OwedStep DEF WorkerInv
  <2>3. \/ Cardinality(Unannounced(d)') = Cardinality(Unannounced(d))
        \/ Cardinality(Unannounced(d)') = Cardinality(Unannounced(d)) - 1
    BY <2>2, UnannouncedFinite, FS_RemoveElement
  <2> QED BY <1>1, <2>1, <2>3, UnannouncedFinite
<1>10. AnnouncedUnlessCrashed'
  BY <1>2, <1>9 DEF AnnouncedUnlessCrashed, tableVars
<1> QED BY <1>6, <1>7, <1>8, <1>10 DEF WorkerInv

-----------------------------------------------------------------------------
LEMMA NextKeepsInv ==
  ASSUME WorkerInv, [Next]_vars
  PROVE  WorkerInv'
<1>1. CASE UNCHANGED vars
  <2>1. Running' = Running /\ \A d : Unannounced(d)' = Unannounced(d)
    BY <1>1 DEF vars, Running, Unannounced
  <2> QED BY <1>1, <2>1 DEF vars, fieldVars, tableVars, WorkerInv, TypeOK, DeviceChosen,
                            NoDuplicateAlert, AnnouncedUnlessCrashed
<1>2. CASE \E d \in Devices : FlipSilence(d) \/ FlipMaintenance(d) \/ CloseAlert(d)
  BY <1>2, FieldKeeps
<1>3. CASE \E j \in JobIds : Schedule(j) \/ Scan(j) \/ Crash(j)
  BY <1>3, ScheduleKeeps, QuietScanKeeps, InsertAlertKeeps, InsertEventKeeps, CrashKeeps
  DEF Scan
<1> QED BY <1>1, <1>2, <1>3 DEF Next

(* The inductive invariant: a scan in the middle of raising an alert knows *)
(* for which device, so that what it still owes can be counted.            *)
THEOREM WorkerInvariant == Spec => []WorkerInv
<1>1. WorkerInv /\ [Next]_vars => WorkerInv'
  BY NextKeepsInv
<1> QED BY <1>1, InitInv, PTL DEF Spec

(* The tables, the queue and the scans keep their types, and no more scans *)
(* run at once than the worker's concurrency.                              *)
THEOREM WorkerTypes == Spec => []TypeOK
<1>1. WorkerInv => TypeOK
  BY DEF WorkerInv
<1> QED BY <1>1, WorkerInvariant, PTL

(* However often the job is retried, taken back or run beside itself, each *)
(* alert of a device but the first answers the closing of one.             *)
THEOREM WorkerNoDuplicateAlert == Spec => []NoDuplicateAlert
<1>1. WorkerInv => NoDuplicateAlert
  BY DEF WorkerInv
<1> QED BY <1>1, WorkerInvariant, PTL

(* checkNoCommunicationJob's two inserts: each alert is announced once, by *)
(* the scan that raised it, and each that never is was lost by a crash.    *)
THEOREM WorkerAnnouncedUnlessCrashed == Spec => []AnnouncedUnlessCrashed
<1>1. WorkerInv => AnnouncedUnlessCrashed
  BY DEF WorkerInv
<1> QED BY <1>1, WorkerInvariant, PTL
=============================================================================
