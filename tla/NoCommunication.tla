--------------------------- MODULE NoCommunication ---------------------------
(***************************************************************************)
(* The worker that watches for silent sensors: checkNoCommunicationJob     *)
(* (apps/worker/src/jobs), run by BullMQ every five minutes, with retries  *)
(* and up to Concurrency scans at once.  Nothing of a scan runs in a       *)
(* transaction, so each of its statements is a step; an exception leaves   *)
(* what was written, and the job is tried again from the start.            *)
(*                                                                         *)
(* A device's alerts are told apart only by how many were raised, closed   *)
(* and announced: AlertLifecycle has their rows.                           *)
(***************************************************************************)
EXTENDS Naturals, FiniteSets

CONSTANTS
  Devices,     \* ACTIVE devices, each with a deduplication key of its own
  Fictional,   \* those registered with isFictional
  NoDevice,
  JobIds,      \* jobs the queue may hold at once; a bound of the model
  Concurrency, \* scans at once, over all the worker processes
  MaxAttempts, \* DEFAULT_JOB_OPTIONS.attempts
  MaxFlips,    \* bound: changes in the field (silence, maintenance)
  MaxCloses,   \* bound: alerts closed by operators
  MaxCrashes   \* bound: worker processes that die during a scan

ASSUME WorkerAssumption ==
  /\ Fictional \subseteq Devices
  /\ NoDevice \notin Devices
  /\ {Concurrency, MaxAttempts} \subseteq Nat \ {0}
  /\ {MaxFlips, MaxCloses, MaxCrashes} \subseteq Nat

ASSUME JobsAssumption == IsFiniteSet(JobIds)

VARIABLES
  silent,     \* devices last heard of more than two intervals ago
  maintained, \* devices in, or whose sector is in, a window in force
  raised,     \* alerts inserted per device
  closed,     \* alerts resolved or dismissed per device
  announced,  \* DETECTED events per device
  rules,      \* NO_COMMUNICATION rules created
  job,        \* the queue, and the locals of the scans in progress
  flips, crashes \* the bounds

tableVars == <<raised, closed, announced, rules>>
fieldVars == <<silent, maintained, flips>>
vars == <<fieldVars, tableVars, job, crashes>>

-----------------------------------------------------------------------------
Pcs == {"none", "waiting", "windows", "scan", "rule", "newRule", "insert", "event"}
NoJob == [pc |-> "none", attempt |-> 1, stalled |-> FALSE, todo |-> {}, dev |-> NoDevice]
JobState == [pc : Pcs, attempt : 1..MaxAttempts, stalled : BOOLEAN,
             todo : SUBSET Devices, dev : Devices \cup {NoDevice}]

HasActiveAlert(d) == raised[d] > closed[d]
Running == {j \in JobIds : job[j].pc \notin {"none", "waiting"}}

TypeOK ==
  /\ silent \subseteq Devices /\ maintained \subseteq Devices
  /\ {raised, closed, announced} \subseteq [Devices -> Nat]
  /\ rules \in Nat
  /\ job \in [JobIds -> JobState]
  /\ Cardinality(Running) <= Concurrency
  /\ flips \in 0..MaxFlips /\ crashes \in 0..MaxCrashes

Init ==
  /\ silent \in SUBSET Devices
  /\ maintained = {}
  /\ raised = [d \in Devices |-> 0]
  /\ closed = [d \in Devices |-> 0]
  /\ announced = [d \in Devices |-> 0]
  /\ rules = 0
  /\ job = [j \in JobIds |-> NoJob]
  /\ flips = 0
  /\ crashes = 0

-----------------------------------------------------------------------------
(* The field and the operators *)

Flip(set, d) == IF d \in set THEN set \ {d} ELSE set \cup {d}

(* A measurement arrives (lastReceivedAt), or none has for too long.       *)
FlipSilence(d) ==
  /\ flips < MaxFlips
  /\ flips' = flips + 1
  /\ silent' = Flip(silent, d)
  /\ UNCHANGED <<maintained, tableVars, job, crashes>>

(* A window is created, begins, ends or is cancelled.                      *)
FlipMaintenance(d) ==
  /\ flips < MaxFlips
  /\ flips' = flips + 1
  /\ maintained' = Flip(maintained, d)
  /\ UNCHANGED <<silent, tableVars, job, crashes>>

CloseAlert(d) ==
  /\ HasActiveAlert(d)
  /\ closed[d] < MaxCloses
  /\ closed' = [closed EXCEPT ![d] = @ + 1]
  /\ UNCHANGED <<fieldVars, raised, announced, rules, job, crashes>>

-----------------------------------------------------------------------------
(* The queue (BullMQ) *)

(* The scheduler keeps one next run in the queue (upsertJobScheduler).     *)
Schedule(j) ==
  /\ job[j].pc = "none"
  /\ \A i \in JobIds : ~(job[i].pc = "waiting" /\ job[i].attempt = 1)
  /\ job' = [job EXCEPT ![j].pc = "waiting"]
  /\ UNCHANGED <<fieldVars, tableVars, crashes>>

(* Wrong on purpose: the attempts are counted and never up.                 *)
RetryForEver(j) ==
  job' = [job EXCEPT ![j] =
    [NoJob EXCEPT !.pc = "waiting", !.attempt = job[j].attempt + 1,
                  !.stalled = job[j].stalled]]

(* An exception: tried again after a backoff, or kept among the failed.    *)
Retry(j) ==
  job' = [job EXCEPT ![j] =
    IF @.attempt < MaxAttempts
    THEN [NoJob EXCEPT !.pc = "waiting", !.attempt = job[j].attempt + 1,
                       !.stalled = job[j].stalled]
    ELSE NoJob]

(* The process dies; BullMQ gives a stalled job back once.                 *)
Crash(j) ==
  /\ j \in Running
  /\ crashes < MaxCrashes
  /\ crashes' = crashes + 1
  /\ job' = [job EXCEPT ![j] =
       IF @.stalled THEN NoJob
       ELSE [NoJob EXCEPT !.pc = "waiting", !.attempt = job[j].attempt,
                          !.stalled = TRUE]]
  /\ UNCHANGED <<fieldVars, tableVars>>

-----------------------------------------------------------------------------
(* checkNoCommunicationJob, statement by statement *)

To(j, pc) == job' = [job EXCEPT ![j].pc = pc]

ReadDevices(j) ==
  /\ job[j].pc = "waiting"
  /\ Cardinality(Running) < Concurrency
  /\ job' = [job EXCEPT ![j].pc = "windows", ![j].todo = silent]
  /\ UNCHANGED <<fieldVars, tableVars, crashes>>

ReadWindows(j) ==
  /\ job[j].pc = "windows"
  /\ job' = [job EXCEPT ![j].pc = "scan", ![j].todo = @ \ maintained]
  /\ UNCHANGED <<fieldVars, tableVars, crashes>>

(* The SELECT for an alert that is active (the first, wrong on purpose: for*)
(* one in any status).                                                     *)
ExistingInAnyStatus(d) == raised[d] > 0
Existing(d) == HasActiveAlert(d)

(* The next device, in whatever order the first SELECT gave them: with an  *)
(* active alert it is passed over.                                         *)
FindActiveAlert(j) ==
  /\ job[j].pc = "scan"
  /\ \E d \in job[j].todo :
       job' = [job EXCEPT ![j] =
         IF Existing(d) THEN [@ EXCEPT !.todo = job[j].todo \ {d}]
                        ELSE [@ EXCEPT !.pc = "rule", !.dev = d]]
  /\ UNCHANGED <<fieldVars, tableVars, crashes>>

FindRule(j) ==
  /\ job[j].pc = "rule"
  /\ To(j, IF rules > 0 THEN "insert" ELSE "newRule")
  /\ UNCHANGED <<fieldVars, tableVars, crashes>>

CreateRule(j) ==
  /\ job[j].pc = "newRule"
  /\ rules' = rules + 1
  /\ To(j, "insert")
  /\ UNCHANGED <<fieldVars, raised, closed, announced, crashes>>

(* alerts_active_dedup_uidx refuses a second active alert, and             *)
(* alerts_origin_simulation_consistent the alert of a fictional device:    *)
(* the job gives it origin SIMULATED and no simulation run.                *)
AdmittedWithoutIndex(d) == d \notin Fictional \* wrong on purpose
InsertAdmitted(d) == ~HasActiveAlert(d) /\ d \notin Fictional

(* Wrong on purpose: the scan moves on without the DETECTED event.          *)
InsertAlertSilently(j) ==
  LET d == job[j].dev IN
  /\ job[j].pc = "insert"
  /\ InsertAdmitted(d)
  /\ raised' = [raised EXCEPT ![d] = @ + 1]
  /\ To(j, "scan")
  /\ UNCHANGED <<fieldVars, closed, announced, rules, crashes>>

InsertAlert(j) ==
  LET d == job[j].dev IN
  /\ job[j].pc = "insert"
  /\ InsertAdmitted(d)
  /\ raised' = [raised EXCEPT ![d] = @ + 1]
  /\ To(j, "event")
  /\ UNCHANGED <<fieldVars, closed, announced, rules, crashes>>

InsertRefused(j) ==
  /\ job[j].pc = "insert"
  /\ ~InsertAdmitted(job[j].dev)
  /\ Retry(j)
  /\ UNCHANGED <<fieldVars, tableVars, crashes>>

InsertEvent(j) ==
  LET d == job[j].dev IN
  /\ job[j].pc = "event"
  /\ announced' = [announced EXCEPT ![d] = @ + 1]
  /\ job' = [job EXCEPT ![j].pc = "scan", ![j].todo = @ \ {d}, ![j].dev = NoDevice]
  /\ UNCHANGED <<fieldVars, raised, closed, rules, crashes>>

Complete(j) ==
  /\ job[j].pc = "scan"
  /\ job[j].todo = {}
  /\ job' = [job EXCEPT ![j] = NoJob]
  /\ UNCHANGED <<fieldVars, tableVars, crashes>>

Scan(j) ==
  \/ ReadDevices(j) \/ ReadWindows(j) \/ FindActiveAlert(j)
  \/ FindRule(j) \/ CreateRule(j)
  \/ InsertAlert(j) \/ InsertRefused(j) \/ InsertEvent(j)
  \/ Complete(j)

-----------------------------------------------------------------------------
Next ==
  \/ \E d \in Devices : FlipSilence(d) \/ FlipMaintenance(d) \/ CloseAlert(d)
  \/ \E j \in JobIds : Schedule(j) \/ Scan(j) \/ Crash(j)

(* The scheduler keeps firing and a worker that lives keeps working.       *)
Fairness ==
  /\ WF_vars(\E j \in JobIds : Schedule(j))
  /\ \A j \in JobIds : WF_vars(Scan(j))

Spec == Init /\ [][Next]_vars /\ Fairness

-----------------------------------------------------------------------------
(* Properties *)

(* A scan may be repeated (retry, stalled job) or run beside another: each *)
(* alert of a device but the first still answers the closing of one.       *)
NoDuplicateAlert == \A d \in Devices : raised[d] <= closed[d] + 1

(* Every alert is announced by the scan that raised it, and by no other;   *)
(* only a crash between the two inserts loses the announcement, and no     *)
(* repetition of the job makes up for it.                                  *)
Unannounced(d) == {j \in JobIds : job[j].pc = "event" /\ job[j].dev = d}
AnnouncedUnlessCrashed ==
  \A d \in Devices :
    LET owed == raised[d] - Cardinality(Unannounced(d)) IN
    announced[d] <= owed /\ owed <= announced[d] + crashes

(* "Avalia sensores inativos a cada 5 minutos e abre alertas               *)
(* NO_COMMUNICATION automaticamente": a real sensor that falls silent for  *)
(* good, outside maintenance, ends up with an alert, and with another one  *)
(* whenever it is closed.                                                  *)
SilenceIsAlerted ==
  \A d \in Devices \ Fictional :
    <>[](d \in silent \ maintained) => []<>HasActiveAlert(d)
=============================================================================
