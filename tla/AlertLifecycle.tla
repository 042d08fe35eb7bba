---------------------------- MODULE AlertLifecycle ----------------------------
(***************************************************************************)
(* The alerts of one organization: the tables `alerts` and `alert_events`  *)
(* with their constraints (migration 0005) and the two families of request *)
(* that write them, AlertsService.createOrDeduplicate and                  *)
(* AlertsService.transition (apps/api/src/modules/alerts).                 *)
(*                                                                         *)
(* Grain of atomicity.  PostgreSQL runs every statement at READ COMMITTED. *)
(* createOrDeduplicate runs outside a transaction, so each of its          *)
(* statements is a step of its own.  transition runs in a transaction: its *)
(* SELECT takes no lock and is one step; from its UPDATE to its COMMIT it  *)
(* holds the row, no other request can read or change what it wrote, and   *)
(* that stretch is the other step.  A violated constraint rolls the        *)
(* transaction back.                                                       *)
(***************************************************************************)
EXTENDS Naturals, Sequences, FiniteSets, Functions

CONSTANTS
  Keys,           \* deduplication keys (rule and target)
  AlertIds,       \* primary keys the table may hand out; a bound of the model
  Detectors,      \* API requests that report anomalies
  Operators,      \* API requests that move alerts through their life cycle
  NoKey, NoAlert, \* the key of an absent row, the target of an idle request
  MaxDetections,  \* bound: detections reported
  MaxChanges,     \* bound: a transition starts only on a shorter trail
  MaxCrashes      \* bound: API requests that die half way

ASSUME AlertAssumption ==
  /\ NoKey \notin Keys
  /\ NoAlert \notin AlertIds
  /\ {MaxDetections, MaxChanges, MaxCrashes} \subseteq Nat

VARIABLES
  alert,      \* table alerts: id -> [key, status, occurrences]
  trail,      \* STATUS_CHANGED rows of alert_events, in commit order
  detected,   \* number of DETECTED rows of alert_events
  rules,      \* default detection rules created for the kind
  detector,   \* program counter and locals of createOrDeduplicate
  operator,   \* program counter and locals of transition
  detections, \* calls made per key (history, and the bound)
  crashes,    \* requests that died (the bound)
  orphans     \* alerts whose creator died before writing DETECTED (history)

tableVars == <<alert, trail, detected, rules>>
alertVars == <<alert, trail, detected, rules, detector, operator, detections,
               crashes, orphans>>

-----------------------------------------------------------------------------
(* Rows *)

ActiveStatuses == {"OPEN", "ACKNOWLEDGED", "INVESTIGATING"}
ClosedStatuses == {"RESOLVED", "DISMISSED"}
Statuses       == ActiveStatuses \cup ClosedStatuses

Row    == [key : Keys \cup {NoKey}, status : Statuses \cup {"ABSENT"},
           occurrences : Nat]
Absent == [key |-> NoKey, status |-> "ABSENT", occurrences |-> 0]

(* A status change; an operator's entry also stands for the row of         *)
(* audit_events that the same transaction writes with the same from and to.*)
Change == [from : Statuses, to : Statuses, by : {"operator", "order"}]

Exists(a)   == alert[a].status # "ABSENT"
IsActive(a) == alert[a].status \in ActiveStatuses
RowsOf(k)   == {a \in AlertIds : Exists(a) /\ alert[a].key = k}

(* Wrong on purpose: an index whose predicate lists OPEN alone.             *)
IndexOverOpenOnly(a, k, s) ==
  s = "OPEN" =>
    \A b \in AlertIds \ {a} : ~(alert[b].key = k /\ alert[b].status = "OPEN")

(* alerts_active_dedup_uidx: may row a, with key k, hold status s?         *)
IndexAdmits(a, k, s) ==
  s \in ActiveStatuses =>
    \A b \in AlertIds \ {a} : ~(alert[b].key = k /\ IsActive(b))

-----------------------------------------------------------------------------
(* Locals of the requests *)

DetectorPcs == {"idle", "dedup", "rule", "newRule", "insert", "event"}
IdleDetector == [pc |-> "idle", key |-> NoKey, target |-> NoAlert, seen |-> 0]
DetectorState == [pc : DetectorPcs, key : Keys \cup {NoKey},
                  target : AlertIds \cup {NoAlert}, seen : Nat]

OperatorActions == {"ACKNOWLEDGE", "INVESTIGATE", "RESOLVE", "DISMISS"}
(* Wrong on purpose: the status a cancelled work order has.                 *)
TargetStatusOfOrders(action) ==
  CASE action = "ACKNOWLEDGE" -> "ACKNOWLEDGED"
    [] action = "INVESTIGATE" -> "INVESTIGATING"
    [] action = "RESOLVE"     -> "RESOLVED"
    [] action = "DISMISS"     -> "CANCELLED"

TargetStatus(action) ==
  CASE action = "ACKNOWLEDGE" -> "ACKNOWLEDGED"
    [] action = "INVESTIGATE" -> "INVESTIGATING"
    [] action = "RESOLVE"     -> "RESOLVED"
    [] action = "DISMISS"     -> "DISMISSED"

IdleOperator == [pc |-> "idle", target |-> NoAlert, from |-> "OPEN",
                 to |-> "OPEN", reasonOk |-> TRUE]
OperatorState == [pc : {"idle", "commit"}, target : AlertIds \cup {NoAlert},
                  from : Statuses, to : Statuses, reasonOk : BOOLEAN]

AlertTypeOK ==
  /\ alert \in [AlertIds -> Row]
  /\ trail \in [AlertIds -> Seq(Change)]
  /\ detected \in [AlertIds -> Nat]
  /\ rules \in Nat
  /\ detector \in [Detectors -> DetectorState]
  /\ operator \in [Operators -> OperatorState]
  /\ detections \in [Keys -> Nat]
  /\ crashes \in Nat
  /\ orphans \subseteq AlertIds

AlertInit ==
  /\ alert = [a \in AlertIds |-> Absent]
  /\ trail = [a \in AlertIds |-> <<>>]
  /\ detected = [a \in AlertIds |-> 0]
  /\ rules = 0
  /\ detector = [d \in Detectors |-> IdleDetector]
  /\ operator = [o \in Operators |-> IdleOperator]
  /\ detections = [k \in Keys |-> 0]
  /\ crashes = 0
  /\ orphans = {}

-----------------------------------------------------------------------------
(* AlertsService.createOrDeduplicate, one autocommitted statement a step *)

GoTo(d, pc) == detector' = [detector EXCEPT ![d].pc = pc]
Finish(d)   == detector' = [detector EXCEPT ![d] = IdleDetector]

(* findAlertByDedupKey: LIMIT 1 without ORDER BY, so any row of the key,   *)
(* open or closed, may be the one read; an active one is to be updated.    *)
FindByDedupKey(d, k) ==
  /\ detector[d].pc = "idle"
  /\ SumFunction(detections) < MaxDetections
  /\ detections' = [detections EXCEPT ![k] = @ + 1]
  /\ \/ /\ RowsOf(k) = {}
        /\ detector' = [detector EXCEPT ![d] =
             [IdleDetector EXCEPT !.pc = "rule", !.key = k]]
     \/ \E a \in RowsOf(k) :
          detector' = [detector EXCEPT ![d] =
            IF IsActive(a)
            THEN [pc |-> "dedup", key |-> k, target |-> a,
                  seen |-> alert[a].occurrences]
            ELSE [IdleDetector EXCEPT !.pc = "rule", !.key = k]]
  /\ UNCHANGED <<tableVars, operator, crashes, orphans>>

(* Wrong on purpose: the count is written, and the request goes on to       *)
(* create an alert (no return); and a count that reopens the alert.        *)
DeduplicateAndGoOn(d) ==
  /\ detector[d].pc = "dedup"
  /\ alert' = [alert EXCEPT ![detector[d].target].occurrences =
                 detector[d].seen + 1]
  /\ GoTo(d, "rule")
  /\ UNCHANGED <<trail, detected, rules, operator, detections, crashes, orphans>>

DeduplicateReopening(d) ==
  /\ detector[d].pc = "dedup"
  /\ alert' = [alert EXCEPT ![detector[d].target].status = "OPEN",
                            ![detector[d].target].occurrences = detector[d].seen + 1]
  /\ Finish(d)
  /\ UNCHANGED <<trail, detected, rules, operator, detections, crashes, orphans>>

(* updateAlert by id: the status is not looked at again, and the count     *)
(* written is the one read plus one.                                       *)
Deduplicate(d) ==
  /\ detector[d].pc = "dedup"
  /\ alert' = [alert EXCEPT ![detector[d].target].occurrences =
                 detector[d].seen + 1]
  /\ Finish(d)
  /\ UNCHANGED <<trail, detected, rules, operator, detections, crashes, orphans>>

(* getOrCreateDefaultRule: a SELECT, and an INSERT when it found nothing.  *)
FindDefaultRule(d) ==
  /\ detector[d].pc = "rule"
  /\ GoTo(d, IF rules > 0 THEN "insert" ELSE "newRule")
  /\ UNCHANGED <<tableVars, operator, detections, crashes, orphans>>

CreateDefaultRule(d) ==
  /\ detector[d].pc = "newRule"
  /\ rules' = rules + 1
  /\ GoTo(d, "insert")
  /\ UNCHANGED <<alert, trail, detected, operator, detections, crashes, orphans>>

(* Wrong on purpose: the request ends without its DETECTED event.           *)
InsertAlertSilently(d) ==
  /\ detector[d].pc = "insert"
  /\ \E a \in AlertIds :
       /\ ~Exists(a)
       /\ IndexAdmits(a, detector[d].key, "OPEN")
       /\ alert' = [alert EXCEPT ![a] =
            [key |-> detector[d].key, status |-> "OPEN", occurrences |-> 1]]
  /\ Finish(d)
  /\ UNCHANGED <<trail, detected, rules, operator, detections, crashes, orphans>>

(* insertAlert: the row enters the table only past the unique index.       *)
InsertAlert(d) ==
  /\ detector[d].pc = "insert"
  /\ \E a \in AlertIds :
       /\ ~Exists(a)
       /\ IndexAdmits(a, detector[d].key, "OPEN")
       /\ alert' = [alert EXCEPT ![a] =
            [key |-> detector[d].key, status |-> "OPEN", occurrences |-> 1]]
       /\ detector' = [detector EXCEPT ![d].pc = "event", ![d].target = a]
  /\ UNCHANGED <<trail, detected, rules, operator, detections, crashes, orphans>>

(* The index refuses the row: the request ends in an error, and what it    *)
(* reported is written nowhere.                                            *)
RejectDuplicate(d) ==
  /\ detector[d].pc = "insert"
  /\ \E a \in RowsOf(detector[d].key) : IsActive(a)
  /\ Finish(d)
  /\ UNCHANGED <<tableVars, operator, detections, crashes, orphans>>

InsertDetectedEvent(d) ==
  /\ detector[d].pc = "event"
  /\ detected' = [detected EXCEPT ![detector[d].target] = @ + 1]
  /\ Finish(d)
  /\ UNCHANGED <<alert, trail, rules, operator, detections, crashes, orphans>>

(* The API process, or its connection, dies between two statements.        *)
CrashDetector(d) ==
  /\ detector[d].pc # "idle"
  /\ crashes < MaxCrashes
  /\ crashes' = crashes + 1
  /\ orphans' = IF detector[d].pc = "event" THEN orphans \cup {detector[d].target}
                                            ELSE orphans
  /\ Finish(d)
  /\ UNCHANGED <<tableVars, operator, detections>>

Detector(d) ==
  \/ \E k \in Keys : FindByDedupKey(d, k)
  \/ Deduplicate(d)
  \/ FindDefaultRule(d) \/ CreateDefaultRule(d)
  \/ InsertAlert(d) \/ RejectDuplicate(d)
  \/ InsertDetectedEvent(d)
  \/ CrashDetector(d)

-----------------------------------------------------------------------------
(* AlertsService.transition, in one transaction *)

(* Wrong on purpose: fromStatus and toStatus swapped in the event.          *)
MovesSwapped(a, change) ==
  /\ alert' = [alert EXCEPT ![a].status = change.to]
  /\ trail' = [trail EXCEPT ![a] =
       Append(@, [change EXCEPT !.from = change.to, !.to = change.from])]

(* updateAlert and insertAlertEvent in one transaction: the row takes the  *)
(* status and the history the entry.                                       *)
Moves(a, change) ==
  /\ alert' = [alert EXCEPT ![a].status = change.to]
  /\ trail' = [trail EXCEPT ![a] = Append(@, change)]

(* findAlert: an unlocked read.  No status forbids an action.              *)
ReadForTransition(o, a, action, reasonOk) ==
  /\ operator[o].pc = "idle"
  /\ Exists(a)
  /\ Len(trail[a]) < MaxChanges
  /\ operator' = [operator EXCEPT ![o] =
       [pc |-> "commit", target |-> a, from |-> alert[a].status,
        to |-> TargetStatus(action),
        reasonOk |-> (action = "DISMISS" => reasonOk)]]
  /\ UNCHANGED <<tableVars, detector, detections, crashes, orphans>>

(* alerts_dismissal_requires_reason and the unique index, on the row as    *)
(* the UPDATE leaves it.                                                   *)
TransitionAdmitted(o) ==
  LET r == operator[o] IN
  r.reasonOk /\ IndexAdmits(r.target, alert[r.target].key, r.to)

CommitTransition(o) ==
  LET r == operator[o] IN
  /\ r.pc = "commit"
  /\ TransitionAdmitted(o)
  /\ Moves(r.target, [from |-> r.from, to |-> r.to, by |-> "operator"])
  /\ operator' = [operator EXCEPT ![o] = IdleOperator]
  /\ UNCHANGED <<detected, rules, detector, detections, crashes, orphans>>

RollbackTransition(o) ==
  /\ operator[o].pc = "commit"
  /\ ~TransitionAdmitted(o)
  /\ operator' = [operator EXCEPT ![o] = IdleOperator]
  /\ UNCHANGED <<tableVars, detector, detections, crashes, orphans>>

Operator(o) ==
  \/ \E a \in AlertIds, action \in OperatorActions, reasonOk \in BOOLEAN :
       ReadForTransition(o, a, action, reasonOk)
  \/ CommitTransition(o) \/ RollbackTransition(o)

-----------------------------------------------------------------------------
AlertNext ==
  \/ \E d \in Detectors : Detector(d)
  \/ \E o \in Operators : Operator(o)

AlertSpec == AlertInit /\ [][AlertNext]_alertVars

-----------------------------------------------------------------------------
(* Properties *)

(* "At most one ACTIVE alert per (organization, key)": whatever is         *)
(* detected, closed and reopened, in any order, two rows of a key are      *)
(* never active together (alerts_active_dedup_uidx, on INSERT and UPDATE). *)
OneActivePerKey ==
  \A a, b \in AlertIds :
    IsActive(a) /\ IsActive(b) /\ alert[a].key = alert[b].key => a = b

(* The history explains the state: an alert is in the status its last      *)
(* committed STATUS_CHANGED event names, or OPEN if it never moved.  A     *)
(* stale read may spoil `from`, never `to`.                                *)
StatusIsLastChange ==
  \A a \in AlertIds :
    Exists(a) =>
      alert[a].status =
        IF trail[a] = <<>> THEN "OPEN" ELSE trail[a][Len(trail[a])].to

(* Every alert has exactly one DETECTED event, except while its creator is *)
(* between the two inserts, or for ever if the creator died there.         *)
DetectedExactlyOnce ==
  \A a \in AlertIds :
    /\ detected[a] <= 1
    /\ Exists(a) /\ detected[a] = 0 =>
         \/ a \in orphans
         \/ \E d \in Detectors : detector[d].pc = "event" /\ detector[d].target = a

(* The occurrences of the alerts of a key, set out one by one, are never   *)
(* more than the detections reported for it: a detection is counted on one *)
(* alert at most, even when that alert is closed, and another one created, *)
(* between the read of createOrDeduplicate and its write, and when a stale *)
(* count is written over a later one and then a later one over that.       *)
Occurrences(k) == UNION {{a} \X (1..alert[a].occurrences) : a \in RowsOf(k)}
NeverOvercounted == \A k \in Keys : Cardinality(Occurrences(k)) <= detections[k]

(* The tables keep the board's promise: every step puts one alert on the   *)
(* empty board of its key, files it, brings it back, or shows nothing.     *)
BoardActive == [k \in Keys |-> {a \in RowsOf(k) : IsActive(a)}]
BoardFiled  == [k \in Keys |-> {a \in RowsOf(k) : ~IsActive(a)}]
Board       == INSTANCE AlertBoard WITH active <- BoardActive, filed <- BoardFiled
KeepsTheBoard == Board!Spec

(* createOrDeduplicate either creates an alert or counts the detection on  *)
(* the active one; it never ends in a duplicate-key error.                 *)
DetectionNeverRejected ==
  [][\A d \in Detectors : ~RejectDuplicate(d)]_alertVars
=============================================================================
