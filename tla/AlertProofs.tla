------------------------------ MODULE AlertProofs ------------------------------
(***************************************************************************)
(* Proofs about AlertLifecycle and WorkOrders, for any number of requests, *)
(* alerts, orders and people and whatever the bounds: AlertLifecycle is    *)
(* right by itself and implements AlertBoard, what it promises survives the *)
(* requests for work orders, and orders and alerts stay in agreement.      *)
(***************************************************************************)
EXTENDS WorkOrders, SequenceTheorems, FiniteSetTheorems, TLAPS

-----------------------------------------------------------------------------
(***************************************************************************)
(* AlertLifecycle                                                          *)
(***************************************************************************)

LEMMA AlertInitTypeOK == AlertInit => AlertTypeOK
  BY AlertAssumption
  DEF AlertInit, AlertTypeOK, Row, Absent, IdleDetector, DetectorState,
      DetectorPcs, IdleOperator, OperatorState, Statuses, ActiveStatuses

LEMMA IdleTyped ==
  IdleDetector \in DetectorState /\ IdleOperator \in OperatorState
  BY DEF IdleDetector, DetectorState, DetectorPcs, IdleOperator, OperatorState,
         Statuses, ActiveStatuses

LEMMA TargetStatusTyped ==
  \A action \in OperatorActions : TargetStatus(action) \in Statuses
  BY DEF OperatorActions, TargetStatus, Statuses, ActiveStatuses, ClosedStatuses

-----------------------------------------------------------------------------
(* The locals of a request point at rows that exist, and what a row lacks  *)
(* before it exists it still lacks when it is inserted: the facts that     *)
(* make the properties inductive.                                          *)

AbsentRowsAreBlank ==
  \A a \in AlertIds :
    /\ ~Exists(a) => trail[a] = <<>> /\ detected[a] = 0
    /\ Exists(a) => alert[a].key \in Keys

DetectorsPointAtRows ==
  \A d \in Detectors :
    /\ detector[d].pc # "idle" => detector[d].key \in Keys
    /\ detector[d].pc \in {"dedup", "event"} =>
         detector[d].target \in AlertIds /\ Exists(detector[d].target)
    /\ detector[d].pc = "event" => detected[detector[d].target] = 0

WritersAreDistinct ==
  \A d, e \in Detectors :
    /\ detector[d].pc = "event"
    /\ detector[e].pc = "event"
    /\ detector[d].target = detector[e].target
    => d = e

OperatorsPointAtRows ==
  \A o \in Operators :
    operator[o].pc = "commit" =>
      operator[o].target \in AlertIds /\ Exists(operator[o].target)

AlertInv ==
  /\ AlertTypeOK
  /\ AbsentRowsAreBlank
  /\ DetectorsPointAtRows
  /\ WritersAreDistinct
  /\ OperatorsPointAtRows
  /\ OneActivePerKey
  /\ StatusIsLastChange
  /\ DetectedExactlyOnce
-----------------------------------------------------------------------------
(* A committed move of an existing row that the unique index admits keeps  *)
(* every table fact, whoever makes it.                                     *)
LEMMA MovesKeepsTables ==
  ASSUME AlertInv,
         NEW a \in AlertIds, Exists(a),
         NEW c \in Change,
         IndexAdmits(a, alert[a].key, c.to),
         Moves(a, c),
         UNCHANGED <<detected, detector, orphans>>
  PROVE  /\ alert' \in [AlertIds -> Row]
         /\ trail' \in [AlertIds -> Seq(Change)]
         /\ \A b \in AlertIds : Exists(b)' <=> Exists(b)
         /\ AbsentRowsAreBlank'
         /\ DetectorsPointAtRows'
         /\ WritersAreDistinct'
         /\ OneActivePerKey'
         /\ StatusIsLastChange'
         /\ DetectedExactlyOnce'
<1> USE DEF AlertInv, AlertTypeOK, Moves
<1>1. c.to \in Statuses /\ c.from \in Statuses /\ c.to # "ABSENT"
  BY DEF Change, Statuses, ActiveStatuses, ClosedStatuses
<1>2. alert' \in [AlertIds -> Row]
  BY <1>1 DEF Row
<1>3. trail' \in [AlertIds -> Seq(Change)]
  OBVIOUS
<1>4. \A b \in AlertIds :
        /\ alert'[b].key = alert[b].key
        /\ b # a => alert'[b] = alert[b] /\ trail'[b] = trail[b]
  BY DEF Row
<1>5. alert'[a].status = c.to /\ trail'[a] = Append(trail[a], c)
  BY DEF Row
<1>6. \A b \in AlertIds : Exists(b)' <=> Exists(b)
  BY <1>1, <1>4, <1>5 DEF Exists
<1>7. AbsentRowsAreBlank'
  BY <1>4, <1>6 DEF AbsentRowsAreBlank
<1>8. DetectorsPointAtRows'
  BY <1>6 DEF DetectorsPointAtRows
<1>9. WritersAreDistinct'
  BY DEF WritersAreDistinct
<1>10. OneActivePerKey'
  <2>1. \A b \in AlertIds : b # a => (IsActive(b)' <=> IsActive(b))
    BY <1>4 DEF IsActive
  <2>2. IsActive(a)' => \A b \in AlertIds \ {a} :
                          ~(alert[b].key = alert[a].key /\ IsActive(b))
    BY <1>5 DEF IsActive, IndexAdmits
  <2> QED BY <1>4, <2>1, <2>2 DEF OneActivePerKey
<1>11. StatusIsLastChange'
  <2>1. trail[a] \in Seq(Change)
    OBVIOUS
  <2>2. /\ trail'[a] # <<>>
        /\ trail'[a][Len(trail'[a])] = c
    <3> HIDE DEF AlertInv, AlertTypeOK, Moves
    <3>1. /\ Append(trail[a], c) # <<>>
          /\ Append(trail[a], c)[Len(trail[a]) + 1] = c
          /\ Len(Append(trail[a], c)) = Len(trail[a]) + 1
      BY <2>1, AppendProperties
    <3> QED BY <1>5, <3>1
  <2> QED BY <1>4, <1>5, <1>6, <2>2 DEF StatusIsLastChange
<1>12. DetectedExactlyOnce'
  BY <1>6 DEF DetectedExactlyOnce
<1> QED
  BY <1>2, <1>3, <1>6, <1>7, <1>8, <1>9, <1>10, <1>11, <1>12

-----------------------------------------------------------------------------
(* createOrDeduplicate, statement by statement *)

LEMMA FindKeepsInv ==
  ASSUME AlertInv, NEW d \in Detectors, NEW k \in Keys, FindByDedupKey(d, k)
  PROVE  AlertInv'
<1> USE DEF AlertInv, tableVars
<1>1. PICK s \in DetectorState :
        /\ detector' = [detector EXCEPT ![d] = s]
        /\ s.key = k
        /\ s.pc \in {"dedup", "rule"}
        /\ s.pc = "dedup" => s.target \in AlertIds /\ Exists(s.target)
  <2>1. [IdleDetector EXCEPT !.pc = "rule", !.key = k] \in DetectorState
    BY DEF IdleDetector, DetectorState, DetectorPcs
  <2>2. ASSUME NEW a \in RowsOf(k)
        PROVE  [pc |-> "dedup", key |-> k, target |-> a,
                seen |-> alert[a].occurrences] \in DetectorState
    BY DEF RowsOf, DetectorState, DetectorPcs, Row, AlertTypeOK
  <2>3. CASE RowsOf(k) = {}
    BY <2>1, <2>3 DEF FindByDedupKey, IdleDetector
  <2>4. CASE \E a \in RowsOf(k) :
               detector' = [detector EXCEPT ![d] =
                 IF IsActive(a)
                 THEN [pc |-> "dedup", key |-> k, target |-> a,
                       seen |-> alert[a].occurrences]
                 ELSE [IdleDetector EXCEPT !.pc = "rule", !.key = k]]
    BY <2>1, <2>2, <2>4 DEF IdleDetector, RowsOf
  <2> QED BY <2>3, <2>4 DEF FindByDedupKey
<1>2. /\ detections' \in [Keys -> Nat]
      /\ UNCHANGED <<alert, trail, detected, rules, operator, crashes, orphans>>
  BY DEF FindByDedupKey, AlertTypeOK
<1>3. detector[d].pc = "idle"
  BY DEF FindByDedupKey
<1>4. AlertTypeOK'
  BY <1>1, <1>2 DEF AlertTypeOK
<1>5. AbsentRowsAreBlank' /\ OneActivePerKey' /\ StatusIsLastChange'
  BY <1>2 DEF AbsentRowsAreBlank, OneActivePerKey, StatusIsLastChange, IsActive, Exists
<1>6. DetectorsPointAtRows'
  BY <1>1, <1>2 DEF DetectorsPointAtRows, Exists, AlertTypeOK
<1>7. WritersAreDistinct'
  BY <1>1, <1>2 DEF WritersAreDistinct, AlertTypeOK
<1>8. OperatorsPointAtRows'
  BY <1>2 DEF OperatorsPointAtRows, Exists
<1>9. DetectedExactlyOnce'
  BY <1>1, <1>2, <1>3 DEF DetectedExactlyOnce, Exists, AlertTypeOK
<1> QED BY <1>4, <1>5, <1>6, <1>7, <1>8, <1>9

LEMMA DeduplicateKeepsInv ==
  ASSUME AlertInv, NEW d \in Detectors, Deduplicate(d)
  PROVE  AlertInv'
<1> USE DEF AlertInv, Finish
<1> DEFINE t == detector[d].target
<1>1. /\ t \in AlertIds /\ Exists(t)
      /\ detector[d].seen \in Nat
  BY DEF Deduplicate, DetectorsPointAtRows, AlertTypeOK, DetectorState
<1>2. /\ alert' = [alert EXCEPT ![t].occurrences = detector[d].seen + 1]
      /\ detector' = [detector EXCEPT ![d] = IdleDetector]
      /\ detector[d].pc = "dedup"
      /\ UNCHANGED <<trail, detected, rules, operator, detections, crashes, orphans>>
  BY DEF Deduplicate
<1>3. /\ alert' \in [AlertIds -> Row]
      /\ \A b \in AlertIds : /\ alert'[b].key = alert[b].key
                             /\ alert'[b].status = alert[b].status
  <2>1. alert \in [AlertIds -> Row]
    BY DEF AlertTypeOK
  <2>2. DEFINE n == detector[d].seen + 1
  <2>3. n \in Nat /\ alert' = [alert EXCEPT ![t].occurrences = n]
    BY <1>1, <1>2
  <2> HIDE DEF n, t, AlertInv, Finish
  <2> QED BY <1>1, <2>1, <2>3 DEF Row
<1>4. AlertTypeOK'
  BY <1>2, <1>3, IdleTyped DEF AlertTypeOK
<1>5. AbsentRowsAreBlank' /\ OneActivePerKey' /\ StatusIsLastChange'
  BY <1>2, <1>3 DEF AbsentRowsAreBlank, OneActivePerKey, StatusIsLastChange,
                    IsActive, Exists
<1>6. DetectorsPointAtRows' /\ WritersAreDistinct'
  BY <1>2, <1>3 DEF DetectorsPointAtRows, WritersAreDistinct, Exists, AlertTypeOK,
                    IdleDetector
<1>7. OperatorsPointAtRows'
  BY <1>2, <1>3 DEF OperatorsPointAtRows, Exists
<1>8. DetectedExactlyOnce'
  BY <1>2, <1>3 DEF DetectedExactlyOnce, Exists, AlertTypeOK
<1> QED BY <1>4, <1>5, <1>6, <1>7, <1>8

LEMMA RuleStepsKeepInv ==
  ASSUME AlertInv, NEW d \in Detectors,
         FindDefaultRule(d) \/ CreateDefaultRule(d)
  PROVE  AlertInv'
<1> USE DEF AlertInv, tableVars
<1>1. PICK pc \in {"insert", "newRule"} : detector' = [detector EXCEPT ![d].pc = pc]
  BY DEF FindDefaultRule, CreateDefaultRule, GoTo
<1>2. /\ detector[d].pc \in {"rule", "newRule"}
      /\ rules' \in Nat
      /\ UNCHANGED <<alert, trail, detected, operator, detections, crashes, orphans>>
  BY DEF FindDefaultRule, CreateDefaultRule, AlertTypeOK
<1>3. AlertTypeOK'
  BY <1>1, <1>2 DEF AlertTypeOK, DetectorState, DetectorPcs
<1>4. AbsentRowsAreBlank' /\ OneActivePerKey' /\ StatusIsLastChange'
      /\ OperatorsPointAtRows'
  BY <1>2 DEF AbsentRowsAreBlank, OneActivePerKey, StatusIsLastChange,
              OperatorsPointAtRows, IsActive, Exists
<1>5. DetectorsPointAtRows' /\ WritersAreDistinct'
  BY <1>1, <1>2 DEF DetectorsPointAtRows, WritersAreDistinct, Exists, AlertTypeOK,
                    DetectorState
<1>6. DetectedExactlyOnce'
  BY <1>1, <1>2 DEF DetectedExactlyOnce, Exists, AlertTypeOK, DetectorState
<1> QED BY <1>3, <1>4, <1>5, <1>6

(* The step the unique index is for: a row enters the table.               *)
LEMMA InsertKeepsInv ==
  ASSUME AlertInv, NEW d \in Detectors, InsertAlert(d)
  PROVE  AlertInv'
<1> USE DEF AlertInv
<1>1. PICK a \in AlertIds :
        /\ ~Exists(a)
        /\ IndexAdmits(a, detector[d].key, "OPEN")
        /\ alert' = [alert EXCEPT ![a] =
             [key |-> detector[d].key, status |-> "OPEN", occurrences |-> 1]]
        /\ detector' = [detector EXCEPT ![d].pc = "event", ![d].target = a]
  BY DEF InsertAlert
<1>2. /\ detector[d].pc = "insert"
      /\ UNCHANGED <<trail, detected, rules, operator, detections, crashes, orphans>>
  BY DEF InsertAlert
<1>3. detector[d].key \in Keys
  BY <1>2 DEF DetectorsPointAtRows
<1>4. /\ alert'[a] = [key |-> detector[d].key, status |-> "OPEN", occurrences |-> 1]
      /\ \A b \in AlertIds \ {a} : alert'[b] = alert[b]
  BY <1>1 DEF AlertTypeOK
<1>5. /\ detector'[d].pc = "event"
      /\ detector'[d].target = a
      /\ detector'[d].key = detector[d].key
      /\ \A e \in Detectors \ {d} : detector'[e] = detector[e]
  BY <1>1 DEF AlertTypeOK, DetectorState
<1>6. AlertTypeOK'
  <2>1. alert' \in [AlertIds -> Row]
    BY <1>1, <1>3 DEF AlertTypeOK, Row, Statuses, ActiveStatuses
  <2>2. detector' \in [Detectors -> DetectorState]
    BY <1>1 DEF AlertTypeOK, DetectorState, DetectorPcs
  <2> QED BY <1>2, <2>1, <2>2 DEF AlertTypeOK
<1>7. /\ Exists(a)'
      /\ \A b \in AlertIds \ {a} : Exists(b)' <=> Exists(b)
  BY <1>4 DEF Exists
<1>8. trail[a] = <<>> /\ detected[a] = 0
  BY <1>1 DEF AbsentRowsAreBlank
<1>9. AbsentRowsAreBlank'
  BY <1>2, <1>3, <1>4, <1>7 DEF AbsentRowsAreBlank
<1>10. DetectorsPointAtRows'
  BY <1>2, <1>3, <1>5, <1>7, <1>8 DEF DetectorsPointAtRows
<1>11. WritersAreDistinct'
  <2>1. \A e \in Detectors \ {d} : detector[e].pc = "event" => detector[e].target # a
    BY <1>1 DEF DetectorsPointAtRows
  <2> QED BY <1>5, <2>1 DEF WritersAreDistinct
<1>12. OperatorsPointAtRows'
  BY <1>2, <1>7 DEF OperatorsPointAtRows
<1>13. OneActivePerKey'
  <2>1. \A b \in AlertIds \ {a} : ~(alert[b].key = detector[d].key /\ IsActive(b))
    BY <1>1 DEF IndexAdmits, ActiveStatuses
  <2>2. \A b \in AlertIds \ {a} : IsActive(b)' <=> IsActive(b)
    BY <1>4 DEF IsActive
  <2> QED BY <1>4, <2>1, <2>2 DEF OneActivePerKey
<1>14. StatusIsLastChange'
  BY <1>2, <1>4, <1>7, <1>8 DEF StatusIsLastChange
<1>15. DetectedExactlyOnce'
  <2>1. ASSUME NEW b \in AlertIds \ {a}
        PROVE  \A e \in Detectors : detector[e].pc = "event" /\ detector[e].target = b
                 => detector'[e].pc = "event" /\ detector'[e].target = b
    BY <1>2, <1>5
  <2>2. detected[a] <= 1 /\ \E e \in Detectors : detector'[e].pc = "event" /\ detector'[e].target = a
    BY <1>5, <1>8
  <2> QED BY <1>2, <1>7, <2>1, <2>2 DEF DetectedExactlyOnce
<1> QED BY <1>6, <1>9, <1>10, <1>11, <1>12, <1>13, <1>14, <1>15

LEMMA RejectKeepsInv ==
  ASSUME AlertInv, NEW d \in Detectors, RejectDuplicate(d)
  PROVE  AlertInv'
<1> USE DEF AlertInv, tableVars, Finish
<1>1. /\ detector' = [detector EXCEPT ![d] = IdleDetector]
      /\ detector[d].pc = "insert"
      /\ UNCHANGED <<alert, trail, detected, rules, operator, detections, crashes, orphans>>
  BY DEF RejectDuplicate
<1>2. AlertTypeOK'
  BY <1>1, IdleTyped DEF AlertTypeOK
<1>3. AbsentRowsAreBlank' /\ OneActivePerKey' /\ StatusIsLastChange'
      /\ OperatorsPointAtRows'
  BY <1>1 DEF AbsentRowsAreBlank, OneActivePerKey, StatusIsLastChange,
              OperatorsPointAtRows, IsActive, Exists
<1>4. DetectorsPointAtRows' /\ WritersAreDistinct'
  BY <1>1 DEF DetectorsPointAtRows, WritersAreDistinct, Exists, AlertTypeOK,
              IdleDetector
<1>5. DetectedExactlyOnce'
  BY <1>1 DEF DetectedExactlyOnce, Exists, AlertTypeOK
<1> QED BY <1>2, <1>3, <1>4, <1>5

LEMMA DetectedEventKeepsInv ==
  ASSUME AlertInv, NEW d \in Detectors, InsertDetectedEvent(d)
  PROVE  AlertInv'
<1> USE DEF AlertInv, Finish
<1> DEFINE t == detector[d].target
<1>1. /\ detector' = [detector EXCEPT ![d] = IdleDetector]
      /\ detector[d].pc = "event"
      /\ detected' = [detected EXCEPT ![t] = detected[t] + 1]
      /\ UNCHANGED <<alert, trail, rules, operator, detections, crashes, orphans>>
  BY DEF InsertDetectedEvent
<1>2. t \in AlertIds /\ Exists(t) /\ detected[t] = 0
  BY <1>1 DEF DetectorsPointAtRows
<1>3. detected'[t] = 1 /\ \A b \in AlertIds \ {t} : detected'[b] = detected[b]
  BY <1>1, <1>2 DEF AlertTypeOK
<1>4. \A e \in Detectors \ {d} :
        detector'[e] = detector[e] /\ (detector[e].pc = "event" => detector[e].target # t)
  BY <1>1 DEF WritersAreDistinct, AlertTypeOK
<1>5. detector'[d].pc = "idle"
  BY <1>1 DEF AlertTypeOK, IdleDetector
<1>6. AlertTypeOK'
  BY <1>1, <1>2, IdleTyped DEF AlertTypeOK
<1>7. AbsentRowsAreBlank' /\ OneActivePerKey' /\ StatusIsLastChange'
      /\ OperatorsPointAtRows'
  BY <1>1, <1>2, <1>3 DEF AbsentRowsAreBlank, OneActivePerKey, StatusIsLastChange,
              OperatorsPointAtRows, IsActive, Exists
<1>8. DetectorsPointAtRows'
  BY <1>1, <1>3, <1>4, <1>5 DEF DetectorsPointAtRows, Exists
<1>9. WritersAreDistinct'
  BY <1>4, <1>5 DEF WritersAreDistinct
<1>10. DetectedExactlyOnce'
  BY <1>1, <1>2, <1>3, <1>4 DEF DetectedExactlyOnce, Exists
<1> QED BY <1>6, <1>7, <1>8, <1>9, <1>10

LEMMA CrashKeepsInv ==
  ASSUME AlertInv, NEW d \in Detectors, CrashDetector(d)
  PROVE  AlertInv'
<1> USE DEF AlertInv, tableVars, Finish
<1>1. /\ detector' = [detector EXCEPT ![d] = IdleDetector]
      /\ crashes' = crashes + 1
      /\ orphans' = IF detector[d].pc = "event" THEN orphans \cup {detector[d].target}
                                                ELSE orphans
      /\ UNCHANGED <<alert, trail, detected, rules, operator, detections>>
  BY DEF CrashDetector
<1>2. detector[d].pc = "event" => detector[d].target \in AlertIds
  BY DEF DetectorsPointAtRows
<1>3. AlertTypeOK'
  BY <1>1, <1>2, IdleTyped DEF AlertTypeOK
<1>4. AbsentRowsAreBlank' /\ OneActivePerKey' /\ StatusIsLastChange'
      /\ OperatorsPointAtRows'
  BY <1>1 DEF AbsentRowsAreBlank, OneActivePerKey, StatusIsLastChange,
              OperatorsPointAtRows, IsActive, Exists
<1>5. DetectorsPointAtRows' /\ WritersAreDistinct'
  BY <1>1 DEF DetectorsPointAtRows, WritersAreDistinct, Exists, AlertTypeOK,
              IdleDetector
<1>6. DetectedExactlyOnce'
  BY <1>1 DEF DetectedExactlyOnce, Exists, AlertTypeOK
<1> QED BY <1>3, <1>4, <1>5, <1>6

-----------------------------------------------------------------------------
(* AlertsService.transition, and the theorems *)

LEMMA ReadKeepsInv ==
  ASSUME AlertInv, NEW o \in Operators, NEW a \in AlertIds,
         NEW action \in OperatorActions, NEW reasonOk \in BOOLEAN,
         ReadForTransition(o, a, action, reasonOk)
  PROVE  AlertInv'
<1> USE DEF AlertInv, tableVars
<1> DEFINE r == [pc |-> "commit", target |-> a, from |-> alert[a].status,
                 to |-> TargetStatus(action),
                 reasonOk |-> (action = "DISMISS" => reasonOk)]
<1>1. /\ operator' = [operator EXCEPT ![o] = r]
      /\ Exists(a)
      /\ UNCHANGED <<alert, trail, detected, rules, detector, detections, crashes, orphans>>
  BY DEF ReadForTransition
<1>2. alert[a].status \in Statuses
  BY <1>1 DEF AlertTypeOK, Row, Exists
<1>3. r \in OperatorState
  BY <1>2, TargetStatusTyped DEF OperatorState
<1>4. AlertTypeOK'
  <2> HIDE DEF r
  <2> QED BY <1>1, <1>3 DEF AlertTypeOK
<1>5. /\ AbsentRowsAreBlank' /\ OneActivePerKey' /\ StatusIsLastChange'
      /\ DetectorsPointAtRows' /\ WritersAreDistinct' /\ DetectedExactlyOnce'
  BY <1>1 DEF AbsentRowsAreBlank, OneActivePerKey, StatusIsLastChange, IsActive,
              Exists, DetectorsPointAtRows, WritersAreDistinct, DetectedExactlyOnce
<1>6. OperatorsPointAtRows'
  <2>1. \A p \in Operators : operator'[p] = IF p = o THEN r ELSE operator[p]
    BY <1>1 DEF AlertTypeOK
  <2> QED BY <1>1, <2>1 DEF OperatorsPointAtRows, Exists
<1> QED BY <1>4, <1>5, <1>6

LEMMA CommitKeepsInv ==
  ASSUME AlertInv, NEW o \in Operators, CommitTransition(o)
  PROVE  AlertInv'
<1> DEFINE t == operator[o].target
           c == [from |-> operator[o].from, to |-> operator[o].to, by |-> "operator"]
<1>1. /\ operator[o].pc = "commit"
      /\ IndexAdmits(t, alert[t].key, operator[o].to)
      /\ Moves(t, c)
      /\ operator' = [operator EXCEPT ![o] = IdleOperator]
      /\ UNCHANGED <<detected, rules, detector, detections, crashes, orphans>>
  BY DEF CommitTransition, TransitionAdmitted
<1>2. t \in AlertIds /\ Exists(t)
  BY <1>1 DEF AlertInv, OperatorsPointAtRows
<1>3. c \in Change
  BY DEF AlertInv, AlertTypeOK, OperatorState, Change
<1>4. c.to = operator[o].to
  OBVIOUS
<1>5. /\ alert' \in [AlertIds -> Row]
      /\ trail' \in [AlertIds -> Seq(Change)]
      /\ \A b \in AlertIds : Exists(b)' <=> Exists(b)
      /\ AbsentRowsAreBlank' /\ DetectorsPointAtRows' /\ WritersAreDistinct'
      /\ OneActivePerKey' /\ StatusIsLastChange' /\ DetectedExactlyOnce'
  <2> HIDE DEF t, c
  <2> QED BY <1>1, <1>2, <1>3, <1>4, MovesKeepsTables
<1>6. AlertTypeOK'
  BY <1>1, <1>5, IdleTyped DEF AlertInv, AlertTypeOK
<1>7. OperatorsPointAtRows'
  BY <1>1, <1>5 DEF OperatorsPointAtRows, AlertInv, AlertTypeOK, IdleOperator
<1> QED BY <1>5, <1>6, <1>7 DEF AlertInv

LEMMA RollbackKeepsInv ==
  ASSUME AlertInv, NEW o \in Operators, RollbackTransition(o)
  PROVE  AlertInv'
<1> USE DEF AlertInv, tableVars
<1>1. /\ operator' = [operator EXCEPT ![o] = IdleOperator]
      /\ UNCHANGED <<alert, trail, detected, rules, detector, detections, crashes, orphans>>
  BY DEF RollbackTransition
<1>2. AlertTypeOK'
  BY <1>1, IdleTyped DEF AlertTypeOK
<1>3. /\ AbsentRowsAreBlank' /\ OneActivePerKey' /\ StatusIsLastChange'
      /\ DetectorsPointAtRows' /\ WritersAreDistinct' /\ DetectedExactlyOnce'
  BY <1>1 DEF AbsentRowsAreBlank, OneActivePerKey, StatusIsLastChange, IsActive,
              Exists, DetectorsPointAtRows, WritersAreDistinct, DetectedExactlyOnce
<1>4. OperatorsPointAtRows'
  BY <1>1 DEF OperatorsPointAtRows, Exists, AlertTypeOK, IdleOperator
<1> QED BY <1>2, <1>3, <1>4

LEMMA StutterKeepsInv ==
  ASSUME AlertInv, UNCHANGED alertVars
  PROVE  AlertInv'
  BY DEF AlertInv, alertVars, AlertTypeOK, AbsentRowsAreBlank, DetectorsPointAtRows,
         WritersAreDistinct, OperatorsPointAtRows, OneActivePerKey,
         StatusIsLastChange, DetectedExactlyOnce, IsActive, Exists

LEMMA InitInv == AlertInit => AlertInv
<1> SUFFICES ASSUME AlertInit PROVE AlertInv
  OBVIOUS
<1>1. AlertTypeOK
  BY AlertInitTypeOK
<1>2. \A a \in AlertIds : ~Exists(a) /\ trail[a] = <<>> /\ detected[a] = 0
  BY DEF AlertInit, Exists, Absent
<1>3. /\ \A d \in Detectors : detector[d].pc = "idle"
      /\ \A o \in Operators : operator[o].pc = "idle"
  BY DEF AlertInit, IdleDetector, IdleOperator
<1>4. \A a \in AlertIds : ~IsActive(a)
  BY DEF AlertInit, IsActive, Absent, ActiveStatuses
<1> QED
  BY <1>1, <1>2, <1>3, <1>4
  DEF AlertInv, AbsentRowsAreBlank, DetectorsPointAtRows, WritersAreDistinct,
      OperatorsPointAtRows, OneActivePerKey, StatusIsLastChange, DetectedExactlyOnce

LEMMA NextKeepsInv == AlertInv /\ [AlertNext]_alertVars => AlertInv'
<1> SUFFICES ASSUME AlertInv, [AlertNext]_alertVars PROVE AlertInv'
  OBVIOUS
<1>1. CASE \E d \in Detectors : Detector(d)
  <2> PICK d \in Detectors : Detector(d)
    BY <1>1
  <2>1. CASE \E k \in Keys : FindByDedupKey(d, k)
    BY <2>1, FindKeepsInv
  <2>2. CASE Deduplicate(d)
    BY <2>2, DeduplicateKeepsInv
  <2>3. CASE FindDefaultRule(d) \/ CreateDefaultRule(d)
    BY <2>3, RuleStepsKeepInv
  <2>4. CASE InsertAlert(d)
    BY <2>4, InsertKeepsInv
  <2>5. CASE RejectDuplicate(d)
    BY <2>5, RejectKeepsInv
  <2>6. CASE InsertDetectedEvent(d)
    BY <2>6, DetectedEventKeepsInv
  <2>7. CASE CrashDetector(d)
    BY <2>7, CrashKeepsInv
  <2> QED BY <2>1, <2>2, <2>3, <2>4, <2>5, <2>6, <2>7 DEF Detector
<1>2. CASE \E o \in Operators : Operator(o)
  <2> PICK o \in Operators : Operator(o)
    BY <1>2
  <2>1. CASE \E a \in AlertIds, action \in OperatorActions, reasonOk \in BOOLEAN :
               ReadForTransition(o, a, action, reasonOk)
    BY <2>1, ReadKeepsInv
  <2>2. CASE CommitTransition(o)
    BY <2>2, CommitKeepsInv
  <2>3. CASE RollbackTransition(o)
    BY <2>3, RollbackKeepsInv
  <2> QED BY <2>1, <2>2, <2>3 DEF Operator
<1>3. CASE UNCHANGED alertVars
  BY <1>3, StutterKeepsInv
<1> QED BY <1>1, <1>2, <1>3 DEF AlertNext

(* The inductive invariant holds in every reachable state.                 *)
THEOREM AlertInvHolds == AlertSpec => []AlertInv
  BY InitInv, NextKeepsInv, PTL DEF AlertSpec

(* Every table and every request stays within its type.                    *)
THEOREM TypeOKHolds == AlertSpec => []AlertTypeOK
<1>1. AlertInv => AlertTypeOK
  BY DEF AlertInv
<1> QED BY <1>1, AlertInvHolds, PTL

(* Two rows of a key are never active together, for any number of          *)
(* requests, keys and rows.                                                *)
THEOREM OneActiveHolds == AlertSpec => []OneActivePerKey
<1>1. AlertInv => OneActivePerKey
  BY DEF AlertInv
<1> QED BY <1>1, AlertInvHolds, PTL

(* The last committed change of an alert names the status it is in.        *)
THEOREM StatusIsLastChangeHolds == AlertSpec => []StatusIsLastChange
<1>1. AlertInv => StatusIsLastChange
  BY DEF AlertInv
<1> QED BY <1>1, AlertInvHolds, PTL

(* No alert is announced twice, and one that is not announced has a live   *)
(* creator about to announce it or a dead one that never will.             *)
THEOREM DetectedExactlyOnceHolds == AlertSpec => []DetectedExactlyOnce
<1>1. AlertInv => DetectedExactlyOnce
  BY DEF AlertInv
<1> QED BY <1>1, AlertInvHolds, PTL

-----------------------------------------------------------------------------
(* Counting.  What bounds the occurrences of a key is not what its rows    *)
(* say, for a stale count takes them back, but what they have reached:     *)
(* their count or one that a request under way has read there.  Detections *)
(* that have not been counted are due.                                     *)
Shown(a, i) ==
  /\ i # 0 /\ Exists(a)
  /\ \/ i <= alert[a].occurrences
     \/ \E d \in Detectors :
          detector[d].pc = "dedup" /\ detector[d].target = a /\ i <= detector[d].seen

Reached(k) == {p \in AlertIds \X Nat : alert[p[1]].key = k /\ Shown(p[1], p[2])}

ToCount == {"dedup", "rule", "newRule", "insert"}
Due(k)  == {d \in Detectors : detector[d].key = k /\ detector[d].pc \in ToCount}

Fits(A, B, n) == IsFiniteSet(A) /\ IsFiniteSet(B) /\ Cardinality(A) + Cardinality(B) <= n

CountInv ==
  /\ \A d \in Detectors :
       detector[d].pc = "dedup" => alert[detector[d].target].key = detector[d].key
  /\ \A k \in Keys : Fits(Reached(k), Due(k), detections[k])

LEMMA OneMore ==
  ASSUME NEW S, NEW x, IsFiniteSet(S)
  PROVE  /\ IsFiniteSet(S \cup {x}) /\ Cardinality(S \cup {x}) \in Nat
         /\ Cardinality(S \cup {x}) <= Cardinality(S) + 1
<1>1. /\ IsFiniteSet(S \cup {x})
      /\ Cardinality(S \cup {x}) = IF x \in S THEN Cardinality(S) ELSE Cardinality(S) + 1
  BY FS_AddElement
<1>2. Cardinality(S) \in Nat
  BY FS_CardinalityType
<1> QED BY <1>1, <1>2

(* How the two sets may move: less, one detection counted, one more.       *)
LEMMA FitsLess ==
  ASSUME NEW A, NEW B, NEW n \in Nat, Fits(A, B, n), NEW A1, NEW B1,
         A1 \subseteq A, B1 \subseteq B
  PROVE  Fits(A1, B1, n)
<1>1. IsFiniteSet(A) /\ IsFiniteSet(B) /\ Cardinality(A) \in Nat /\ Cardinality(B) \in Nat
      /\ Cardinality(A) + Cardinality(B) <= n
  BY FS_CardinalityType DEF Fits
<1>2. /\ IsFiniteSet(A1) /\ Cardinality(A1) \in Nat /\ Cardinality(A1) <= Cardinality(A)
      /\ IsFiniteSet(B1) /\ Cardinality(B1) \in Nat /\ Cardinality(B1) <= Cardinality(B)
  BY <1>1, FS_Subset, FS_CardinalityType
<1> QED BY <1>1, <1>2 DEF Fits

GainsOne(A, A1) == \E x : A1 \subseteq A \cup {x}
LosesOne(B, B1) == \E d \in B : B1 \subseteq B \ {d}

LEMMA FitsCounted ==
  ASSUME NEW A, NEW B, NEW n \in Nat, Fits(A, B, n), NEW A1, NEW B1,
         GainsOne(A, A1), LosesOne(B, B1)
  PROVE  Fits(A1, B1, n)
<1> PICK x : A1 \subseteq A \cup {x}
  BY DEF GainsOne
<1> PICK d \in B : B1 \subseteq B \ {d}
  BY DEF LosesOne
<1>1. IsFiniteSet(A) /\ IsFiniteSet(B) /\ Cardinality(A) \in Nat /\ Cardinality(B) \in Nat
      /\ Cardinality(A) + Cardinality(B) <= n
  BY FS_CardinalityType DEF Fits
<1>2. /\ IsFiniteSet(A \cup {x}) /\ Cardinality(A \cup {x}) \in Nat
      /\ Cardinality(A \cup {x}) <= Cardinality(A) + 1
  BY <1>1, OneMore
<1>3. IsFiniteSet(B \ {d}) /\ Cardinality(B \ {d}) = Cardinality(B) - 1
  BY <1>1, FS_RemoveElement
<1>4. /\ IsFiniteSet(A1) /\ Cardinality(A1) \in Nat /\ Cardinality(A1) <= Cardinality(A \cup {x})
      /\ IsFiniteSet(B1) /\ Cardinality(B1) \in Nat /\ Cardinality(B1) <= Cardinality(B \ {d})
  BY <1>2, <1>3, FS_Subset, FS_CardinalityType
<1> QED BY <1>1, <1>2, <1>3, <1>4 DEF Fits

LEMMA FitsOneMore ==
  ASSUME NEW A, NEW B, NEW n \in Nat, Fits(A, B, n), NEW A1, NEW B1, NEW d,
         A1 \subseteq A, B1 \subseteq B \cup {d}
  PROVE  Fits(A1, B1, n + 1)
<1>0. IsFiniteSet(A) /\ IsFiniteSet(B) /\ Cardinality(A) \in Nat /\ Cardinality(B) \in Nat
      /\ Cardinality(A) + Cardinality(B) <= n
  BY FS_CardinalityType DEF Fits
<1>1. /\ IsFiniteSet(B \cup {d}) /\ Cardinality(B \cup {d}) \in Nat
      /\ Cardinality(B \cup {d}) <= Cardinality(B) + 1
  BY <1>0, OneMore
<1>2. /\ IsFiniteSet(A1) /\ Cardinality(A1) \in Nat /\ Cardinality(A1) <= Cardinality(A)
      /\ IsFiniteSet(B1) /\ Cardinality(B1) \in Nat /\ Cardinality(B1) <= Cardinality(B \cup {d})
  BY <1>0, <1>1, FS_Subset, FS_CardinalityType
<1> QED BY <1>0, <1>1, <1>2 DEF Fits

(* A step that counts nothing: rows keep what is counted in them, and      *)
(* requests go on with their key, come no nearer to counting, or end.      *)
LEMMA NothingCounted ==
  ASSUME AlertInv, CountInv, detections' = detections,
         \A a \in AlertIds : /\ Exists(a)' <=> Exists(a)
                             /\ alert'[a].key = alert[a].key
                             /\ alert'[a].occurrences = alert[a].occurrences,
         \A d \in Detectors :
           detector'[d].pc \in ToCount =>
             /\ detector[d].pc \in ToCount /\ detector'[d].key = detector[d].key
             /\ detector'[d].pc = "dedup" => detector'[d] = detector[d]
  PROVE  CountInv'
<1>1. ASSUME NEW k \in Keys PROVE Reached(k)' \subseteq Reached(k) /\ Due(k)' \subseteq Due(k)
  <2>1. ASSUME NEW a \in AlertIds, NEW i \in Nat, Shown(a, i)' PROVE Shown(a, i)
    BY <2>1 DEF Shown, ToCount
  <2> QED BY <2>1 DEF Reached, Due
<1>2. ASSUME NEW d \in Detectors, detector'[d].pc = "dedup"
      PROVE  alert'[detector'[d].target].key = detector'[d].key
  <2>1. detector'[d] = detector[d] /\ detector[d].pc = "dedup"
    BY <1>2 DEF ToCount
  <2>2. detector[d].target \in AlertIds
    BY <2>1 DEF AlertInv, DetectorsPointAtRows
  <2> QED BY <2>1, <2>2 DEF CountInv
<1>3. ASSUME NEW k \in Keys PROVE Fits(Reached(k)', Due(k)', detections'[k])
  <2>1. Fits(Reached(k), Due(k), detections[k]) /\ detections[k] \in Nat
    BY DEF CountInv, AlertInv, AlertTypeOK
  <2> QED BY <1>1, <2>1, FitsLess
<1> QED BY <1>2, <1>3 DEF CountInv, Fits
LEMMA FindCounts ==
  ASSUME AlertInv, CountInv, NEW d \in Detectors, NEW k \in Keys, FindByDedupKey(d, k)
  PROVE  CountInv'
<1> USE DEF AlertInv, tableVars
<1>1. /\ UNCHANGED alert /\ detections' = [detections EXCEPT ![k] = @ + 1]
      /\ detections \in [Keys -> Nat]
      /\ \A e \in Detectors : e # d => detector'[e] = detector[e]
  BY DEF FindByDedupKey, AlertTypeOK
<1>2. /\ detector'[d].key = k
      /\ detector'[d].pc = "dedup" =>
           /\ detector'[d].target \in RowsOf(k)
           /\ detector'[d].seen = alert[detector'[d].target].occurrences
  <2>1. d \in DOMAIN detector
    BY DEF AlertTypeOK
  <2>2. CASE RowsOf(k) = {}
    BY <2>1, <2>2 DEF FindByDedupKey, IdleDetector
  <2>3. CASE \E a \in RowsOf(k) :
               detector' = [detector EXCEPT ![d] =
                 IF IsActive(a)
                 THEN [pc |-> "dedup", key |-> k, target |-> a,
                       seen |-> alert[a].occurrences]
                 ELSE [IdleDetector EXCEPT !.pc = "rule", !.key = k]]
    BY <2>1, <2>3 DEF IdleDetector
  <2> QED BY <2>2, <2>3 DEF FindByDedupKey
<1>3. ASSUME NEW a \in AlertIds, NEW i \in Nat, Shown(a, i)' PROVE Shown(a, i)
  <2> HIDE DEF AlertInv
  <2> QED BY <1>1, <1>2, <1>3 DEF Shown, Exists, RowsOf
<1>4. \A c \in Keys : Reached(c)' \subseteq Reached(c)
  BY <1>1, <1>3 DEF Reached
<1>5. \A c \in Keys : IF c = k THEN Due(c)' \subseteq Due(c) \cup {d} ELSE Due(c)' \subseteq Due(c)
  BY <1>1, <1>2 DEF Due
<1>6. ASSUME NEW c \in Keys PROVE Fits(Reached(c)', Due(c)', detections'[c])
  <2>1. Fits(Reached(c), Due(c), detections[c]) /\ detections[c] \in Nat
    BY <1>1 DEF CountInv
  <2>2. CASE c = k
    BY <1>1, <1>4, <1>5, <2>1, <2>2, FitsOneMore
  <2>3. CASE c # k
    BY <1>1, <1>4, <1>5, <2>1, <2>3, FitsLess
  <2> QED BY <2>2, <2>3
<1>7. ASSUME NEW e \in Detectors, detector'[e].pc = "dedup"
      PROVE  alert'[detector'[e].target].key = detector'[e].key
  BY <1>1, <1>2, <1>7 DEF CountInv, RowsOf
<1> QED BY <1>6, <1>7 DEF CountInv, Fits

LEMMA DeduplicateCounts ==
  ASSUME AlertInv, CountInv, NEW d \in Detectors, Deduplicate(d)
  PROVE  CountInv'
<1> USE DEF AlertInv
<1>1. PICK t \in AlertIds, n \in Nat, k \in Keys :
        /\ detector[d].target = t /\ detector[d].seen = n /\ detector[d].key = k
        /\ Exists(t) /\ alert[t].key = k
        /\ detector[d].pc = "dedup"
        /\ alert' = [alert EXCEPT ![t].occurrences = n + 1]
        /\ detector' = [detector EXCEPT ![d] = IdleDetector]
        /\ detections' = detections
  BY DEF Deduplicate, Finish, DetectorsPointAtRows, AlertTypeOK, DetectorState, CountInv
<1>2. /\ alert \in [AlertIds -> Row] /\ detector \in [Detectors -> DetectorState]
      /\ detections \in [Keys -> Nat]
  BY DEF AlertTypeOK
<1> HIDE DEF AlertInv
<1>3. /\ \A a \in AlertIds : alert'[a].key = alert[a].key /\ (Exists(a)' <=> Exists(a))
      /\ \A a \in AlertIds : a # t => alert'[a].occurrences = alert[a].occurrences
      /\ alert'[t].occurrences = n + 1
  BY <1>1, <1>2 DEF Row, Exists
<1>4. /\ \A e \in Detectors : e # d => detector'[e] = detector[e]
      /\ detector'[d].pc = "idle"
  BY <1>1, <1>2 DEF IdleDetector
<1>5. ASSUME NEW a \in AlertIds, NEW i \in Nat, Shown(a, i)', ~Shown(a, i)
      PROVE  a = t /\ i = n + 1
  <2>1. CASE a # t
    BY <1>3, <1>4, <1>5, <2>1 DEF Shown
  <2>2. CASE a = t /\ i <= n
    BY <1>1, <1>3, <1>5, <2>2 DEF Shown
  <2>3. CASE a = t /\ ~(i <= n) /\ i # n + 1
    BY <1>3, <1>4, <1>5, <2>3 DEF Shown
  <2> QED BY <2>1, <2>2, <2>3
<1>6. ASSUME NEW c \in Keys PROVE Reached(c)' \subseteq Reached(c) \cup {<<t, n + 1>>}
  <2> SUFFICES ASSUME NEW p \in Reached(c)', p \notin Reached(c) PROVE p = <<t, n + 1>>
    OBVIOUS
  <2>1. p \in AlertIds \X Nat /\ p[1] \in AlertIds /\ p[2] \in Nat /\ p = <<p[1], p[2]>>
    BY DEF Reached
  <2>2. Shown(p[1], p[2])' /\ ~Shown(p[1], p[2])
    BY <1>3, <2>1 DEF Reached
  <2> QED BY <1>5, <2>1, <2>2
<1>7. ASSUME NEW c \in Keys, c # k PROVE Reached(c)' \subseteq Reached(c) /\ Due(c)' \subseteq Due(c)
  <2>1. Due(c)' \subseteq Due(c)
    BY <1>4 DEF Due, ToCount
  <2>2. <<t, n + 1>> \notin Reached(c)'
    BY <1>1, <1>3, <1>7 DEF Reached
  <2> QED BY <1>6, <2>1, <2>2
<1>8. d \in Due(k) /\ Due(k)' \subseteq Due(k) \ {d}
  BY <1>1, <1>4 DEF Due, ToCount
<1>9. ASSUME NEW c \in Keys PROVE Fits(Reached(c)', Due(c)', detections'[c])
  <2>1. Fits(Reached(c), Due(c), detections[c]) /\ detections[c] \in Nat /\ detections'[c] = detections[c]
    BY <1>1, <1>2 DEF CountInv
  <2>2. CASE c = k
    <3>1. GainsOne(Reached(c), Reached(c)')
      BY <1>6 DEF GainsOne
    <3>2. LosesOne(Due(c), Due(c)')
      BY <1>8, <2>2 DEF LosesOne
    <3>3. Fits(Reached(c)', Due(c)', detections[c])
      BY <2>1, <3>1, <3>2, FitsCounted
    <3> QED BY <2>1, <3>3
  <2>3. CASE c # k
    BY <1>7, <2>1, <2>3, FitsLess
  <2> QED BY <2>2, <2>3
<1>10. ASSUME NEW e \in Detectors, detector'[e].pc = "dedup"
       PROVE  alert'[detector'[e].target].key = detector'[e].key
  <2>1. detector'[e] = detector[e] /\ detector[e].target \in AlertIds
    BY <1>4, <1>10 DEF AlertInv, DetectorsPointAtRows
  <2> QED BY <1>3, <1>10, <2>1 DEF CountInv
<1> QED BY <1>9, <1>10 DEF CountInv, Fits

LEMMA InsertCounts ==
  ASSUME AlertInv, CountInv, NEW d \in Detectors, InsertAlert(d)
  PROVE  CountInv'
<1> USE DEF AlertInv
<1>1. PICK t \in AlertIds, k \in Keys :
        /\ ~Exists(t)
        /\ detector[d].pc = "insert" /\ detector[d].key = k
        /\ alert' = [alert EXCEPT ![t] = [key |-> k, status |-> "OPEN", occurrences |-> 1]]
        /\ detector' = [detector EXCEPT ![d].pc = "event", ![d].target = t]
        /\ detections' = detections
  BY DEF InsertAlert, DetectorsPointAtRows
<1>2. /\ alert \in [AlertIds -> Row] /\ detector \in [Detectors -> DetectorState]
      /\ detections \in [Keys -> Nat]
  BY DEF AlertTypeOK
<1>3. \A e \in Detectors : detector[e].pc = "dedup" =>
        detector[e].target \in AlertIds /\ detector[e].target # t
  BY <1>1 DEF DetectorsPointAtRows
<1> HIDE DEF AlertInv
<1>4. /\ \A a \in AlertIds : a # t => alert'[a] = alert[a]
      /\ alert'[t].key = k /\ alert'[t].occurrences = 1
  BY <1>1, <1>2
<1>5. /\ \A e \in Detectors : e # d => detector'[e] = detector[e]
      /\ detector'[d].pc = "event"
  BY <1>1, <1>2 DEF DetectorState
<1>6. ASSUME NEW a \in AlertIds, NEW i \in Nat, Shown(a, i)'
      PROVE  \/ a # t /\ Shown(a, i)
             \/ a = t /\ i = 1
  <2>1. CASE a # t
    <3>1. (Exists(a)' <=> Exists(a)) /\ alert'[a].occurrences = alert[a].occurrences
      BY <1>4, <2>1 DEF Exists
    <3>2. \A e \in Detectors : detector'[e].pc = "dedup" => detector'[e] = detector[e]
      BY <1>5
    <3>3. i # 0 /\ Exists(a)
      BY <1>6, <3>1 DEF Shown
    <3>4. CASE i <= alert'[a].occurrences
      BY <2>1, <3>1, <3>3, <3>4 DEF Shown
    <3>5. CASE \E e \in Detectors : /\ detector'[e].pc = "dedup" /\ detector'[e].target = a
                                    /\ i <= detector'[e].seen
      BY <2>1, <3>2, <3>3, <3>5 DEF Shown
    <3> QED BY <1>6, <3>4, <3>5 DEF Shown
  <2>2. CASE a = t
    BY <1>3, <1>4, <1>5, <1>6, <2>2 DEF Shown
  <2> QED BY <2>1, <2>2
<1>7. ASSUME NEW c \in Keys PROVE Reached(c)' \subseteq Reached(c) \cup {<<t, 1>>}
  <2> SUFFICES ASSUME NEW p \in Reached(c)', p \notin Reached(c) PROVE p = <<t, 1>>
    OBVIOUS
  <2>1. p \in AlertIds \X Nat /\ p[1] \in AlertIds /\ p[2] \in Nat /\ p = <<p[1], p[2]>>
    BY DEF Reached
  <2>2. Shown(p[1], p[2])' /\ (p[1] # t => ~Shown(p[1], p[2]))
    BY <1>4, <2>1 DEF Reached
  <2> QED BY <1>6, <2>1, <2>2
<1>8. ASSUME NEW c \in Keys, c # k PROVE Reached(c)' \subseteq Reached(c) /\ Due(c)' \subseteq Due(c)
  <2>1. Due(c)' \subseteq Due(c)
    BY <1>5 DEF Due, ToCount
  <2>2. <<t, 1>> \notin Reached(c)'
    BY <1>4, <1>8 DEF Reached
  <2> QED BY <1>7, <2>1, <2>2
<1>9. d \in Due(k) /\ Due(k)' \subseteq Due(k) \ {d}
  BY <1>1, <1>5 DEF Due, ToCount
<1>10. ASSUME NEW c \in Keys PROVE Fits(Reached(c)', Due(c)', detections'[c])
  <2>1. Fits(Reached(c), Due(c), detections[c]) /\ detections[c] \in Nat /\ detections'[c] = detections[c]
    BY <1>1, <1>2 DEF CountInv
  <2>2. CASE c = k
    <3>1. GainsOne(Reached(c), Reached(c)')
      BY <1>7 DEF GainsOne
    <3>2. LosesOne(Due(c), Due(c)')
      BY <1>9, <2>2 DEF LosesOne
    <3>3. Fits(Reached(c)', Due(c)', detections[c])
      BY <2>1, <3>1, <3>2, FitsCounted
    <3> QED BY <2>1, <3>3
  <2>3. CASE c # k
    BY <1>8, <2>1, <2>3, FitsLess
  <2> QED BY <2>2, <2>3
<1>11. ASSUME NEW e \in Detectors, detector'[e].pc = "dedup"
       PROVE  alert'[detector'[e].target].key = detector'[e].key
  BY <1>3, <1>4, <1>5, <1>11 DEF CountInv
<1> QED BY <1>10, <1>11 DEF CountInv, Fits
(* The other statements of createOrDeduplicate count nothing.              *)
LEMMA DetectorCounts ==
  ASSUME AlertInv, CountInv, NEW d \in Detectors, Detector(d)
  PROVE  CountInv'
<1>1. CASE \E k \in Keys : FindByDedupKey(d, k)
  BY <1>1, FindCounts
<1>2. CASE Deduplicate(d)
  BY <1>2, DeduplicateCounts
<1>3. CASE InsertAlert(d)
  BY <1>3, InsertCounts
<1>4. CASE \/ FindDefaultRule(d) \/ CreateDefaultRule(d) \/ RejectDuplicate(d)
           \/ InsertDetectedEvent(d) \/ CrashDetector(d)
  <2>1. UNCHANGED <<alert, detections>>
    BY <1>4 DEF FindDefaultRule, CreateDefaultRule, RejectDuplicate, InsertDetectedEvent,
                CrashDetector, tableVars
  <2>2. detector \in [Detectors -> DetectorState]
    BY DEF AlertInv, AlertTypeOK
  <2>3. \A e \in Detectors : e # d => detector'[e] = detector[e]
    BY <1>4, <2>2 DEF FindDefaultRule, CreateDefaultRule, RejectDuplicate, InsertDetectedEvent,
                      CrashDetector, GoTo, Finish
  <2>4. \/ detector'[d].pc = "idle"
        \/ /\ detector'[d].pc \in {"newRule", "insert"} /\ detector'[d].key = detector[d].key
           /\ detector[d].pc \in ToCount
    BY <1>4, <2>2 DEF FindDefaultRule, CreateDefaultRule, RejectDuplicate, InsertDetectedEvent,
                      CrashDetector, GoTo, Finish, IdleDetector, ToCount, DetectorState
  <2>5. \A e \in Detectors :
          detector'[e].pc \in ToCount =>
             /\ detector[e].pc \in ToCount /\ detector'[e].key = detector[e].key
             /\ detector'[e].pc = "dedup" => detector'[e] = detector[e]
    BY <2>3, <2>4 DEF ToCount
  <2> QED BY <2>1, <2>5, NothingCounted DEF Exists
<1> QED BY <1>1, <1>2, <1>3, <1>4 DEF Detector

(* A change of status counts nothing.                                      *)
LEMMA MovesCount ==
  ASSUME AlertInv, CountInv, NEW a \in AlertIds, Exists(a), NEW c, c.to \in Statuses,
         Moves(a, c), UNCHANGED <<detector, detections>>
  PROVE  CountInv'
<1>1. \A b \in AlertIds : /\ Exists(b)' <=> Exists(b)
                          /\ alert'[b].key = alert[b].key
                          /\ alert'[b].occurrences = alert[b].occurrences
  BY DEF AlertInv, AlertTypeOK, Row, Moves, Exists, Statuses, ActiveStatuses, ClosedStatuses
<1> QED BY <1>1, NothingCounted DEF ToCount

LEMMA SameTablesCount ==
  ASSUME AlertInv, CountInv, UNCHANGED <<alert, detector, detections>>
  PROVE  CountInv'
  BY NothingCounted DEF ToCount, Exists

LEMMA OperatorCounts ==
  ASSUME AlertInv, CountInv, NEW o \in Operators, Operator(o)
  PROVE  CountInv'
<1>1. CASE CommitTransition(o)
  <2> DEFINE r == operator[o]
  <2>1. r.target \in AlertIds /\ Exists(r.target) /\ r.to \in Statuses
    BY <1>1 DEF CommitTransition, AlertInv, AlertTypeOK, OperatorsPointAtRows, OperatorState
  <2>2. /\ Moves(r.target, [from |-> r.from, to |-> r.to, by |-> "operator"])
        /\ UNCHANGED <<detector, detections>>
    BY <1>1 DEF CommitTransition
  <2> QED BY <2>1, <2>2, MovesCount
<1>2. CASE UNCHANGED <<alert, detector, detections>>
  BY <1>2, SameTablesCount
<1> QED BY <1>1, <1>2 DEF Operator, ReadForTransition, RollbackTransition, tableVars

LEMMA CountInvInit == AlertInit => CountInv
<1> SUFFICES ASSUME AlertInit PROVE CountInv
  OBVIOUS
<1>1. /\ \A a \in AlertIds : ~Exists(a)
      /\ \A d \in Detectors : detector[d].pc = "idle"
      /\ \A k \in Keys : detections[k] = 0
  BY DEF AlertInit, Exists, Absent, IdleDetector
<1>2. ASSUME NEW k \in Keys PROVE Reached(k) = {} /\ Due(k) = {}
  BY <1>1 DEF Reached, Due, Shown, ToCount
<1>3. IsFiniteSet({}) /\ Cardinality({}) = 0
  BY FS_EmptySet
<1>4. Fits({}, {}, 0)
  BY <1>3 DEF Fits
<1> QED BY <1>1, <1>2, <1>4 DEF CountInv, Fits

LEMMA CountInvStep == AlertInv /\ CountInv /\ [AlertNext]_alertVars => CountInv'
<1> SUFFICES ASSUME AlertInv, CountInv, [AlertNext]_alertVars PROVE CountInv'
  OBVIOUS
<1>1. CASE UNCHANGED alertVars
  BY <1>1, SameTablesCount DEF alertVars
<1> QED BY <1>1, DetectorCounts, OperatorCounts DEF AlertNext

(* What has been reached and what is due fits the detections.              *)
LEMMA CountsFit ==
  ASSUME AlertInv, CountInv
  PROVE  NeverOvercounted
<1> SUFFICES ASSUME NEW k \in Keys PROVE Cardinality(Occurrences(k)) <= detections[k]
  BY DEF NeverOvercounted
<1>1. Occurrences(k) \subseteq Reached(k)
  <2> SUFFICES ASSUME NEW a \in RowsOf(k), NEW i \in 1..alert[a].occurrences
               PROVE  <<a, i>> \in Reached(k)
    BY DEF Occurrences
  <2>1. a \in AlertIds /\ alert[a].key = k /\ Exists(a) /\ alert[a].occurrences \in Nat
    BY DEF RowsOf, AlertInv, AlertTypeOK, Row
  <2>2. i \in Nat /\ i # 0 /\ i <= alert[a].occurrences
    BY <2>1
  <2> QED BY <2>1, <2>2 DEF Reached, Shown
<1>2. /\ IsFiniteSet(Reached(k)) /\ IsFiniteSet(Due(k)) /\ detections[k] \in Nat
      /\ Cardinality(Reached(k)) + Cardinality(Due(k)) <= detections[k]
  BY DEF CountInv, Fits, AlertInv, AlertTypeOK
<1>3. Cardinality(Occurrences(k)) <= Cardinality(Reached(k))
  BY <1>1, <1>2, FS_Subset
<1>4. /\ Cardinality(Occurrences(k)) \in Nat /\ Cardinality(Reached(k)) \in Nat
      /\ Cardinality(Due(k)) \in Nat
  BY <1>1, <1>2, FS_Subset, FS_CardinalityType
<1> QED BY <1>2, <1>3, <1>4

(* However many requests read, lose and write back counts, on whatever     *)
(* alerts of a key, they count no more than was reported.                  *)
THEOREM CountsAreReported == AlertSpec => []NeverOvercounted
<1>1. AlertInv /\ CountInv => NeverOvercounted
  BY CountsFit
<1>2. AlertSpec => [](AlertInv /\ CountInv)
  BY InitInv, NextKeepsInv, CountInvInit, CountInvStep, PTL DEF AlertSpec
<1> QED BY <1>1, <1>2, PTL

-----------------------------------------------------------------------------
(***************************************************************************)
(* AlertLifecycle implements AlertBoard: each statement a request runs     *)
(* raises, files or reopens one alert of the board, or shows nothing.      *)
(***************************************************************************)

(* What a step shows when no row changes its key, existence or activity.   *)
LEMMA QuietStep ==
  ASSUME \A a \in AlertIds : /\ alert'[a].key = alert[a].key
                             /\ Exists(a)' <=> Exists(a)
                             /\ IsActive(a)' <=> IsActive(a)
  PROVE  UNCHANGED Board!boardVars
<1>1. BoardActive' = BoardActive
  BY DEF BoardActive, RowsOf
<1>2. BoardFiled' = BoardFiled
  BY DEF BoardFiled, RowsOf
<1> QED BY <1>1, <1>2 DEF Board!boardVars

LEMMA ActiveRowsExist == \A a \in AlertIds : IsActive(a) => Exists(a)
  BY DEF IsActive, Exists, ActiveStatuses

LEMMA KnownRows ==
  ASSUME NEW a \in AlertIds, a \in Board!Known
  PROVE  Exists(a)
<1>1. PICK k \in Keys : a \in BoardActive[k] \cup BoardFiled[k]
  BY DEF Board!Known
<1> QED BY <1>1 DEF BoardActive, BoardFiled, RowsOf

(* A row that enters the table active is an alert raised.                  *)
LEMMA InsertRaises ==
  ASSUME AlertInv, NEW d \in Detectors, InsertAlert(d)
  PROVE  Board!Next
<1> DEFINE k == detector[d].key
<1>1. PICK a \in AlertIds :
        /\ ~Exists(a)
        /\ IndexAdmits(a, k, "OPEN")
        /\ alert' = [alert EXCEPT ![a] = [key |-> k, status |-> "OPEN", occurrences |-> 1]]
  BY DEF InsertAlert
<1>2. k \in Keys
  BY DEF InsertAlert, AlertInv, DetectorsPointAtRows
<1>3. /\ alert'[a].key = k /\ alert'[a].status = "OPEN"
      /\ \A b \in AlertIds \ {a} : alert'[b] = alert[b]
  BY <1>1 DEF AlertInv, AlertTypeOK
<1> HIDE DEF k
<1>4. \A b \in AlertIds \ {a} : ~(alert[b].key = k /\ IsActive(b))
  BY <1>1 DEF IndexAdmits, ActiveStatuses
<1>5. Exists(a)' /\ IsActive(a)' /\ ~IsActive(a)
  BY <1>1, <1>3, ActiveRowsExist DEF Exists, IsActive, ActiveStatuses
<1>6. \A b \in AlertIds \ {a} : (Exists(b)' <=> Exists(b)) /\ (IsActive(b)' <=> IsActive(b))
  BY <1>3 DEF Exists, IsActive
<1>7. BoardActive[k] = {}
  BY <1>2, <1>4, <1>5 DEF BoardActive, RowsOf
<1>8. a \notin Board!Known
  BY <1>1, KnownRows
<1>9. BoardActive' = [BoardActive EXCEPT ![k] = {a}]
  <2>1. BoardActive'[k] = {a}
    BY <1>2, <1>3, <1>4, <1>5, <1>6 DEF BoardActive, RowsOf
  <2>2. \A j \in Keys \ {k} : BoardActive'[j] = BoardActive[j]
    BY <1>3, <1>5, <1>6 DEF BoardActive, RowsOf
  <2> QED BY <1>2, <2>1, <2>2 DEF BoardActive
<1>10. BoardFiled' = BoardFiled
  BY <1>1, <1>3, <1>5, <1>6 DEF BoardFiled, RowsOf
<1>11. Board!Raise(k, a)
  BY <1>7, <1>8, <1>9, <1>10 DEF Board!Raise
<1> QED BY <1>2, <1>11 DEF Board!Next

(* A committed change of status files an alert, brings it back, or moves   *)
(* it within its side of the board.                                        *)
LEMMA MovesShows ==
  ASSUME AlertInv,
         NEW a \in AlertIds, Exists(a),
         NEW c \in Change,
         IndexAdmits(a, alert[a].key, c.to),
         Moves(a, c)
  PROVE  Board!Next \/ UNCHANGED Board!boardVars
<1> DEFINE k == alert[a].key
<1>1. k \in Keys
  BY DEF AlertInv, AbsentRowsAreBlank
<1>2. /\ \A b \in AlertIds : alert'[b].key = alert[b].key
      /\ \A b \in AlertIds \ {a} : alert'[b] = alert[b]
      /\ alert'[a].status = c.to
  BY DEF Moves, AlertInv, AlertTypeOK, Row
<1>3. Exists(a)'
  BY <1>2 DEF Exists, Change, Statuses, ActiveStatuses, ClosedStatuses
<1>4. \A b \in AlertIds \ {a} : (Exists(b)' <=> Exists(b)) /\ (IsActive(b)' <=> IsActive(b))
  BY <1>2 DEF Exists, IsActive
<1>5. IsActive(a) => \A b \in AlertIds \ {a} : ~(alert[b].key = k /\ IsActive(b))
  BY DEF AlertInv, OneActivePerKey
<1>6. IsActive(a)' => \A b \in AlertIds \ {a} : ~(alert[b].key = k /\ IsActive(b))
  BY <1>2 DEF IsActive, IndexAdmits
<1>7. alert[a].key = k
  OBVIOUS
<1> HIDE DEF k
<1>8. CASE IsActive(a) <=> IsActive(a)'
  BY <1>2, <1>3, <1>4, <1>8, QuietStep
<1>9. CASE IsActive(a) /\ ~IsActive(a)'
  <2>1. BoardActive[k] = {a}
    BY <1>1, <1>5, <1>7, <1>9 DEF BoardActive, RowsOf
  <2>2. BoardActive' = [BoardActive EXCEPT ![k] = {}]
    <3>1. BoardActive'[k] = {}
      BY <1>1, <1>2, <1>4, <1>5, <1>9 DEF BoardActive, RowsOf
    <3>2. \A j \in Keys \ {k} : BoardActive'[j] = BoardActive[j]
      BY <1>2, <1>4, <1>7 DEF BoardActive, RowsOf
    <3> QED BY <1>1, <3>1, <3>2 DEF BoardActive
  <2>3. BoardFiled' = [BoardFiled EXCEPT ![k] = BoardFiled[k] \cup {a}]
    <3>1. BoardFiled'[k] = BoardFiled[k] \cup {a}
      BY <1>1, <1>2, <1>3, <1>4, <1>7, <1>9 DEF BoardFiled, RowsOf
    <3>2. \A j \in Keys \ {k} : BoardFiled'[j] = BoardFiled[j]
      BY <1>2, <1>4, <1>7 DEF BoardFiled, RowsOf
    <3> QED BY <1>1, <3>1, <3>2 DEF BoardFiled
  <2>4. Board!File(k, a)
    BY <2>1, <2>2, <2>3 DEF Board!File
  <2> QED BY <1>1, <2>4 DEF Board!Next
<1>10. CASE ~IsActive(a) /\ IsActive(a)'
  <2>1. BoardActive[k] = {}
    BY <1>1, <1>6, <1>10 DEF BoardActive, RowsOf
  <2>2. a \in BoardFiled[k]
    BY <1>1, <1>7, <1>10 DEF BoardFiled, RowsOf
  <2>3. BoardActive' = [BoardActive EXCEPT ![k] = {a}]
    <3>1. BoardActive'[k] = {a}
      BY <1>1, <1>2, <1>3, <1>4, <1>6, <1>7, <1>10 DEF BoardActive, RowsOf
    <3>2. \A j \in Keys \ {k} : BoardActive'[j] = BoardActive[j]
      BY <1>2, <1>4, <1>7 DEF BoardActive, RowsOf
    <3> QED BY <1>1, <3>1, <3>2 DEF BoardActive
  <2>4. BoardFiled' = [BoardFiled EXCEPT ![k] = BoardFiled[k] \ {a}]
    <3>1. BoardFiled'[k] = BoardFiled[k] \ {a}
      BY <1>1, <1>2, <1>4, <1>7, <1>10 DEF BoardFiled, RowsOf
    <3>2. \A j \in Keys \ {k} : BoardFiled'[j] = BoardFiled[j]
      BY <1>2, <1>4, <1>7 DEF BoardFiled, RowsOf
    <3> QED BY <1>1, <3>1, <3>2 DEF BoardFiled
  <2>5. Board!Reopen(k, a)
    BY <2>1, <2>2, <2>3, <2>4 DEF Board!Reopen
  <2> QED BY <1>1, <2>5 DEF Board!Next
<1> QED BY <1>8, <1>9, <1>10

LEMMA DetectorShows ==
  ASSUME AlertInv, NEW d \in Detectors, Detector(d)
  PROVE  Board!Next \/ UNCHANGED Board!boardVars
<1>1. CASE InsertAlert(d)
  BY <1>1, InsertRaises
<1>2. CASE Deduplicate(d)
  <2>1. \A a \in AlertIds : /\ alert'[a].key = alert[a].key
                            /\ alert'[a].status = alert[a].status
    BY <1>2 DEF Deduplicate, AlertInv, AlertTypeOK, Row
  <2> QED BY <2>1, QuietStep DEF Exists, IsActive
<1>3. CASE UNCHANGED alert
  BY <1>3, QuietStep DEF Exists, IsActive
<1> QED
  BY <1>1, <1>2, <1>3
  DEF Detector, FindByDedupKey, FindDefaultRule, CreateDefaultRule,
      RejectDuplicate, InsertDetectedEvent, CrashDetector, tableVars

LEMMA OperatorShows ==
  ASSUME AlertInv, NEW o \in Operators, Operator(o)
  PROVE  Board!Next \/ UNCHANGED Board!boardVars
<1>1. CASE CommitTransition(o)
  <2> DEFINE t == operator[o].target
             c == [from |-> operator[o].from, to |-> operator[o].to, by |-> "operator"]
  <2>1. /\ operator[o].pc = "commit"
        /\ IndexAdmits(t, alert[t].key, c.to)
        /\ Moves(t, c)
    BY <1>1 DEF CommitTransition, TransitionAdmitted
  <2>2. t \in AlertIds /\ Exists(t) /\ c \in Change
    BY <2>1 DEF AlertInv, OperatorsPointAtRows, AlertTypeOK, OperatorState, Change
  <2> HIDE DEF t, c
  <2> QED BY <2>1, <2>2, MovesShows
<1>2. CASE UNCHANGED alert
  BY <1>2, QuietStep DEF Exists, IsActive
<1> QED
  BY <1>1, <1>2 DEF Operator, ReadForTransition, RollbackTransition, tableVars

LEMMA InitShows == AlertInit => Board!Init
<1> SUFFICES ASSUME AlertInit PROVE Board!Init
  OBVIOUS
<1>1. \A k \in Keys : RowsOf(k) = {}
  BY DEF AlertInit, RowsOf, Exists, Absent
<1> QED BY <1>1 DEF Board!Init, BoardActive, BoardFiled

(* The alert tables implement the board: no interleaving of detections,    *)
(* transitions, refusals and crashes shows a step the board does not have. *)
THEOREM TablesKeepTheBoard == AlertSpec => KeepsTheBoard
<1>1. AlertInv /\ [AlertNext]_alertVars => [Board!Next]_Board!boardVars
  <2> SUFFICES ASSUME AlertInv, [AlertNext]_alertVars
               PROVE  Board!Next \/ UNCHANGED Board!boardVars
    OBVIOUS
  <2>1. CASE UNCHANGED alertVars
    BY <2>1, QuietStep DEF alertVars, Exists, IsActive
  <2> QED BY <2>1, DetectorShows, OperatorShows DEF AlertNext
<1> QED
  BY <1>1, InitShows, AlertInvHolds, PTL DEF AlertSpec, KeepsTheBoard, Board!Spec

-----------------------------------------------------------------------------
(***************************************************************************)
(* WorkOrders                                                              *)
(***************************************************************************)

(* Orders point at alerts that exist.                                      *)
OrdersPointAtRows ==
  \A w \in OrderIds :
    Ordered(w) /\ orders[w].alert # NoAlert => Exists(orders[w].alert)

(* So do the requests; and an edit, however stale by the time it is        *)
(* written, brings what its status needs or leaves it where it is, since   *)
(* `inspected` is never taken back.                                        *)
EditorsPointAtRows ==
  \A e \in Editors :
    /\ editor[e].pc = "create" =>
         /\ editor[e].alert # NoAlert => Exists(editor[e].alert)
         /\ editor[e].advance => editor[e].alert # NoAlert
    /\ editor[e].pc = "update" =>
         /\ Ordered(editor[e].order)
         /\ editor[e].edit.status = "IN_PROGRESS" =>
              \/ editor[e].edit.inspected = TRUE
              \/ orders[editor[e].order].data.inspected
         /\ editor[e].edit.status \notin {Keep, "ASSIGNED"} => editor[e].moves
         /\ editor[e].moves => editor[e].edit.status # Keep

SystemInv ==
  /\ AlertInv
  /\ OrderTypeOK
  /\ OrdersPointAtRows
  /\ EditorsPointAtRows
  /\ StatusIsBackedUp
  /\ CompletionResolves

-----------------------------------------------------------------------------
(* Operators *)

(* An UPDATE leaves a well-typed row well-typed; the columns it leaves.    *)
LEMMA MergeColumns ==
  ASSUME NEW data \in Columns, NEW edit \in Edits
  PROVE  LET m == Merge(data, edit) IN
         /\ m \in Columns
         /\ m.status = IF edit.status = Keep THEN data.status ELSE edit.status
         /\ m.inspected = (IF edit.inspected = Keep THEN data.inspected ELSE edit.inspected)
         /\ m.completed = (IF edit.completed = Keep THEN data.completed ELSE edit.completed)
<1> DEFINE m == Merge(data, edit)
           Of(c) == IF edit[c] = Keep THEN data[c] ELSE edit[c]
<1>1. DOMAIN data = {"status", "assignee", "diagnosed", "reasoned", "inspected",
                     "completed", "cancelled"}
  BY DEF Columns
<1>2. m = [c \in DOMAIN data |-> Of(c)]
  BY DEF Merge
<1>3. m = [status |-> Of("status"), assignee |-> Of("assignee"),
           diagnosed |-> Of("diagnosed"), reasoned |-> Of("reasoned"),
           inspected |-> Of("inspected"), completed |-> Of("completed"),
           cancelled |-> Of("cancelled")]
  <2> HIDE DEF Of
  <2> QED BY <1>1, <1>2
<1>4. /\ Of("status") \in OrderStatuses
      /\ Of("assignee") \in People \cup {NoOne}
  BY DEF Columns, Edits
<1>5. /\ Of("diagnosed") \in BOOLEAN /\ Of("reasoned") \in BOOLEAN
      /\ Of("inspected") \in BOOLEAN /\ Of("completed") \in BOOLEAN
      /\ Of("cancelled") \in BOOLEAN
  BY DEF Columns, Edits
<1>6. m \in Columns
  <2> HIDE DEF Of, m
  <2> QED BY <1>3, <1>4, <1>5 DEF Columns
<1> QED BY <1>3, <1>6

(* What the handler makes of a row and a request.                          *)
LEMMA EditTyped ==
  ASSUME NEW data \in Columns, NEW in \in RequestBody
  PROVE  /\ EditFor(data, in) \in Edits
         /\ Moved(data, in) \in BOOLEAN
         /\ EditFor(data, in).status = "IN_PROGRESS" =>
              EditFor(data, in).inspected = TRUE \/ data.inspected
         /\ EditFor(data, in).status \notin {Keep, "ASSIGNED"} => Moved(data, in)
         /\ Moved(data, in) => EditFor(data, in).status # Keep
<1> DEFINE edit == EditFor(data, in)
<1>1. edit.status \in OrderStatuses \cup {Keep}
  BY DEF EditFor, Moved, RequestBody, OrderStatuses, InWork
<1>2. edit.assignee \in People \cup {NoOne, Keep}
  BY DEF EditFor, RequestBody
<1>3. /\ edit.diagnosed \in BOOLEAN \cup {Keep}
      /\ edit.reasoned \in BOOLEAN \cup {Keep}
  BY DEF EditFor, RequestBody
<1>4. /\ edit.inspected \in {TRUE, Keep}
      /\ edit.completed \in {TRUE, Keep}
      /\ edit.cancelled \in {TRUE, Keep}
  BY DEF EditFor, Stamp
<1>5. edit \in Edits
  BY <1>1, <1>2, <1>3, <1>4 DEF EditFor, Edits
<1>6. edit.status = "IN_PROGRESS" => edit.inspected = TRUE \/ data.inspected
  BY OrderAssumption DEF EditFor, Stamp, Moved, OrderStatuses, InWork
<1>7. edit.status \notin {Keep, "ASSIGNED"} => Moved(data, in)
  BY DEF EditFor
<1>8. Moved(data, in) => edit.status # Keep
  BY DEF EditFor, Moved
<1> QED BY <1>5, <1>6, <1>7, <1>8 DEF Moved

(* What an entry appended to a history adds to it.                         *)
LEMMA AppendShows ==
  ASSUME NEW s \in Seq(Change), NEW c \in Change, NEW x
  PROVE  (\E i \in DOMAIN Append(s, c) : Append(s, c)[i] = x)
           <=> (c = x \/ \E i \in DOMAIN s : s[i] = x)
<1>1. /\ Append(s, c) \in Seq(Change)
      /\ Len(Append(s, c)) = Len(s) + 1
      /\ Append(s, c)[Len(s) + 1] = c
      /\ \A i \in 1..Len(s) : Append(s, c)[i] = s[i]
  BY AppendProperties
<1>2. DOMAIN s = 1..Len(s) /\ DOMAIN Append(s, c) = 1..(Len(s) + 1) /\ Len(s) \in Nat
  BY <1>1, LenProperties
<1>3. ASSUME NEW i \in DOMAIN Append(s, c), Append(s, c)[i] = x
      PROVE  c = x \/ \E j \in DOMAIN s : s[j] = x
  <2>1. CASE i = Len(s) + 1
    BY <1>1, <1>3, <2>1
  <2>2. CASE i \in 1..Len(s)
    BY <1>1, <1>2, <1>3, <2>2
  <2> QED BY <1>2, <2>1, <2>2
<1>4. c = x => \E i \in DOMAIN Append(s, c) : Append(s, c)[i] = x
  <2>1. Len(s) + 1 \in DOMAIN Append(s, c)
    BY <1>2
  <2> QED BY <1>1, <2>1
<1>5. ASSUME NEW j \in DOMAIN s, s[j] = x
      PROVE  \E i \in DOMAIN Append(s, c) : Append(s, c)[i] = x
  <2>1. j \in DOMAIN Append(s, c) /\ j \in 1..Len(s)
    BY <1>2
  <2> QED BY <1>1, <1>5, <2>1
<1> QED BY <1>3, <1>4, <1>5

-----------------------------------------------------------------------------
(* The requests of AlertLifecycle beside the orders *)

LEMMA OrderEntriesTyped == Resolution \in Change /\ Advance \in Change
  BY DEF Resolution, Advance, Change, Statuses, ActiveStatuses, ClosedStatuses

(* A committed change adds its entry to the history of its alert alone.    *)
LEMMA MovesShowsEntry ==
  ASSUME AlertInv, NEW a \in AlertIds, NEW c \in Change, Moves(a, c)
  PROVE  \A b \in AlertIds, x \in Change :
           Shows(b, x)' <=> (Shows(b, x) \/ (b = a /\ x = c))
<1> SUFFICES ASSUME NEW b \in AlertIds, NEW x \in Change
             PROVE  Shows(b, x)' <=> (Shows(b, x) \/ (b = a /\ x = c))
  OBVIOUS
<1>1. trail[b] \in Seq(Change)
  BY DEF AlertInv, AlertTypeOK
<1>2. trail'[b] = IF b = a THEN Append(trail[b], c) ELSE trail[b]
  BY DEF Moves, AlertInv, AlertTypeOK
<1>3. CASE b = a
  BY <1>1, <1>2, <1>3, AppendShows DEF Shows
<1>4. CASE b # a
  BY <1>2, <1>4 DEF Shows
<1> QED BY <1>3, <1>4

(* No such request deletes an alert or writes an entry of the orders.      *)
LEMMA AlertStep ==
  ASSUME AlertInv, AlertNext
  PROVE  \A a \in AlertIds :
           /\ Exists(a) => Exists(a)'
           /\ Shows(a, Resolution)' <=> Shows(a, Resolution)
           /\ Shows(a, Advance)' <=> Shows(a, Advance)
<1>1. ASSUME NEW d \in Detectors, Detector(d)
      PROVE  trail' = trail /\ \A a \in AlertIds : Exists(a) => Exists(a)'
  <2>1. CASE InsertAlert(d)
    BY <2>1 DEF InsertAlert, Exists, AlertInv, AlertTypeOK
  <2>2. CASE Deduplicate(d)
    BY <2>2 DEF Deduplicate, Exists, AlertInv, AlertTypeOK, Row
  <2>3. CASE UNCHANGED <<alert, trail>>
    BY <2>3 DEF Exists
  <2> QED
    BY <1>1, <2>1, <2>2, <2>3
    DEF Detector, FindByDedupKey, FindDefaultRule, CreateDefaultRule,
        RejectDuplicate, InsertDetectedEvent, CrashDetector, tableVars
<1>2. ASSUME NEW o \in Operators, CommitTransition(o)
      PROVE  \E a \in AlertIds, c \in Change :
               /\ Moves(a, c) /\ c.by = "operator" /\ Exists(a)
  <2> DEFINE c == [from |-> operator[o].from, to |-> operator[o].to, by |-> "operator"]
  <2>1. /\ operator[o].target \in AlertIds
        /\ Exists(operator[o].target)
        /\ Moves(operator[o].target, c)
    BY <1>2 DEF CommitTransition, AlertInv, OperatorsPointAtRows
  <2>2. c \in Change /\ c.by = "operator"
    BY DEF AlertInv, AlertTypeOK, OperatorState, Change
  <2> QED BY <2>1, <2>2
<1>3. ASSUME NEW o \in Operators, Operator(o)
      PROVE  \/ UNCHANGED <<alert, trail>>
             \/ \E a \in AlertIds, c \in Change :
                  Moves(a, c) /\ c.by = "operator" /\ Exists(a)
  BY <1>2, <1>3 DEF Operator, ReadForTransition, RollbackTransition, tableVars
<1>4. ASSUME NEW a \in AlertIds, NEW c \in Change, Moves(a, c), c.by = "operator", Exists(a)
      PROVE  \A b \in AlertIds :
               /\ Exists(b) => Exists(b)'
               /\ Shows(b, Resolution)' <=> Shows(b, Resolution)
               /\ Shows(b, Advance)' <=> Shows(b, Advance)
  <2>1. c # Resolution /\ c # Advance
    BY <1>4 DEF Resolution, Advance
  <2>2. \A b \in AlertIds : Exists(b) => Exists(b)'
    BY <1>4 DEF Moves, Exists, AlertInv, AlertTypeOK, Row, Change, Statuses,
                ActiveStatuses, ClosedStatuses
  <2> QED BY <1>4, <2>1, <2>2, MovesShowsEntry, OrderEntriesTyped
<1>5. ASSUME UNCHANGED trail
      PROVE  \A a \in AlertIds : /\ Shows(a, Resolution)' <=> Shows(a, Resolution)
                                 /\ Shows(a, Advance)' <=> Shows(a, Advance)
  BY <1>5 DEF Shows, Resolution, Advance
<1> QED
  <2>1. CASE \E d \in Detectors : Detector(d)
    BY <1>1, <1>5, <2>1
  <2>2. CASE \E o \in Operators : Operator(o)
    BY <1>3, <1>4, <1>5, <2>2 DEF Exists
  <2> QED BY <2>1, <2>2 DEF AlertNext

LEMMA AlertStepKeepsInv ==
  ASSUME SystemInv, AlertNext, UNCHANGED orderVars
  PROVE  SystemInv'
<1> USE DEF SystemInv, orderVars
<1>1. AlertInv'
  BY NextKeepsInv
<1>2. OrderTypeOK'
  BY <1>1 DEF OrderTypeOK, AlertInv
<1>3. OrdersPointAtRows'
  BY AlertStep DEF OrdersPointAtRows, OrderTypeOK, Ordered, OrderRow
<1>4. EditorsPointAtRows'
  <2>1. \A e \in Editors :
          editor[e].pc = "create" => editor[e].alert \in AlertIds \cup {NoAlert}
    BY DEF OrderTypeOK, EditorState, IdleEditor
  <2> QED BY <2>1, AlertStep DEF EditorsPointAtRows, Ordered
<1>5. StatusIsBackedUp'
  BY DEF StatusIsBackedUp, Ordered
<1>6. CompletionResolves'
  BY AlertStep DEF CompletionResolves, OrdersOf, Ordered
<1> QED BY <1>1, <1>2, <1>3, <1>4, <1>5, <1>6

-----------------------------------------------------------------------------
(* WorkOrdersService.create *)

(* A move of an alert, made by a request for an order.                     *)
LEMMA MoveKeepsAlertInv ==
  ASSUME AlertInv,
         NEW a \in AlertIds, Exists(a),
         NEW c \in Change,
         IndexAdmits(a, alert[a].key, c.to),
         Moves(a, c),
         UNCHANGED bystanders
  PROVE  AlertInv' /\ \A b \in AlertIds : Exists(b)' <=> Exists(b)
<1>1. /\ alert' \in [AlertIds -> Row]
      /\ trail' \in [AlertIds -> Seq(Change)]
      /\ \A b \in AlertIds : Exists(b)' <=> Exists(b)
      /\ AbsentRowsAreBlank' /\ DetectorsPointAtRows' /\ WritersAreDistinct'
      /\ OneActivePerKey' /\ StatusIsLastChange' /\ DetectedExactlyOnce'
  BY MovesKeepsTables DEF bystanders
<1>2. AlertTypeOK'
  BY <1>1 DEF AlertInv, AlertTypeOK, bystanders
<1>3. OperatorsPointAtRows'
  BY <1>1 DEF AlertInv, OperatorsPointAtRows, bystanders
<1> QED BY <1>1, <1>2, <1>3 DEF AlertInv

LEMMA ReadForCreateKeepsInv ==
  ASSUME SystemInv, NEW e \in Editors, NEW a \in AlertIds \cup {NoAlert},
         NEW p \in People \cup {NoOne}, ReadForCreate(e, a, p)
  PROVE  SystemInv'
<1> USE DEF SystemInv
<1> DEFINE l == [pc |-> "create", alert |-> a, assignee |-> p,
                 advance |-> a # NoAlert /\ alert[a].status = "OPEN"]
<1>1. /\ editor' = [editor EXCEPT ![e] = l]
      /\ a # NoAlert => Exists(a)
      /\ UNCHANGED <<alertVars, orders, logged>>
  BY DEF ReadForCreate
<1>2. AlertInv'
  BY <1>1, StutterKeepsInv
<1>3. l \in EditorState
  BY DEF EditorState
<1>4. OrderTypeOK'
  <2> HIDE DEF l
  <2> QED BY <1>1, <1>2, <1>3 DEF OrderTypeOK, AlertInv
<1>5. OrdersPointAtRows' /\ StatusIsBackedUp' /\ CompletionResolves'
  BY <1>1 DEF OrdersPointAtRows, StatusIsBackedUp, CompletionResolves, Ordered, Exists,
              OrdersOf, Shows, alertVars
<1>6. EditorsPointAtRows'
  <2>1. \A f \in Editors : editor'[f] = IF f = e THEN l ELSE editor[f]
    BY <1>1 DEF OrderTypeOK
  <2>2. l.pc = "create" /\ l.alert = a /\ (l.advance => a # NoAlert)
    OBVIOUS
  <2> HIDE DEF l
  <2> QED BY <1>1, <2>1, <2>2 DEF EditorsPointAtRows, Ordered, Exists, alertVars
<1> QED BY <1>2, <1>4, <1>5, <1>6

(* The rows a committed create writes: the order's, with its history, and, *)
(* if the alert was read OPEN, the alert's.                                *)
LEMMA CommitCreateKeepsInv ==
  ASSUME SystemInv, NEW e \in Editors, CommitCreate(e)
  PROVE  SystemInv'
<1> USE DEF SystemInv
<1> DEFINE l == editor[e]
           status == IF l.assignee = NoOne THEN "OPEN" ELSE "ASSIGNED"
           data == [status |-> status, assignee |-> l.assignee,
                    diagnosed |-> FALSE, reasoned |-> FALSE, inspected |-> FALSE,
                    completed |-> FALSE, cancelled |-> FALSE]
           row == [version |-> 1, alert |-> l.alert, data |-> data]
<1>1. PICK w \in OrderIds :
        /\ ~Ordered(w)
        /\ orders' = [orders EXCEPT ![w] = row]
        /\ logged' = [logged EXCEPT ![w] = {status}]
  BY DEF CommitCreate
<1>2. /\ l.pc = "create"
      /\ CreateAdmitted(e)
      /\ IF l.advance THEN Moves(l.alert, Advance) ELSE UNCHANGED <<alert, trail>>
      /\ editor' = [editor EXCEPT ![e] = IdleEditor]
      /\ UNCHANGED bystanders
  BY DEF CommitCreate, EditorDone
<1>3. /\ l.alert \in AlertIds \cup {NoAlert}
      /\ l.assignee \in People \cup {NoOne}
      /\ l.alert # NoAlert => Exists(l.alert)
      /\ l.advance => l.alert \in AlertIds
  BY <1>2 DEF OrderTypeOK, EditorState, IdleEditor, EditorsPointAtRows
<1>4. AlertInv' /\ \A b \in AlertIds : Exists(b)' <=> Exists(b)
  <2>1. CASE l.advance
    <3>1. l.alert \in AlertIds /\ Exists(l.alert)
      BY <1>3, <2>1, AlertAssumption
    <3> QED BY <1>2, <2>1, <3>1, MoveKeepsAlertInv, OrderEntriesTyped DEF CreateAdmitted
  <2>2. CASE ~l.advance
    BY <1>2, <2>2, StutterKeepsInv DEF bystanders, alertVars, Exists
  <2> QED BY <2>1, <2>2
<1>5. data \in Columns /\ status \in OrderStatuses
  BY <1>3 DEF Columns, OrderStatuses, InWork
<1>6. row \in OrderRow /\ row.alert = l.alert /\ row.data = data
  BY <1>3, <1>5 DEF OrderRow
<1>7. /\ data.status = status
      /\ data.completed = FALSE
      /\ status \in {"OPEN", "ASSIGNED"}
      /\ RowAdmitted(data)
  BY DEF RowAdmitted, InWork
<1> HIDE DEF row, data, status
<1>8. OrderTypeOK'
  BY <1>1, <1>2, <1>4, <1>5, <1>6 DEF OrderTypeOK, AlertInv, EditorState
<1>9. /\ orders'[w] = row /\ logged'[w] = {status}
      /\ \A x \in OrderIds \ {w} : orders'[x] = orders[x] /\ logged'[x] = logged[x]
      /\ editor'[e] = IdleEditor
      /\ \A f \in Editors \ {e} : editor'[f] = editor[f]
  BY <1>1, <1>2 DEF OrderTypeOK
<1>10. /\ Ordered(w)'
       /\ \A x \in OrderIds \ {w} : Ordered(x)' <=> Ordered(x)
  BY <1>6, <1>9 DEF Ordered, NoOrder, OrderRow
<1>11. OrdersPointAtRows'
  <2>1. \A x \in OrderIds : Ordered(x) => orders[x].alert \in AlertIds \cup {NoAlert}
    BY DEF OrderTypeOK, Ordered, OrderRow
  <2> QED BY <1>3, <1>4, <1>6, <1>9, <1>10, <2>1 DEF OrdersPointAtRows
<1>12. EditorsPointAtRows'
  <2>1. \A f \in Editors :
          /\ editor[f].pc = "create" => editor[f].alert \in AlertIds \cup {NoAlert}
          /\ editor[f].pc = "update" => editor[f].order \in OrderIds \ {w}
    BY <1>1 DEF OrderTypeOK, EditorState, IdleEditor, EditorsPointAtRows
  <2>2. IdleEditor.pc = "idle"
    BY DEF IdleEditor
  <2> QED BY <1>4, <1>9, <1>10, <2>1, <2>2 DEF EditorsPointAtRows
<1>13. StatusIsBackedUp'
  <2>1. BackedUp(row.data, {status})
    BY <1>6, <1>7 DEF BackedUp
  <2> QED BY <1>9, <1>10, <2>1 DEF StatusIsBackedUp
<1>14. CompletionResolves'
  <2>1. \A b \in AlertIds :
          /\ Shows(b, Resolution)' <=> Shows(b, Resolution)
          /\ Shows(b, Advance)' => Shows(b, Advance) \/ b = l.alert
    <3>1. CASE l.advance
      <4>1. Advance # Resolution
        BY DEF Advance, Resolution
      <4>2. Advance' = Advance /\ Resolution' = Resolution
        BY DEF Advance, Resolution
      <4> QED BY <1>2, <1>3, <3>1, <4>1, <4>2, MovesShowsEntry, OrderEntriesTyped
    <3>2. CASE ~l.advance
      BY <1>2, <3>2 DEF Shows, Advance, Resolution
    <3> QED BY <3>1, <3>2
  <2>2. \A b \in AlertIds :
          OrdersOf(b)' = IF b = l.alert THEN OrdersOf(b) \cup {w} ELSE OrdersOf(b)
    BY <1>1, <1>6, <1>9, <1>10 DEF OrdersOf
  <2>3. \A b \in AlertIds :
          (\E x \in OrdersOf(b)' : orders'[x].data.completed)
            <=> (\E x \in OrdersOf(b) : orders[x].data.completed)
    BY <1>1, <1>6, <1>7, <1>9, <2>2 DEF OrdersOf
  <2> QED BY <2>1, <2>2, <2>3 DEF CompletionResolves
<1> QED BY <1>4, <1>8, <1>11, <1>12, <1>13, <1>14

LEMMA RollbacksKeepInv ==
  ASSUME SystemInv, NEW e \in Editors, RollbackCreate(e) \/ RollbackUpdate(e)
  PROVE  SystemInv'
<1> USE DEF SystemInv
<1>1. /\ editor' = [editor EXCEPT ![e] = IdleEditor]
      /\ UNCHANGED <<alertVars, orders, logged>>
  BY DEF RollbackCreate, RollbackUpdate, EditorDone
<1>2. AlertInv'
  BY <1>1, StutterKeepsInv
<1>3. OrderTypeOK'
  BY <1>1, <1>2 DEF OrderTypeOK, AlertInv, EditorState
<1>4. OrdersPointAtRows' /\ StatusIsBackedUp' /\ CompletionResolves'
  BY <1>1 DEF OrdersPointAtRows, StatusIsBackedUp, CompletionResolves, Ordered, Exists,
              OrdersOf, Shows, alertVars
<1>5. EditorsPointAtRows'
  BY <1>1 DEF EditorsPointAtRows, OrderTypeOK, Ordered, Exists, alertVars, IdleEditor
<1> QED BY <1>2, <1>3, <1>4, <1>5

-----------------------------------------------------------------------------
(* WorkOrdersService.update *)

LEMMA ReadForUpdateKeepsInv ==
  ASSUME SystemInv, NEW e \in Editors, NEW w \in OrderIds, NEW in \in Requests,
         ReadForUpdate(e, w, in)
  PROVE  SystemInv'
<1> USE DEF SystemInv
<1> DEFINE edit == EditFor(orders[w].data, in)
           moves == Moved(orders[w].data, in)
           l == [pc |-> "update", order |-> w, seen |-> orders[w].version,
                 edit |-> edit, moves |-> moves]
<1>1. /\ editor' = [editor EXCEPT ![e] = l]
      /\ Ordered(w)
      /\ UNCHANGED <<alertVars, orders, logged>>
  BY DEF ReadForUpdate
<1>2. orders[w] \in OrderRow /\ orders[w].version \in Nat /\ orders[w].data \in Columns
  BY <1>1 DEF OrderTypeOK, Ordered, OrderRow
<1>3. /\ edit \in Edits /\ moves \in BOOLEAN
      /\ edit.status = "IN_PROGRESS" => edit.inspected = TRUE \/ orders[w].data.inspected
      /\ edit.status \notin {Keep, "ASSIGNED"} => moves
      /\ moves => edit.status # Keep
  BY <1>2, EditTyped, OrderAssumption
<1>4. /\ l.pc = "update" /\ l.order = w /\ l.edit = edit /\ l.moves = moves
      /\ l \in EditorState
  <2> HIDE DEF edit, moves
  <2> QED BY <1>2, <1>3 DEF EditorState
<1> HIDE DEF l, edit, moves
<1>5. AlertInv'
  BY <1>1, StutterKeepsInv
<1>6. OrderTypeOK'
  BY <1>1, <1>4, <1>5 DEF OrderTypeOK, AlertInv
<1>7. OrdersPointAtRows' /\ StatusIsBackedUp' /\ CompletionResolves'
  BY <1>1 DEF OrdersPointAtRows, StatusIsBackedUp, CompletionResolves, Ordered, Exists,
              OrdersOf, Shows, alertVars
<1>8. EditorsPointAtRows'
  <2>1. \A f \in Editors : editor'[f] = IF f = e THEN l ELSE editor[f]
    BY <1>1 DEF OrderTypeOK
  <2> QED BY <1>1, <1>3, <1>4, <2>1 DEF EditorsPointAtRows, Ordered, Exists, alertVars
<1> QED BY <1>5, <1>6, <1>7, <1>8

(* The rows a committed update writes: the order's, its history and, when  *)
(* the edit completes the order, the alert's.                              *)
LEMMA CommitUpdateKeepsInv ==
  ASSUME SystemInv, NEW e \in Editors, CommitUpdate(e)
  PROVE  SystemInv'
<1> USE DEF SystemInv
<1> DEFINE l == editor[e]
           w == l.order
           edit == l.edit
           old == orders[w]
           data == Merge(old.data, edit)
<1>1. /\ l.pc = "update"
      /\ RowAdmitted(data)
      /\ IF ResolvesAlert(w, edit) THEN Moves(old.alert, Resolution)
                                   ELSE UNCHANGED <<alert, trail>>
      /\ orders' = [orders EXCEPT ![w] =
           [version |-> old.version + 1, alert |-> old.alert, data |-> data]]
      /\ logged' = [logged EXCEPT ![w] =
                      logged[w] \cup (IF l.moves THEN {edit.status} ELSE {})]
      /\ editor' = [editor EXCEPT ![e] = IdleEditor]
      /\ UNCHANGED bystanders
  BY DEF CommitUpdate, EditorDone
<1>2. w \in OrderIds /\ edit \in Edits /\ l.moves \in BOOLEAN
  BY <1>1 DEF OrderTypeOK, EditorState, IdleEditor
<1>3. /\ Ordered(w)
      /\ edit.status = "IN_PROGRESS" => edit.inspected = TRUE \/ old.data.inspected
      /\ edit.status \notin {Keep, "ASSIGNED"} => l.moves
      /\ l.moves => edit.status # Keep
  BY <1>1 DEF EditorsPointAtRows
<1>4. /\ old \in OrderRow
      /\ old.version \in Nat \ {0} /\ old.data \in Columns
      /\ old.alert \in AlertIds \cup {NoAlert}
      /\ old.alert # NoAlert => Exists(old.alert)
  BY <1>2, <1>3 DEF OrderTypeOK, Ordered, OrderRow, OrdersPointAtRows
<1>5. /\ data \in Columns
      /\ data.status = IF edit.status = Keep THEN old.data.status ELSE edit.status
      /\ data.inspected = (IF edit.inspected = Keep THEN old.data.inspected ELSE edit.inspected)
      /\ data.completed = (IF edit.completed = Keep THEN old.data.completed ELSE edit.completed)
  BY <1>2, <1>4, MergeColumns
<1>6. /\ edit.inspected \in {TRUE, Keep} /\ edit.completed \in {TRUE, Keep}
      /\ edit.status \in OrderStatuses \cup {Keep}
      /\ Keep # TRUE
  BY <1>2, OrderAssumption DEF Edits
<1>7. AlertInv' /\ \A b \in AlertIds : Exists(b)' <=> Exists(b)
  <2>1. CASE ResolvesAlert(w, edit)
    <3>1. old.alert \in AlertIds /\ Exists(old.alert)
      BY <1>4, <2>1 DEF ResolvesAlert
    <3>2. IndexAdmits(old.alert, alert[old.alert].key, Resolution.to)
      BY DEF IndexAdmits, Resolution, ActiveStatuses
    <3> QED BY <1>1, <2>1, <3>1, <3>2, MoveKeepsAlertInv, OrderEntriesTyped
  <2>2. CASE ~ResolvesAlert(w, edit)
    BY <1>1, <2>2, StutterKeepsInv DEF bystanders, alertVars, Exists
  <2> QED BY <2>1, <2>2
<1>8. ResolvesAlert(w, edit) <=> edit.completed = TRUE /\ old.alert # NoAlert
  BY DEF ResolvesAlert
<1> DEFINE row == orders'[w]
<1>9. /\ orders'[w] = row
      /\ row \in OrderRow /\ row.alert = old.alert /\ row.data = data
      /\ orders' \in [OrderIds -> OrderRow \cup {NoOrder}]
      /\ \A x \in OrderIds \ {w} : orders'[x] = orders[x] /\ logged'[x] = logged[x]
      /\ logged'[w] = logged[w] \cup (IF l.moves THEN {edit.status} ELSE {})
      /\ \A f \in Editors : editor'[f] = IF f = e THEN IdleEditor ELSE editor[f]
  <2> DEFINE new == [version |-> old.version + 1, alert |-> old.alert, data |-> data]
  <2>1. new \in OrderRow /\ new.alert = old.alert /\ new.data = data
    <3> HIDE DEF data
    <3> QED BY <1>4, <1>5 DEF OrderRow
  <2>2. orders \in [OrderIds -> OrderRow \cup {NoOrder}] /\ logged \in [OrderIds -> SUBSET OrderStatuses]
    BY DEF OrderTypeOK
  <2>3. orders' = [orders EXCEPT ![w] = new]
    BY <1>1
  <2>4. \A f \in Editors : editor'[f] = IF f = e THEN IdleEditor ELSE editor[f]
    BY <1>1 DEF OrderTypeOK
  <2> HIDE DEF new, w, edit, data
  <2>5. /\ orders'[w] = new
        /\ orders' \in [OrderIds -> OrderRow \cup {NoOrder}]
        /\ \A x \in OrderIds \ {w} : orders'[x] = orders[x]
    BY <1>2, <2>1, <2>2, <2>3
  <2>6. /\ \A x \in OrderIds \ {w} : logged'[x] = logged[x]
        /\ logged'[w] = logged[w] \cup (IF l.moves THEN {edit.status} ELSE {})
    BY <1>1, <1>2, <2>2
  <2> QED BY <2>1, <2>4, <2>5, <2>6
<1> HIDE DEF row, data
<1>10. OrderTypeOK'
  <2>1. logged' \in [OrderIds -> SUBSET OrderStatuses]
    <3>1. l.moves => edit.status \in OrderStatuses
      BY <1>3, <1>6
    <3> QED BY <1>1, <1>2, <3>1 DEF OrderTypeOK
  <2>2. editor' \in [Editors -> EditorState]
    BY <1>1 DEF OrderTypeOK, EditorState
  <2> QED BY <1>7, <1>9, <2>1, <2>2 DEF OrderTypeOK, AlertInv
<1>11. \A x \in OrderIds : Ordered(x)' <=> Ordered(x)
  BY <1>3, <1>9 DEF Ordered, NoOrder, OrderRow
<1>12. OrdersPointAtRows'
  <2>1. \A x \in OrderIds : Ordered(x) => orders[x].alert \in AlertIds \cup {NoAlert}
    BY DEF OrderTypeOK, Ordered, OrderRow
  <2> QED BY <1>4, <1>7, <1>9, <1>11, <2>1 DEF OrdersPointAtRows
<1>13. EditorsPointAtRows'
  <2>1. \A f \in Editors :
          /\ editor[f].pc = "create" => editor[f].alert \in AlertIds \cup {NoAlert}
          /\ editor[f].pc = "update" => editor[f].order \in OrderIds
    BY DEF OrderTypeOK, EditorState, IdleEditor
  <2>2. old.data.inspected => row.data.inspected
    BY <1>4, <1>5, <1>6, <1>9 DEF Columns
  <2>3. IdleEditor.pc = "idle"
    BY DEF IdleEditor
  <2>4. \A x \in OrderIds : orders[x].data.inspected => orders'[x].data.inspected
    BY <1>9, <2>2
  <2> QED BY <1>7, <1>9, <1>11, <2>1, <2>3, <2>4 DEF EditorsPointAtRows
<1>14. StatusIsBackedUp'
  <2>1. row.data.status = "IN_PROGRESS" => row.data.inspected
    BY <1>2, <1>3, <1>4, <1>5, <1>6, <1>9 DEF StatusIsBackedUp, BackedUp, Columns
  <2>2. row.data.status \in logged'[w] \cup {"ASSIGNED"}
    BY <1>2, <1>3, <1>5, <1>6, <1>9 DEF StatusIsBackedUp, BackedUp
  <2>3. BackedUp(row.data, logged'[w])
    BY <1>1, <1>9, <2>1, <2>2 DEF BackedUp
  <2> QED BY <1>9, <1>11, <2>3 DEF StatusIsBackedUp
<1>15. CompletionResolves'
  <2>1. \A b \in AlertIds :
          /\ Shows(b, Advance)' <=> Shows(b, Advance)
          /\ Shows(b, Resolution)'
               <=> (Shows(b, Resolution) \/ (b = old.alert /\ edit.completed = TRUE))
    <3>1. CASE ResolvesAlert(w, edit)
      <4>1. Advance # Resolution
        BY DEF Advance, Resolution
      <4>2. Advance' = Advance /\ Resolution' = Resolution
        BY DEF Advance, Resolution
      <4>3. old.alert \in AlertIds /\ Moves(old.alert, Resolution) /\ edit.completed = TRUE
        BY <1>1, <1>4, <1>8, <3>1
      <4> QED BY <4>1, <4>2, <4>3, MovesShowsEntry, OrderEntriesTyped
    <3>2. CASE ~ResolvesAlert(w, edit)
      <4>1. \A b \in AlertIds : ~(b = old.alert /\ edit.completed = TRUE)
        BY <1>8, <3>2, AlertAssumption
      <4> QED BY <1>1, <3>2, <4>1 DEF Shows, Advance, Resolution
    <3> QED BY <3>1, <3>2
  <2>2. \A b \in AlertIds : OrdersOf(b)' = OrdersOf(b)
    BY <1>9, <1>11 DEF OrdersOf
  <2>3. row.data.completed <=> (old.data.completed \/ edit.completed = TRUE)
    BY <1>4, <1>5, <1>6, <1>9 DEF Columns
  <2>4. \A b \in AlertIds :
          (\E x \in OrdersOf(b)' : orders'[x].data.completed)
            <=> \/ \E x \in OrdersOf(b) : orders[x].data.completed
                \/ b = old.alert /\ edit.completed = TRUE
    BY <1>2, <1>3, <1>9, <2>2, <2>3 DEF OrdersOf
  <2> QED BY <2>1, <2>2, <2>4 DEF CompletionResolves
<1> QED BY <1>7, <1>10, <1>12, <1>13, <1>14, <1>15

-----------------------------------------------------------------------------
(* The theorems *)

LEMMA SystemInitInv == Init => SystemInv
<1> SUFFICES ASSUME Init PROVE SystemInv
  OBVIOUS
<1>1. AlertInv /\ \A a \in AlertIds : trail[a] = <<>>
  BY InitInv DEF Init, AlertInit
<1>2. /\ \A w \in OrderIds : ~Ordered(w)
      /\ \A e \in Editors : editor[e].pc = "idle"
  BY DEF Init, Ordered, IdleEditor
<1>3. OrderTypeOK
  BY <1>1 DEF Init, OrderTypeOK, AlertInv, EditorState
<1>4. \A a \in AlertIds : OrdersOf(a) = {} /\ ~Shows(a, Resolution) /\ ~Shows(a, Advance)
  <2>1. DOMAIN <<>> = {}
    OBVIOUS
  <2> QED BY <1>1, <1>2, <2>1 DEF OrdersOf, Shows
<1> QED
  BY <1>1, <1>2, <1>3, <1>4
  DEF SystemInv, OrdersPointAtRows, EditorsPointAtRows, StatusIsBackedUp, CompletionResolves

LEMMA EditorStepKeepsInv ==
  ASSUME SystemInv, NEW e \in Editors, Editor(e)
  PROVE  SystemInv'
<1>1. CASE \E a \in AlertIds \cup {NoAlert}, p \in People \cup {NoOne} : ReadForCreate(e, a, p)
  BY <1>1, ReadForCreateKeepsInv
<1>2. CASE CommitCreate(e)
  BY <1>2, CommitCreateKeepsInv
<1>3. CASE \E w \in OrderIds, in \in Requests : ReadForUpdate(e, w, in)
  BY <1>3, ReadForUpdateKeepsInv
<1>4. CASE CommitUpdate(e)
  BY <1>4, CommitUpdateKeepsInv
<1>5. CASE RollbackCreate(e) \/ RollbackUpdate(e)
  BY <1>5, RollbacksKeepInv
<1> QED BY <1>1, <1>2, <1>3, <1>4, <1>5 DEF Editor

LEMMA SystemStutterKeepsInv ==
  ASSUME SystemInv, UNCHANGED systemVars
  PROVE  SystemInv'
<1> USE DEF SystemInv
<1>1. UNCHANGED <<alertVars, orders, logged, editor>>
  BY DEF systemVars, orderVars
<1>2. AlertInv'
  BY <1>1, StutterKeepsInv
<1>3. OrderTypeOK'
  BY <1>1, <1>2 DEF OrderTypeOK, AlertInv
<1>4. OrdersPointAtRows' /\ EditorsPointAtRows' /\ StatusIsBackedUp' /\ CompletionResolves'
  BY <1>1 DEF OrdersPointAtRows, EditorsPointAtRows, StatusIsBackedUp, CompletionResolves,
              Ordered, Exists, OrdersOf, Shows, alertVars
<1> QED BY <1>2, <1>3, <1>4

LEMMA SystemNextKeepsInv == SystemInv /\ [Next]_systemVars => SystemInv'
  BY AlertStepKeepsInv, EditorStepKeepsInv, SystemStutterKeepsInv DEF Next

(* The inductive invariant of orders and alerts together.                  *)
THEOREM SystemInvHolds == Spec => []SystemInv
  BY SystemInitInv, SystemNextKeepsInv, PTL DEF Spec

(* Every table and every request stays within its type, orders included.   *)
THEOREM OrderTypeOKHolds == Spec => []OrderTypeOK
<1>1. SystemInv => OrderTypeOK
  BY DEF SystemInv
<1> QED BY <1>1, SystemInvHolds, PTL

(* However stale the edits that meet in a row, the status of an order has  *)
(* what its CHECK asks for, its inspection stamp and its place in the      *)
(* history.                                                                *)
THEOREM StatusIsBackedUpHolds == Spec => []StatusIsBackedUp
<1>1. SystemInv => StatusIsBackedUp
  BY DEF SystemInv
<1> QED BY <1>1, SystemInvHolds, PTL

(* An alert shows a resolution by an order if and only if an order of its  *)
(* was completed.                                                          *)
THEOREM CompletionResolvesHolds == Spec => []CompletionResolves
<1>1. SystemInv => CompletionResolves
  BY DEF SystemInv
<1> QED BY <1>1, SystemInvHolds, PTL

(* An order's request counts nothing: it changes alerts by Moves alone.     *)
LEMMA EditorCounts ==
  ASSUME SystemInv, CountInv, NEW e \in Editors, Editor(e)
  PROVE  CountInv'
<1>0. Advance.to \in Statuses /\ Resolution.to \in Statuses
  BY DEF Advance, Resolution, Statuses, ActiveStatuses, ClosedStatuses
<1>1. CASE UNCHANGED <<alert, detector, detections>>
  BY <1>1, SameTablesCount DEF SystemInv
<1>2. CASE CommitCreate(e) /\ editor[e].advance
  <2>1. /\ Moves(editor[e].alert, Advance)
        /\ editor[e].pc = "create" /\ UNCHANGED <<detector, detections>>
    BY <1>2 DEF CommitCreate, bystanders
  <2>2. editor[e].alert \in AlertIds /\ Exists(editor[e].alert)
    BY <1>2, <2>1 DEF SystemInv, OrderTypeOK, EditorState, IdleEditor, EditorsPointAtRows
  <2> QED BY <1>0, <2>1, <2>2, MovesCount DEF SystemInv
<1>3. CASE CommitUpdate(e) /\ ResolvesAlert(editor[e].order, editor[e].edit)
  <2>1. PICK a : /\ a = orders[editor[e].order].alert
                 /\ Moves(a, Resolution) /\ a # NoAlert
                 /\ editor[e].pc = "update" /\ UNCHANGED <<detector, detections>>
    BY <1>3 DEF CommitUpdate, ResolvesAlert, bystanders
  <2>2. editor[e].order \in OrderIds /\ Ordered(editor[e].order)
    BY <2>1 DEF SystemInv, OrderTypeOK, EditorState, IdleEditor, EditorsPointAtRows
  <2>3. a \in AlertIds /\ Exists(a)
    BY <2>1, <2>2 DEF SystemInv, OrderTypeOK, OrderRow, Ordered, OrdersPointAtRows
  <2> QED BY <1>0, <2>1, <2>3, MovesCount DEF SystemInv
<1> QED
  BY <1>1, <1>2, <1>3
  DEF Editor, ReadForCreate, CommitCreate, RollbackCreate, ReadForUpdate,
      CommitUpdate, RollbackUpdate, alertVars, bystanders

(* What AlertLifecycle promises of the alerts still holds beside requests  *)
(* that advance and resolve them on behalf of orders.                      *)
THEOREM AlertsSurviveOrders ==
  Spec => [](OneActivePerKey /\ StatusIsLastChange /\ DetectedExactlyOnce /\ NeverOvercounted)
<1>1. SystemInv /\ CountInv =>
        OneActivePerKey /\ StatusIsLastChange /\ DetectedExactlyOnce /\ NeverOvercounted
  BY CountsFit DEF SystemInv, AlertInv
<1>2. Init => CountInv
  BY CountInvInit DEF Init
<1>3. SystemInv /\ CountInv /\ [Next]_systemVars => CountInv'
  <2> SUFFICES ASSUME SystemInv, CountInv, [Next]_systemVars PROVE CountInv'
    OBVIOUS
  <2>1. CASE UNCHANGED alertVars
    BY <2>1, SameTablesCount DEF alertVars, SystemInv
  <2>2. CASE AlertNext
    BY <2>2, CountInvStep DEF SystemInv
  <2> QED BY <2>1, <2>2, EditorCounts DEF Next, systemVars
<1> QED BY <1>1, <1>2, <1>3, SystemInvHolds, PTL DEF Spec

-----------------------------------------------------------------------------
(* What a request for an order shows on the board of alerts.               *)
LEMMA EditorShows ==
  ASSUME SystemInv, NEW e \in Editors, Editor(e)
  PROVE  Board!Next \/ UNCHANGED Board!boardVars
<1>1. CASE UNCHANGED alert
  BY <1>1, QuietStep DEF Exists, IsActive
<1>2. CASE CommitCreate(e) /\ editor[e].advance
  <2>1. /\ Moves(editor[e].alert, Advance)
        /\ IndexAdmits(editor[e].alert, alert[editor[e].alert].key, Advance.to)
        /\ editor[e].pc = "create"
    BY <1>2 DEF CommitCreate, CreateAdmitted
  <2>2. editor[e].alert \in AlertIds /\ Exists(editor[e].alert)
    BY <1>2, <2>1 DEF SystemInv, OrderTypeOK, EditorState, IdleEditor, EditorsPointAtRows
  <2> QED BY <2>1, <2>2, MovesShows, OrderEntriesTyped DEF SystemInv
<1>3. CASE CommitUpdate(e) /\ ResolvesAlert(editor[e].order, editor[e].edit)
  <2> DEFINE a == orders[editor[e].order].alert
  <2>1. Moves(a, Resolution) /\ a # NoAlert /\ editor[e].pc = "update"
    BY <1>3 DEF CommitUpdate, ResolvesAlert
  <2>2. editor[e].order \in OrderIds /\ Ordered(editor[e].order)
    BY <2>1 DEF SystemInv, OrderTypeOK, EditorState, IdleEditor, EditorsPointAtRows
  <2>3. a \in AlertIds /\ Exists(a)
    BY <2>1, <2>2 DEF SystemInv, OrderTypeOK, OrderRow, Ordered, OrdersPointAtRows
  <2>4. IndexAdmits(a, alert[a].key, Resolution.to)
    BY DEF IndexAdmits, Resolution, ActiveStatuses
  <2> HIDE DEF a
  <2> QED BY <2>1, <2>3, <2>4, MovesShows, OrderEntriesTyped DEF SystemInv
<1> QED
  BY <1>1, <1>2, <1>3
  DEF Editor, ReadForCreate, CommitCreate, RollbackCreate, ReadForUpdate,
      CommitUpdate, RollbackUpdate, alertVars

(* The board of alerts is kept by the whole system: an order that advances *)
(* or resolves an alert, from a stale read too, shows one legal move.      *)
THEOREM SystemKeepsTheBoard == Spec => KeepsTheBoard
<1>1. SystemInv /\ [Next]_systemVars => [Board!Next]_Board!boardVars
  <2> SUFFICES ASSUME SystemInv, [Next]_systemVars
               PROVE  Board!Next \/ UNCHANGED Board!boardVars
    OBVIOUS
  <2>1. CASE UNCHANGED alertVars
    BY <2>1, QuietStep DEF alertVars, Exists, IsActive
  <2>2. CASE AlertNext
    BY <2>2, DetectorShows, OperatorShows DEF AlertNext, SystemInv
  <2> QED BY <2>1, <2>2, EditorShows DEF Next, systemVars
<1>2. Init => Board!Init
  BY InitShows DEF Init
<1> QED
  BY <1>1, <1>2, SystemInvHolds, PTL DEF Spec, KeepsTheBoard, Board!Spec
===============================================================================
