SPECIFICATION Spec
CONSTANTS
  Users = {u1}
  SessionIds = {s1, s2}
  Logins = {l1}
  Requests = {r1, r2}
  Idle = 3
  Absolute = 4
  Touch = 0
  Retention = 0
  RequestTime = 1
  Outdated = {u1}
  Unused = Unused
  Purged = Purged
  Never = Never
  MaxTime = 4
  MaxChanges = 1
SYMMETRY Symmetry
INVARIANTS
  SessionsTypeOK
  OnlyKeptOrLate
  StaysSignedIn
PROPERTIES
  EndedForGood
CHECK_DEADLOCK FALSE
