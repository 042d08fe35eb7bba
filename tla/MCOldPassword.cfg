SPECIFICATION Spec
CONSTANTS
  Users = {u1}
  SessionIds = {s1, s2}
  Logins = {l1}
  Requests = {r1}
  Idle = 4
  Absolute = 5
  Touch = 1
  Retention = 1
  RequestTime = 1
  Outdated = {u1}
  Unused = Unused
  Purged = Purged
  Never = Never
  MaxTime = 3
  MaxChanges = 1
SYMMETRY Symmetry
INVARIANTS
  OldPasswordInvalidated
CHECK_DEADLOCK FALSE
