SPECIFICATION Spec
CONSTANTS
  Keys = {k1}
  AlertIds = {a1, a2}
  Detectors = {d1}
  Operators = {o1}
  NoKey = NoKey
  NoAlert = NoAlert
  MaxDetections = 2
  MaxChanges = 1
  MaxCrashes = 0
  OrderIds = {w1}
  Editors = {e1, e2}
  People = {p1}
  NoOne = NoOne
  Keep = Keep
  Requests <- MCRequests
  MaxVersion = 3
SYMMETRY Symmetry
INVARIANTS
  OrderTypeOK
  OneActivePerKey
  StatusIsBackedUp
  CompletionResolves
CHECK_DEADLOCK FALSE
