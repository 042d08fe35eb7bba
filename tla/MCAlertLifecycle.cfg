SPECIFICATION AlertSpec
CONSTANTS
  Keys = {k1, k2}
  AlertIds = {a1, a2}
  Detectors = {d1, d2}
  Operators = {o1, o2}
  NoKey = NoKey
  NoAlert = NoAlert
  MaxDetections = 3
  MaxChanges = 1
  MaxCrashes = 1
SYMMETRY Symmetry
INVARIANTS
  AlertTypeOK
  OneActivePerKey
  StatusIsLastChange
  DetectedExactlyOnce
  NeverOvercounted
PROPERTIES
  KeepsTheBoard
CHECK_DEADLOCK FALSE
