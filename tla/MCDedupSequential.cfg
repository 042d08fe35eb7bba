SPECIFICATION AlertSpec
CONSTANTS
  Keys = {k1}
  AlertIds = {a1, a2}
  Detectors = {d1}
  Operators = {o1}
  NoKey = NoKey
  NoAlert = NoAlert
  MaxDetections = 3
  MaxChanges = 1
  MaxCrashes = 0
PROPERTIES
  DetectionNeverRejected
CHECK_DEADLOCK FALSE
