SPECIFICATION Spec
CONSTANTS
  Devices = {v1, v2}
  Fictional = {}
  NoDevice = NoDevice
  JobIds = {j1, j2}
  Concurrency = 2
  MaxAttempts = 2
  MaxFlips = 1
  MaxCloses = 1
  MaxCrashes = 1
INVARIANTS
  TypeOK
  NoDuplicateAlert
  AnnouncedUnlessCrashed
PROPERTIES
  SilenceIsAlerted
