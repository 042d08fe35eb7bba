SPECIFICATION Spec
CONSTANTS
  Devices = {v1, v2}
  Fictional = {v2}
  NoDevice = NoDevice
  JobIds = {j1, j2}
  Concurrency = 2
  MaxAttempts = 2
  MaxFlips = 0
  MaxCloses = 0
  MaxCrashes = 0
PROPERTIES
  SilenceIsAlerted
