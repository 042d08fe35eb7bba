SPECIFICATION Spec
CONSTANTS
  device = device
  gateway = gateway
  user = user
  fictional = fictional
  m1 = m1
  m2 = m2
  m3 = m3
  m4 = m4
  m5 = m5
  d1 = d1
  twin = twin
  later = later
  Devices = {d1}
  Installed = {d1}
  DeviceOf <- Owners
  Senders = {device}
  Importers = {}
  Readings = {m1}
  Batch <- OneBatch
  Identified = {m1}
  Inadmissible = {}
  Anomalous = {m1}
  MaxFailures = 1
PROPERTIES
  EveryBatchAnswered
CHECK_DEADLOCK FALSE
