SPECIFICATION Spec
CONSTANTS
  device = device
  gateway = gateway
  user = user
  fictional = fictional
  m1 = m1
  m2 = m2
  m3 = m3
  m4 = m4
  m5 = m5
  d1 = d1
  twin = twin
  later = later
  Devices = {d1, twin, later}
  Installed = {d1, twin}
  DeviceOf <- Owners
  Senders = {device, gateway, user, fictional}
  Importers = {user}
  Readings = {m1, m2, m3, m4, m5}
  Batch <- OverlappingBatches
  Identified = {m1, m3, m4, m5}
  Inadmissible = {m4}
  Anomalous = {m1, m2, m5}
  MaxFailures = 2
INVARIANTS
  TypeOK
  AnsweredMeansDone
  CountedOnce
