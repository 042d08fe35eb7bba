SPECIFICATION RegistrySpec
CONSTANTS
  d1 = d1
  d2 = d2
  s1 = s1
  k1 = k1
  w1 = w1
  g1 = g1
  None = none
  Devices = {d1, d2}
  Sectors = {s1}
  Keys = {k1}
  Windows = {w1}
  Gateways = {g1}
  Levels = {0, 1}
  Slots = {1}
  MaxFailures = 1
SYMMETRY Symmetry
INVARIANTS
  RegistryTypeOK
  EndsOnce
  RevocationTakesHold
  EveryKeyIsShown
