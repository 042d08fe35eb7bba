SPECIFICATION FairSpec
CONSTANTS
  t1 = t1
  u1 = u1
  u2 = u2
  None = None
  Tabs = {t1}
  Users = {u1, u2}
  RoleOf <- Roles
  Visited = {"alertas", "conta"}
  Slots = {1, 2}
  MaxLogins = 2
  MaxFailures = 1
INVARIANTS
  OnlyOwnData
PROPERTIES
  WritesAsShown
  EndedIsNoticed
