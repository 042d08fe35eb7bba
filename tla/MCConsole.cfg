SPECIFICATION FairSpec
CONSTANTS
  a1 = a1
  o1 = o1
  o2 = o2
  None = none
  Alerts = {a1}
  Orders = {o1, o2}
  Assigned = {o2}
  Elsewhere = {}
  Can = {"alerts:transition", "work-orders:create", "work-orders:execute"}
  ByOthers = {"RESOLVED"}
  ByUser = {"COMPLETED"}
  MaxCalls = 1
  MaxWrites = 1
  MaxFailures = 1
INVARIANT
  ConsoleTypeOK
PROPERTIES
  ClosesOnFreshList
  ListCatchesUp
