SPECIFICATION Spec
CONSTANTS
  Users = {u1, u2}
  Founders = {u1, u2}
  Roles = {"ADMIN", "VIEWER"}
  Requests = {r1, r2}
  Bodies <- Removals
  Free = Free
  NoUser = NoUser
  Keep = Keep
  MaxSignIns = 1
  MaxRequests = 2
PROPERTIES
  SecondRecounts
