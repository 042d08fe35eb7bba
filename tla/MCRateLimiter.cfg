SPECIFICATION LimiterSpec
CONSTANTS
  address = address
  account = account
  Clients = {c1, c2}
  Routes <- TwoRoutes
  Keys = {address, account}
  Limit <- OneEach
  Window = 2
  Second = 1
  Processes = {p1}
  Redis = Redis
  SweepOver = 1
  MaxResets = 1
INVARIANTS
  NeverUnlimited
  RetryAfterSuffices
SYMMETRY Alike
