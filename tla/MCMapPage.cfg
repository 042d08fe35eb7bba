SPECIFICATION Spec
CONSTANTS
  d1 = d1
  d2 = d2
  s1 = s1
  s2 = s2
  pipe = pipe
  None = none
  Home = home
  Elsewhere = elsewhere
  Devices = {d1, d2}
  Sectors = {s1, s2}
  Assets = {pipe}
  Located = {d1, d2}
  KindOf <- Kinds
  SectorOf <- Places
  Basemaps = {"voyager", "dark"}
  DefaultBasemap = "voyager"
  Tunings = {"soft", "strong"}
  DefaultTuning = "soft"
  Search = {"q"}
  Hits <- FindsOne
  Asked <- AskedOfTheApi
  MaxLimit = 200
  Forbidden = {}
  Start <- StartingRows
  NewAlerts = {"CLOSED"}
  NewStatuses = {"INACTIVE"}
  NewLists <- WholeList
  UserToggles = {"activeAlerts"}
  UserFilters <- FewFilters
  MaxChanges = 1
  Fallible = {"devices"}
  MaxFailures = 1
  MaxAsked = 1
  MaxGestures = 3
INVARIANTS
  OneTileLayer
  LayersAreCurrent
  HeatmapIsCurrent
  SelectionCoherent
