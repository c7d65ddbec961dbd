CONSTANTS
  None = None
  Answers = {a, b}
  MaxAmount = 1
  Steps = {1}
  MaxHeld = 1
  StartHeld = {1}
  MaxLoads = 2
  MaxFetches = 3
  MaxMounts = 3
  MaxOrders = 1
  GroupSize = 2
  Elsewhere = {"YES", "N/A"}
  Settings = {p, q}
  MaxVersion = 3
  MaxOpens = 2
  MaxRevision = 3
  Rows = {r, s}
  Views = {v, w}
  Stewards = {p, q}
  Tags = {t, u}
  MaxTags = 1
  MaxDecisions = 4
  Topics = {p, q}
  MaxLayouts = 2
  MaxPins = 1
  MaxSaves = 1
  MaxRequests = 3
SPECIFICATION Spec
INVARIANTS
  TypeOK
  OrderedOnce
  SoldOnce
  PanelFits
  TwiceOnlyAfterMixing
  QueuesAreCurrent
  SavedWhereItBelongs
PROPERTIES
  ResolvedAsPicked
  ChangesAreKept
CHECK_DEADLOCK FALSE
