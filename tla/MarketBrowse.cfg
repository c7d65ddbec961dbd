CONSTANTS
  None = None
  Topics = {s}
  Statuses = {"active", "all"}
  Texts = {"x"}
  LastPage = 1
  MaxMoves = 1
  MaxSearches = 2
SPECIFICATION Spec
INVARIANTS
  ListsFitTheView
CHECK_DEADLOCK FALSE
