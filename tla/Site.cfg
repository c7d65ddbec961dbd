CONSTANTS
  None = None
  GroupSize = 2
  MaxAttempts = 1
  Followed = {m, n}
  Languages = {en, es}
  MaxListed = 2
  MaxPage = 1
  MaxRefreshes = 2
  Probabilities = {0, 5, 10}
  MaxTicks = 4
  MaxChanges = 2
  Percents = {40, 60}
  MaxAnswers = 3
  MaxPolls = 1
  Answers = {a, b}
  Windows = {a, b}
  MaxToggles = 2
  SearchTexts = {"ab", "cd"}
  MaxResults = 2
  Topics = {s}
  TableStatuses = {"active"}
  BarTexts = {"x"}
  LastPage = 1
  MaxMoves = 1
  MaxSearches = 0
  GridTexts = {"x", "y"}
  MaxVersions = 2
  MaxCards = 5
  Screen = 2
  Chunk = 2
  MarketCount = 3
  CardGroups = {g}
  CardAnswers = {"a", "b"}
  CardTags = {t}
  ProposalLabels = {"a", "b"}
  ProposalTags = {"t", "u"}
  MaxTags = 1
  HardCap = 2
  SetupCap = 3
  Members = {u}
  Roles = {"ADMIN", "MODERATOR", "REGULAR"}
  Visited = {"home", "portfolio"}
  Users = {u, v}
  MaxTrades = 1
  PageEnd = 2
  MaxLogins = 2
  MaxTimers = 2
  MaxRequests = 2
SPECIFICATION Spec
INVARIANTS
  TypeOK
  PageShowsTheMarket
  AnswersFit
  CardsAreComplete
  ChartsAreTrue
  SentOnce
  LoginIsKept
PROPERTIES
  LoadSettles
  NothingIsUndone
CHECK_DEADLOCK FALSE
