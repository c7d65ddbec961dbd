CONSTANTS
  alice = alice
  bob = bob
  None = None
  GroupRow = GroupRow
  AdditionRow = AdditionRow
  Users = {alice, bob}
  Workers = {w1, w2}
  Markets = {1, 2}
  Child = 3
  Payments <- ThePayments
  Bettors <- TheBettors
  Fee = 1
  Steward = bob
  Proposer = alice
  Cost = 2
  MaxDebt = 3
  InitialBalance <- TheBalances
  Swings <- TheSwings
  MaxTrades = 1
  Clerks = {w1, w2}
  Proposals = {m1, m2}
  Price = 2
  Limit = 1
  StartBalance = 2
  Gains <- TheSwings
  MaxGains = 1
  Visitors = {w1, w2, w3}
  Snapshots = {m1, m2}
  MaxRows = 2
  MaxReads = 3
  Officers = {w1, w2, w3}
  Moderators = {alice, bob}
  Admin = admin
  Creator = alice
  MaxSuspensions = 1
SPECIFICATION ServiceSpec
INVARIANTS
  ServiceTypeOK
  TwiceOnlyByOverlap
  BalanceExplained
  GroupIsWhole
  ProposalPaidOnce
  AuditsAreTrue
  BehindOnlyIfExcused
CHECK_DEADLOCK FALSE
