SPECIFICATION FairSpec
CONSTANTS
  alice = alice
  bob = bob
  m1 = m1
  m2 = m2
  Users = {alice, bob}
  Markets = {m1}
  Workers = {w1, w2}
  NoWorker = NoWorker
  NoRow = NoRow
  NoRequest = NoRequest
  BuyRequests <- MCLiveBuys
  SellRequests <- MCLiveSells
  InitialBalance <- MCInitialBalance
  MaxDebt = 4
  InitialBetFee = 1
  BuySharesFee = 0
  MaxDustPerSale = 1
  MaxStamps = 3
  Held <- OneShareHeld
  Sellable <- OneShareSellable
PROPERTY EveryRequestIsAnswered
