SPECIFICATION Spec
CONSTANTS
  alice = alice
  bob = bob
  m1 = m1
  m2 = m2
  Users = {alice, bob}
  Markets = {m1}
  Workers = {w1, w2}
  NoWorker = NoWorker
  NoRow = NoRow
  NoRequest = NoRequest
  BuyRequests <- MCBuyRequests
  SellRequests <- MCSellRequests
  InitialBalance <- MCInitialBalance
  MaxDebt = 4
  InitialBetFee = 1
  BuySharesFee = 0
  MaxDustPerSale = 1
  MaxStamps = 2
  Held <- MCHeld
  Sellable <- MCSellable
SYMMETRY WorkerSymmetry
PROPERTY NoBetOnceClosed
