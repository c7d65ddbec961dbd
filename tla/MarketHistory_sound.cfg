SPECIFICATION Spec
CONSTANTS
  Subsidization = 1
  Traders = {alice, bob}
  BuyAmounts = {1, 2, 5}
  SellRequests = {1, 3, 20}
  MaxDustPerSale = 1
  MaxRows = 4
SYMMETRY TraderSymmetry
CHECK_DEADLOCK FALSE
INVARIANTS
  TypeOK
  ValuationsFillThePool
  SalesSellUnlockedLots
  SoundWhileOnlyBuys
PROPERTY
  SalePaysAtMostThePosition
