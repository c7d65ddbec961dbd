SPECIFICATION Spec
CONSTANTS
  Subsidization = 1
  Traders = {alice, bob}
  BuyAmounts = {1, 2, 5}
  SellRequests = {2}
  MaxDustPerSale = 1
  MaxRows = 4
SYMMETRY TraderSymmetry
CHECK_DEADLOCK FALSE
INVARIANT ResolutionIsFunded
