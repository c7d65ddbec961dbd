SPECIFICATION Spec
CONSTANTS
  Subsidization = 1
  Traders = {alice, bob}
  BuyAmounts = {3}
  SellRequests = {20}
  MaxDustPerSale = 1
  MaxRows = 6
SYMMETRY TraderSymmetry
CHECK_DEADLOCK FALSE
INVARIANT ValuesMatchTheVolume
