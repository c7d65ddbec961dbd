SPECIFICATION Spec
CONSTANTS
  Subsidization = 1
  Traders = {alice, bob}
  BuyAmounts = {1}
  SellRequests = {2}
  MaxDustPerSale = 1
  MaxRows = 3
SYMMETRY TraderSymmetry
CHECK_DEADLOCK FALSE
INVARIANT PriceIsNormalized
