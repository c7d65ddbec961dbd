SPECIFICATION Spec
CONSTANTS
  Subsidization = 1
  Traders = {alice, bob}
  BuyAmounts = {1}
  SellRequests = {1}
  MaxDustPerSale = 1
  MaxRows = 4
SYMMETRY TraderSymmetry
CHECK_DEADLOCK FALSE
PROPERTY BuyNeverRelocks
