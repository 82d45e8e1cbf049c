SPECIFICATION FairSpec
CONSTANTS
  flour = flour  eggs = eggs  i1 = i1  i2 = i2  g1 = g1  g2 = g2  p1 = p1
  Ingredients = {flour, eggs}
  Items = {i1, i2}
  Receipts = {g1}
  PurchaseOrders = {p1}
  Terminals = {t1}
  None = None
  Recipe <- MCDishes
  Accepted <- MCDelivery
  OfOrder <- MCOneOfOne
  Ordered <- MCOrderedOnce
  ByHand = {}
  MaxAttempts = 2
  MaxBatches = 2
INVARIANTS TypeOK QuantityIsLedger DepletedOnce BatchesCoverLedger
PROPERTIES ImplementsBook JobsSettle
CHECK_DEADLOCK FALSE
