SPECIFICATION Spec
CONSTANTS
  flour = flour  eggs = eggs  i1 = i1  i2 = i2  g1 = g1  g2 = g2  p1 = p1
  Ingredients = {flour}
  Items = {i1}
  Receipts = {g1, g2}
  PurchaseOrders = {p1}
  Terminals = {t1, t2}
  None = None
  Recipe <- MCDish
  Accepted <- MCParts
  OfOrder <- MCTwoOfOne
  Ordered <- MCOrderedTwice
  ByHand <- MCByHand
  MaxAttempts = 1
  MaxBatches = 3
SYMMETRY MCSymmetry
INVARIANTS ReceiptCountsOnce 
CHECK_DEADLOCK FALSE
