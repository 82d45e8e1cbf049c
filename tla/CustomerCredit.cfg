SPECIFICATION Spec
CONSTANTS
  c1 = c1  o1 = o1  o2 = o2  k1 = k1  k2 = k2  u1 = u1  u2 = u2
  Cards = {c1}
  Coupons = {k1, k2}
  Customers = {u1, u2}
  Orders = {o1, o2}
  Terminals = {t1, t2}
  None = None
  Values = {2}
  Amounts <- MCAmounts
  CustomerOf <- MCCustomerOf
  Points <- MCPoints
  Fits <- MCFits
  Stackable = {k2}
  Limit <- MCLimit
  PerCustomer <- MCPerCustomer
  MaxCalls = 3
SYMMETRY MCSymmetry
INVARIANTS TypeOK HolderNeverLoses CardExactWhenAlone NoUseLost RewardedOnceWhenAlone
PROPERTIES NeverDisplaced
CHECK_DEADLOCK FALSE
