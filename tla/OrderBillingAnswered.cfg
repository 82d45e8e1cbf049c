SPECIFICATION FairSpec
CONSTANTS
  Orders = {o1}
  None = None
  Requests = {r1, r2, r3}
  Keys = {k1, k2}
  Prices = {1}
  Tenders = {1}
  GiftAmounts = {}
  SentStatuses <- PrepStatus
  MaxInFlight = 3
PROPERTIES EveryRequestAnswered
CHECK_DEADLOCK FALSE
