SPECIFICATION FairSpec
CONSTANTS
  Orders = {o1}
  None = None
  Requests = {r1, r2}
  Keys = {k1}
  Prices = {1}
  Tenders = {1}
  GiftAmounts = {}
  SentStatuses <- PrepStatus
  MaxInFlight = 2
PROPERTIES VersionCheckHonoured
CHECK_DEADLOCK FALSE
