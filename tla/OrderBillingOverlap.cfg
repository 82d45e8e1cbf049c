SPECIFICATION Spec
CONSTANTS
  Orders = {o1}
  None = None
  Requests = {r1, r2, r3}
  Keys = {k1, k2}
  Prices = {1, 2}
  Tenders = {1, 2}
  GiftAmounts = {1}
  SentStatuses <- AllStatuses
  MaxInFlight = 3
SYMMETRY Symmetry
INVARIANTS PaidInvoiceCovered NeverOverbilled VersionCountsWrites KeyPaysOnce DeskPaymentsPosted
  TotalsMatchItems PaidInvoiceSettlesOrder OpenInvoiceNotOverpaid OneInvoicePerOrder
PROPERTIES PaidInvoiceImmutable StatusWriteLegal
CHECK_DEADLOCK FALSE
