SPECIFICATION Spec
CONSTANTS
  Calls = {c1, c2}
  Intents = {i1}
  None = None
  Route = "payments"
  FreshKeys = FALSE
  Faults = FALSE
  MaxInFlight = 1
SYMMETRY Symmetry
INVARIANTS RefusedOnlyIfOther
CHECK_DEADLOCK FALSE
