SPECIFICATION FairSpec
CONSTANTS
  Calls = {c1, c2, c3}
  Intents = {i1, i2}
  None = None
  Route = "orders"
  FreshKeys = FALSE
  Faults = TRUE
  MaxInFlight = 3
INVARIANTS SuccessIsTheOrder RefusedOnlyIfOther
PROPERTIES OrderedOnce KeyFreed
CHECK_DEADLOCK FALSE
