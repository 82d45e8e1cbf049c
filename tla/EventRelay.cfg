SPECIFICATION FairSpec
CONSTANTS
  b1 = b1
  w1 = w1
  Servers = {w1, w2}
  Sockets = {s1}
  Branches = {b1}
  None = None
  BranchOf <- MCBranchOf
  MaxEvents = 2
  MaxFailures <- MCMaxFailures
  Restarting = {w1}
INVARIANTS HeardInOrder CopiesCounted
PROPERTIES BranchIsHeard SentIsHeard
CHECK_DEADLOCK FALSE
