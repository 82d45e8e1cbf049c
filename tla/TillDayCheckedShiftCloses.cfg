SPECIFICATION FairSpec
CONSTANTS
  u1 = u1
  Users = {u1, u2}
  Dates = {d1, d2, d3}
  Orders = {o1}
  Terminals = {t1, t2}
  None = None
  OpenDates = {d1, d2}
  UserOf <- MCUserOf
PROPERTIES CheckedShiftCloses
CHECK_DEADLOCK FALSE
