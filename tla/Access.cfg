SPECIFICATION Spec
CONSTANTS
  cook = cook  chef = chef  boss = boss  spare = spare  ann = ann  bob = bob  east = east
  p1 = p1  p2 = p2  p3 = p3  p4 = p4  a1 = a1  a2 = a2  a3 = a3
  Roles = {cook, chef, boss, spare}
  Users = {ann, bob}
  Branches = {east}
  Perms = {"view", "all"}
  Covers <- MCCovers
  Scopes = {1, 2}
  Rows = {p1, p2, p3, p4}
  Assigns = {a1, a2, a3}
  Requests = {q1, q2}
  Needs <- MCNeeds
  Starts <- MCStarts
  MaxDepth = 2
  None = None
SYMMETRY MCSymmetry
INVARIANTS AnswerWasRight DecisionIsDeclared
CHECK_DEADLOCK FALSE
