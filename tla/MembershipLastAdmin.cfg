SPECIFICATION Spec
CONSTANTS
  u1 = u1
  u2 = u2
  u3 = u3
  w1 = w1
  r1 = r1
  r2 = r2
  Idle = Idle
  NoLimit = NoLimit
  Users = {u1, u2}
  Workspaces = {w1}
  Requests = {r1, r2}
  Limits = {1}
  MaxUses = 2
SYMMETRY MembershipSymmetry
PROPERTIES
  LastAdminStays
CHECK_DEADLOCK FALSE
