SPECIFICATION Spec
CONSTANTS
  Reqs = {r1}
  Values <- MCValues
  Lower <- MCLower
  Passwords = {p1, p2}
  Dummy = p2
  None = None
  MaxCalls = 1
  MaxChanges = 1
CHECK_DEADLOCK FALSE
INVARIANTS
  RegisteredIsStored
