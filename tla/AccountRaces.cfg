SPECIFICATION FairSpec
CONSTANTS
  Reqs = {r1, r2}
  Values <- MCValues
  Lower <- MCLower
  Passwords = {p1, p2}
  Dummy = p2
  None = None
  MaxCalls = 3
  MaxChanges = 1
CHECK_DEADLOCK FALSE
INVARIANTS
  TypeOK
  IdentifierResolvesToOne
  AccountsAreWhole
  LoginsAreJustified
  RegisteredUnlessUnaudited
PROPERTIES
  EveryCallReturns
