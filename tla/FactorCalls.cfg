SPECIFICATION Spec
SYMMETRY Symmetry
CONSTANTS
  Reqs = {r1, r2}
  Secrets = {s1, s2}
  Recovery = {c1}
  Steps = {1}
  None = None
  BatchSize = 1
  StepLen = 2
  DraftTTL = 1
  MaxTime = 7
INVARIANTS
  FactorsAreSingleUse
  SpentStaysSpent
  EnrolmentConsistent
