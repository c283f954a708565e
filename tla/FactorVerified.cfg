SPECIFICATION Spec
CONSTANTS
  Reqs = {r1, r2}
  Secrets = {s1, s2}
  Recovery = {c1}
  Steps = {0}
  None = None
  BatchSize = 1
  StepLen = 1
  DraftTTL = 2
  MaxTime = 0
SYMMETRY Symmetry
INVARIANTS
  PromotedSecretWasVerified
