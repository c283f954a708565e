SPECIFICATION FairSpec
CONSTANTS
  Nodes = {n1}
  Reqs = {r1, r2}
  Tokens = {t1, t2}
  Families = {f1, f2}
  Users = {u1}
  Jkts = {k1, k2}
  None = None
  RefreshTTL = 1
  GracePeriod = 1
  MaxTime = 1
CONSTRAINT InOrder
INVARIANTS
  FamilyUniform
  AnswersBoundToFamilyKey
PROPERTIES
  EveryCallReturns
