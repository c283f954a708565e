SPECIFICATION Spec
CONSTANTS
  Nodes = {n1}
  Reqs = {r1, r2}
  Tokens = {t1, t2, t3}
  Families = {f1}
  Users = {u1}
  Jkts = {k1}
  None = None
  RefreshTTL = 1
  GracePeriod = 1
  MaxTime = 0
SYMMETRY Symmetry
INVARIANTS
  ReuseRevokesWholeFamily
