SPECIFICATION Spec
CONSTANTS
  Nodes = {n1}
  Reqs = {r1, r2, r3}
  Tokens = {t1, t2, t3}
  Families = {f1, f2}
  Users = {u1}
  Jkts = {k1}
  None = None
  RefreshTTL = 1
  GracePeriod = 1
  MaxTime = 0
SYMMETRY Symmetry
INVARIANTS
  LogoutEndsSessionUnlessRotated
  AnswersAreSuccessors
  OneActivePerFamily
  SingleSuccessor
  ReuseKillsFamilyUnlessRaced
  OnlyBulkRevokesHoldAndWait
PROPERTIES
  DeadFamilyStaysDead
  ImplementsSessions
