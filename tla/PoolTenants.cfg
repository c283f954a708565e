SPECIFICATION FairSpec
CONSTANTS
  Reqs = {r1, r2}
  Conns = {c1, c2}
  Tenants = {t1, t2}
  None = None
INVARIANTS
  TenantIsolation
  PooledConnsAreClean
  StuckOnlyIfSaturated
PROPERTIES
  EveryCallReturns
