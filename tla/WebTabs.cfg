SPECIFICATION Spec
CONSTANTS
  Tabs = {t1, t2}
  Calls = {c1, c2}
  Keys = {k1, k2}
  Emails = {ann, bob}
  MaxActs = 4
  None = None
SYMMETRY Symmetric
INVARIANTS
  TypeOK
  OncePerSubmit
  TokenFitsTabKey
  ProfileIsOwn
CHECK_DEADLOCK FALSE
