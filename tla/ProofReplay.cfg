SPECIFICATION Spec
CONSTANTS
  Reqs = {r1, r2}
  Jtis = {j1}
  k1 = k1
  k2 = k2
  a1 = a1
  Keys <- MCKeys
  Nonces = {o1, o2, o3}
  AccessTokens <- MCAccessTokens
  TokenKey <- MCTokenKey
  TokenExp <- MCTokenExp
  None = None
  NonceRequired = FALSE
  ClockSkew = 1
  Buffer = 3
  NonceTTL = 2
  Capacity = 0
  Truncation = 1
  MaxDelay = 1
  MaxTime = 7
  MaxProofs = 1
SYMMETRY Symmetry
INVARIANTS
  NoReplay
  SlotsFromFreshProofs
  SessionBelongsToKeyHolder
