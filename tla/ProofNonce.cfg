SPECIFICATION Spec
CONSTANTS
  Reqs = {r1, r2}
  Jtis = {j1, j2}
  k1 = k1
  k2 = k2
  a1 = a1
  Keys <- MCKeys
  Nonces = {o1, o2, o3}
  AccessTokens <- MCAccessTokens
  TokenKey <- MCTokenKey
  TokenExp <- MCTokenExp
  None = None
  NonceRequired = TRUE
  ClockSkew = 1
  Buffer = 2
  NonceTTL = 1
  Capacity = 1
  Truncation = 0
  MaxDelay = 1
  MaxTime = 2
  MaxProofs = 2
SYMMETRY Symmetry
INVARIANTS
  LimitOnlyIfNonceGone
