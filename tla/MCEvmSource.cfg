\* One token is launched while the fees of another are claimed.
SPECIFICATION FairSpec
CONSTANTS
  k1 = k1  k2 = k2  p1 = p1  p2 = p2
  None = None
  Procs = {p1, p2}
  Tokens = {k1, k2}
  Launched = {k1}
  MinClaim = 1
  MaxClaims <- OneClaim
  MaxFees = 1
  MaxFaults = 2
INVARIANTS NonceOnce LotsCount
PROPERTIES SignedArrives
CHECK_DEADLOCK FALSE
