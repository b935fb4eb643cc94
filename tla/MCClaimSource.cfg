\* Two processes, two claims of one token, of which the first may be an expired one of an earlier release.
SPECIFICATION RecoverySpec
CONSTANTS
  p1 = p1  p2 = p2  early = early  late = late
  None = None
  Lots = {1, 2}
  Procs = {p1, p2}
  Creator <- OneWallet
  Prices = {early, late}
  MinFees = 1
  MaxFees = 1
  MaxFaults = 1
INVARIANTS ClaimsHold
PROPERTIES FirstValuationStays EveryClaimRoutes FeesAreClaimed
CHECK_DEADLOCK FALSE
