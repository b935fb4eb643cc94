\* Two purchases through one browser context while the channel is renamed.
SPECIFICATION FairSpec
CONSTANTS
  j1 = j1  j2 = j2  p1 = p1  p2 = p2  u1 = u1  u2 = u2  context = context
  None = None
  Procs = {p1}
  Names = {u1, u2}
  Fresh = 0
  MaxTime = 1
  MaxRevision = 3
  Jobs = {j1, j2}
  NameOf <- Renamed
  PlatformOf <- Mixed
  ContextOf <- OneContext
  MayCite <- AnyCharge
  Totals = {2, 3}
  MaxSpend = 2
  QuoteLife = 0
  SessionLife = 1
  MaxFaults = 1
INVARIANTS ChargedOnce ContextExclusive
PROPERTIES PermitIsFresh ChargedSettles
CHECK_DEADLOCK FALSE
