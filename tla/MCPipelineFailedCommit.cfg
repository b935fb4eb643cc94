SPECIFICATION FailedCommitSpec
CONSTANTS
  j1 = j1  j2 = j2  w1 = w1  w2 = w2  r1 = r1  r2 = r2
  None = None
  Jobs = {j1, j2}
  Historical = {}
  Workers = {w1}
  Cards = {card}
  Refs = {r1, r2}
  MayCite <- OwnRef
  Nets = {2}
  CardLimit = 6
  MinGift = 1
  MaxGift = 2
  BatchSize = 1
  MaxAge = 1
  MaxTime = 1
  MaxFaults = 1
INVARIANT ReceiptIsDurable
