\* A row that is held for ever, slices of one row, and a lot above the gift limits.
SPECIFICATION FairSpec
CONSTANTS
  j1 = j1  j2 = j2  w1 = w1  w2 = w2  r1 = r1  r2 = r2
  None = None
  Jobs = {j1, j2}
  Historical = {j2}
  Workers = {w1}
  Cards = {card}
  Refs = {r1, r2}
  MayCite <- AnyRef
  Nets = {2, 3}
  CardLimit = 2
  MinGift = 1
  MaxGift = 2
  BatchSize = 1
  MaxAge = 1
  MaxTime = 2
  MaxFaults = 1
PROPERTIES NoStarvation EveryLotSettles
