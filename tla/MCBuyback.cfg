SPECIFICATION FairSpec
CONSTANTS
  w1 = w1  w2 = w2
  None = None
  MaxLots = 2
  Unrouted = {1}
  Workers = {w1, w2}
  MayCite <- AnyOp
  Quotes = {2}
  Receipts = {2, 3}
  Outputs = {1}
  Slippage = 1000
  MaxFee = 1
  MinBuy = 1
  MaxBuy = 2
  BatchSize = 1
  MaxCrashes = 1
  Revisions = {0, 1, 2}
INVARIANTS OnceEach Purse
PROPERTIES KeepsPromise EveryLotBurns
