\* Two processes recover one lot.
SPECIFICATION FairSpec
CONSTANTS
  l1 = l1  l2 = l2  p1 = p1  p2 = p2
  None = None
  Lots = {l1}
  Procs = {p1, p2}
  Creator <- OneWallet
  MaxFaults = 1
INVARIANTS SubmitOnce SoldIsBacked
PROPERTIES NeverForgets EveryLotSells
CHECK_DEADLOCK FALSE
