\* Lots that dispute an id, a claim and an old payment, and one nobody disputes.
SPECIFICATION RouterFairSpec
CONSTANTS
  p1 = p1  p2 = p2  A = A  B = B  C = C  D = D
  hash1 = hash1  hash2 = hash2  hash3 = hash3  coin1 = coin1  coin2 = coin2
  Nothing = Nothing
  Lots <- Disputed
  Sources = 3
  SourceOf <- Three
  Redelivered = {2}
  Historical <- Legacy
  MaxSource = 6
  Processes = {p1, p2}
  MaxFailures = 1
INVARIANTS SplitOnce AcknowledgedIsDurable
PROPERTIES EveryLotArrives
