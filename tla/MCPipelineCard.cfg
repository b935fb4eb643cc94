\* Two gifts compete for one card, each reserved against an older observation.
SPECIFICATION Spec
CONSTANTS
  j1 = j1  j2 = j2  w1 = w1  w2 = w2  r1 = r1  r2 = r2
  None = None
  Jobs = {j1, j2}
  Historical = {}
  Workers = {w1, w2}
  Cards = {card}
  Refs = {r1, r2}
  MayCite <- OneConfused
  Nets = {2}
  CardLimit = 3
  MinGift = 1
  MaxGift = 2
  BatchSize = 1
  MaxAge = 1
  MaxTime = 2
  MaxFaults = 0
SYMMETRY WorkerSymmetry
INVARIANTS CardNotOvercommitted AtMostOneCall CommittedBeforeCall Proved
PROPERTIES KeepsPromise
