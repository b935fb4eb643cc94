\* Two processes write the state of one transaction.
SPECIFICATION Spec
CONSTANTS
  l1 = l1  l2 = l2  p1 = p1  p2 = p2
  None = None
  Lots = {l1}
  Procs = {p1, p2}
  Creator <- OneWallet
  MaxFaults = 0
SYMMETRY ProcSymmetry
PROPERTY FinalStays
CHECK_DEADLOCK FALSE
