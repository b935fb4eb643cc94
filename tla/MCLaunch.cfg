\* A user who launches, loses an answer or two, and tries again.
SPECIFICATION FairSpec
CONSTANTS
  s1 = s1
  None = None
  MaxLaunches = 2
  Sigs = {s1}
  Limit = 1
  MaxSigned = 1
  MaxFaults = 1
INVARIANTS StatusIsTrue NoReplacement
PROPERTIES LandedConfirms PageLearns
CHECK_DEADLOCK FALSE
