\* Two payments of one token's fees, by either way of funding.
SPECIFICATION SlicedSpec
CONSTANTS
  k1 = k1  k2 = k2  kp = kp  w = w  p1 = p1  p2 = p2  r1 = r1  r2 = r2  u = u
  a1 = a1  c1 = c1  c2 = c2
  None = None
  Tokens = {k1, k2}
  Platform = {kp}
  CreatorOf <- Creators
  ChannelOf <- Channels
  Claims <- Fees
  Costs = {"b"}
  Bps = 3000
  Payments = {p1, p2}
  Budgets = {6}
  Plans <- Native
  Rate = 7
  Unit = 6
  Transfers <- Invoiced
  Gases = {1, 2}
  Credits = {2, 3, 4}
  Spends = {1, 3}
  Refs = {r1, r2}
  Urls = {u}
  Receipts <- Treasury
  Threshold = 3
  MaxOpen = 2
  MaxChecked = 1
  Operations <- Expenses
  Cap = 5
  Ceiling = 2
  Actuals = {1, 3}
  Proofs = {"e"}
  Callers = {c1, c2}
  MaxFreezes = 1
SYMMETRY Symmetry
INVARIANTS Books Solvent OneSpendPerChannel OnePurchaseOneRecord Budgeted OneSession
PROPERTIES SpendIsReviewed
CHECK_DEADLOCK FALSE
