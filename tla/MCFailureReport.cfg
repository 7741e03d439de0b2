\* The same instance: the hard deadline passes after a block's manifest was published.
SPECIFICATION DispatchSpec
CONSTANTS
  i1 = i1  i2 = i2  i3 = i3  t1 = t1  t2 = t2  t3 = t3  n1 = n1  n2 = n2
  h1 = h1  h2 = h2  h3 = h3  p1 = p1  p2 = p2  u1 = u1
  Ids = {i1, i2, i3}  TypedData = {t1, t2, t3}  Handlers = {h1, h2, h3}
  NonceOf <- MCNonceOf
  AmountOf <- MCAmountOf
  MaximumOf <- MCMaximumOf
  MaxAmount = 3
  NoId = NoId  NoData = NoData
  Plans <- MCPlans  Burst = "burst"  Cap = 2  NoCall = NoCall
  Calls = {t1, t2}  Targets = {u1}  Processes = {p1, p2}  MaxIntents = 3
INVARIANT FailureCanBeReported
CHECK_DEADLOCK FALSE
