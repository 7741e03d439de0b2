\* Two calls end in a hold before and after an operator asks to close.
SPECIFICATION IntentSpec
CONSTANTS
  m1 = m1  m2 = m2  a1 = a1  r1 = r1  r2 = r2  r3 = r3
  w1 = w1  w2 = w2  v1 = v1  v2 = v2
  Mandates = {m1}  Agents = {a1}  Requests = {r1, r2}  Workers = {w1, w2}
  Branches = {}  Classes = {}  BranchInputs = {}
  Policies = {v2}
  PolicyOf <- MCPolicyOf
  Payloads <- CostsOne
  Minute = 1  Hour = 1  Day = 1  Lease = 1
  MaxAmount = 4
  Maxima = {3}
  Expiries <- NoExpiries
  Costs = {1}
  Settlements = {1}
  LastArrival = 0
  MaxTime = 0
  NoPolicy = NoPolicy  NoPayload = NoPayload  NoWorker = NoWorker
  NoMandate = NoMandate  NoAgent = NoAgent  NoRequest = NoRequest
INVARIANT ClosingIsFinal
CHECK_DEADLOCK FALSE
