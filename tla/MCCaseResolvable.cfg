\* An operator moves a mandate whose request is still out or under review.
SPECIFICATION ObservedSpec
CONSTANTS
  m1 = m1  m2 = m2  a1 = a1  r1 = r1  r2 = r2  r3 = r3
  w1 = w1  w2 = w2  v1 = v1  v2 = v2
  Mandates = {m1}  Agents = {a1}  Requests = {r1}  Workers = {w1}
  Branches = {}  Classes = {}  BranchInputs = {}
  Policies = {v2}
  PolicyOf <- MCPolicyOf
  Payloads <- CostsTwo
  Minute = 1  Hour = 1  Day = 1  Lease = 1
  MaxAmount = 4
  Maxima = {3}
  Expiries <- NoExpiries
  Costs = {1, 3}
  Settlements = {1}
  LastArrival = 1
  MaxTime = 1
  NoPolicy = NoPolicy  NoPayload = NoPayload  NoWorker = NoWorker
  NoMandate = NoMandate  NoAgent = NoAgent  NoRequest = NoRequest
INVARIANT CaseResolvable
CHECK_DEADLOCK FALSE
