\* Branches delegated, widened and outlived under two policies, with one request
\* or two of them; and two mandates from an empty database.
SPECIFICATION DelegationSpec
CONSTANTS
  m1 = m1  m2 = m2  a1 = a1  b1 = b1  b2 = b2  b3 = b3  k1 = k1  k2 = k2
  r1 = r1  r2 = r2  r3 = r3  w1 = w1  w2 = w2  v1 = v1  v2 = v2
  Mandates = {m1, m2}  Agents = {a1}  Requests = {r1, r2}  Workers = {w1, w2}
  Branches = {b1, b2, b3}  Classes = {k1, k2}  BranchInputs <- Delegations
  Policies = {v1, v2}
  PolicyOf <- MCPolicyOf
  Payloads <- AllAsks
  Minute = 1  Hour = 1  Day = 1  Lease = 2
  MaxAmount = 3
  Maxima = {3}
  Expiries <- NoExpiries
  Costs = {1}
  Settlements = {1}
  LastArrival = 1
  MaxTime = 1
  NoPolicy = NoPolicy  NoPayload = NoPayload  NoWorker = NoWorker
  NoMandate = NoMandate  NoAgent = NoAgent  NoRequest = NoRequest
SYMMETRY Symmetry
CONSTRAINT Explored
INVARIANT
  DelegatedSpendBound
PROPERTY
  DecisionsImmutable
CHECK_DEADLOCK FALSE
