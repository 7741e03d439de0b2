\* Two keys of which one may be active, two codes after the first, two people
\* behind two invites, two retries of one provider.
SPECIFICATION Spec
CONSTANTS
  x1 = x1  x2 = x2  k1 = k1  k2 = k2  t1 = t1  t2 = t2
  s1 = s1  s2 = s2  b1 = b1  b2 = b2  q1 = q1  a1 = a1  a2 = a2
  ad = ad  op = op  g1 = g1  c1 = c1  c2 = c2  e1 = e1
  Keys = {k1, k2}  Bodies = {b1, b2}  BetaInvites = {t1, t2}
  Workspaces = {s1, s2}  Workers = {x1, x2}
  Steps <- MCSteps  MaxActive = 1
  NoKey = NoKey  NoBody = NoBody  NoWorkspace = NoWorkspace
  Codes = {q1, t1, t2}  Credentials = {a1, a2, s1, s2}
  Deliveries = {k1, k2}  Clients = {x1, x2}
  First = a1  FirstCode = q1
  NoCode = NoCode  NoCredential = NoCredential  NoDelivery = NoDelivery
  Accounts = {ad, op}  RoleOf <- MCRoles  Agents = {g1}
  ServiceKeys = {c1, c2}  AgentKeys = {e1}  Invites = {t1, t2}
  Sessions = {k1, k2}  Requests = {x1, x2}  Grants <- MCGrants
  FirstKey = c1  FirstAccount = ad  NoRoot = NoRoot
  InviteLife = 2  SessionLife = 1  MaxTime = 1
  Secrets = {k1, k2}  Retries = {t1, t2}  Calls = {x1, x2}
  RetryLease = 1  LastVersion = 2  LastTime = 3
  NoSecret = NoSecret  NoCall = NoCall
CONSTRAINT Bounded
SYMMETRY Symmetry
INVARIANTS
  WorkspacesWholeOrBare
  CapacityHolds
  RecoversOnce
  SessionsHaveOneOrigin
  VerifiedWasAccepted
PROPERTIES
  
  RetriesSettleOnce
CHECK_DEADLOCK FALSE
