\* The same instance: two requests released against the order of their preparation.
SPECIFICATION AuthoritySpec
CONSTANTS
  k1 = k1  k2 = k2
  PolicySet <- MCPolicySet
  InputSet <- MCInputSet
  c1 = c1  c2 = c2  r1 = r1  r2 = r2  r3 = r3  x1 = x1  x2 = x2
  Children = {c1, c2}  Ids = {r1, r2, r3}  Callers = {x1, x2}
  Allowance <- MCAllowance  RootBudget = 8  Asks <- MCAsks
  Costs = {1, 4, 5}  Ceiling = 4
  NoCost = NoCost  NoCaller = NoCaller  MaxAmount = 8
  w1 = w1  w2 = w2  w3 = w3
  Worker = {w1, w2, w3}  OwnerOf <- MCOwnerOf  Nobody = Nobody  MaxGeneration = 3
  Command = {w1, w2, w3}  CommandOwner <- MCCommandOwner  PresentedTo <- MCPresentedTo  NoOwner = NoOwner
  q1 = q1  q2 = q2  q3 = q3  q4 = q4  q5 = q5
  Call = {q1, q2, q3, q4, q5}  Key = {"key"}  NoCall = NoCall
  KeyOf <- MCKeyOf  BodyOf <- MCBodyOf  EndpointOf <- MCEndpointOf
  Reconciler = {x1, x2}  LastOffset = 2  Answers <- MCAnswers
  Runner = {x1, x2}  Replayer = {q1, q2}  Plan <- MCPlan  Bills = {1, 2}  Settings <- MCSettings
  Configs <- MCConfigs  Windows <- MCWindows  Observations <- MCObservations  MaxSafeInteger = 20000
  NoRunner = NoRunner  NoFile = NoFile  NoReport = NoReport
SYMMETRY Symmetry
INVARIANT ReleasedReceiptsPersist
CHECK_DEADLOCK FALSE
