\* Two executions of one cohort, two workers, batches of one. Symmetry is not sound with liveness.
SPECIFICATION FairSpec
CONSTANTS
  r1 = r1  r2 = r2  w1 = w1  w2 = w2  c1 = c1
  Requests = {r1, r2}  Workers = {w1, w2}  Cohorts = {c1}
  CohortOf <- MCCohortOf
  Window = 0  BatchLimit = 1  MaxAttempts = 2  MaxTime = 1
  NoRequest = NoRequest  NoWorker = NoWorker
INVARIANTS
  CohortOrdered
  EvidenceCanonical
PROPERTIES
  StaleWorkersChangeNothing
  JobsEnd
CHECK_DEADLOCK FALSE
