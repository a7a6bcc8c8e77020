\* Two threads of one process share the registry's lock; one version is not yet in it.
SPECIFICATION GovernedSpec
CONSTANTS
  m1 = m1
  m2 = m2
  m3 = m3
  c1 = c1
  c2 = c2
  NoModel = NoModel
  Newcomers = {m3}
  Models = {m1, m2, m3}
  Callers = {c1, c2}
  ProcessOf <- Threads
  IdentityOf <- OneIdentity
  MeetsFloors = {m1, m2, m3}
  Regressions <- Regression
  MaxCalls = 3
\* A behaviour ends when its calls are used up.
CHECK_DEADLOCK FALSE
SYMMETRY CallerSymmetry
INVARIANTS
  UniqueProduction
  AuditExplains
  ProductionEarned
PROPERTIES
  AuditGrows
  LifecycleSteps
