\* The schema is migrated up and down, and served; then two handlers.
SPECIFICATION Spec
CONSTANTS
  h1 = h1
  h2 = h2
  Handlers = {h1, h2}
  Names = {"ops", "OPS", "ADMIN"}
  Upper <- NamesUpper
  Reserved = {"ADMIN"}
  Patches <- Changes
  ScanRequired = FALSE
  Alone = {"product", "branch", "role", "settings", "status", "wallet"}
  MaxRequests = 2
  MaxInsertions = 3
\* A behaviour ends when its requests are used up.
CHECK_DEADLOCK FALSE
SYMMETRY HandlerSymmetry
INVARIANTS
  NamesDistinct
  AuditChains
  OneAtATime
  RowHasFile
  MigrationsReversible
  ServedAsMapped
