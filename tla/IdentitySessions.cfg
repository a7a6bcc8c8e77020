\* One browser tab, two handlers; administrators act one at a time.
SPECIFICATION MCSpec
CONSTANTS
  u1 = u1
  u2 = u2
  h1 = h1
  h2 = h2
  t1 = t1
  Users = {u1, u2}
  Administrators = {u1}
  Managers = {u1, u2}
  Requested = {"active", "disabled"}
  Handlers = {h1, h2}
  Tabs = {t1}
  None = None
  StatusLabelled = TRUE
  Alone = {"status", "mfa"}
  MaxRequests = 3
  MaxStep = 2
\* A behaviour ends when its requests are used up.
CHECK_DEADLOCK FALSE
INVARIANTS
  FamilyLinear
  SuspensionReaches
  AdministratorLeft
  CodesAdvance
PROPERTIES
  CallersAnswered
