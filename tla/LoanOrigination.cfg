\* Two overlapping requests on one loan, from draft, of a tenant that changes
\* its settings but always requires the analyst.
SPECIFICATION Spec
CONSTANTS
  l1 = l1
  s1 = s1
  s2 = s2
  a1 = a1
  Loans = {l1}
  Sessions = {s1, s2}
  Alerts = {a1}
  Policies <- AnalystPolicies
  Amount <- LoanAmount
  Due <- LoanDue
  MaxRequests = 6
SYMMETRY SessionSymmetry
\* A behaviour ends when its requests are used up.
CHECK_DEADLOCK FALSE
INVARIANTS
  TypeOK
  LedgerExplainsStatus
  EventsGrounded
  NoStageSkipped
  ClearanceHolds
  AnalystGate
PROPERTIES
  DispositionTerminal
