\* Requests that do not overlap implement the abstract state machine.
SPECIFICATION Spec
CONSTANTS
  l1 = l1
  s1 = s1
  s2 = s2
  a1 = a1
  Loans = {l1}
  Sessions = {s1}
  Alerts = {a1}
  Policies <- OptionalPolicies
  Amount <- LoanAmount
  Due <- LoanDue
  MaxRequests = 8
\* A behaviour ends when its requests are used up.
CHECK_DEADLOCK FALSE
PROPERTIES
  FollowsStateMachine
