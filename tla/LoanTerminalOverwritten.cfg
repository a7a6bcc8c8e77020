\* Two overlapping requests overwrite a terminal status.
SPECIFICATION Spec
CONSTANTS
  l1 = l1
  s1 = s1
  s2 = s2
  a1 = a1
  Loans = {l1}
  Sessions = {s1, s2}
  Alerts = {a1}
  Policies <- OptionalPolicies
  Amount <- LoanAmount
  Due <- LoanDue
  MaxRequests = 4
SYMMETRY SessionSymmetry
\* A behaviour ends when its requests are used up.
CHECK_DEADLOCK FALSE
PROPERTIES
  TerminalIsFinal
