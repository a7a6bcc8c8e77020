\* Two overlapping requests on an approved loan, under fairness.
SPECIFICATION FairApprovedSpec
CONSTANTS
  l1 = l1
  s1 = s1
  s2 = s2
  a1 = a1
  Loans = {l1}
  Sessions = {s1, s2}
  Alerts = {a1}
  Policies <- OptionalPolicies
  Amount <- LoanAmount
  Due <- LoanDue
  MaxRequests = 5
\* A behaviour ends when its requests are used up.
CHECK_DEADLOCK FALSE
INVARIANTS
  RepaymentsConserved
  FullRepaymentCloses
PROPERTIES
  DisbursedOnceFromApproved
  RequestsEnd
