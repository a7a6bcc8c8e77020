\* Two sessions repay two loans with one external reference, under fairness.
SPECIFICATION FairSpec
CONSTANTS
  l1 = l1
  l2 = l2
  s1 = s1
  s2 = s2
  ref = ref
  NoReference = NoReference
  Loans = {l1, l2}
  Sessions = {s1, s2}
  Contracts <- OfferedContracts
  References = {ref}
  Amounts = {0, 1, 5}
  MaxRequests = 3
\* A behaviour ends when its requests are used up.
CHECK_DEADLOCK FALSE
INVARIANTS
  TypeOK
  AllocationInOrder
  ReferencesUnique
  ScheduleReconciles
  StatementBounded
PROPERTIES
  ImplementsAccount
  RequestsEnd
