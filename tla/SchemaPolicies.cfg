\* The chain of migrations up to the head, and what serves requests on it.
SPECIFICATION SchemaSpec
CHECK_DEADLOCK FALSE
INVARIANTS
  PoliciesReadTheTenant
