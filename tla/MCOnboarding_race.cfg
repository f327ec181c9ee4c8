SPECIFICATION Spec
CONSTANTS
  Requests = {r1, r2, r3}
  None = None
  Faulty = FALSE
CHECK_DEADLOCK FALSE
PROPERTIES
  LoserIsReconciled
