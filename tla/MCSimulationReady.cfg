SPECIFICATION Spec
CONSTANTS
  None = None
  Requests = {r1, r2}
  Workers = {w1}
  Execs = {e1}
  MaxVersion = 2
  Faults = FALSE
INVARIANT
  ReadyIsVerified
CHECK_DEADLOCK FALSE
