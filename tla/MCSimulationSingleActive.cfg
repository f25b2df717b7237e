SPECIFICATION Spec
CONSTANTS
  None = None
  Requests = {r1, r2}
  Workers = {w1}
  Execs = {e1, e2}
  MaxVersion = 1
  Faults = FALSE
INVARIANT
  SingleActive
CHECK_DEADLOCK FALSE
