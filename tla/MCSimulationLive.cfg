SPECIFICATION FairSpec
CONSTANTS
  None = None
  Requests = {r1, r2}
  Workers = {w1}
  Execs = {e1}
  MaxVersion = 1
  Faults = TRUE
PROPERTIES
  SessionsEnd
CHECK_DEADLOCK FALSE
