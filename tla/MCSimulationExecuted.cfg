SPECIFICATION FairSpec
CONSTANTS
  None = None
  Requests = {r1}
  Workers = {w1}
  Execs = {e1}
  MaxVersion = 1
  Faults = FALSE
PROPERTY
  QueuedIsExecuted
CHECK_DEADLOCK FALSE
