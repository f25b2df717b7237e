SPECIFICATION Spec
CONSTANTS
  None = None
  Requests = {r1, r2}
  Workers = {w1}
  Execs = {e1, e2}
  MaxVersion = 2
  Faults = TRUE
SYMMETRY Symmetry
INVARIANTS
  TypeOK
  NeverWedged
  SnapshotsVerified
PROPERTIES
  LedgerSpec
CHECK_DEADLOCK FALSE
