SPECIFICATION Spec
CONSTANTS
  Draw <- DrawAny
  None = None
  Tokens = {t1, t2, t3, t4}
  MaxExpiries = 2
  Tabs = {a, b}
  Calls = {c1, c2}
SYMMETRY Symmetry
INVARIANTS
  TypeOK
  RefreshIsLed
  StoredIsUsable
CHECK_DEADLOCK FALSE
