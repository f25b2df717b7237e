SPECIFICATION Spec
CONSTANTS
  None = None
  Requests = {r1, r2}
  Invites = {i1}
  Tokens = {t1, t2, t3}
PROPERTIES
  TerminalIsFinal
CHECK_DEADLOCK FALSE
