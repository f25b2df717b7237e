SPECIFICATION Spec
CONSTANTS
  None = None
  Requests = {r1, r2, r3}
  Invites = {i1, i2}
  Tokens = {t1, t2, t3}
SYMMETRY Symmetry
INVARIANTS
  TypeOK
  AcceptedHasMember
  MailsAreStored
PROPERTIES
  Admission
CHECK_DEADLOCK FALSE
