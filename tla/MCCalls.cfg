SPECIFICATION CallsSpec
CONSTANTS
  Draw <- DrawOne
  None = None
  Tokens = {t1, t2, t3, t4, t5}
  MaxExpiries = 1
  Tabs = {a}
  Calls = {c1, c2}
  Providers = 2
  MaxRetries = 2
  Chats = {h1, h2}
  Streams = {s1}
INVARIANTS
  AnsweredInTurn
PROPERTIES
  CallsSettle
  CallsEnd
CHECK_DEADLOCK FALSE
