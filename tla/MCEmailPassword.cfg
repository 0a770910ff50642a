CONSTANTS
  Clients = {c1}
  Ids = {i1, i2}
  Emails = {e1, e2}
  Passwords = {p1, p2, long}
  TooLong = {long}
  Key <- Beginning
  Faults = TRUE
SPECIFICATION Spec
VIEW WithoutReply
INVARIANTS TypeOK LoginProves RegisteredLogsIn LoginHook
