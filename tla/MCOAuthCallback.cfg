CONSTANTS
  Clients = {c1, c2}
  Ids = {i1, i2}
  Emails = {e1}
  Own = {fresh, changed}
  FreshOwn = fresh
  InUse = {"github", "twitter", "apple"}
  Lifetime = 2
  Patience = 1
  Crowd = 1
  Faults = TRUE
SPECIFICATION Spec
SYMMETRY Interchangeable
VIEW WithoutReply
INVARIANTS TypeOK LoginsExist ReturningLogsIn SecretGood
PROPERTY LoginKeepsOwned
