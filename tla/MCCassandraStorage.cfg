CONSTANTS
  Clients = {c1, c2}
  Ids = {i1, i2}
  Emails = {e1, e2}
  Attrs = {a1, a2}
  Faults = TRUE
SPECIFICATION Spec
VIEW WithoutReply
INVARIANT TypeOK
PROPERTY ImplementsUserStore
