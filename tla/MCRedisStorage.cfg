CONSTANTS
  c1 = c1
  c2 = c2
  i1 = i1
  i2 = i2
  i3 = i3
  e1 = e1
  e2 = e2
  e3 = e3
  Clients = {c1, c2}
  Ids = {i1, i2, i3}
  Emails = {e1, e2, e3}
  Attrs = {a1}
  IdsOf <- OwnIds
  Sharings <- OwnOrSharedEmails
  Ops = {"CreateUser", "UpdateUser", "DeleteUser", "GetUserById", "GetUserByEmail"}
  Faults = TRUE
SPECIFICATION Spec
VIEW WithoutReply
INVARIANTS TypeOK IndexSound
PROPERTY ImplementsUserStore
