CONSTANTS
  Ids = {i1, i2}
  Emails = {e1, e2}
  Attrs = {a1, a2}
  Ptrs = {p1, p2, p3}
  InPlace = {"attrs"}
SPECIFICATION Spec
VIEW WithoutReply
INVARIANTS TypeOK IndexAgrees
PROPERTY ImplementsUserStore
