CONSTANTS
  Ids = {i1, i2, i3}
  Emails = {e1, e2}
  Attrs = {a1, a2}
  Adapters = {"sqlite.New", "postgres.New", "mysql.New", "mongodb.New",
              "sqlite.NewFromDB", "postgres.NewFromDB", "mysql.NewFromDB", "mongodb.NewFromClient"}
  Faults = TRUE
  MaxTime = 2
SPECIFICATION Spec
VIEW WithoutReply
INVARIANTS TypeOK EmailsUnique
PROPERTY ImplementsUserStore
