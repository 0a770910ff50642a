CONSTANTS
  Ids = {i1}
  Roles = {admin}
  Required = {admin, editor}
  Shapes = {"[]interface{}", "bson.A"}
  Permissions = {write}
  Actions = {edit}
  Secrets = {s1, s2}
  Requests = {r1}
  Chains <- AnyOrderOrAsking
  Eventful <- Documented
  SharedObjects = TRUE
  Expiration = 0
  DefaultExpiration = 1
  MaxTime = 2
  MaxIssued = 1
SPECIFICATION Spec
SYMMETRY Alike
INVARIANTS TypeOK OnlyEntitled EntitledPasses
