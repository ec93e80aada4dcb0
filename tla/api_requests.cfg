SPECIFICATION FairSpec
CONSTANTS
  u1 = u1
  u2 = u2
  sent = sent
  None = None
  Users = {u1, u2}
  Requests = {"r1", "r2"}
  Shapes <- SomeShapes
  MaxConns = 1
INVARIANTS TypeOK Accounted MetricsWhole PoolConserved
PROPERTIES HealthAnswered AllAnswered
