SPECIFICATION FairSpec
CONSTANTS
  r1 = r1
  r2 = r2
  u1 = u1
  u2 = u2
  t1 = t1
  None = None
  Requests = {r1, r2}
  Trades = {t1}
  Bodies <- AnyBodies
  RedisRetries = 1
  MaxFaults = 1
INVARIANTS TypeOK EventMatchesRow EventsBounded WriterAnnounces
PROPERTIES LedgerSpec RequestAnswered
CHECK_DEADLOCK FALSE
