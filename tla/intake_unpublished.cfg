SPECIFICATION FairRedisSpec
CONSTANTS
  r1 = r1
  r2 = r2
  u1 = u1
  u2 = u2
  t1 = t1
  None = None
  Requests = {r1}
  Trades = {t1}
  Bodies <- RivalBodies
  RedisRetries = 0
  MaxFaults = 0
CHECK_DEADLOCK FALSE
PROPERTIES EventuallyPublished
