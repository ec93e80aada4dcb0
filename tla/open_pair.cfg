SPECIFICATION Spec
CONSTANTS
  c1 = c1
  o1 = o1
  o2 = o2
  u1 = u1
  None = None
  w1 = w1
  w2 = w2
  Workers = {w1, w2}
  Users = {u1}
  Trades = {c1, o1, o2}
  Data <- Spree
  Gap = 1
  Window = 5
  Limit = 1
  Tick = 2
  MaxDeliveries = 2
INVARIANTS TypeOK FlagExact RevengeCovers IncidentsReal CounterNotAhead SpikesDetected
CHECK_DEADLOCK FALSE
