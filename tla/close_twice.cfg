SPECIFICATION Spec
CONSTANTS
  c1 = c1
  c2 = c2
  c3 = c3
  u1 = u1
  u2 = u2
  s1 = s1
  calm = calm
  None = None
  w1 = w1
  w2 = w2
  Workers = {w1}
  Users = {u1, u2}
  Sessions = {s1}
  Emotions = {calm}
  Trades = {c1, c2, c3}
  Data <- Shared
  MaxStored = 2
  Rolling = 1
  MaxDeliveries = 2
  MaxFaults = 0
INVARIANT WinsExact
CHECK_DEADLOCK FALSE
