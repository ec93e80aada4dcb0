SPECIFICATION Spec
CONSTANTS
  u1 = u1
  u2 = u2
  s1 = s1
  s2 = s2
  None = None
  Users = {u1, u2}
  Sessions = {s1, s2}
  Emotions = {"anxious", "calm"}
  Upset = {"anxious"}
  Seeds <- SomeSeeds
  Leftovers <- SomeLeftovers
  Gap = 1
  Window = 2
  Limit = 2
  Rolling = 2
  MaxRuns = 2
INVARIANTS RevengeExact SnapshotsExact SpikesExact
CHECK_DEADLOCK FALSE
