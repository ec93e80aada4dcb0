SPECIFICATION Spec
CONSTANTS
  SeedOnStart = TRUE
  Migrations = 2
  MaxPosts = 0
  MaxCrashes = 1
INVARIANT Backfilled
CHECK_DEADLOCK FALSE
