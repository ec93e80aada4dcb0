SPECIFICATION FairSpec
CONSTANTS
  SeedOnStart = TRUE
  Migrations = 2
  MaxPosts = 2
  MaxCrashes = 4
INVARIANTS TypeOK ServingReady BackfillUndisturbed
PROPERTIES EventuallyServing
CHECK_DEADLOCK FALSE
