SPECIFICATION Spec
CONSTANTS
  w1 = w1
  w2 = w2
  Workers = {w1, w2}
  Kinds = {"trade.opened", "malformed", "garbled"}
  MaxEntries = 2
  BatchSize = 2
  MaxDeliveries = 2
  MaxCopies = 1
  MaxFaults = 1
SYMMETRY Symmetry
INVARIANTS TypeOK PendingUntilSettled DoneMeansApplied DeadLetterAtLimit AttemptsBounded
PROPERTIES DeliverySpec
