SPECIFICATION FairSpec
CONSTANTS
  w1 = w1
  w2 = w2
  Workers = {w1}
  Kinds = {"trade.closed", "malformed", "garbled"}
  MaxEntries = 2
  BatchSize = 2
  MaxDeliveries = 2
  MaxCopies = 1
  MaxFaults = 2
PROPERTIES EventuallySettled
