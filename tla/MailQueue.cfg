CONSTANTS
  Files = {1, 2, 3}
  Unparsable = {3}
  BatchSize = 2
  EnvelopeCapacity = 1
  Ticks = 1
  MaxDelivered = 1
  RedisFails = TRUE
SPECIFICATION FairSpec
INVARIANTS NoSendOnClosed ListIsWhole
PROPERTY UpdateEnds
CHECK_DEADLOCK FALSE
