CONSTANTS
  Msgs = {m1, m2, m3}
  Extra = 1
  Curb = 1
  Period = 2
  Ttl = 3
  TallyStatuses = {"Permit"}
  RedisFails = FALSE
  MaxInFlight = 2
  MaxClock = 4
SPECIFICATION Spec
INVARIANTS OvershootBounded ExceedsOnlyIfFull
SYMMETRY MCSymmetry
