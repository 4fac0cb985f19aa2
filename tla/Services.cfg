CONSTANTS
  Hosts = {h1, h2}
  Minute = 3
  Interval = 1
  Ttl = 6
  Late = 1
  Skew = 1
  MaxErrors = 1
  MaxClock = 10
SPECIFICATION ServicesSpec
INVARIANTS RunningAreListed StoppedAreForgotten
CHECK_DEADLOCK FALSE
SYMMETRY MCSymmetry
