SPECIFICATION DialSpec
CONSTANTS
  Requests = {r1, r2, r3}
  minDialTimeout = 1
  maxDialTimeout = 5
  Lag = 4
  Times <- MCTimes
INVARIANTS
  AvgBounded
PROPERTIES
  SettledServed
