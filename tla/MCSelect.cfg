SPECIFICATION SelectSpec
CONSTANTS
  Callers = {c1}
  PoolMax = 3
  Policies = {"random", "round_robin", "sequential", "spray"}
  RobinSpan = 4
  NoHost = NoHost
INVARIANT
  QuietCallExact
PROPERTY
  ImplementsSelection
