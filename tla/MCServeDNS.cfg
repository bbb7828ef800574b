SPECIFICATION FairServeSpec
CONSTANTS
  Requests = {r1}
  Hosts = {h1, h2}
  NoHost = NoHost
  Policies = {"round_robin"}
  MaxFails = 2
  MaxRetry = 2
  MaxCache = 1
  MaxTimers = 1
INVARIANTS
  OneAnswer
  SpotlessUp
PROPERTIES
  PanicOnlyUntried
  RefusedForCause
  ServeReturns
  FailoverWorks
