SPECIFICATION FairHealthSpec
CONSTANTS
  MaxFails = 3
  FailureCheck = 3
  MaxChecks = 2
  MaxTimers = 3
  MaxExchanges = 2
  MaxStreak = 7
INVARIANTS
  Accounting
  DownAfterDebt
PROPERTIES
  DeadDetected
  AliveRestored
