\* Every queued statement is served, under fairness: each one asks for the
\* whole burst, so any other charge or an early latch sends it back to sleep.
SPECIFICATION FairSpec
CONSTANTS
  MaxBytes = 1000
  Backends = {b1, b2}
  Scopes = {s1}
  PolicyConfigs <- QueueOnly
  RateCeiling <- MCRateCeiling
  Predictions = {3}
  Actuals = {2}
  BudgetBucketCapacity = 1
  FailOpen = TRUE
  SleepChunkMs = 500
  Ticks = {500}
  FreeClock = 0
  MaxClock = 7500
  MaxStatements = 2
  MaxUpsets = 0
PROPERTIES QueuedIsServed
