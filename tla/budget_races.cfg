\* Two backends race on the buckets of two scopes with one slot, while the policy
\* is edited, and the clock is set back or the server restarts.
SPECIFICATION Spec
CONSTANTS
  MaxBytes = 1000
  Backends = {b1, b2}
  Scopes = {s1, s2}
  PolicyConfigs <- EditedPolicy
  RateCeiling <- MCRateCeiling
  BurstCeiling <- MCBurstCeiling
  Predictions = {1, 3}
  Actuals = {0, 4}
  BudgetBucketCapacity = 1
  FailOpen = TRUE
  SleepChunkMs = 500
  Ticks = {500}
  FreeClock = 500
  MaxClock = 1500
  MaxStatements = 2
  MaxUpsets = 1
SYMMETRY BackendSymmetry
INVARIANTS TypeOK BucketBounds IssueBound BooksBalance QueueWaitBounded
PROPERTIES RefillTimeMonotone SoleWaiterIsAdmitted ImplementsAbstractBudget
