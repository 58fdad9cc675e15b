\* Calls nested in each other that end in every way PostgreSQL ends them.
SPECIFICATION Spec
CONSTANTS
  MaxStatements = 2
  MaxDepth = 4
  MaxTransactions = 2
  MaxMarkers = 4
  Disturbances = {"catch", "inner end", "cursor", "prepare"}
INVARIANTS
  TypeOK
  StacksMirrorCalls
  FateMatchesEnd
  LookupsBypassAdmission
  SettledInItsTransaction
PROPERTIES
  SettledOnce
