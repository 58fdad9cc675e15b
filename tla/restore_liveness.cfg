CONSTANTS
  a = a
  b = b
  main = main
  other = other
  Capacity = 2
  Scopes = {1}
  Queries = {1}
  Global = 0
  MaxU64 = 1
  Weight <- WholeWeight
  Backends = {a, b}
  Databases = {main}
  Home <- SameHome
  Installed = {main}
  StaleAfter = 1
  Interval = 1
  InitialRows <- AllOld
  MaxClock = 3
  MaxErrors = 2
  MaxRestarts = 0
  Tasks = {"predict", "flush", "reset"}
SPECIFICATION FairSpec
PROPERTIES RestoreCompletes 
CHECK_DEADLOCK FALSE
