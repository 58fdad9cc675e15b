CONSTANTS
  a = a
  b = b
  main = main
  other = other
  Capacity = 2
  Scopes = {1}
  Queries = {1}
  Global = 0
  MaxU64 = 1
  Weight <- WholeWeight
  Backends = {a, b}
  Databases = {main, other}
  Home <- TwoHomes
  Installed = {main}
  StaleAfter = 1
  Interval = 1
  InitialRows <- SomeOld
  MaxClock = 2
  MaxErrors = 1
  MaxRestarts = 1
  Tasks = {"predict", "observe", "flush", "reset"}
SPECIFICATION StoreSpec
PROPERTIES LoadedIsFinal RestoreKeepsNewer UndisturbedPersistIsComplete
CHECK_DEADLOCK FALSE
