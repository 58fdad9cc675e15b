CONSTANTS
  blue = blue
  app = app
  anyValue = anyValue
  b1 = b1
  b2 = b2
  Backends = {b1, b2}
  MaxPolicies = 3
  InitialRows <- MCInitialRows
  Definitions <- MCDefinitions
  Modes <- MCModes
  Folded <- MCFolded
  Budgets <- MCBudgets
  Priorities = {2}
  Targets <- MCTargets
  AnyValue = anyValue
  RefreshInterval = 1
  Isolations = {"read committed"}
  MaxSetBack = 1
  MaxTime = 2
  MaxEdits = 2
SYMMETRY Symmetry
SPECIFICATION Spec
INVARIANTS EveryRowLoads PolicyInEffect

CHECK_DEADLOCK FALSE
