CONSTANTS
  RingCapacity = 2
  NameCapacity = 1
  MaxU64 = 3
  Backends = {b1, b2}
  ScopeKeys = {s1, s2}
  UnknownScope = none
  Sizes = {1}
  Kinds = {"allowed", "rejected"}
  MaxRecords = 4
  MaxErrors = 1
SPECIFICATION Spec
INVARIANTS TypeOK CountersMatchRecords NamesAccounted
PROPERTY ImplementsAbstractTelemetry
SYMMETRY BothSymmetries
CHECK_DEADLOCK FALSE
