CONSTANTS
  Capacity = 2
  Scopes = {s1, s2}
  Queries = {1, 2}
  Global = global
  MaxU64 = 2
  Weight <- HalfWeight
  Actuals = {1, 4}
  DefaultWrite = 2
  DefaultUtility = 5
  MaxPrediction = 3
  MaxTime = 2
  MaxRows = 1
  MaxOperations = 4
SPECIFICATION Spec
INVARIANTS TypeOK OneEntryPerKey MeanWithinMeasured ObservationIsFound
PROPERTIES PredictionsLearnApart ImplementsAbstractProfileCache
CHECK_DEADLOCK FALSE
