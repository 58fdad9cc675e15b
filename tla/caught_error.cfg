\* An error is caught inside the transaction.
SPECIFICATION Spec
CONSTANTS
  MaxStatements = 3
  MaxDepth = 3
  MaxTransactions = 2
  MaxMarkers = 5
  Disturbances = {"catch"}
INVARIANTS
  CompletedIsReconciled
