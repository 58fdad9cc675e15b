SPECIFICATION WalSpec
CONSTANTS
  Plans <- MCPlans
  Utilities <- MCUtilities
  CachedTree = {FALSE, TRUE}
  MaxCalls = 4
  MaxDepth = 3
  MaxWal = 3
INVARIANTS CandidatesAreAdmitted AscribedCoversWal
CHECK_DEADLOCK FALSE
