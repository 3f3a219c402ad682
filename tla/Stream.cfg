SPECIFICATION HttpFairSpec
CONSTANTS
  Plans <- MCPlans
  Periods = {1, 2}
  FragmentRetryCount = 2
  MaxErrorCount = 2
  ContentTypeChecks = TRUE
  MaxCalls = 2
  BackonRetries = 3
  Chunks = 2
  SaveFragments = TRUE
  NoFile = NoFile
  MaxLate = 1
  Names = {"a", "b", "c"}
  NameOf <- DistinctNames
INVARIANTS
  HttpTypeOK
  InOrderOnce
  Accounted
  LossBudget
  AbortIffOverBudget
  WholeFragments
  SavedButLast
PROPERTIES
  KeepsPromise
  ImplementsStream
  HttpCallReturns
\* No handler is left to take after the last stream of a download.
CHECK_DEADLOCK FALSE
