SPECIFICATION FairSpec
CONSTANTS
  Manifests <- MCManifests
  Options <- MCOptions
  FragmentRetryCount = 1
  MaxErrorCount = 2
  CounterModulus = 256
INVARIANTS
  TypeOK
  OutputsIntact
  NoPeriodMissing
  JoinedInOrder
  TempFilesRemoved
  BudgetShared
  EveryFragmentTried
PROPERTIES
  OnePeriodMonotone
  DownloadEnds
\* A download returns once.
CHECK_DEADLOCK FALSE
