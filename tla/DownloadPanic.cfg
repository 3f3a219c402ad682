SPECIFICATION Spec
CONSTANTS
  Manifests <- LongManifests
  Options <- VideoOnly
  FragmentRetryCount = 1
  MaxErrorCount = 0
  CounterModulus = 256
INVARIANT NoPanic
CHECK_DEADLOCK FALSE
