SPECIFICATION Spec
CONSTANTS
  Manifests <- MCManifests
  Options <- MCOptions
  FragmentRetryCount = 1
  MaxErrorCount = 2
  CounterModulus = 256
INVARIANT ReturnedPathExists
CHECK_DEADLOCK FALSE
