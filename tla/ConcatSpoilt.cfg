SPECIFICATION Spec
CONSTANTS
  Procedures = {"concat"}
  Decryptors <- MCDecryptors
  Streams = {"empty", "cipher"}
  Periods = 3
  MuxContainers = {"mp4", "mkv", "webm", "avi"}
  MuxOrderings <- MCMuxOrderings
  ConcatContainers = {"mp4", "avi"}
  ConcatOrderings <- MCConcatOrderings
  Manifests <- MCSubtitleManifests
  SubtitleContainers <- MCSubtitleContainers
  MaxErrorCount = 1
  RetryCount = 2
  Leftovers <- MCLeftovers
INVARIANTS
  ConcatenatedIsWhole
\* Every call returns.
CHECK_DEADLOCK FALSE
