SPECIFICATION Spec
CONSTANTS
  Procedures = {"decrypt", "mux", "concat", "subtitles"}
  Decryptors <- MCDecryptors
  Streams = {"empty", "cipher"}
  Periods = 3
  MuxContainers = {"mp4", "mkv", "webm", "avi"}
  MuxOrderings <- MCMuxOrderings
  ConcatContainers = {"mp4", "avi"}
  ConcatOrderings <- MCConcatOrderings
  Manifests <- MCSubtitleManifests
  SubtitleContainers <- MCSubtitleContainers
  MaxErrorCount = 1
  RetryCount = 2
  Leftovers <- MCLeftovers
INVARIANTS
  StreamSurvives
  MuxedIsWhole
  OnlyMkvmergeLeaks
  WholeUnlessSpoilt
  MergedDocument
  MissingBounded
  OwnSubtitles
\* Every call returns.
CHECK_DEADLOCK FALSE
