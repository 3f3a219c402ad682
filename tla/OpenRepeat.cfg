SPECIFICATION Spec
CONSTANTS
  Procedures = {"timeline"}
  Settings <- MCSettings
  Webs <- MCWebs
  Redirects <- MCRedirects
  BackonRetries = 1
  Documents <- MCDocuments
  Hrefs <- MCHrefs
  Remote <- MCRemote
  Calls <- MCCalls
  Manifests <- MCManifests
  Inputs <- OpenRepeat
  StartNumber = 3
  Cases <- MCCases
  OverflowChecks = TRUE
INVARIANTS
  OpenRepeatStops
\* Every call returns.
CHECK_DEADLOCK FALSE
