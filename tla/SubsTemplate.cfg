SPECIFICATION Spec
CONSTANTS
  Procedures = {"address"}
  Settings <- MCSettings
  Webs <- MCWebs
  Redirects <- MCRedirects
  BackonRetries = 1
  Documents <- MCDocuments
  Hrefs <- MCHrefs
  Remote <- MCRemote
  Calls <- MCCalls
  Manifests <- MCManifests
  Inputs <- MCInputs
  StartNumber = 3
  Cases <- MCCases
  OverflowChecks = TRUE
INVARIANTS
  SubsInherit
\* Every call returns.
CHECK_DEADLOCK FALSE
