SPECIFICATION Spec
CONSTANTS
  Procedures = {"select"}
  Settings <- MCSettings
  Webs <- MCWebs
  Redirects <- MCRedirects
  BackonRetries = 1
  Documents <- MCDocuments
  Hrefs <- MCHrefs
  Remote <- MCRemote
  Calls <- DefaultRoles
  Manifests <- MCManifests
  Inputs <- MCInputs
  StartNumber = 3
  Cases <- MCCases
  OverflowChecks = TRUE
INVARIANTS
  RolesInOrder
\* Every call returns.
CHECK_DEADLOCK FALSE
