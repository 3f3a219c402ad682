SPECIFICATION FairSpec
CONSTANTS
  Procedures = {"request", "links", "select", "address", "timeline", "index"}
  Settings <- MCSettings
  Webs <- MCWebs
  Redirects <- MCRedirects
  BackonRetries = 1
  Documents <- MCDocuments
  Hrefs <- MCHrefs
  Remote <- MCRemote
  Calls <- MCCalls
  Manifests <- MCManifests
  Inputs <- MCInputs
  StartNumber = 3
  Cases <- MCCases
  OverflowChecks = FALSE
INVARIANTS
  DocumentInForce
  BaseResolved
  SameElements
  PreferredAdaptation
  SomethingSelected
  BestRepresentation
  ServedOnce
  MostSpecific
  CoversPeriod
  FollowsTimeline
  ForcedIsShortest
  Tiles
  OnlyOffsetMissed
PROPERTIES
  PlanningEnds
\* Every call returns.
CHECK_DEADLOCK FALSE
