SPECIFICATION Spec
CONSTANTS
  Namespaces <- MCNamespaces
  Requests   <- MCRequests
INVARIANTS
  LastTaskManagerNeedsConsent
  DisruptionWithinCap
  AskedDurationIsUsed
  AdmittedIsDrivable
  SelectorMeansItsPods
  UIHitsWhatItShows
\* A request is done with once it is injected or turned down.
CHECK_DEADLOCK FALSE
