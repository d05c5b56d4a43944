SPECIFICATION FairSpec
CONSTANTS
  Units = {u1}
  MaxTime = 2
  Specs <- AllScenarios
  CleanupGrace = 1
  ReadLag = 0
  PolicyLag = 0
  MaxFaults = 1
  MaxCrashes = 0
  MaxStale = 0
  UserActions = {"abort", "delete"}
PROPERTIES RunEnds DeletionEnds
\* A finished run is never looked at again.
CHECK_DEADLOCK FALSE
