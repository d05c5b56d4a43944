SPECIFICATION Spec
CONSTANTS
  Units = {u1, u2}
  MaxTime = 3
  Specs <- PartitionSpecs
  CleanupGrace = 1
  ReadLag = 0
  PolicyLag = 0
  MaxFaults = 1
  MaxCrashes = 0
  MaxStale = 0
  UserActions = {}
INVARIANT FinishedWithoutPolicies
\* A finished run is never looked at again.
CHECK_DEADLOCK FALSE
