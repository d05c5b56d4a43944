SPECIFICATION Spec
CONSTANTS
  u1 = u1
  u2 = u2
  Units = {u1, u2}
  MaxTime = 3
  Specs <- ControllerSpecs
  CleanupGrace = 1
  ReadLag = 0
  PolicyLag = 0
  MaxFaults = 1
  MaxCrashes = 1
  MaxStale = 0
  UserActions = {"abort", "delete"}
SYMMETRY Symmetry
INVARIANTS TypeOK CleanedUpAfterDuration
PROPERTY RefinesLifecycle
\* A finished run is never looked at again.
CHECK_DEADLOCK FALSE
