SPECIFICATION Spec
CONSTANTS
  Units = {u1}
  MaxTime = 3
  Specs <- UnpolledSpecs
  CleanupGrace = 1
  ReadLag = 0
  PolicyLag = 0
  MaxFaults = 0
  MaxCrashes = 0
  MaxStale = 0
  UserActions = {}
INVARIANT NeverParked
\* A finished run is never looked at again.
CHECK_DEADLOCK FALSE
