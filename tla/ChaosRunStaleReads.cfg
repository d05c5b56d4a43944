SPECIFICATION Spec
CONSTANTS
  u1 = u1
  u2 = u2
  Units = {u1, u2}
  MaxTime = 2
  Specs <- ScenarioSpecs
  CleanupGrace = 1
  ReadLag = 1
  PolicyLag = 1
  MaxFaults = 1
  MaxCrashes = 0
  MaxStale = 1
  UserActions = {"abort", "delete"}
SYMMETRY Symmetry
INVARIANTS
  NeverParked
  PassedMeansRecovered
  EndsWithoutPolicies
  KillsAtMostCount
  CountedOnce
PROPERTY FinalizerGuardsEffects
\* A finished run is never looked at again.
CHECK_DEADLOCK FALSE
