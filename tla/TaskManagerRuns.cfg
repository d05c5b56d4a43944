SPECIFICATION Spec
CONSTANTS
  r1 = r1
  r2 = r2
  t1 = t1
  t2 = t2
  t3 = t3
  t4 = t4
  j1 = j1
  Runs = {r1, r2}
  Pods = {t1, t2, t3, t4, j1}
  InitialPods = {t1, t2, t3, j1}
  Replicas = 3
  Role <- MCRole
  Session = FALSE
  Specs <- MCSpecs
  MaxFaults = 1
  MaxStale = 1
  PodLag = 1
SYMMETRY Symmetry
INVARIANTS TypeOK DisruptionsWithinLimit TaskManagersStay VictimsAreDisjoint RecoveryOnlyWithoutVictims
\* Ended runs and pods that are gone do nothing more.
CHECK_DEADLOCK FALSE
