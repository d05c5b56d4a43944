SPECIFICATION Spec
CONSTANTS
  r1 = r1
  r2 = r2
  t1 = t1
  t2 = t2
  t3 = t3
  t4 = t4
  j1 = j1
  Runs = {r1}
  Pods = {t1, t2, t3, t4, j1}
  InitialPods = {t1, t2, t3, j1}
  Replicas = 3
  Role <- MCRole
  Session = FALSE
  Specs <- SingleSpecs
  MaxFaults = 0
  MaxStale = 0
  PodLag = 0
INVARIANTS RecoveryMeansReplacement
\* Ended runs and pods that are gone do nothing more.
CHECK_DEADLOCK FALSE
