SPECIFICATION Spec
CONSTANTS
  r1 = r1
  r2 = r2
  tm1 = tm1
  tm2 = tm2
  jm = jm
  a1 = a1
  a2 = a2
  Runs = {r1, r2}
  Pods = {tm1, tm2, jm}
  Addresses = {a1, a2}
  Component <- MCComponent
  Ports = {6123, 8081}
  Networks <- ApartNetworks
  MaxFaults = 1
  MaxRestarts = 1
INVARIANTS TypeOK PartitionInForce NothingElseCut RestoredWhenClean StatusNamesThePolicies
\* Clean and failed runs stay as they are.
CHECK_DEADLOCK FALSE
