SPECIFICATION FairSpec
CONSTANTS
  c1 = c1
  c2 = c2
  Clients = {c1, c2}
  RunNames = {"kill", "partition"}
  LastPhase = 2
  MaxConnections = 1
  MaxRecreated = 3
INVARIANTS TypeOK CounterIsExact StreamsWithinLimit NothingSkipped
PROPERTIES ClientsCatchUp SlotsAreReturned
