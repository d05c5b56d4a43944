SPECIFICATION FairSpec
CONSTANTS
  r1 = r1
  r2 = r2
  tm1 = tm1
  tm2 = tm2
  Runs = {r1, r2}
  Pods = {tm1, tm2}
  ShortName <- MCShortName
  Duration  <- MCDuration
  Specs     <- MCSpecs
  StartDelay = 1
  MaxFaults = 1
INVARIANTS TypeOK SleepsOnOwnQdisc LeftOnlyByFilter OutlivesByStartDelay RecordsNameOwnContainers
PROPERTIES DisruptionEnds CleanupConverges
