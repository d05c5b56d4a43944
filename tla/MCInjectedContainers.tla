------------------------- MODULE MCInjectedContainers -------------------------
(* Two runs whose names begin alike, on two TaskManagers: two of             *)
(* NetworkChaos, of which one has a filter, or one of each scenario.         *)
EXTENDS InjectedContainers

CONSTANTS r1, r2, tm1, tm2

MCShortName == [r \in {r1, r2} |-> "nightly-chaos-on-the"]

MCDuration == [r \in {r1, r2} |-> IF r = r1 THEN 2 ELSE 1]

Tc(filtered, polled) ==
  [scenario |-> "NetworkChaos", filtered |-> filtered, target |-> {tm1, tm2},
   polled |-> polled]

Stress ==
  [scenario |-> "ResourceExhaustion", filtered |-> FALSE, target |-> {tm2}, polled |-> TRUE]

Pair(s, t) == [r \in {r1, r2} |-> IF r = r1 THEN s ELSE t]

\* In each pair one run is polled.
MCSpecs == {Pair(Tc(FALSE, TRUE), Tc(TRUE, FALSE)), Pair(Tc(FALSE, FALSE), Stress)}
=============================================================================
