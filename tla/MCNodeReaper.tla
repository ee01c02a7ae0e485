---------------------------- MODULE MCNodeReaper ----------------------------
(***************************************************************************)
(* Small clusters and sets of configurations for NodeReaper.               *)
(***************************************************************************)
EXTENDS NodeReaper

CONSTANTS n1, n2, n3

Number(k)  == [form |-> "number", value |-> k]
Percent(k) == [form |-> "percent", value |-> k]

\* The defaults of pkg/config/config.go with the dry run switched off.
Default ==
  [reapPredicate |-> "defaultReap", unhealthyPredicate |-> "defaultUnhealthy",
   maxNodesUnhealthy |-> Number(1), maxNodesUnhealthyInSameZone |-> Number(1),
   drainForceRetryOnError |-> TRUE, skipReaping |-> FALSE, dryRun |-> FALSE]

Healthy  == [Ready |-> "True", MemoryPressure |-> "False",
             DiskPressure |-> "False", OutOfDisk |-> "False"]
NotReady == [Healthy EXCEPT !.Ready = "Unknown"]

Worker(zone) ==
  [l \in {zoneLabel, "kubernetes.io/role"} |-> IF l = zoneLabel THEN zone ELSE "node"]
Unlabelled == [l \in {"kubernetes.io/role"} |-> "node"]

OneZone    == [n \in Nodes |-> Worker("a")]
TwoZones   == [n \in Nodes |-> Worker(IF n = n3 THEN "b" ELSE "a")]
NoZone     == [n \in Nodes |-> IF n = n2 THEN Unlabelled ELSE Worker("a")]

AllAws   == [n \in Nodes |-> "aws"]
SomeAws  == [n \in Nodes |-> IF n = n1 THEN "aws" ELSE ""]
Aws      == {"aws"}

TwoStatuses == {Healthy, NotReady}

JustDefault == {Default}

\* What an operator may vary, one setting at a time; 300 is over MaxUint.
Variants ==
  {Default,
   [Default EXCEPT !.dryRun = TRUE],
   [Default EXCEPT !.skipReaping = TRUE],
   [Default EXCEPT !.drainForceRetryOnError = FALSE],
   [Default EXCEPT !.reapPredicate = "notReady", !.maxNodesUnhealthy = Number(0)],
   [Default EXCEPT !.reapPredicate = "invalid"],
   [Default EXCEPT !.unhealthyPredicate = "notBoolean"],
   [Default EXCEPT !.maxNodesUnhealthy = Number(300)]}

Limits ==
  {[Default EXCEPT !.maxNodesUnhealthy = a, !.maxNodesUnhealthyInSameZone = z] :
     a \in {Number(1), Percent(33)}, z \in {Number(0), Number(1)}}

ZonePercent ==
  {[Default EXCEPT !.maxNodesUnhealthy = Percent(100),
                   !.maxNodesUnhealthyInSameZone = Percent(34)]}
=============================================================================
