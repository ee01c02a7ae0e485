----------------------------- MODULE MCTakedown -----------------------------
(***************************************************************************)
(* One node with a StatefulSet's pod and its replacement for Takedown.     *)
(***************************************************************************)
EXTENDS Takedown

CONSTANTS n1, pod1, again1

Status(ready) ==
  {[Ready |-> ready, MemoryPressure |-> "False", DiskPressure |-> "False", OutOfDisk |-> "False"]}

Labels == [n \in Nodes |-> [l \in {zoneLabel} |-> "a"]]

Provider == [n \in Nodes |-> "aws"]
Aws      == {"aws"}

One == [form |-> "number", value |-> 1]

Default ==
  [reapPredicate |-> "defaultReap", unhealthyPredicate |-> "defaultUnhealthy",
   maxNodesUnhealthy |-> One, maxNodesUnhealthyInSameZone |-> One,
   drainForceRetryOnError |-> TRUE, skipReaping |-> FALSE, dryRun |-> FALSE]

Variants == {Default, [Default EXCEPT !.skipReaping = TRUE], [Default EXCEPT !.dryRun = TRUE]}

NotReady == Status("Unknown")

Names  == [p \in Pods |-> pod1]
Owners == [p \in Pods |-> <<"StatefulSet">>]
=============================================================================
