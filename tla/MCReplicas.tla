----------------------------- MODULE MCReplicas -----------------------------
(***************************************************************************)
(* A cluster of equal nodes for two processes.                             *)
(***************************************************************************)
EXTENDS ReaperReplicas, TLC

Healthy  == [Ready |-> "True", MemoryPressure |-> "False",
             DiskPressure |-> "False", OutOfDisk |-> "False"]

TwoStatuses == {Healthy, [Healthy EXCEPT !.Ready = "Unknown"]}

Labels   == [n \in Nodes |-> [l \in {"failure-domain.beta.kubernetes.io/zone"} |-> "a"]]
Provider == [n \in Nodes |-> "aws"]
Aws      == {"aws"}

None == [form |-> "number", value |-> 0]

Strict ==
  {[reapPredicate |-> "defaultReap", unhealthyPredicate |-> "defaultUnhealthy",
    maxNodesUnhealthy |-> None, maxNodesUnhealthyInSameZone |-> None,
    drainForceRetryOnError |-> TRUE, skipReaping |-> FALSE, dryRun |-> FALSE]}

\* No node is cordoned or new when the second process starts: cordons come
\* later, and new nodes are in the instances of NodeReaper alone.
SettledInit == Init /\ young = {} /\ \A n \in Nodes : ~api[n].cordoned

SettledSpec == SettledInit /\ [][Next]_vars

\* Every node may be in the place of every other.
EqualNodes == Permutations(Nodes)
=============================================================================
