---------------------------- MODULE ReaperReplicas ----------------------------
(***************************************************************************)
(* Two processes of node-reaper on one cluster.  The chart's Deployment    *)
(* (helm/templates/operator-deployment.yaml) sets no update strategy and   *)
(* the program takes no lease: when the pod is replaced, or its node is    *)
(* cut off, the old process and the new one may both be at work.  Each has *)
(* its own informer and worker; the cluster, and the configuration, are    *)
(* one.                                                                    *)
(***************************************************************************)
EXTENDS NodePredicate, ClusterHealth, FiniteSets

CONSTANTS Nodes, NoNode, LabelsOf, ProviderOf, Plugins, Statuses, Configs,
          MaxGen, MaxChanges, MaxCrashes

VARIABLES
  cfg, api, young, terminated, quarantined, changes, crashes,  \* as in NodeReaper
  cacheA, queueA, pcA, keyA, copyA, attemptA,                  \* the old process
  cacheB, queueB, pcB, keyB, copyB, attemptB                   \* the new one

Old == INSTANCE NodeReaper
         WITH cache <- cacheA, queue <- queueA, pc <- pcA,
              key <- keyA, copy <- copyA, attempt <- attemptA
New == INSTANCE NodeReaper
         WITH cache <- cacheB, queue <- queueB, pc <- pcB,
              key <- keyB, copy <- copyB, attempt <- attemptB

ASSUME NodesAssumption  == IsFiniteSet(Nodes) /\ Nodes # {} /\ NoNode \notin Nodes
ASSUME ConfigAssumption == Configs \subseteq Old!Config
ASSUME BoundAssumption  == MaxGen \in Nat \ {0} /\ MaxChanges \in Nat /\ MaxCrashes \in Nat

processA == <<cacheA, queueA, pcA, keyA, copyA, attemptA>>
processB == <<cacheB, queueB, pcB, keyB, copyB, attemptB>>
vars == <<cfg, api, young, terminated, quarantined, changes, crashes, processA, processB>>

Init == Old!Init /\ New!Init

OldSteps == (Old!Run \/ Old!Controller) /\ UNCHANGED processB

NewSteps == (New!Run \/ New!Controller) /\ UNCHANGED processA

ClusterSteps == Old!Environment /\ UNCHANGED processB

Next == (OldSteps \/ NewSteps \/ ClusterSteps) /\ UNCHANGED cfg

Spec == Init /\ [][Next]_vars

-----------------------------------------------------------------------------
\* Both processes are in their range.
TypeOK == Old!TypeOK /\ New!TypeOK

\* Each process adds at most its own candidate to what the live list shows
\* the other one did: two processes take out two nodes more than
\* maxNodesUnhealthy at most, and not twice as many.
SharedBlastRadius ==
  Old!QuarantineCounts =>
    \E m, n \in Nodes :
      Old!WithinLimit(cfg.maxNodesUnhealthy, Cardinality(quarantined \ {m, n}))
=============================================================================
