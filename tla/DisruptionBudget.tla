-------------------------- MODULE DisruptionBudget ---------------------------
(***************************************************************************)
(* What the node reaper promises the cluster: nodes are taken out of       *)
(* service one at a time, a node becomes the target only while the nodes   *)
(* that are already out are affordable, and only a target is isolated or   *)
(* loses its instance.  Nothing is said of caches, retries or crashes:     *)
(* whatever they do, at most one node more than what is affordable is out. *)
(***************************************************************************)
EXTENDS FiniteSets

CONSTANTS Nodes, NoNode

VARIABLES
  affordable,  \* the sets of nodes that may be out when a target is picked
  out,         \* the nodes taken out of service and not given back
  target,      \* the node being taken out, or NoNode
  gone         \* the nodes that lost an instance

budgetVars == <<affordable, out, target, gone>>

Init ==
  /\ affordable \subseteq SUBSET Nodes
  /\ out = {}
  /\ target = NoNode
  /\ gone = {}

Pick(n) ==
  /\ target = NoNode
  /\ out \in affordable
  /\ target' = n
  /\ UNCHANGED <<affordable, out, gone>>

\* The target is isolated; the attempt may end with it.
Isolate ==
  /\ target # NoNode
  /\ out' = out \cup {target}
  /\ target' \in {target, NoNode}
  /\ UNCHANGED <<affordable, gone>>

\* The work on the target ends, with or without its instance.
Finish ==
  /\ target # NoNode
  /\ gone' \in {gone, gone \cup {target}}
  /\ target' = NoNode
  /\ UNCHANGED <<affordable, out>>

\* A node is given back: uncordoned by an administrator, or removed.
GiveBack(n) ==
  /\ out' = out \ {n}
  /\ UNCHANGED <<affordable, target, gone>>

Next == Isolate \/ Finish \/ \E n \in Nodes : Pick(n) \/ GiveBack(n)

Spec == Init /\ [][Next]_budgetVars
=============================================================================
