------------------------------ MODULE MCDrainer ------------------------------
(***************************************************************************)
(* Small sets of pods for Drainer: a pod and its replacement of the same   *)
(* name, a pod with two owners, a DaemonSet's pod and a bare one.          *)
(***************************************************************************)
EXTENDS Drainer

CONSTANTS pod1, again1, pod2, daemon, bare

Names == [p \in Pods |-> IF p = again1 THEN pod1 ELSE p]

Owners ==
  [p \in Pods |-> CASE p = daemon -> <<"DaemonSet">>
                    [] p = bare   -> <<>>
                    [] p = pod2   -> <<"ReplicaSet", "Custom">>
                    [] OTHER      -> <<"StatefulSet">>]
=============================================================================
