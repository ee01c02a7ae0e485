---------------------------- MODULE DrainOutcome -----------------------------
(***************************************************************************)
(* What nr.drain amounts to for its caller: an attempt cordons the node    *)
(* and then empties it; a failure at either stage leads to one forced      *)
(* attempt when the options ask for it, and otherwise to an error.  These  *)
(* are the steps that NodeReaper takes for a drain.                        *)
(***************************************************************************)
EXTENDS Naturals

VARIABLES stage, attempt, force, trusted, cordoned

drainVars == <<stage, attempt, force, trusted, cordoned>>

\* trusted: the caller's copy of the node says it is cordoned already.
Init ==
  /\ stage = "drain" /\ attempt = 1
  /\ {force, trusted, cordoned} \subseteq BOOLEAN

Fails ==
  IF attempt = 1 /\ force
    THEN stage' = "drain" /\ attempt' = 2
    ELSE stage' = "failed" /\ UNCHANGED attempt

Cordon ==
  /\ stage = "drain"
  /\ stage' = "evict"
  /\ cordoned' = IF trusted THEN cordoned ELSE TRUE
  /\ UNCHANGED <<attempt, force, trusted>>

CordonFails ==
  /\ stage = "drain" /\ ~trusted
  /\ cordoned' \in {cordoned, TRUE}
  /\ Fails
  /\ UNCHANGED <<force, trusted>>

Evict ==
  /\ stage = "evict"
  /\ stage' = "reap"
  /\ UNCHANGED <<attempt, force, trusted, cordoned>>

EvictFails ==
  /\ stage = "evict"
  /\ Fails
  /\ UNCHANGED <<force, trusted, cordoned>>

Next == Cordon \/ CordonFails \/ Evict \/ EvictFails

Spec == Init /\ [][Next]_drainVars
=============================================================================
