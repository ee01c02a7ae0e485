-------------------------- MODULE QuarantineHistory --------------------------
(***************************************************************************)
(* NodeReaper with one more history variable: the quarantined nodes whose  *)
(* drain or reap ended in an error, in a refusal of the configuration,     *)
(* with the process, or in the reap of an earlier holder of their name.    *)
(* Nothing in the program remembers them.                                  *)
(***************************************************************************)
EXTENDS NodeReaper

VARIABLE abandoned

\* The provider's call leaves the instance of the node running: it failed, or
\* the cached copy was of another incarnation than the one the patch cordoned.
ReapMisses == (Reap \/ ReapFails) /\ Incarnation(key, api[key]) \notin terminated'

\* Run ends for the node in hand, short of a reap.
Abandons ==
  /\ pc \in {"drain", "evict", "reap"}
  /\ pc' = "idle"
  /\ CordonFails \/ EvictFails \/ ReapDeclined \/ ReapMisses \/ Restart

\* A node given back is forgotten.
Remember ==
  abandoned' = {n \in quarantined' : n \in abandoned \/ (n = key /\ Abandons)}

HistoryInit == Init /\ abandoned = {}

HistoryNext == Next /\ Remember

HistorySpec == HistoryInit /\ [][HistoryNext]_<<vars, abandoned>> /\ Fairness

\* A node the reaper took out is in its hands, has lost its instance, or is one
\* whose own Run ended short of it: the drain never stops after the patch to
\* wait for an event, and no other node's failure strands this one.
NoneForgotten ==
  \A n \in quarantined :
    \/ pc \in {"drain", "evict", "reap"} /\ key = n
    \/ Incarnation(n, api[n]) \in terminated
    \/ n \in abandoned

\* A node the reaper quarantined is not forgotten while nothing goes wrong
\* with it, whatever goes wrong with the others: it loses its instance or
\* somebody gives it back, unless its own drain or reap ended in an error, was
\* refused, missed its instance, or was cut off with the process.
QuarantineResolves ==
  \A n \in Nodes :
    n \in quarantined ~>
      \/ n \notin quarantined
      \/ Incarnation(n, api[n]) \in terminated
      \/ n \in abandoned
=============================================================================
