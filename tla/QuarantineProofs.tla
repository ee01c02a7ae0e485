--------------------------- MODULE QuarantineProofs ---------------------------
(***************************************************************************)
(* Theorems of QuarantineHistory, for every cluster, set of configurations *)
(* and bound.                                                              *)
(***************************************************************************)
EXTENDS QuarantineHistory, NodeReaperProofs

\* NoneForgotten is not inductive by itself: a name must not be registered
\* again, with a new instance, while it is quarantined.
ForgottenInv == QuarantinedAreCordoned /\ NoneForgotten

\* What the history remembers of a node that stays quarantined.
LEMMA Remembered ==
  ASSUME Remember, NEW n \in quarantined'
  PROVE  /\ n \in abandoned => n \in abandoned'
         /\ n = key /\ Abandons => n \in abandoned'
  BY DEF Remember

\* No step gives a quarantined node another instance, and none brings back an
\* instance that was terminated.
LEMMA SameInstance ==
  ASSUME TypeOK, QuarantinedAreCordoned, [Next]_vars, NEW n \in Nodes
  PROVE  /\ n \in quarantined => api'[n].gen = api[n].gen
         /\ terminated \subseteq terminated'
<1> USE DEF TypeOK, cluster, QuarantinedAreCordoned
<1>1. ASSUME NEW m \in Nodes, NEW status \in Statuses, Register(m, status)
      PROVE  (n \in quarantined => api'[n].gen = api[n].gen) /\ terminated \subseteq terminated'
  BY <1>1 DEF Register
<1>2. ASSUME NEW m \in Nodes, Administer(m) \/ Remove(m)
      PROVE  api'[n].gen = api[n].gen /\ terminated \subseteq terminated'
  BY <1>2 DEF Administer, Remove, Node
<1>3. ASSUME NEW m \in Nodes, NEW status \in Statuses, Report(m, status)
      PROVE  api'[n].gen = api[n].gen /\ terminated \subseteq terminated'
  BY <1>3 DEF Report, Node
<1>4. CASE Cordon \/ CordonFails
  <2>1. key \in Nodes
    BY <1>4 DEF Cordon, CordonFails
  <2> QED
    BY <1>4, <2>1 DEF Cordon, CordonFails, Patch, Node
<1>5. CASE Reap \/ ReapFails
  BY <1>5 DEF Reap, ReapFails, Terminate
<1>6. CASE ListFails \/ Assess \/ DryDrain \/ Evict \/ EvictFails \/ ReapDeclined
  BY <1>6 DEF ListFails, Assess, DryDrain, Evict, EvictFails, ReapDeclined
<1>7. CASE Resync \/ Restart \/ \E m \in Nodes : Process(m) \/ Deliver(m)
  BY <1>7 DEF Resync, Restart, Process, Deliver
<1>8. CASE \E i \in young : Age(i)
  BY <1>8 DEF Age
<1>9. CASE UNCHANGED vars
  BY <1>9 DEF vars
<1> QED
  BY <1>1, <1>2, <1>3, <1>4, <1>5, <1>6, <1>7, <1>8, <1>9 DEF Next, Run, Controller, Environment

\* A Run that ends for the node in hand either abandons it or has its instance
\* terminated, and while it goes on the key stays the same.
LEMMA HandedOver ==
  ASSUME TypeOK, Next, Busy
  PROVE  \/ Busy' /\ key' = key
         \/ Abandons
         \/ Incarnation(key, api[key]) \in terminated' /\ UNCHANGED api
<1> USE DEF TypeOK, Busy, cluster, worker, informer, bounds
<1>1. CASE DryDrain \/ Cordon \/ Evict
  BY <1>1 DEF DryDrain, Cordon, Evict, Goto
<1>2. CASE CordonFails \/ EvictFails
  BY <1>2 DEF CordonFails, EvictFails, DrainFails, Return, Abandons
<1>3. CASE ReapDeclined \/ Restart
  BY <1>3 DEF ReapDeclined, Restart, Return, Abandons
<1>4. CASE Reap \/ ReapFails
  <2>1. pc' = "idle" /\ UNCHANGED api
    BY <1>4 DEF Reap, ReapFails, Return
  <2> QED
    BY <1>4, <2>1 DEF Abandons, ReapMisses
<1>5. CASE UNCHANGED worker
  BY <1>5
<1>6. CASE Resync \/ \E n \in Nodes : Process(n) \/ Deliver(n) \/ Administer(n) \/ Remove(n)
  BY <1>5, <1>6 DEF Resync, Process, Deliver, Administer, Remove
<1>7. CASE \E n \in Nodes, status \in Statuses : Report(n, status) \/ Register(n, status)
  BY <1>5, <1>7 DEF Report, Register
<1>8. CASE \E i \in young : Age(i)
  BY <1>5, <1>8 DEF Age
<1>9. CASE ListFails \/ Assess
  BY <1>9 DEF ListFails, Assess
<1> QED
  BY <1>1, <1>2, <1>3, <1>4, <1>6, <1>7, <1>8, <1>9 DEF Next, Run, Controller, Environment

\* Only the node in hand joins the quarantine.
LEMMA Joins ==
  ASSUME TypeOK, [Next]_vars, NEW n \in quarantined', n \notin quarantined
  PROVE  Busy /\ n = key
  BY StepShape DEF Selects, Patches, Patch, Works, Finishes, GivesBack

\* A node in hand stays so or is remembered, and one that was out of hand
\* already keeps what excuses it.
LEMMA ForgottenInductive ==
  ASSUME TypeOK, ForgottenInv, [HistoryNext]_<<vars, abandoned>>
  PROVE  ForgottenInv'
<1>1. CASE HistoryNext
  <2>1. QuarantinedAreCordoned'
    BY <1>1, CordonedInductive DEF ForgottenInv, HistoryNext
  <2>2. SUFFICES ASSUME NEW n \in quarantined'
                 PROVE  \/ Busy' /\ key' = n
                        \/ Incarnation(n, api'[n]) \in terminated'
                        \/ n \in abandoned'
    BY <2>1 DEF ForgottenInv, NoneForgotten, Busy
  <2>3. TypeOK' /\ n \in Nodes
    BY <1>1, TypeInductive DEF HistoryNext, TypeOK
  <2>4. CASE Busy /\ n = key
    <3>1. CASE Busy' /\ key' = key
      BY <2>4, <3>1
    <3>2. CASE Abandons
      BY <1>1, <2>4, <3>2, Remembered DEF HistoryNext
    <3>3. CASE Incarnation(key, api[key]) \in terminated' /\ UNCHANGED api
      BY <2>4, <3>3
    <3> QED
      BY <1>1, <2>4, <3>1, <3>2, <3>3, HandedOver DEF HistoryNext
  <2>5. CASE ~(Busy /\ n = key)
    <3>1. n \in quarantined
      BY <1>1, <2>5, Joins DEF HistoryNext
    <3>2. Incarnation(n, api[n]) \in terminated \/ n \in abandoned
      BY <2>5, <3>1 DEF ForgottenInv, NoneForgotten, Busy
    <3>3. CASE Incarnation(n, api[n]) \in terminated
      BY <1>1, <2>3, <3>1, <3>3, SameInstance DEF ForgottenInv, HistoryNext, Incarnation
    <3>4. CASE n \in abandoned
      BY <1>1, <3>4, Remembered DEF HistoryNext
    <3> QED
      BY <3>2, <3>3, <3>4
  <2> QED
    BY <2>4, <2>5
<1>2. CASE UNCHANGED <<vars, abandoned>>
  BY <1>2 DEF vars, cluster, informer, worker, ForgottenInv, NoneForgotten, QuarantinedAreCordoned
<1> QED
  BY <1>1, <1>2

\* No node that the reaper cordoned drops out of sight: whatever fails, restarts
\* or changes, it is in hand, its instance is terminated, or its own Run is
\* known to have ended short of that.
THEOREM NoneForgottenCorrect == HistorySpec => []NoneForgotten
<1>1. HistoryInit => TypeOK /\ ForgottenInv
  <2> SUFFICES ASSUME HistoryInit PROVE TypeOK /\ ForgottenInv
    OBVIOUS
  <2>1. TypeOK
    BY TypeInit DEF HistoryInit
  <2> QED
    BY <2>1 DEF HistoryInit, Init, ForgottenInv, NoneForgotten, QuarantinedAreCordoned
<1>2. TypeOK /\ [HistoryNext]_<<vars, abandoned>> => TypeOK'
  BY TypeInductive DEF HistoryNext
<1>3. ForgottenInv => NoneForgotten
  BY DEF ForgottenInv
<1> QED
  BY <1>1, <1>2, <1>3, ForgottenInductive, PTL DEF HistorySpec
=============================================================================
