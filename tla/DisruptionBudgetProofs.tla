----------------------- MODULE DisruptionBudgetProofs -----------------------
(***************************************************************************)
(* What the disruption budget is worth: DisruptionBudget says who may be   *)
(* picked and when, and from that alone follows how many nodes are out.    *)
(***************************************************************************)
EXTENDS DisruptionBudget, TLAPS

\* Fewer nodes than an affordable set are affordable.
DownwardClosed == \A S \in affordable : SUBSET S \subseteq affordable

\* Without one of them the nodes that are out are affordable.
OneMoreAtMost == out = {} \/ \E n \in Nodes : out \ {n} \in affordable

(***************************************************************************)
(* OneMoreAtMost is not inductive, for a target that is isolated late adds *)
(* to whatever is out by then: it must be the one node that is too many.   *)
(***************************************************************************)
TargetIsTheOne ==
  /\ DownwardClosed
  /\ target # NoNode => target \in Nodes /\ out \ {target} \in affordable
  /\ OneMoreAtMost

\* A node is picked while all that is out is affordable, stays the only one that
\* is not until its work ends, and every other step leaves fewer nodes out.
LEMMA BudgetInductive ==
  ASSUME TargetIsTheOne, [Next]_budgetVars
  PROVE  TargetIsTheOne'
<1> USE DEF TargetIsTheOne, OneMoreAtMost
<1>1. ASSUME NEW S \in affordable, NEW T \in SUBSET S PROVE T \in affordable
  BY DEF DownwardClosed
<1>2. UNCHANGED affordable /\ DownwardClosed'
  BY DEF Next, Isolate, Finish, Pick, GiveBack, budgetVars, DownwardClosed
<1>3. ASSUME NEW n \in Nodes, Pick(n) PROVE TargetIsTheOne'
  <2>1. out \ {n} \in affordable
    BY <1>1, <1>3 DEF Pick
  <2> QED
    BY <1>2, <1>3, <2>1 DEF Pick
<1>4. CASE Isolate
  <2>1. target \in Nodes /\ out' \ {target} = out \ {target}
    BY <1>4 DEF Isolate
  <2>2. out' \ {target} \in affordable'
    BY <1>2, <1>4, <2>1 DEF Isolate
  <2> QED
    BY <1>2, <1>4, <2>1, <2>2 DEF Isolate
<1>5. CASE Finish
  BY <1>2, <1>5 DEF Finish
<1>6. ASSUME NEW n \in Nodes, GiveBack(n) PROVE TargetIsTheOne'
  <2>1. out' = out \ {n} /\ UNCHANGED target
    BY <1>6 DEF GiveBack
  <2>2. ASSUME NEW m, out \ {m} \in affordable PROVE out' \ {m} \in affordable'
    BY <1>1, <1>2, <2>1, <2>2
  <2> QED
    BY <1>2, <2>1, <2>2
<1>7. CASE UNCHANGED budgetVars
  BY <1>2, <1>7 DEF budgetVars
<1> QED
  BY <1>3, <1>4, <1>5, <1>6, <1>7 DEF Next

\* Whoever keeps a disruption budget has at most one node out of service more
\* than it can afford: what NodeReaper promises by KeepsBudget, whatever limit
\* the budget was made from.
THEOREM OneMoreThanAffordable ==
  Spec /\ DownwardClosed => []OneMoreAtMost
<1>1. Init /\ DownwardClosed => TargetIsTheOne
  BY DEF Init, TargetIsTheOne, OneMoreAtMost
<1>2. TargetIsTheOne => OneMoreAtMost
  BY DEF TargetIsTheOne
<1> QED
  BY <1>1, <1>2, BudgetInductive, PTL DEF Spec
=============================================================================
