-------------------------- MODULE NodeReaperProofs ---------------------------
(***************************************************************************)
(* Theorems of NodeReaper, for every cluster, set of configurations and    *)
(* bound.                                                                  *)
(***************************************************************************)
EXTENDS NodeReaper, FiniteSetTheorems, TLAPS

-----------------------------------------------------------------------------
(***************************************************************************)
(* Arithmetic of the health checks.                                        *)
(***************************************************************************)

\* Multiplication by a natural number is monotone.
LEMMA TimesMonotone ==
  ASSUME NEW a \in Nat, NEW b \in Nat, NEW c \in Nat, b <= c
  PROVE  a * b <= a * c
OBVIOUS

\* math.Ceil never hides a node: a share whose ceiling is allowed is allowed.
LEMMA CeilDivBound ==
  ASSUME NEW a \in Nat, NEW b \in Nat \ {0}, NEW p \in Nat, CeilDiv(a, b) <= p
  PROVE  a <= p * b
<1> DEFINE q == CeilDiv(a, b)
<1>1. /\ q \in Nat
      /\ a <= b * q
  BY DEF CeilDiv
<1>2. b * q <= b * p
  BY <1>1, TimesMonotone
<1>3. b * p = p * b
  OBVIOUS
<1>4. QED
  BY <1>1, <1>2, <1>3

\* Nor does it see one too many: a share that is allowed has such a ceiling.
LEMMA CeilDivExact ==
  ASSUME NEW a \in Nat, NEW b \in Nat \ {0}, NEW p \in Nat
  PROVE  CeilDiv(a, b) <= p <=> a <= p * b
<1>1. ASSUME CeilDiv(a, b) <= p PROVE a <= p * b
  BY <1>1, CeilDivBound
<1>2. ASSUME a <= p * b PROVE CeilDiv(a, b) <= p
  <2> DEFINE q == CeilDiv(a, b)
  <2>1. q \in Nat /\ b * q <= a + b - 1
    BY DEF CeilDiv
  <2>2. SUFFICES ASSUME p + 1 <= q PROVE FALSE
    BY <2>1
  <2> HIDE DEF q
  <2>3. b * (p + 1) <= b * q
    BY <2>1, <2>2, TimesMonotone
  <2>4. b * (p + 1) = p * b + b /\ p * b \in Nat
    OBVIOUS
  <2>5. QED
    BY <1>2, <2>1, <2>3, <2>4
<1>3. QED
  BY <1>1, <1>2

\* What is in the set of a single verdict.
LEMMA SingleVerdict ==
  ASSUME NEW v \in BOOLEAN
  PROVE  (TRUE \in {v} <=> v) /\ (FALSE \in {v} <=> ~v)
BY Zenon

\* What a setting means, without a ceiling: so many unhealthy nodes of so many
\* are no more than it allows.
Allows(mnu, unhealthy, total) ==
  IF TypeOf(mnu) = "PERCENTUAL"
    THEN unhealthy * 100 <= mnu.value * total
    ELSE unhealthy <= mnu.value

(***************************************************************************)
(* The calculator answers what the arithmetic of the rationals answers,    *)
(* for every setting and every count: a percentage is compared as it       *)
(* stands, with no node more or less for being rounded up, and only the    *)
(* empty cluster leaves the answer to the platform.                        *)
(***************************************************************************)
THEOREM CalculatorExact ==
  \A mnu \in Settings, unhealthy, total \in Nat : HasCalculator(mnu) =>
    LET verdicts == Verdicts(mnu, unhealthy, total)
        free     == TypeOf(mnu) = "PERCENTUAL" /\ total = 0
    IN /\ TRUE \in verdicts <=> free \/ Allows(mnu, unhealthy, total)
       /\ FALSE \in verdicts <=> free \/ ~Allows(mnu, unhealthy, total)
<1> SUFFICES ASSUME NEW mnu \in Settings, NEW u \in Nat, NEW t \in Nat, HasCalculator(mnu)
             PROVE  LET free == TypeOf(mnu) = "PERCENTUAL" /\ t = 0
                    IN /\ TRUE \in Verdicts(mnu, u, t) <=> free \/ Allows(mnu, u, t)
                       /\ FALSE \in Verdicts(mnu, u, t) <=> free \/ ~Allows(mnu, u, t)
  OBVIOUS
<1>1. mnu.value \in Nat
  BY DEF Settings
<1>2. CASE TypeOf(mnu) # "PERCENTUAL"
  <2> DEFINE v == AbsoluteHealthy(mnu.value, u)
  <2>1. v \in BOOLEAN
    BY DEF AbsoluteHealthy
  <2>2. v <=> Allows(mnu, u, t)
    BY <1>1, <1>2 DEF AbsoluteHealthy, Allows
  <2>3. Verdicts(mnu, u, t) = {v}
    BY <1>2, Zenon DEF Verdicts
  <2> HIDE DEF v
  <2>4. (TRUE \in {v} <=> v) /\ (FALSE \in {v} <=> ~v)
    BY <2>1, SingleVerdict
  <2>5. QED
    BY <1>2, <2>2, <2>3, <2>4, Zenon
<1>3. CASE TypeOf(mnu) = "PERCENTUAL" /\ t # 0
  <2> DEFINE q == CeilDiv(u * 100, t)
             v == PercentualHealthy(mnu.value, q)
  <2>1. q \in Nat
    BY <1>3 DEF CeilDiv
  <2>2. u * 100 \in Nat /\ t \in Nat \ {0}
    BY <1>3
  <2>3. q <= mnu.value <=> u * 100 <= mnu.value * t
    BY <1>1, <2>2, CeilDivExact
  <2>4. UnhealthyPercents(u, t) = {q}
    BY <1>3, Zenon DEF UnhealthyPercents
  <2> HIDE DEF q
  <2>5. v \in BOOLEAN
    BY DEF PercentualHealthy
  <2>6. v <=> Allows(mnu, u, t)
    BY <1>1, <1>3, <2>1, <2>3 DEF PercentualHealthy, Allows
  <2>7. Verdicts(mnu, u, t) = {v}
    BY <1>3, <2>4, Zenon DEF Verdicts
  <2> HIDE DEF v
  <2>8. (TRUE \in {v} <=> v) /\ (FALSE \in {v} <=> ~v)
    BY <2>5, SingleVerdict
  <2>9. QED
    BY <1>3, <2>6, <2>7, <2>8, Zenon
<1>4. CASE TypeOf(mnu) = "PERCENTUAL" /\ t = 0
  <2> DEFINE huge == (MaxUint + 1) \div 2
  <2>1. mnu.value <= 100
    BY <1>1, <1>4 DEF TypeOf
  <2>2. huge \in Nat /\ huge > 100
    BY MaxUintAssumption
  <2>3. UnhealthyPercents(u, t) = {0, huge}
    BY <1>4, Zenon DEF UnhealthyPercents
  <2> HIDE DEF huge
  <2>4. PercentualHealthy(mnu.value, 0) = TRUE /\ PercentualHealthy(mnu.value, huge) = FALSE
    BY <1>1, <2>1, <2>2 DEF PercentualHealthy
  <2>5. Verdicts(mnu, u, t) = {PercentualHealthy(mnu.value, p) : p \in {0, huge}}
    BY <1>4, <2>3, Zenon DEF Verdicts
  <2>6. TRUE \in Verdicts(mnu, u, t) /\ FALSE \in Verdicts(mnu, u, t)
    BY <2>4, <2>5, Zenon
  <2>7. QED
    BY <1>4, <2>6
<1>5. QED
  BY <1>2, <1>3, <1>4

\* WithinLimit is closed under taking fewer nodes out.
LEMMA WithinLimitMonotone ==
  ASSUME NEW mnu \in Settings, NEW k \in Nat, NEW m \in Nat, k <= m,
         WithinLimit(mnu, m)
  PROVE  WithinLimit(mnu, k)
<1>1. mnu.value * Cardinality(Nodes) \in Nat
  BY FS_CardinalityType, NodesAssumption DEF Settings
<1>2. QED
  BY <1>1 DEF WithinLimit, Settings

\* What a health check that answers TRUE has seen: for the cluster and for a
\* zone, the unhealthy nodes are within the setting.
LEMMA HealthyMeansWithinLimit ==
  ASSUME TypeOK, NEW mnu \in Settings, NEW zone, TRUE \in isClusterHealthy(mnu, zone)
  PROVE  /\ UnhealthyNodes(zone) \subseteq Nodes
         /\ Cardinality(UnhealthyNodes(zone)) \in Nat
         /\ WithinLimit(mnu, Cardinality(UnhealthyNodes(zone)))
<1> DEFINE u == Cardinality(UnhealthyNodes(zone))
           t == Cardinality(Live)
<1>1. /\ UnhealthyNodes(zone) \subseteq Live
      /\ Live \subseteq Nodes
      /\ IsFiniteSet(Nodes)
  BY NodesAssumption DEF UnhealthyNodes, Live
<1>2. /\ IsFiniteSet(Live)
      /\ IsFiniteSet(UnhealthyNodes(zone))
      /\ t <= Cardinality(Nodes)
      /\ u <= t
  BY <1>1, FS_Subset
<1>3. u \in Nat /\ t \in Nat /\ Cardinality(Nodes) \in Nat
  BY <1>1, <1>2, FS_CardinalityType
<1>4. HasCalculator(mnu) /\ TRUE \in Verdicts(mnu, u, t)
  BY DEF isClusterHealthy
<1>5. CASE TypeOf(mnu) = "PERCENTUAL"
  <2>1. mnu.form = "percent" /\ mnu.value \in Nat
    BY <1>5 DEF TypeOf, Settings
  <2>2. PICK p \in UnhealthyPercents(u, t) : PercentualHealthy(mnu.value, p)
    BY <1>4, <1>5 DEF Verdicts
  <2>3. CASE t = 0
    BY <1>1, <1>2, <1>3, <2>3 DEF WithinLimit
  <2>4. CASE t # 0
    <3>1. p = CeilDiv(u * 100, t) /\ p \in Nat
      BY <2>2, <2>4, <1>3 DEF UnhealthyPercents, CeilDiv
    <3>2. CeilDiv(u * 100, t) <= mnu.value
      BY <2>1, <2>2, <3>1 DEF PercentualHealthy
    <3>3. u * 100 <= mnu.value * t
      BY <3>2, <2>1, <2>4, <1>3, CeilDivBound
    <3>4. mnu.value * t <= mnu.value * Cardinality(Nodes)
      BY <2>1, <1>2, <1>3, TimesMonotone
    <3>5. mnu.value * t \in Nat /\ mnu.value * Cardinality(Nodes) \in Nat
      BY <2>1, <1>3
    <3>6. QED
      BY <3>3, <3>4, <3>5, <2>1, <1>1, <1>3 DEF WithinLimit
  <2>5. QED
    BY <2>3, <2>4
<1>6. CASE TypeOf(mnu) # "PERCENTUAL"
  <2>1. mnu.form = "number" /\ mnu.value \in Nat
    BY <1>4, <1>6 DEF HasCalculator, TypeOf, Settings
  <2>2. u <= mnu.value
    <3>1. AbsoluteHealthy(mnu.value, u)
      BY <1>4, <1>6 DEF Verdicts
    <3>2. QED
      BY <3>1, <1>3, <2>1 DEF AbsoluteHealthy
  <2>3. QED
    BY <1>1, <1>3, <2>1, <2>2 DEF WithinLimit
<1>7. QED
  BY <1>5, <1>6

-----------------------------------------------------------------------------
(***************************************************************************)
(* Type correctness.                                                       *)
(***************************************************************************)
LiveNode == {node \in Node : node.live}

\* No step takes a variable out of its range.
LEMMA TypeInductive == TypeOK /\ [Next]_vars => TypeOK'
<1> SUFFICES ASSUME TypeOK, [Next]_vars PROVE TypeOK'
  OBVIOUS
<1> USE DEF TypeOK, cluster, informer, worker, bounds, WorkerStates
<1>1. ASSUME NEW n \in Nodes, Process(n), UNCHANGED cfg PROVE TypeOK'
  BY <1>1 DEF Process, Absent
<1>2. CASE ListFails /\ UNCHANGED cfg
  BY <1>2 DEF ListFails, Return
<1>3. CASE Assess /\ UNCHANGED cfg
  BY <1>3 DEF Assess, Return, Goto
<1>4. CASE DryDrain /\ UNCHANGED cfg
  BY <1>4 DEF DryDrain, Goto
<1>5. ASSUME Patch, key \in Nodes PROVE api' \in [Nodes -> Node] /\ quarantined' \subseteq Nodes
  BY <1>5 DEF Patch, Node
<1>6. CASE Cordon /\ UNCHANGED cfg
  <2>1. pc # "idle" /\ key \in Nodes
    BY <1>6 DEF Cordon
  <2>2. api' \in [Nodes -> Node] /\ quarantined' \subseteq Nodes
    BY <1>5, <1>6, <2>1 DEF Cordon
  <2>3. QED
    BY <1>6, <2>1, <2>2 DEF Cordon, Goto
<1>7. CASE CordonFails /\ UNCHANGED cfg
  <2>1. pc # "idle" /\ key \in Nodes
    BY <1>7 DEF CordonFails
  <2>2. api' \in [Nodes -> Node] /\ quarantined' \subseteq Nodes
    BY <1>5, <1>7, <2>1 DEF CordonFails
  <2>3. QED
    BY <1>7, <2>1, <2>2 DEF CordonFails, DrainFails, Return
<1>8. CASE Evict /\ UNCHANGED cfg
  BY <1>8 DEF Evict, Goto
<1>9. CASE EvictFails /\ UNCHANGED cfg
  BY <1>9 DEF EvictFails, DrainFails, Return
<1>10. CASE ReapDeclined /\ UNCHANGED cfg
  BY <1>10 DEF ReapDeclined, Return
<1>11. ASSUME pc = "reap", Terminate PROVE terminated' \subseteq Nodes \X (1..MaxGen)
  BY <1>11 DEF Terminate, Incarnation, Node
<1>12. CASE Reap /\ UNCHANGED cfg
  BY <1>11, <1>12 DEF Reap, Return
<1>13. CASE ReapFails /\ UNCHANGED cfg
  BY <1>11, <1>13 DEF ReapFails, Return
<1>14. ASSUME NEW n \in Nodes PROVE Listed(n) \in LiveNode \cup {Absent}
  BY DEF Listed, LiveNode
<1>15. ASSUME NEW n \in Nodes, Deliver(n), UNCHANGED cfg PROVE TypeOK'
  BY <1>14, <1>15 DEF Deliver, LiveNode
<1>16. CASE Resync /\ UNCHANGED cfg
  BY <1>16 DEF Resync
<1>17. CASE Restart /\ UNCHANGED cfg
  <2>1. cache' \in [Nodes -> LiveNode \cup {Absent}]
    BY <1>14, <1>17 DEF Restart
  <2>2. crashes' \in 0..MaxCrashes
    BY <1>17, BoundAssumption DEF Restart
  <2>3. queue' \subseteq Nodes
    BY <1>17 DEF Restart, Live
  <2>4. QED
    BY <1>17, <2>1, <2>2, <2>3 DEF Restart, Return, LiveNode
<1>18. ASSUME Change PROVE changes' \in 0..MaxChanges
  BY <1>18, BoundAssumption DEF Change
<1>19. ASSUME NEW n \in Nodes, Administer(n), UNCHANGED cfg PROVE TypeOK'
  <2>1. api' \in [Nodes -> Node]
    BY <1>19 DEF Administer, Node
  <2>2. QED
    BY <1>18, <1>19, <2>1 DEF Administer
<1>20. ASSUME NEW n \in Nodes, Remove(n), UNCHANGED cfg PROVE TypeOK'
  <2>1. api' \in [Nodes -> Node]
    BY <1>20 DEF Remove, Node
  <2>2. QED
    BY <1>18, <1>20, <2>1 DEF Remove
<1>21. ASSUME NEW n \in Nodes, NEW status \in Statuses, Report(n, status), UNCHANGED cfg
       PROVE TypeOK'
  <2>1. api' \in [Nodes -> Node]
    BY <1>21 DEF Report, Node
  <2>2. QED
    BY <1>18, <1>21, <2>1 DEF Report
<1>22. ASSUME NEW n \in Nodes, NEW status \in Statuses, Register(n, status), UNCHANGED cfg
       PROVE TypeOK'
  <2>1. api[n].gen + 1 \in 1..MaxGen
    BY <1>22, BoundAssumption DEF Register, Node
  <2>2. api' \in [Nodes -> Node]
    BY <1>22, <2>1 DEF Register, Node
  <2>3. young' \subseteq Nodes \X (1..MaxGen)
    BY <1>22, <2>1 DEF Register
  <2>4. QED
    BY <1>18, <1>22, <2>2, <2>3 DEF Register
<1>23. ASSUME NEW i \in young, Age(i), UNCHANGED cfg PROVE TypeOK'
  BY <1>23 DEF Age
<1>24. CASE UNCHANGED vars
  BY <1>24 DEF vars
<1>25. QED
  BY <1>1, <1>2, <1>3, <1>4, <1>6, <1>7, <1>8, <1>9, <1>10, <1>12, <1>13, <1>15,
     <1>16, <1>17, <1>19, <1>20, <1>21, <1>22, <1>23, <1>24
  DEF Next, Run, Controller, Environment

\* The initial states are in it.
LEMMA TypeInit == Init => TypeOK
<1> SUFFICES ASSUME Init PROVE TypeOK
  OBVIOUS
<1>1. api \in [Nodes -> LiveNode]
  <2>1. 1 \in 1..MaxGen
    BY BoundAssumption
  <2>2. [live : {TRUE}, gen : {1}, conditions : Statuses, cordoned : BOOLEAN]
          \subseteq LiveNode
    BY <2>1 DEF Node, LiveNode
  <2>3. QED
    BY <2>2 DEF Init
<1>2. cache \in [Nodes -> LiveNode \cup {Absent}]
  BY <1>1 DEF Init, Listed
<1>3. young \subseteq Nodes \X (1..MaxGen)
  BY BoundAssumption DEF Init
<1>4. queue \subseteq Nodes
  BY DEF Init, Live
<1>5. QED
  BY <1>1, <1>2, <1>3, <1>4, BoundAssumption
     DEF Init, TypeOK, LiveNode, Node, WorkerStates

\* Every variable keeps its range, for any cluster and any number of restarts.
THEOREM TypeCorrect == Spec => []TypeOK
  BY TypeInit, TypeInductive, PTL DEF Spec

-----------------------------------------------------------------------------
(***************************************************************************)
(* The grace period.  GraceRespected is not inductive: the incarnation the *)
(* worker holds must not be young either, and no young incarnation may be  *)
(* newer than the registered one, so that registering a name again never   *)
(* makes young an incarnation the worker or the provider already had.      *)
(***************************************************************************)
GraceInv ==
  /\ \A n \in Nodes : cache[n].live => cache[n].gen <= api[n].gen
  /\ pc # "idle" => copy.gen <= api[key].gen /\ Incarnation(key, copy) \notin young
  /\ \A i \in terminated : i[2] <= api[i[1]].gen
  /\ GraceRespected

\* No cached, held or terminated incarnation is newer than the registered one,
\* and none of those the worker or the provider had is inside its grace period.
LEMMA GraceInductive == TypeOK /\ GraceInv /\ [Next]_vars => GraceInv'
<1> SUFFICES ASSUME TypeOK, GraceInv, [Next]_vars PROVE GraceInv'
  OBVIOUS
<1> USE DEF TypeOK, GraceInv, GraceRespected, Incarnation, cluster, informer, worker, bounds
<1>1. ASSUME NEW n \in Nodes, Process(n) PROVE GraceInv'
  BY <1>1 DEF Process, isNodeCreating
<1>2. CASE ListFails
  BY <1>2 DEF ListFails, Return
<1>3. CASE Assess
  BY <1>3 DEF Assess, Return, Goto
<1>4. CASE DryDrain
  BY <1>4 DEF DryDrain, Goto
<1>5. ASSUME Patch, key \in Nodes PROVE \A n \in Nodes : api'[n].gen = api[n].gen
  BY <1>5 DEF Patch, Node
<1>6. CASE Cordon
  <2>1. pc # "idle" /\ key \in Nodes
    BY <1>6 DEF Cordon
  <2>2. \A n \in Nodes : api'[n].gen = api[n].gen
    BY <1>5, <1>6, <2>1 DEF Cordon
  <2>3. QED
    BY <1>6, <2>1, <2>2 DEF Cordon, Goto
<1>7. CASE CordonFails
  <2>1. pc # "idle" /\ key \in Nodes
    BY <1>7 DEF CordonFails
  <2>2. \A n \in Nodes : api'[n].gen = api[n].gen
    BY <1>5, <1>7, <2>1 DEF CordonFails
  <2>3. QED
    BY <1>7, <2>1, <2>2 DEF CordonFails, DrainFails, Return
<1>8. CASE Evict
  BY <1>8 DEF Evict, Goto
<1>9. CASE EvictFails
  BY <1>9 DEF EvictFails, DrainFails, Return
<1>10. CASE ReapDeclined
  BY <1>10 DEF ReapDeclined, Return
<1>11. CASE Reap
  BY <1>11 DEF Reap, Return, Terminate
<1>12. CASE ReapFails
  BY <1>12 DEF ReapFails, Return, Terminate
<1>13. ASSUME NEW n \in Nodes, Deliver(n) PROVE GraceInv'
  <2>1. \A m \in Nodes : cache'[m].live => cache'[m].gen <= api'[m].gen
    BY <1>13 DEF Deliver, Listed, Absent, Node
  <2>2. QED
    BY <1>13, <2>1 DEF Deliver
<1>14. CASE Resync
  BY <1>14 DEF Resync
<1>15. CASE Restart
  <2>1. \A m \in Nodes : cache'[m].live => cache'[m].gen <= api'[m].gen
    BY <1>15 DEF Restart, Listed, Absent, Node
  <2>2. QED
    BY <1>15, <2>1 DEF Restart, Return
<1>16. ASSUME NEW n \in Nodes, Administer(n) PROVE GraceInv'
  <2>1. \A m \in Nodes : api'[m].gen = api[m].gen
    BY <1>16 DEF Administer, Node
  <2>2. QED
    BY <1>16, <2>1 DEF Administer
<1>17. ASSUME NEW n \in Nodes, Remove(n) PROVE GraceInv'
  <2>1. \A m \in Nodes : api'[m].gen = api[m].gen
    BY <1>17 DEF Remove, Node
  <2>2. QED
    BY <1>17, <2>1 DEF Remove
<1>18. ASSUME NEW n \in Nodes, NEW status \in Statuses, Report(n, status) PROVE GraceInv'
  <2>1. \A m \in Nodes : api'[m].gen = api[m].gen
    BY <1>18 DEF Report, Node
  <2>2. QED
    BY <1>18, <2>1 DEF Report
<1>19. ASSUME NEW n \in Nodes, NEW status \in Statuses, Register(n, status) PROVE GraceInv'
  <2>1. api[n].gen \in 1..MaxGen
    BY DEF Node
  <2>2. \A m \in Nodes : api'[m].gen = IF m = n THEN api[n].gen + 1 ELSE api[m].gen
    BY <1>19 DEF Register, Node
  <2>3. \A m \in Nodes : /\ api[m].gen \in Nat /\ api'[m].gen \in Nat
                         /\ api[m].gen <= api'[m].gen
    BY <2>1, <2>2, BoundAssumption DEF Node
  <2>4. \A m \in Nodes : cache[m].live => cache[m].gen \in Nat
    BY BoundAssumption DEF Node, Absent
  <2>5. pc # "idle" => copy.gen \in Nat /\ Incarnation(key, copy) # <<n, api[n].gen + 1>>
    BY <2>1, BoundAssumption DEF Node
  <2>6. ASSUME NEW i \in terminated PROVE i[2] <= api'[i[1]].gen
    <3>1. i[1] \in Nodes /\ i[2] \in Nat /\ i[2] <= api[i[1]].gen
      BY BoundAssumption
    <3>2. QED
      BY <3>1, <2>3
  <2>7. <<n, api[n].gen + 1>> \notin terminated
    BY <2>1
  <2>8. QED
    BY <1>19, <2>2, <2>3, <2>4, <2>5, <2>6, <2>7 DEF Register
<1>20. ASSUME NEW i \in young, Age(i) PROVE GraceInv'
  BY <1>20 DEF Age
<1>21. CASE UNCHANGED vars
  BY <1>21 DEF vars
<1>22. QED
  BY <1>1, <1>2, <1>3, <1>4, <1>6, <1>7, <1>8, <1>9, <1>10, <1>11, <1>12, <1>13,
     <1>14, <1>15, <1>16, <1>17, <1>18, <1>19, <1>20, <1>21
  DEF Next, Run, Controller, Environment

\* Whatever the watch delivers late, whenever the process restarts and however
\* often a name is registered again, no instance of a node inside its grace
\* period is terminated.
THEOREM GraceCorrect == Spec => []GraceRespected
<1>1. Init => GraceInv
  <2> SUFFICES ASSUME Init PROVE GraceInv
    OBVIOUS
  <2>1. \A n \in Nodes : cache[n] = api[n] /\ api[n].gen = 1
    BY DEF Init, Listed
  <2>2. QED
    BY <2>1 DEF Init, GraceInv, GraceRespected
<1>2. GraceInv => GraceRespected
  BY DEF GraceInv
<1>3. QED
  BY <1>1, <1>2, TypeCorrect, GraceInductive, PTL DEF Spec

-----------------------------------------------------------------------------
(***************************************************************************)
(* The blast radius.  What a step does to the quarantined nodes and to the *)
(* node being worked on takes one of five shapes.                          *)
(***************************************************************************)
Busy == pc \in {"drain", "evict", "reap"}

Selects ==
  /\ ~Busy /\ Busy'
  /\ key' = key /\ key \in Nodes
  /\ \E healthy \in SafetyChecks(key) : healthy
  /\ UNCHANGED <<api, quarantined, terminated>>

Patches ==
  /\ Busy /\ key \in Nodes
  /\ Patch
  /\ Busy' => key' = key
  /\ UNCHANGED terminated

Works ==
  /\ Busy' => Busy /\ key' = key
  /\ Busy => Busy'
  /\ UNCHANGED <<quarantined, terminated>>

Finishes ==
  /\ Busy /\ ~Busy' /\ key \in Nodes
  /\ UNCHANGED <<api, quarantined>>
  /\ UNCHANGED terminated \/ Terminate

GivesBack(n) ==
  /\ quarantined' = quarantined \ {n}
  /\ UNCHANGED <<pc, key, terminated>>

\* Every step is a selection, a patch, the end of the work on a node, a node
\* given back, or leaves the quarantine and the node in hand alone.
LEMMA StepShape ==
  ASSUME TypeOK, [Next]_vars
  PROVE  /\ cfg' = cfg
         /\ Selects \/ Patches \/ Works \/ Finishes \/ \E n \in Nodes : GivesBack(n)
<1>1. cfg' = cfg
  BY DEF Next, vars
<1> DEFINE Shape == Selects \/ Patches \/ Works \/ Finishes \/ \E n \in Nodes : GivesBack(n)
<1> SUFFICES Shape
  BY <1>1
<1>2. Busy => key \in Nodes
  BY DEF TypeOK, Busy
<1>3. pc = "list" => key \in Nodes
  BY DEF TypeOK
<1> USE DEF Busy, cluster, informer, worker, bounds
<1>4. ASSUME NEW n \in Nodes, Process(n) PROVE Works
  BY <1>4 DEF Process, Works
<1>5. CASE ListFails
  BY <1>5 DEF ListFails, Return, Works
<1>6. CASE Assess
  <2>1. PICK healthy \in SafetyChecks(key) : IF healthy THEN Goto("drain") ELSE Return
    BY <1>6 DEF Assess
  <2>2. CASE healthy
    BY <1>3, <1>6, <2>1, <2>2 DEF Assess, Goto, Selects
  <2>3. CASE ~healthy
    BY <1>6, <2>1, <2>3 DEF Assess, Return, Works
  <2>4. QED
    BY <2>2, <2>3
<1>7. CASE DryDrain
  BY <1>7 DEF DryDrain, Goto, Works
<1>8. CASE Cordon
  BY <1>2, <1>8 DEF Cordon, Goto, Works, Patches
<1>9. CASE CordonFails
  <2>1. CASE Patch
    BY <1>2, <1>9, <2>1 DEF CordonFails, DrainFails, Return, Patches
  <2>2. CASE UNCHANGED <<api, quarantined>>
    BY <1>2, <1>9, <2>2 DEF CordonFails, DrainFails, Return, Works, Finishes
  <2>3. QED
    BY <1>9, <2>1, <2>2 DEF CordonFails
<1>10. CASE Evict
  BY <1>10 DEF Evict, Goto, Works
<1>11. CASE EvictFails
  BY <1>2, <1>11 DEF EvictFails, DrainFails, Return, Works, Finishes
<1>12. CASE ReapDeclined
  BY <1>2, <1>12 DEF ReapDeclined, Return, Finishes
<1>13. CASE Reap
  BY <1>2, <1>13 DEF Reap, Return, Finishes
<1>14. CASE ReapFails
  BY <1>2, <1>14 DEF ReapFails, Return, Finishes
<1>15. ASSUME NEW n \in Nodes, Deliver(n) PROVE Works
  BY <1>15 DEF Deliver, Works
<1>16. CASE Resync
  BY <1>16 DEF Resync, Works
<1>17. CASE Restart
  BY <1>2, <1>17 DEF Restart, Return, Works, Finishes
<1>18. ASSUME NEW n \in Nodes, Administer(n) PROVE GivesBack(n)
  BY <1>18 DEF Administer, GivesBack
<1>19. ASSUME NEW n \in Nodes, Remove(n) PROVE GivesBack(n)
  BY <1>19 DEF Remove, GivesBack
<1>20. ASSUME NEW n \in Nodes, NEW status \in Statuses, Report(n, status) PROVE Works
  BY <1>20 DEF Report, Works
<1>21. ASSUME NEW n \in Nodes, NEW status \in Statuses, Register(n, status) PROVE Works
  BY <1>21 DEF Register, Works
<1>22. ASSUME NEW i \in young, Age(i) PROVE Works
  BY <1>22 DEF Age, Works
<1>23. CASE UNCHANGED vars
  BY <1>23 DEF vars, Works
<1>24. QED
  BY <1>4, <1>5, <1>6, <1>7, <1>8, <1>9, <1>10, <1>11, <1>12, <1>13, <1>14, <1>15,
     <1>16, <1>17, <1>18, <1>19, <1>20, <1>21, <1>22, <1>23
  DEF Next, Run, Controller, Environment

\* Quarantined nodes are registered and cordoned, so that the default
\* unhealthyPredicate counts every one of them.
QuarantinedAreCordoned == \A n \in quarantined : api[n].live /\ api[n].cordoned

\* A quarantined node leaves the quarantine when it is uncordoned or deleted.
LEMMA CordonedInductive ==
  ASSUME TypeOK, QuarantinedAreCordoned, [Next]_vars
  PROVE  QuarantinedAreCordoned'
<1> USE DEF QuarantinedAreCordoned, TypeOK, cluster
<1>1. ASSUME key \in Nodes, Patch PROVE QuarantinedAreCordoned'
  BY <1>1 DEF Patch, Node
<1>2. CASE Cordon
  BY <1>1, <1>2 DEF Cordon
<1>3. CASE CordonFails
  BY <1>1, <1>3 DEF CordonFails
<1>4. ASSUME NEW n \in Nodes, Administer(n) \/ Remove(n) PROVE QuarantinedAreCordoned'
  BY <1>4 DEF Administer, Remove, Node
<1>5. ASSUME NEW n \in Nodes, NEW status \in Statuses, Report(n, status)
      PROVE  QuarantinedAreCordoned'
  BY <1>5 DEF Report, Node
<1>6. ASSUME NEW n \in Nodes, NEW status \in Statuses, Register(n, status)
      PROVE  QuarantinedAreCordoned'
  BY <1>6 DEF Register, Node
<1>7. ASSUME UNCHANGED <<api, quarantined>> PROVE QuarantinedAreCordoned'
  BY <1>7
<1>8. ASSUME NEW n \in Nodes, Process(n) \/ Deliver(n) PROVE UNCHANGED <<api, quarantined>>
  BY <1>8 DEF Process, Deliver
<1>9. ASSUME Resync \/ Restart PROVE UNCHANGED <<api, quarantined>>
  BY <1>9 DEF Resync, Restart
<1>10. ASSUME ListFails \/ Assess \/ DryDrain \/ Evict \/ EvictFails \/ ReapDeclined
       PROVE  UNCHANGED <<api, quarantined>>
  BY <1>10 DEF ListFails, Assess, DryDrain, Evict, EvictFails, ReapDeclined
<1>11. ASSUME Reap \/ ReapFails \/ \E i \in young : Age(i) PROVE UNCHANGED <<api, quarantined>>
  BY <1>11 DEF Reap, ReapFails, Age
<1>12. CASE UNCHANGED vars
  BY <1>12 DEF vars
<1>13. QED
  BY <1>2, <1>3, <1>4, <1>5, <1>6, <1>7, <1>8, <1>9, <1>10, <1>11, <1>12
  DEF Next, Run, Controller, Environment

\* A set of nodes keeps a limit when it does so without one of them, and,
\* while one of them is in hand, without that one: this is what makes the blast
\* radius inductive, for the patch may come long after the selection.
WithinBudget(mnu, R) ==
  /\ \E n \in Nodes : WithinLimit(mnu, Cardinality((quarantined \cap R) \ {n}))
  /\ Busy /\ key \in R => WithinLimit(mnu, Cardinality((quarantined \cap R) \ {key}))

\* Taking fewer nodes out keeps a limit.
LEMMA SubsetWithinLimit ==
  ASSUME NEW mnu \in Settings, NEW S, NEW T \in SUBSET Nodes, S \subseteq T,
         WithinLimit(mnu, Cardinality(T))
  PROVE  WithinLimit(mnu, Cardinality(S))
<1>1. IsFiniteSet(T) /\ IsFiniteSet(S) /\ Cardinality(S) <= Cardinality(T)
  BY FS_Subset, NodesAssumption
<1>2. Cardinality(S) \in Nat /\ Cardinality(T) \in Nat
  BY <1>1, FS_CardinalityType
<1>3. QED
  BY <1>1, <1>2, WithinLimitMonotone

\* Every step keeps the budget of a set of nodes when selections in it do.
LEMMA RegionStep ==
  ASSUME TypeOK, [Next]_vars, NEW mnu \in Settings, NEW R \in SUBSET Nodes,
         WithinBudget(mnu, R),
         Selects /\ key \in R => WithinLimit(mnu, Cardinality(quarantined \cap R))
  PROVE  WithinBudget(mnu, R)'
<1> DEFINE Q == quarantined \cap R
<1>1. Q \in SUBSET Nodes
  OBVIOUS
<1>2. CASE Selects
  <2>1. /\ (quarantined \cap R)' = Q
        /\ key' = key
    BY <1>2 DEF Selects
  <2>2. key \in R => WithinLimit(mnu, Cardinality(Q \ {key}))
    BY <1>1, <1>2, SubsetWithinLimit
  <2>3. QED
    BY <2>1, <2>2 DEF WithinBudget
<1>3. CASE Patches
  <2>1. key \in Nodes /\ Busy /\ quarantined' = quarantined \cup {key} /\ (Busy' => key' = key)
    BY <1>3 DEF Patches, Patch
  <2>2. CASE key \in R
    <3>1. (quarantined \cap R)' \ {key} = Q \ {key}
      BY <2>1
    <3>2. WithinLimit(mnu, Cardinality(Q \ {key}))
      BY <2>1, <2>2 DEF WithinBudget
    <3>3. QED
      BY <2>1, <3>1, <3>2 DEF WithinBudget
  <2>3. CASE key \notin R
    <3>1. (quarantined \cap R)' = Q
      BY <2>1, <2>3
    <3>2. QED
      BY <2>1, <2>3, <3>1 DEF WithinBudget
  <2>4. QED
    BY <2>2, <2>3
<1>4. CASE Works
  BY <1>4 DEF Works, WithinBudget
<1>5. CASE Finishes
  BY <1>5 DEF Finishes, WithinBudget
<1>6. ASSUME NEW m \in Nodes, GivesBack(m) PROVE WithinBudget(mnu, R)'
  <2>1. /\ (quarantined \cap R)' = Q \ {m}
        /\ key' = key /\ Busy' = Busy
    BY <1>6 DEF GivesBack, Busy
  <2>2. PICK n \in Nodes : WithinLimit(mnu, Cardinality(Q \ {n}))
    BY DEF WithinBudget
  <2>3. WithinLimit(mnu, Cardinality((Q \ {m}) \ {n}))
    BY <1>1, <2>2, SubsetWithinLimit
  <2>4. Busy /\ key \in R => WithinLimit(mnu, Cardinality((Q \ {m}) \ {key}))
    BY <1>1, SubsetWithinLimit DEF WithinBudget
  <2>5. QED
    BY <2>1, <2>3, <2>4 DEF WithinBudget
<1>7. QED
  BY <1>2, <1>3, <1>4, <1>5, <1>6, StepShape

\* A selection has seen, in the live list, every node that is quarantined.
LEMMA SelectionWithinLimits ==
  ASSUME TypeOK, QuarantinedAreCordoned, QuarantineCounts, Selects
  PROVE  /\ WithinLimit(cfg.maxNodesUnhealthy, Cardinality(quarantined))
         /\ \A zone : key \in InZone(zone) =>
              WithinLimit(cfg.maxNodesUnhealthyInSameZone, Cardinality(quarantined \cap InZone(zone)))
<1>1. /\ cfg.maxNodesUnhealthy \in Settings
      /\ cfg.maxNodesUnhealthyInSameZone \in Settings
  BY ConfigAssumption DEF TypeOK, Config, AcceptedSettings
<1>2. /\ zoneLabel \in DOMAIN LabelsOf[key]
      /\ TRUE \in isClusterHealthy(cfg.maxNodesUnhealthy, "")
      /\ TRUE \in isClusterHealthy(cfg.maxNodesUnhealthyInSameZone, LabelsOf[key][zoneLabel])
  <2>1. ASSUME NEW mnu, NEW zone PROVE isClusterHealthy(mnu, zone) \subseteq BOOLEAN
    <3>1. \A k, t : Verdicts(mnu, k, t) \subseteq BOOLEAN
      BY DEF Verdicts, PercentualHealthy, AbsoluteHealthy
    <3>2. QED
      BY <3>1 DEF isClusterHealthy
  <2>2. TRUE \in SafetyChecks(key)
    BY DEF Selects
  <2>3. QED
    BY <2>1, <2>2 DEF SafetyChecks
<1>3. ASSUME NEW zone PROVE quarantined \cap InZone(zone) \subseteq UnhealthyNodes(zone)
  BY DEF QuarantinedAreCordoned, QuarantineCounts, UnhealthyNodes, Meets, DefaultUnhealthy,
         Live, TypeOK, Node
<1>4. quarantined \subseteq UnhealthyNodes("")
  BY DEF QuarantinedAreCordoned, QuarantineCounts, UnhealthyNodes, Meets, DefaultUnhealthy,
         Live, TypeOK, Node
<1>5. WithinLimit(cfg.maxNodesUnhealthy, Cardinality(quarantined))
  <2>1. /\ UnhealthyNodes("") \in SUBSET Nodes
        /\ WithinLimit(cfg.maxNodesUnhealthy, Cardinality(UnhealthyNodes("")))
    BY <1>1, <1>2, HealthyMeansWithinLimit
  <2>2. QED
    BY <2>1, <1>1, <1>4, SubsetWithinLimit
<1>6. ASSUME NEW zone, key \in InZone(zone)
      PROVE  WithinLimit(cfg.maxNodesUnhealthyInSameZone, Cardinality(quarantined \cap InZone(zone)))
  <2>1. LabelsOf[key][zoneLabel] = zone
    BY <1>2, <1>6 DEF InZone, Param
  <2>2. /\ UnhealthyNodes(zone) \in SUBSET Nodes
        /\ WithinLimit(cfg.maxNodesUnhealthyInSameZone, Cardinality(UnhealthyNodes(zone)))
    BY <1>1, <1>2, <2>1, HealthyMeansWithinLimit
  <2>3. QED
    BY <2>2, <1>1, <1>3, SubsetWithinLimit
<1>7. QED
  BY <1>5, <1>6

-----------------------------------------------------------------------------
BudgetInv ==
  /\ QuarantinedAreCordoned
  /\ QuarantineCounts =>
       /\ \A mnu \in Settings :
            mnu = cfg.maxNodesUnhealthy => WithinBudget(mnu, Nodes)
       /\ \A mnu \in Settings, m \in Nodes :
            mnu = cfg.maxNodesUnhealthyInSameZone /\ zoneLabel \in DOMAIN LabelsOf[m]
              => WithinBudget(mnu, InZone(LabelsOf[m][zoneLabel]))

\* Every step keeps the budget of the cluster and that of each zone.
LEMMA BudgetInductive ==
  ASSUME TypeOK, BudgetInv, [Next]_vars
  PROVE  BudgetInv'
<1>1. QuarantinedAreCordoned'
  BY CordonedInductive DEF BudgetInv
<1>2. cfg' = cfg
  BY StepShape
<1>3. ASSUME NEW mnu \in Settings, QuarantineCounts, mnu = cfg.maxNodesUnhealthy
      PROVE  WithinBudget(mnu, Nodes)'
  <2>1. WithinBudget(mnu, Nodes)
    BY <1>3 DEF BudgetInv
  <2>2. quarantined \cap Nodes = quarantined
    BY DEF TypeOK
  <2>3. Selects => WithinLimit(mnu, Cardinality(quarantined \cap Nodes))
    BY <1>3, <2>2, SelectionWithinLimits DEF BudgetInv
  <2>4. QED
    BY <2>1, <2>3, RegionStep
<1>4. ASSUME NEW mnu \in Settings, NEW m \in Nodes, QuarantineCounts,
             mnu = cfg.maxNodesUnhealthyInSameZone, zoneLabel \in DOMAIN LabelsOf[m]
      PROVE  WithinBudget(mnu, InZone(LabelsOf[m][zoneLabel]))'
  <2> DEFINE R == InZone(LabelsOf[m][zoneLabel])
  <2>1. WithinBudget(mnu, R)
    BY <1>4 DEF BudgetInv
  <2>2. R \in SUBSET Nodes
    BY DEF InZone
  <2>3. Selects /\ key \in R => WithinLimit(mnu, Cardinality(quarantined \cap R))
    BY <1>4, SelectionWithinLimits DEF BudgetInv
  <2> HIDE DEF R
  <2>4. WithinBudget(mnu, R)'
    BY <2>1, <2>2, <2>3, RegionStep
  <2>5. QED
    BY <2>4 DEF R
<1>5. QED
  BY <1>1, <1>2, <1>3, <1>4 DEF BudgetInv, QuarantineCounts

\* At the start nothing is quarantined.
LEMMA BudgetInit == Init => BudgetInv
<1> SUFFICES ASSUME Init PROVE BudgetInv
  OBVIOUS
<1>1. \A S : Cardinality((quarantined \cap S) \ {}) = 0
  BY FS_EmptySet DEF Init
<1>2. ASSUME NEW mnu, NEW S PROVE WithinBudget(mnu, S)
  <2>1. PICK n \in Nodes : TRUE
    BY NodesAssumption
  <2>2. (quarantined \cap S) \ {n} = {} /\ ~Busy
    BY DEF Init, Busy
  <2>3. WithinLimit(mnu, Cardinality((quarantined \cap S) \ {n}))
    BY <2>2, FS_EmptySet DEF WithinLimit
  <2>4. QED
    BY <2>2, <2>3 DEF WithinBudget
<1>3. QED
  BY <1>2 DEF BudgetInv, QuarantinedAreCordoned, Init

\* The reaper's quarantine exceeds maxNodesUnhealthy by at most one node, in
\* any cluster, for absolute and percentual settings alike.
THEOREM BlastRadiusCorrect == Spec => []BlastRadius
<1>1. TypeOK /\ BudgetInv => BlastRadius
  <2> SUFFICES ASSUME TypeOK, BudgetInv, QuarantineCounts
               PROVE  \E n \in Nodes : WithinLimit(cfg.maxNodesUnhealthy, Cardinality(quarantined \ {n}))
    BY DEF BlastRadius
  <2>1. cfg.maxNodesUnhealthy \in Settings
    BY ConfigAssumption DEF TypeOK, Config, AcceptedSettings
  <2>2. quarantined \cap Nodes = quarantined
    BY DEF TypeOK
  <2>3. QED
    BY <2>1, <2>2 DEF BudgetInv, WithinBudget
<1>2. QED
  BY <1>1, BudgetInit, BudgetInductive, TypeCorrect, PTL DEF Spec

\* In each zone it exceeds maxNodesUnhealthyInSameZone by at most one node.
THEOREM ZoneBlastRadiusCorrect == Spec => []ZoneBlastRadius
<1>1. TypeOK /\ BudgetInv => ZoneBlastRadius
  <2> SUFFICES ASSUME TypeOK, BudgetInv PROVE ZoneBlastRadius
    OBVIOUS
  <2>1. cfg.maxNodesUnhealthyInSameZone \in Settings
    BY ConfigAssumption DEF TypeOK, Config, AcceptedSettings
  <2>2. QED
    BY <2>1 DEF BudgetInv, WithinBudget, ZoneBlastRadius
<1>2. QED
  BY <1>1, BudgetInit, BudgetInductive, TypeCorrect, PTL DEF Spec

-----------------------------------------------------------------------------
(***************************************************************************)
(* The reaper implements the disruption budget.                            *)
(***************************************************************************)
InHand == IF pc \in {"drain", "evict", "reap"} THEN key ELSE NoNode
Gone   == {i[1] : i \in terminated}

\* Each step of the reaper is a step of DisruptionBudget or a stutter.
LEMMA BudgetStep ==
  ASSUME TypeOK, BudgetInv, [Next]_vars
  PROVE  [Budget!Next]_(Budget!budgetVars)
<1> USE DEF Budget!Next, Budget!budgetVars
<1>1. Affordable' = Affordable /\ (QuarantineCounts' <=> QuarantineCounts)
  BY StepShape DEF Affordable, QuarantineCounts, WithinLimit
<1>2. NoNode \notin Nodes
  BY NodesAssumption
<1>3. UNCHANGED terminated => Gone' = Gone
  BY DEF Gone
<1>4. CASE Selects
  <2>1. quarantined \in Affordable
    BY <1>4, SelectionWithinLimits DEF Affordable, BudgetInv, TypeOK
  <2>2. InHand = NoNode /\ InHand' = key /\ key \in Nodes /\ Gone' = Gone
    BY <1>3, <1>4 DEF Selects, InHand, Busy
  <2>3. Budget!Pick(key)
    BY <1>1, <1>4, <2>1, <2>2 DEF Budget!Pick, Selects, InHand, Gone
  <2>4. QED
    BY <2>2, <2>3
<1>5. CASE Patches
  <2>1. InHand = key /\ InHand # NoNode /\ InHand' \in {key, NoNode} /\ Gone' = Gone
    BY <1>2, <1>3, <1>5 DEF Patches, InHand, Busy
  <2>2. Budget!Isolate
    BY <1>1, <1>5, <2>1 DEF Budget!Isolate, Patches, Patch, InHand, Gone
  <2>3. QED
    BY <2>2
<1>6. CASE Works
  <2>1. InHand' = InHand /\ Gone' = Gone /\ quarantined' = quarantined
    BY <1>3, <1>6 DEF Works, InHand, Busy
  <2>2. QED
    BY <1>1, <2>1 DEF InHand, Gone
<1>7. CASE Finishes
  <2>1. InHand = key /\ InHand # NoNode /\ InHand' = NoNode
    BY <1>2, <1>7 DEF Finishes, InHand, Busy
  <2>2. Gone' \in {Gone, Gone \cup {key}}
    BY <1>3, <1>7 DEF Finishes, Terminate, Incarnation, Gone
  <2>3. Budget!Finish
    BY <1>1, <1>7, <2>1, <2>2 DEF Budget!Finish, Finishes, InHand, Gone
  <2>4. QED
    BY <2>3
<1>8. ASSUME NEW n \in Nodes, GivesBack(n) PROVE Budget!GiveBack(n)
  <2>1. InHand' = InHand /\ Gone' = Gone
    BY <1>3, <1>8 DEF GivesBack, InHand
  <2>2. QED
    BY <1>1, <1>8, <2>1 DEF Budget!GiveBack, GivesBack, InHand, Gone
<1>9. QED
  BY <1>4, <1>5, <1>6, <1>7, <1>8, StepShape

\* However it caches, retries and restarts, the reaper only ever isolates or
\* terminates a node picked while the quarantine was affordable, one at a time.
THEOREM ReaperKeepsBudget == Spec => KeepsBudget
<1>1. Init => Budget!Init
  BY DEF Init, Budget!Init, Affordable
<1>2. QED
  BY <1>1, BudgetStep, BudgetInit, BudgetInductive, TypeCorrect, PTL
  DEF Spec, KeepsBudget, Budget!Spec

\* What the reaper can afford it can afford with fewer nodes out: the hypothesis
\* of OneMoreThanAffordable in DisruptionBudgetProofs.
LEMMA AffordableDownwardClosed ==
  ASSUME TypeOK
  PROVE  \A S \in Affordable : SUBSET S \subseteq Affordable
<1> SUFFICES ASSUME NEW S \in Affordable, NEW T \in SUBSET S, QuarantineCounts
             PROVE  WithinLimit(cfg.maxNodesUnhealthy, Cardinality(T))
  BY DEF Affordable
<1>1. S \in SUBSET Nodes /\ WithinLimit(cfg.maxNodesUnhealthy, Cardinality(S))
  BY DEF Affordable
<1>2. IsFiniteSet(S) /\ IsFiniteSet(T)
  BY <1>1, FS_Subset, NodesAssumption
<1>3. Cardinality(T) <= Cardinality(S) /\ Cardinality(S) \in Nat /\ Cardinality(T) \in Nat
  BY <1>2, FS_Subset, FS_CardinalityType
<1>4. cfg.maxNodesUnhealthy \in Settings
  BY ConfigAssumption DEF TypeOK, Config, AcceptedSettings
<1> QED
  BY <1>1, <1>3, <1>4, WithinLimitMonotone

-----------------------------------------------------------------------------
(***************************************************************************)
(* The order of cordon and eviction.                                       *)
(***************************************************************************)

\* The copy of a default candidate is uncordoned, so the patch is never skipped.
CopyUncordoned == cfg.reapPredicate = "defaultReap" /\ pc # "idle" => copy.cordoned = FALSE

\* A copy in hand does not change while the worker has it.
LEMMA CopyUncordonedInductive ==
  ASSUME TypeOK, CopyUncordoned, [Next]_vars
  PROVE  CopyUncordoned'
<1> USE DEF CopyUncordoned, TypeOK, cluster, informer, worker, bounds
<1>1. cfg' = cfg
  BY StepShape
<1>2. ASSUME NEW n \in Nodes, Process(n) PROVE CopyUncordoned'
  BY <1>1, <1>2 DEF Process, IsReapable, Meets, DefaultReap
<1>3. ASSUME UNCHANGED worker PROVE CopyUncordoned'
  BY <1>1, <1>3
<1>4. CASE ListFails \/ Assess \/ ReapDeclined \/ Reap \/ ReapFails \/ Restart
  BY <1>1, <1>4 DEF ListFails, Assess, ReapDeclined, Reap, ReapFails, Restart, Goto, Return
<1>5. CASE DryDrain \/ Cordon \/ CordonFails \/ Evict \/ EvictFails
  BY <1>1, <1>5 DEF DryDrain, Cordon, CordonFails, Evict, EvictFails, DrainFails, Goto, Return
<1>6. CASE Resync \/ \E n \in Nodes : Deliver(n) \/ Administer(n) \/ Remove(n)
  BY <1>3, <1>6 DEF Resync, Deliver, Administer, Remove
<1>7. CASE \E n \in Nodes, status \in Statuses : Report(n, status) \/ Register(n, status)
  BY <1>3, <1>7 DEF Report, Register
<1>8. CASE \E i \in young : Age(i)
  BY <1>3, <1>8 DEF Age
<1>9. CASE UNCHANGED vars
  BY <1>3, <1>9 DEF vars
<1>10. QED
  BY <1>2, <1>4, <1>5, <1>6, <1>7, <1>8, <1>9 DEF Next, Run, Controller, Environment

\* Such a copy never skips the patch.
LEMMA CordonStep ==
  ASSUME TypeOK, CopyUncordoned, [Next]_vars, cfg.reapPredicate = "defaultReap",
         pc = "drain", pc' = "evict"
  PROVE  api'[key].cordoned
<1>1. CASE Cordon
  BY <1>1 DEF Cordon, Patch, CopyUncordoned, TypeOK, Node
<1>2. CASE DryDrain \/ CordonFails \/ Restart
  BY <1>2 DEF DryDrain, CordonFails, DrainFails, Restart, Goto, Return
<1>3. ASSUME Next, ~Cordon, ~(DryDrain \/ CordonFails \/ Restart) PROVE FALSE
  BY <1>3 DEF Next, Run, Controller, Environment, ListFails, Assess, Evict, EvictFails,
     ReapDeclined, Reap, ReapFails, Process, Deliver, Resync, Administer, Remove, Report,
     Register, Age, worker
<1>4. CASE UNCHANGED vars
  BY <1>4 DEF vars, worker
<1>5. QED
  BY <1>1, <1>2, <1>3, <1>4

\* With the default reapPredicate no pod is evicted before its node is cordoned,
\* however stale the copy and whatever became of the first attempt.
THEOREM CordonsFirstCorrect == Spec => DefaultCordonsFirst
<1>1. Init => CopyUncordoned
  BY DEF Init, CopyUncordoned
<1>2. TypeOK /\ CopyUncordoned /\ [Next]_vars =>
        [cfg.reapPredicate = "defaultReap" /\ pc = "drain" /\ pc' = "evict"
           => api'[key].cordoned]_vars
  BY CordonStep
<1>3. QED
  BY <1>1, <1>2, CopyUncordonedInductive, TypeCorrect, PTL DEF Spec, DefaultCordonsFirst
=============================================================================
