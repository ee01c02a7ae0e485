---------------------------- MODULE ReplicasProofs ----------------------------
(***************************************************************************)
(* Theorems of ReaperReplicas, for every cluster: what the lemmas about    *)
(* one process say of each of the two, and what the two do together.       *)
(***************************************************************************)
EXTENDS ReaperReplicas, FiniteSetTheorems, TLAPS

OldP == INSTANCE NodeReaperProofs
          WITH cache <- cacheA, queue <- queueA, pc <- pcA,
               key <- keyA, copy <- copyA, attempt <- attemptA
NewP == INSTANCE NodeReaperProofs
          WITH cache <- cacheB, queue <- queueB, pc <- pcB,
               key <- keyB, copy <- copyB, attempt <- attemptB

-----------------------------------------------------------------------------
(***************************************************************************)
(* The definitions of the two processes are those the lemmas are about.    *)
(***************************************************************************)
\* The same text, with the variables of the old process.
LEMMA OldSame ==
  /\ Old!Init <=> OldP!Init
  /\ Old!Run \/ Old!Controller <=> OldP!Run \/ OldP!Controller
  /\ Old!Environment <=> OldP!Environment
  /\ Old!TypeOK <=> OldP!TypeOK
  /\ Old!QuarantineCounts <=> OldP!QuarantineCounts
  /\ \A mnu, k : Old!WithinLimit(mnu, k) <=> OldP!WithinLimit(mnu, k)
  BY DEF Old!Init, OldP!Init, Old!Run, OldP!Run, Old!Controller, OldP!Controller,
         Old!Environment, OldP!Environment, Old!TypeOK, OldP!TypeOK, Old!QuarantineCounts,
         OldP!QuarantineCounts, Old!WithinLimit, OldP!WithinLimit, Old!ListFails,
         OldP!ListFails, Old!Assess, OldP!Assess, Old!DryDrain, OldP!DryDrain, Old!Cordon,
         OldP!Cordon, Old!CordonFails, OldP!CordonFails, Old!Evict, OldP!Evict,
         Old!EvictFails, OldP!EvictFails, Old!ReapDeclined, OldP!ReapDeclined, Old!Reap,
         OldP!Reap, Old!ReapFails, OldP!ReapFails, Old!Process, OldP!Process, Old!Deliver,
         OldP!Deliver, Old!Resync, OldP!Resync, Old!Restart, OldP!Restart, Old!Administer,
         OldP!Administer, Old!Remove, OldP!Remove, Old!Report, OldP!Report, Old!Register,
         OldP!Register, Old!Age, OldP!Age, Old!Change, OldP!Change, Old!SafetyChecks,
         OldP!SafetyChecks, Old!isClusterHealthy, OldP!isClusterHealthy, Old!CountFails,
         OldP!CountFails, Old!UnhealthyNodes, OldP!UnhealthyNodes, Old!Live, OldP!Live,
         Old!InZone, OldP!InZone, Old!zoneLabel, OldP!zoneLabel, Old!HasCalculator,
         OldP!HasCalculator, Old!TypeOf, OldP!TypeOf, Old!UintFails, OldP!UintFails,
         Old!Verdicts, OldP!Verdicts, Old!UnhealthyPercents, OldP!UnhealthyPercents,
         Old!CeilDiv, OldP!CeilDiv, Old!PercentualHealthy, OldP!PercentualHealthy,
         Old!AbsoluteHealthy, OldP!AbsoluteHealthy, Old!Meets, OldP!Meets, Old!DefaultReap,
         OldP!DefaultReap, Old!DefaultUnhealthy, OldP!DefaultUnhealthy, Old!Param,
         OldP!Param, Old!Nil, OldP!Nil, Old!EvalFails, OldP!EvalFails, Old!Parses,
         OldP!Parses, Old!IsReapable, OldP!IsReapable, Old!isNodeCreating,
         OldP!isNodeCreating, Old!Incarnation, OldP!Incarnation, Old!Listed, OldP!Listed,
         Old!Goto, OldP!Goto, Old!Return, OldP!Return, Old!DrainFails, OldP!DrainFails,
         Old!Patch, OldP!Patch, Old!SkipReaping, OldP!SkipReaping, Old!CanReap,
         OldP!CanReap, Old!Terminate, OldP!Terminate, Old!Node, OldP!Node, Old!Absent,
         OldP!Absent, Old!WorkerStates, OldP!WorkerStates, Old!cluster, OldP!cluster,
         Old!informer, OldP!informer, Old!worker, OldP!worker, Old!bounds, OldP!bounds,
         Old!Cardinality, OldP!Cardinality, Old!IsFiniteSet, OldP!IsFiniteSet

\* And with those of the new one.
LEMMA NewSame ==
  /\ New!Init <=> NewP!Init
  /\ New!Run \/ New!Controller <=> NewP!Run \/ NewP!Controller
  /\ New!Environment <=> NewP!Environment
  /\ New!TypeOK <=> NewP!TypeOK
  /\ New!QuarantineCounts <=> NewP!QuarantineCounts
  /\ \A mnu, k : New!WithinLimit(mnu, k) <=> NewP!WithinLimit(mnu, k)
  BY DEF New!Init, NewP!Init, New!Run, NewP!Run, New!Controller, NewP!Controller,
         New!Environment, NewP!Environment, New!TypeOK, NewP!TypeOK, New!QuarantineCounts,
         NewP!QuarantineCounts, New!WithinLimit, NewP!WithinLimit, New!ListFails,
         NewP!ListFails, New!Assess, NewP!Assess, New!DryDrain, NewP!DryDrain, New!Cordon,
         NewP!Cordon, New!CordonFails, NewP!CordonFails, New!Evict, NewP!Evict,
         New!EvictFails, NewP!EvictFails, New!ReapDeclined, NewP!ReapDeclined, New!Reap,
         NewP!Reap, New!ReapFails, NewP!ReapFails, New!Process, NewP!Process, New!Deliver,
         NewP!Deliver, New!Resync, NewP!Resync, New!Restart, NewP!Restart, New!Administer,
         NewP!Administer, New!Remove, NewP!Remove, New!Report, NewP!Report, New!Register,
         NewP!Register, New!Age, NewP!Age, New!Change, NewP!Change, New!SafetyChecks,
         NewP!SafetyChecks, New!isClusterHealthy, NewP!isClusterHealthy, New!CountFails,
         NewP!CountFails, New!UnhealthyNodes, NewP!UnhealthyNodes, New!Live, NewP!Live,
         New!InZone, NewP!InZone, New!zoneLabel, NewP!zoneLabel, New!HasCalculator,
         NewP!HasCalculator, New!TypeOf, NewP!TypeOf, New!UintFails, NewP!UintFails,
         New!Verdicts, NewP!Verdicts, New!UnhealthyPercents, NewP!UnhealthyPercents,
         New!CeilDiv, NewP!CeilDiv, New!PercentualHealthy, NewP!PercentualHealthy,
         New!AbsoluteHealthy, NewP!AbsoluteHealthy, New!Meets, NewP!Meets, New!DefaultReap,
         NewP!DefaultReap, New!DefaultUnhealthy, NewP!DefaultUnhealthy, New!Param,
         NewP!Param, New!Nil, NewP!Nil, New!EvalFails, NewP!EvalFails, New!Parses,
         NewP!Parses, New!IsReapable, NewP!IsReapable, New!isNodeCreating,
         NewP!isNodeCreating, New!Incarnation, NewP!Incarnation, New!Listed, NewP!Listed,
         New!Goto, NewP!Goto, New!Return, NewP!Return, New!DrainFails, NewP!DrainFails,
         New!Patch, NewP!Patch, New!SkipReaping, NewP!SkipReaping, New!CanReap,
         NewP!CanReap, New!Terminate, NewP!Terminate, New!Node, NewP!Node, New!Absent,
         NewP!Absent, New!WorkerStates, NewP!WorkerStates, New!cluster, NewP!cluster,
         New!informer, NewP!informer, New!worker, NewP!worker, New!bounds, NewP!bounds,
         New!Cardinality, NewP!Cardinality, New!IsFiniteSet, NewP!IsFiniteSet

\* Cardinality is the same operator, wherever it comes from.
LEMMA SameCardinality ==
  ASSUME NEW S
  PROVE  OldP!Cardinality(S) = Cardinality(S) /\ NewP!Cardinality(S) = Cardinality(S)
  BY DEF IsFiniteSet, OldP!IsFiniteSet, NewP!IsFiniteSet,
         Cardinality, OldP!Cardinality, NewP!Cardinality

\* The assumptions of NodeReaper are those of this module.
LEMMA Assumptions ==
  /\ OldP!IsFiniteSet(Nodes) /\ NewP!IsFiniteSet(Nodes)
  /\ Configs \subseteq OldP!Config /\ Configs \subseteq NewP!Config
<1>1. OldP!IsFiniteSet(Nodes)
  BY NodesAssumption DEF IsFiniteSet, OldP!IsFiniteSet
<1>2. NewP!IsFiniteSet(Nodes)
  BY NodesAssumption DEF IsFiniteSet, NewP!IsFiniteSet
<1>3. Configs \subseteq OldP!Config
  BY ConfigAssumption DEF Old!Config, OldP!Config, Old!AcceptedSettings, OldP!AcceptedSettings,
     Old!Settings, OldP!Settings, Old!TypeOf, OldP!TypeOf, Old!UintFails, OldP!UintFails,
     Old!Expressions, OldP!Expressions
<1>4. Configs \subseteq NewP!Config
  BY ConfigAssumption DEF Old!Config, NewP!Config, Old!AcceptedSettings, NewP!AcceptedSettings,
     Old!Settings, NewP!Settings, Old!TypeOf, NewP!TypeOf, Old!UintFails, NewP!UintFails,
     Old!Expressions, NewP!Expressions
<1> QED
  BY <1>1, <1>2, <1>3, <1>4

-----------------------------------------------------------------------------
(***************************************************************************)
(* A step of the system is one of a process, or of the cluster, that       *)
(* leaves the other process alone.                                         *)
(***************************************************************************)
LEMMA WhoSteps ==
  ASSUME [Next]_vars
  PROVE  \/ [OldP!Next]_(OldP!vars) /\ UNCHANGED processB
         \/ [NewP!Next]_(NewP!vars) /\ UNCHANGED processA
<1>1. CASE OldSteps /\ UNCHANGED cfg
  BY <1>1, OldSame DEF OldSteps, OldP!Next
<1>2. CASE NewSteps /\ UNCHANGED cfg
  BY <1>2, NewSame DEF NewSteps, NewP!Next
<1>3. CASE ClusterSteps /\ UNCHANGED cfg
  BY <1>3, OldSame DEF ClusterSteps, OldP!Next
<1>4. CASE UNCHANGED vars
  BY <1>4 DEF vars, processA, processB, OldP!vars, OldP!cluster, OldP!informer, OldP!worker,
     OldP!bounds
<1> QED
  BY <1>1, <1>2, <1>3, <1>4 DEF Next

-----------------------------------------------------------------------------
(***************************************************************************)
(* Types.                                                                  *)
(***************************************************************************)
BothTypes == OldP!TypeOK /\ NewP!TypeOK

\* No step of either process takes a variable of the two out of its range.
LEMMA BothTypesInductive == BothTypes /\ [Next]_vars => BothTypes'
<1> SUFFICES ASSUME BothTypes, [Next]_vars PROVE BothTypes'
  OBVIOUS
<1> USE DEF BothTypes
<1>1. CASE [OldP!Next]_(OldP!vars) /\ UNCHANGED processB
  <2>1. OldP!TypeOK'
    BY <1>1, OldP!TypeInductive, Assumptions, NodesAssumption, BoundAssumption, MaxUintAssumption
  <2>2. NewP!TypeOK'
    BY <1>1, <2>1 DEF processB, OldP!TypeOK, NewP!TypeOK, OldP!Node, NewP!Node, OldP!Absent,
       NewP!Absent
  <2> QED
    BY <2>1, <2>2
<1>2. CASE [NewP!Next]_(NewP!vars) /\ UNCHANGED processA
  <2>1. NewP!TypeOK'
    BY <1>2, NewP!TypeInductive, Assumptions, NodesAssumption, BoundAssumption, MaxUintAssumption
  <2>2. OldP!TypeOK'
    BY <1>2, <2>1 DEF processA, OldP!TypeOK, NewP!TypeOK, OldP!Node, NewP!Node, OldP!Absent,
       NewP!Absent
  <2> QED
    BY <2>1, <2>2
<1> QED
  BY <1>1, <1>2, WhoSteps

\* And they start in range.
LEMMA BothTypesInit == Init => BothTypes
  BY OldSame, NewSame, OldP!TypeInit, NewP!TypeInit, Assumptions, NodesAssumption,
     BoundAssumption, MaxUintAssumption DEF Init, BothTypes

\* Both processes keep their ranges, whatever the other one does to the cluster.
THEOREM ReplicasTypes == Spec => []TypeOK
<1>1. BothTypes => TypeOK
  BY OldSame, NewSame DEF BothTypes, TypeOK
<1> QED
  BY <1>1, BothTypesInit, BothTypesInductive, PTL DEF Spec

-----------------------------------------------------------------------------
(***************************************************************************)
(* The budget of two.  While a process is past its checks, its candidate   *)
(* is one of the two nodes that may exceed the limit.                      *)
(***************************************************************************)
Within(mnu, S) == Old!WithinLimit(mnu, Cardinality(S))

\* For any two processes, each busy or not with a key.
WithinTwo(mnu, S, busy1, key1, busy2, key2) ==
  \E m, n \in Nodes :
    /\ Within(mnu, S \ {m, n})
    /\ busy1 => m = key1
    /\ busy2 => n = key2

\* What a step of one process does to the quarantined nodes and to its own
\* candidate: it selects one, takes it out, goes on or ends, or a node is
\* given back.
Shape(mnu, S, S2, busy, key, busy2, key2) ==
  \/ ~busy /\ busy2 /\ key2 \in Nodes /\ S2 = S /\ Within(mnu, S)
  \/ busy /\ S2 = S \cup {key} /\ (busy2 => key2 = key)
  \/ S2 = S /\ (busy2 => busy /\ key2 = key)
  \/ \E x : S2 = S \ {x} /\ (busy2 => busy /\ key2 = key)

\* Fewer nodes keep a limit that more nodes keep.
LEMMA FewerWithin ==
  ASSUME NEW mnu \in OldP!Settings, NEW S, NEW T \in SUBSET Nodes, S \subseteq T, Within(mnu, T)
  PROVE  Within(mnu, S)
<1>1. OldP!WithinLimit(mnu, Cardinality(T)) /\ OldP!Cardinality(T) = Cardinality(T)
      /\ OldP!Cardinality(S) = Cardinality(S)
  BY OldSame, SameCardinality DEF Within
<1>2. OldP!WithinLimit(mnu, OldP!Cardinality(S))
  BY <1>1, OldP!SubsetWithinLimit, Assumptions, NodesAssumption, BoundAssumption,
     MaxUintAssumption
<1> QED
  BY <1>1, <1>2, OldSame DEF Within

\* It does not matter which process is named first.
LEMMA WithinTwoSymmetric ==
  ASSUME NEW mnu, NEW S, NEW b1, NEW k1, NEW b2, NEW k2, WithinTwo(mnu, S, b1, k1, b2, k2)
  PROVE  WithinTwo(mnu, S, b2, k2, b1, k1)
<1>1. PICK m \in Nodes, n \in Nodes :
        Within(mnu, S \ {m, n}) /\ (b1 => m = k1) /\ (b2 => n = k2)
  BY DEF WithinTwo
<1>2. S \ {n, m} = S \ {m, n}
  OBVIOUS
<1> QED
  BY <1>1, <1>2 DEF WithinTwo

\* A step of one process keeps the budget, whatever the other one holds.
LEMMA ShapeKeepsBudget ==
  ASSUME NEW mnu \in OldP!Settings, NEW S \in SUBSET Nodes, NEW S2,
         NEW busy, NEW k, NEW busy2, NEW k2, NEW b, NEW j,
         Shape(mnu, S, S2, busy, k, busy2, k2),
         WithinTwo(mnu, S, busy, k, b, j)
  PROVE  WithinTwo(mnu, S2, busy2, k2, b, j)
<1>1. PICK m \in Nodes, n \in Nodes :
        Within(mnu, S \ {m, n}) /\ (busy => m = k) /\ (b => n = j)
  BY DEF WithinTwo
<1>2. CASE ~busy /\ busy2 /\ k2 \in Nodes /\ S2 = S /\ Within(mnu, S)
  <2>1. Within(mnu, S2 \ {k2, n})
    BY <1>2, FewerWithin
  <2> QED
    BY <1>1, <1>2, <2>1 DEF WithinTwo
<1>3. CASE busy /\ S2 = S \cup {k} /\ (busy2 => k2 = k)
  <2>1. m = k /\ S2 \ {m, n} = S \ {m, n}
    BY <1>1, <1>3
  <2> QED
    BY <1>1, <1>3, <2>1 DEF WithinTwo
<1>4. CASE S2 = S /\ (busy2 => busy /\ k2 = k)
  BY <1>1, <1>4 DEF WithinTwo
<1>5. CASE \E x : S2 = S \ {x} /\ (busy2 => busy /\ k2 = k)
  <2>1. S2 \ {m, n} \subseteq S \ {m, n} /\ S \ {m, n} \in SUBSET Nodes /\ (busy2 => busy /\ k2 = k)
    BY <1>5
  <2>2. Within(mnu, S2 \ {m, n})
    BY <1>1, <2>1, FewerWithin
  <2> QED
    BY <1>1, <2>1, <2>2 DEF WithinTwo
<1> QED
  BY <1>2, <1>3, <1>4, <1>5 DEF Shape

\* The nodes of a region count against a limit, and each process may have one
\* of them in hand.
RegionWithinTwo(mnu, R) ==
  WithinTwo(mnu, quarantined \cap R, OldP!Busy /\ keyA \in R, keyA, NewP!Busy /\ keyB \in R, keyB)

\* Each zone keeps its own setting, up to a candidate of each process.
SharedZoneBlastRadius ==
  Old!QuarantineCounts =>
    \A l \in Nodes :
      Old!zoneLabel \in DOMAIN LabelsOf[l] =>
        \E m, n \in Nodes :
          Old!WithinLimit(cfg.maxNodesUnhealthyInSameZone,
            Cardinality((quarantined \cap Old!InZone(LabelsOf[l][Old!zoneLabel])) \ {m, n}))

\* The invariant.
SharedInv ==
  /\ OldP!QuarantinedAreCordoned
  /\ OldP!QuarantineCounts =>
       /\ RegionWithinTwo(cfg.maxNodesUnhealthy, Nodes)
       /\ \A l \in Nodes :
            OldP!zoneLabel \in DOMAIN LabelsOf[l] =>
              RegionWithinTwo(cfg.maxNodesUnhealthyInSameZone,
                              OldP!InZone(LabelsOf[l][OldP!zoneLabel]))

\* The limits of a configuration are ones that main accepted.
LEMMA LimitTypes ==
  ASSUME BothTypes
  PROVE  /\ cfg.maxNodesUnhealthy \in OldP!Settings
         /\ cfg.maxNodesUnhealthyInSameZone \in OldP!Settings
  BY Assumptions DEF BothTypes, OldP!TypeOK, OldP!Config, OldP!AcceptedSettings

\* What the two processes say of the configuration, the limits and the zones is
\* the same.
LEMMA SameLimits ==
  /\ OldP!QuarantineCounts <=> NewP!QuarantineCounts
  /\ OldP!Settings = NewP!Settings
  /\ OldP!zoneLabel = NewP!zoneLabel
  /\ \A zone : OldP!InZone(zone) = NewP!InZone(zone)
  /\ \A mnu, k : OldP!WithinLimit(mnu, k) <=> NewP!WithinLimit(mnu, k)
  /\ OldP!QuarantinedAreCordoned <=> NewP!QuarantinedAreCordoned
<1>1. OldP!Cardinality(Nodes) = NewP!Cardinality(Nodes)
  BY SameCardinality
<1> QED
  BY <1>1 DEF OldP!QuarantineCounts, NewP!QuarantineCounts, OldP!Settings, NewP!Settings,
     OldP!zoneLabel, NewP!zoneLabel, OldP!InZone, NewP!InZone, OldP!Param, NewP!Param,
     OldP!WithinLimit, NewP!WithinLimit, OldP!QuarantinedAreCordoned,
     NewP!QuarantinedAreCordoned, OldP!Nil, NewP!Nil

\* A process selects its candidate when the cluster and the candidate's zone
\* are within their limits, whoever took the nodes out.
LEMMA OldSelects ==
  ASSUME BothTypes, SharedInv, OldP!QuarantineCounts, OldP!Selects
  PROVE  /\ Within(cfg.maxNodesUnhealthy, quarantined)
         /\ \A zone : keyA \in OldP!InZone(zone) =>
              Within(cfg.maxNodesUnhealthyInSameZone, quarantined \cap OldP!InZone(zone))
<1>1. /\ OldP!WithinLimit(cfg.maxNodesUnhealthy, OldP!Cardinality(quarantined))
      /\ \A zone : keyA \in OldP!InZone(zone) =>
           OldP!WithinLimit(cfg.maxNodesUnhealthyInSameZone,
                            OldP!Cardinality(quarantined \cap OldP!InZone(zone)))
  BY OldP!SelectionWithinLimits, Assumptions, NodesAssumption, BoundAssumption,
     MaxUintAssumption DEF BothTypes, SharedInv
<1>2. Within(cfg.maxNodesUnhealthy, quarantined)
  BY <1>1, OldSame, SameCardinality DEF Within
<1>3. ASSUME NEW zone, keyA \in OldP!InZone(zone)
      PROVE  Within(cfg.maxNodesUnhealthyInSameZone, quarantined \cap OldP!InZone(zone))
  BY <1>1, <1>3, OldSame, SameCardinality DEF Within
<1> QED
  BY <1>2, <1>3

\* The same of the new process.
LEMMA NewSelects ==
  ASSUME BothTypes, SharedInv, OldP!QuarantineCounts, NewP!Selects
  PROVE  /\ Within(cfg.maxNodesUnhealthy, quarantined)
         /\ \A zone : keyB \in OldP!InZone(zone) =>
              Within(cfg.maxNodesUnhealthyInSameZone, quarantined \cap OldP!InZone(zone))
<1>1. /\ NewP!WithinLimit(cfg.maxNodesUnhealthy, NewP!Cardinality(quarantined))
      /\ \A zone : keyB \in NewP!InZone(zone) =>
           NewP!WithinLimit(cfg.maxNodesUnhealthyInSameZone,
                            NewP!Cardinality(quarantined \cap NewP!InZone(zone)))
  BY NewP!SelectionWithinLimits, SameLimits, Assumptions, NodesAssumption, BoundAssumption,
     MaxUintAssumption DEF BothTypes, SharedInv
<1>2. Within(cfg.maxNodesUnhealthy, quarantined)
  BY <1>1, OldSame, SameLimits, SameCardinality DEF Within
<1>3. ASSUME NEW zone, keyB \in OldP!InZone(zone)
      PROVE  Within(cfg.maxNodesUnhealthyInSameZone, quarantined \cap OldP!InZone(zone))
  BY <1>1, <1>3, OldSame, SameLimits, SameCardinality DEF Within
<1> QED
  BY <1>2, <1>3

\* What a step of the old process does in a region.
LEMMA OldShape ==
  ASSUME BothTypes, [OldP!Next]_(OldP!vars), NEW mnu, NEW R \in SUBSET Nodes,
         OldP!Selects /\ keyA \in R => Within(mnu, quarantined \cap R)
  PROVE  Shape(mnu, quarantined \cap R, (quarantined \cap R)',
               OldP!Busy /\ keyA \in R, keyA, (OldP!Busy /\ keyA \in R)', keyA')
<1>1. \/ OldP!Selects \/ OldP!Patches \/ OldP!Works \/ OldP!Finishes
      \/ \E n \in Nodes : OldP!GivesBack(n)
  BY OldP!StepShape, Assumptions, NodesAssumption, BoundAssumption, MaxUintAssumption
     DEF BothTypes
<1>2. CASE OldP!Selects
  BY <1>2 DEF OldP!Selects, Shape
<1>3. CASE OldP!Patches
  BY <1>3 DEF OldP!Patches, OldP!Patch, Shape
<1>4. CASE OldP!Works
  BY <1>4 DEF OldP!Works, Shape
<1>5. CASE OldP!Finishes
  BY <1>5 DEF OldP!Finishes, Shape
<1>6. ASSUME NEW n \in Nodes, OldP!GivesBack(n)
      PROVE  Shape(mnu, quarantined \cap R, (quarantined \cap R)',
                   OldP!Busy /\ keyA \in R, keyA, (OldP!Busy /\ keyA \in R)', keyA')
  <2>1. (quarantined \cap R)' = (quarantined \cap R) \ {n} /\ keyA' = keyA
        /\ (OldP!Busy' <=> OldP!Busy)
    BY <1>6 DEF OldP!GivesBack, OldP!Busy
  <2> QED
    BY <2>1 DEF Shape
<1> QED
  BY <1>1, <1>2, <1>3, <1>4, <1>5, <1>6

\* And what one of the new process does.
LEMMA NewShape ==
  ASSUME BothTypes, [NewP!Next]_(NewP!vars), NEW mnu, NEW R \in SUBSET Nodes,
         NewP!Selects /\ keyB \in R => Within(mnu, quarantined \cap R)
  PROVE  Shape(mnu, quarantined \cap R, (quarantined \cap R)',
               NewP!Busy /\ keyB \in R, keyB, (NewP!Busy /\ keyB \in R)', keyB')
<1>1. \/ NewP!Selects \/ NewP!Patches \/ NewP!Works \/ NewP!Finishes
      \/ \E n \in Nodes : NewP!GivesBack(n)
  BY NewP!StepShape, Assumptions, NodesAssumption, BoundAssumption, MaxUintAssumption
     DEF BothTypes
<1>2. CASE NewP!Selects
  BY <1>2 DEF NewP!Selects, Shape
<1>3. CASE NewP!Patches
  BY <1>3 DEF NewP!Patches, NewP!Patch, Shape
<1>4. CASE NewP!Works
  BY <1>4 DEF NewP!Works, Shape
<1>5. CASE NewP!Finishes
  BY <1>5 DEF NewP!Finishes, Shape
<1>6. ASSUME NEW n \in Nodes, NewP!GivesBack(n)
      PROVE  Shape(mnu, quarantined \cap R, (quarantined \cap R)',
                   NewP!Busy /\ keyB \in R, keyB, (NewP!Busy /\ keyB \in R)', keyB')
  <2>1. (quarantined \cap R)' = (quarantined \cap R) \ {n} /\ keyB' = keyB
        /\ (NewP!Busy' <=> NewP!Busy)
    BY <1>6 DEF NewP!GivesBack, NewP!Busy
  <2> QED
    BY <2>1 DEF Shape
<1> QED
  BY <1>1, <1>2, <1>3, <1>4, <1>5, <1>6

\* A step of either keeps the budget of a region in which it selects within the
\* limit.
LEMMA RegionShared ==
  ASSUME BothTypes, NEW mnu \in OldP!Settings, NEW R \in SUBSET Nodes,
         RegionWithinTwo(mnu, R),
         \/ /\ [OldP!Next]_(OldP!vars) /\ UNCHANGED processB
            /\ OldP!Selects /\ keyA \in R => Within(mnu, quarantined \cap R)
         \/ /\ [NewP!Next]_(NewP!vars) /\ UNCHANGED processA
            /\ NewP!Selects /\ keyB \in R => Within(mnu, quarantined \cap R)
  PROVE  WithinTwo(mnu, (quarantined \cap R)', (OldP!Busy /\ keyA \in R)', keyA',
                   (NewP!Busy /\ keyB \in R)', keyB')
<1> DEFINE Q == quarantined \cap R
           a == OldP!Busy /\ keyA \in R
           b == NewP!Busy /\ keyB \in R
<1>1. Q \in SUBSET Nodes /\ WithinTwo(mnu, Q, a, keyA, b, keyB)
  BY DEF RegionWithinTwo
<1>2. CASE /\ [OldP!Next]_(OldP!vars) /\ UNCHANGED processB
           /\ OldP!Selects /\ keyA \in R => Within(mnu, Q)
  <2>1. Shape(mnu, Q, Q', a, keyA, a', keyA')
    BY <1>2, OldShape
  <2>2. keyB' = keyB /\ (b' <=> b)
    BY <1>2 DEF processB, NewP!Busy
  <2> HIDE DEF Q, a, b
  <2>3. WithinTwo(mnu, Q', a', keyA', b, keyB)
    BY <1>1, <2>1, ShapeKeepsBudget
  <2>4. WithinTwo(mnu, Q', a', keyA', b', keyB')
    BY <2>2, <2>3 DEF WithinTwo
  <2> QED
    BY <2>4 DEF Q, a, b
<1>3. CASE /\ [NewP!Next]_(NewP!vars) /\ UNCHANGED processA
           /\ NewP!Selects /\ keyB \in R => Within(mnu, Q)
  <2>1. Shape(mnu, Q, Q', b, keyB, b', keyB')
    BY <1>3, NewShape
  <2>2. keyA' = keyA /\ (a' <=> a)
    BY <1>3 DEF processA, OldP!Busy
  <2> HIDE DEF Q, a, b
  <2>3. WithinTwo(mnu, Q, b, keyB, a, keyA)
    BY <1>1, WithinTwoSymmetric
  <2>4. WithinTwo(mnu, Q', b', keyB', a, keyA)
    BY <1>1, <2>1, <2>3, ShapeKeepsBudget
  <2>5. WithinTwo(mnu, Q', a, keyA, b', keyB')
    BY <2>4, WithinTwoSymmetric
  <2>6. WithinTwo(mnu, Q', a', keyA', b', keyB')
    BY <2>2, <2>5 DEF WithinTwo
  <2> QED
    BY <2>6 DEF Q, a, b
<1> QED
  BY <1>2, <1>3

\* What the quarantine rests on besides: the configuration stays, and whoever
\* steps, quarantined nodes are cordoned.
LEMMA SharedCordons ==
  ASSUME BothTypes, OldP!QuarantinedAreCordoned, [Next]_vars
  PROVE  cfg' = cfg /\ OldP!QuarantinedAreCordoned'
<1>1. CASE [OldP!Next]_(OldP!vars)
  BY <1>1, OldP!StepShape, OldP!CordonedInductive, Assumptions, NodesAssumption,
     BoundAssumption, MaxUintAssumption DEF BothTypes
<1>2. CASE [NewP!Next]_(NewP!vars)
  <2>1. cfg' = cfg /\ NewP!QuarantinedAreCordoned'
    BY <1>2, SameLimits, NewP!StepShape, NewP!CordonedInductive, Assumptions, NodesAssumption,
       BoundAssumption, MaxUintAssumption DEF BothTypes
  <2> QED
    BY <2>1 DEF OldP!QuarantinedAreCordoned, NewP!QuarantinedAreCordoned
<1> QED
  BY <1>1, <1>2, WhoSteps

\* Every step keeps the budget of two, of the cluster and of each zone.
LEMMA SharedInductive == BothTypes /\ SharedInv /\ [Next]_vars => SharedInv'
<1> SUFFICES ASSUME BothTypes, SharedInv, [Next]_vars PROVE SharedInv'
  OBVIOUS
<1>1. cfg' = cfg /\ OldP!QuarantinedAreCordoned'
  BY SharedCordons DEF SharedInv
<1>2. OldP!QuarantineCounts' <=> OldP!QuarantineCounts
  BY <1>1 DEF OldP!QuarantineCounts
<1>3. ASSUME OldP!QuarantineCounts PROVE RegionWithinTwo(cfg.maxNodesUnhealthy, Nodes)'
  <2> DEFINE mnu == cfg.maxNodesUnhealthy
  <2>1. mnu \in OldP!Settings /\ Nodes \in SUBSET Nodes /\ quarantined \cap Nodes = quarantined
    BY LimitTypes DEF BothTypes, OldP!TypeOK
  <2>2. OldP!Selects \/ NewP!Selects => Within(mnu, quarantined \cap Nodes)
    BY <1>3, <2>1, OldSelects, NewSelects
  <2>3. RegionWithinTwo(mnu, Nodes)
    BY <1>3 DEF SharedInv
  <2>4. WithinTwo(mnu, (quarantined \cap Nodes)', (OldP!Busy /\ keyA \in Nodes)', keyA',
                  (NewP!Busy /\ keyB \in Nodes)', keyB')
    BY <2>1, <2>2, <2>3, WhoSteps, RegionShared
  <2> QED
    BY <1>1, <2>4 DEF RegionWithinTwo, WithinTwo, Within, Old!WithinLimit
<1>4. ASSUME OldP!QuarantineCounts, NEW l \in Nodes, OldP!zoneLabel \in DOMAIN LabelsOf[l]
      PROVE  RegionWithinTwo(cfg.maxNodesUnhealthyInSameZone,
                             OldP!InZone(LabelsOf[l][OldP!zoneLabel]))'
  <2> DEFINE mnu == cfg.maxNodesUnhealthyInSameZone
             R == OldP!InZone(LabelsOf[l][OldP!zoneLabel])
  <2>1. mnu \in OldP!Settings /\ R \in SUBSET Nodes /\ R' = R
    BY LimitTypes DEF OldP!InZone, OldP!Param, OldP!zoneLabel, OldP!Nil
  <2>2. /\ OldP!Selects /\ keyA \in R => Within(mnu, quarantined \cap R)
        /\ NewP!Selects /\ keyB \in R => Within(mnu, quarantined \cap R)
    BY <1>4, OldSelects, NewSelects
  <2>3. RegionWithinTwo(mnu, R)
    BY <1>4 DEF SharedInv
  <2> HIDE DEF R
  <2>4. WithinTwo(mnu, (quarantined \cap R)', (OldP!Busy /\ keyA \in R)', keyA',
                  (NewP!Busy /\ keyB \in R)', keyB')
    BY <2>1, <2>2, <2>3, WhoSteps, RegionShared
  <2>5. RegionWithinTwo(mnu, R)'
    BY <1>1, <2>4 DEF RegionWithinTwo, WithinTwo, Within, Old!WithinLimit
  <2> QED
    BY <2>5 DEF R
<1> QED
  BY <1>1, <1>2, <1>3, <1>4 DEF SharedInv

\* At the start nothing is quarantined.
LEMMA SharedInit == Init => SharedInv
<1> SUFFICES ASSUME Init PROVE SharedInv
  OBVIOUS
<1>1. quarantined = {} /\ pcA = "idle" /\ pcB = "idle"
  BY DEF Init, Old!Init, New!Init
<1>2. ~OldP!Busy /\ ~NewP!Busy
  BY <1>1 DEF OldP!Busy, NewP!Busy
<1>3. PICK n \in Nodes : TRUE
  BY NodesAssumption
<1>4. ASSUME NEW mnu, NEW R PROVE RegionWithinTwo(mnu, R)
  <2>1. (quarantined \cap R) \ {n, n} = {} /\ Cardinality({}) = 0
    BY <1>1, FS_EmptySet
  <2>2. Within(mnu, (quarantined \cap R) \ {n, n})
    BY <2>1 DEF Within, Old!WithinLimit
  <2> QED
    BY <1>2, <2>2 DEF RegionWithinTwo, WithinTwo
<1> QED
  BY <1>1, <1>4 DEF SharedInv, OldP!QuarantinedAreCordoned

\* The two invariants of the system.
LEMMA SharedAlways == Spec => [](BothTypes /\ SharedInv)
  BY BothTypesInit, BothTypesInductive, SharedInit, SharedInductive, PTL DEF Spec

\* Two processes on one cluster take out at most two nodes more than
\* maxNodesUnhealthy: each adds its own candidate to what the live list
\* already shows of the other one's work.
THEOREM SharedBlastRadiusCorrect == Spec => []SharedBlastRadius
<1>1. ASSUME BothTypes, SharedInv PROVE SharedBlastRadius
  <2>1. quarantined \cap Nodes = quarantined
    BY <1>1 DEF BothTypes, OldP!TypeOK
  <2> QED
    BY <1>1, <2>1, OldSame DEF SharedInv, SharedBlastRadius, RegionWithinTwo, WithinTwo, Within
<1> QED
  BY <1>1, SharedAlways, PTL

\* And in each zone at most two nodes more than maxNodesUnhealthyInSameZone.
THEOREM SharedZoneBlastRadiusCorrect == Spec => []SharedZoneBlastRadius
<1>1. ASSUME SharedInv PROVE SharedZoneBlastRadius
  <2>1. Old!zoneLabel = OldP!zoneLabel /\ \A zone : Old!InZone(zone) = OldP!InZone(zone)
    BY DEF Old!zoneLabel, OldP!zoneLabel, Old!InZone, OldP!InZone, Old!Param, OldP!Param,
       Old!Nil, OldP!Nil
  <2> QED
    BY <1>1, <2>1, OldSame
       DEF SharedInv, SharedZoneBlastRadius, RegionWithinTwo, WithinTwo, Within
<1> QED
  BY <1>1, SharedAlways, PTL

-----------------------------------------------------------------------------
(***************************************************************************)
(* The grace period, with two processes.                                   *)
(***************************************************************************)
GraceOfBoth == OldP!GraceInv /\ NewP!GraceInv

\* The work of a process registers no node and makes none young.
KeepsNodes == UNCHANGED young /\ \A n \in Nodes : api'[n].gen = api[n].gen

\* The old process's own steps.
LEMMA OldKeepsNodes ==
  ASSUME BothTypes, OldP!Run \/ OldP!Controller
  PROVE  KeepsNodes
<1> USE DEF KeepsNodes, BothTypes, OldP!TypeOK, OldP!cluster
<1>1. CASE OldP!Cordon \/ OldP!CordonFails
  BY <1>1 DEF OldP!Cordon, OldP!CordonFails, OldP!Patch, OldP!Node
<1>2. CASE OldP!Reap \/ OldP!ReapFails
  BY <1>2 DEF OldP!Reap, OldP!ReapFails
<1>3. CASE OldP!ListFails \/ OldP!Assess \/ OldP!DryDrain \/ OldP!Evict \/ OldP!EvictFails
             \/ OldP!ReapDeclined
  BY <1>3 DEF OldP!ListFails, OldP!Assess, OldP!DryDrain, OldP!Evict, OldP!EvictFails,
     OldP!ReapDeclined
<1>4. CASE OldP!Controller
  BY <1>4 DEF OldP!Controller, OldP!Process, OldP!Deliver, OldP!Resync, OldP!Restart
<1> QED
  BY <1>1, <1>2, <1>3, <1>4 DEF OldP!Run

\* The new process's own steps.
LEMMA NewKeepsNodes ==
  ASSUME BothTypes, NewP!Run \/ NewP!Controller
  PROVE  KeepsNodes
<1> USE DEF KeepsNodes, BothTypes, NewP!TypeOK, NewP!cluster
<1>1. CASE NewP!Cordon \/ NewP!CordonFails
  BY <1>1 DEF NewP!Cordon, NewP!CordonFails, NewP!Patch, NewP!Node
<1>2. CASE NewP!Reap \/ NewP!ReapFails
  BY <1>2 DEF NewP!Reap, NewP!ReapFails
<1>3. CASE NewP!ListFails \/ NewP!Assess \/ NewP!DryDrain \/ NewP!Evict \/ NewP!EvictFails
             \/ NewP!ReapDeclined
  BY <1>3 DEF NewP!ListFails, NewP!Assess, NewP!DryDrain, NewP!Evict, NewP!EvictFails,
     NewP!ReapDeclined
<1>4. CASE NewP!Controller
  BY <1>4 DEF NewP!Controller, NewP!Process, NewP!Deliver, NewP!Resync, NewP!Restart
<1> QED
  BY <1>1, <1>2, <1>3, <1>4 DEF NewP!Run

\* A step of the cluster is one for either process.
LEMMA ClusterForNew ==
  ASSUME OldP!Environment, UNCHANGED processB PROVE NewP!Environment
<1> USE DEF processB, NewP!informer, NewP!worker, NewP!Environment
<1>1. ASSUME NEW n \in Nodes, OldP!Administer(n) \/ OldP!Remove(n)
      PROVE  NewP!Administer(n) \/ NewP!Remove(n)
  BY <1>1 DEF OldP!Administer, NewP!Administer, OldP!Remove, NewP!Remove, OldP!Change,
     NewP!Change
<1>2. ASSUME NEW n \in Nodes, NEW status \in Statuses,
             OldP!Report(n, status) \/ OldP!Register(n, status)
      PROVE  NewP!Report(n, status) \/ NewP!Register(n, status)
  BY <1>2 DEF OldP!Report, NewP!Report, OldP!Register, NewP!Register, OldP!Change,
     NewP!Change, OldP!Incarnation, NewP!Incarnation, OldP!Param, NewP!Param, OldP!Nil,
     NewP!Nil
<1>3. ASSUME NEW i \in young, OldP!Age(i) PROVE NewP!Age(i)
  BY <1>3 DEF OldP!Age, NewP!Age, OldP!bounds, NewP!bounds
<1> QED
  BY <1>1, <1>2, <1>3 DEF OldP!Environment

\* What one process holds stays outside the grace period whatever the other one
\* terminates.
LEMMA GraceOfBothInductive ==
  ASSUME BothTypes, GraceOfBoth, [Next]_vars
  PROVE  GraceOfBoth'
<1> USE NodesAssumption, BoundAssumption, MaxUintAssumption, Assumptions
<1>1. CASE OldSteps /\ UNCHANGED cfg
  <2>1. OldP!Next /\ KeepsNodes /\ UNCHANGED processB
    BY <1>1, OldSame, OldKeepsNodes DEF OldSteps, OldP!Next
  <2>2. OldP!GraceInv'
    BY <2>1, OldP!GraceInductive DEF BothTypes, GraceOfBoth
  <2>3. NewP!GraceInv'
    BY <2>1, <2>2 DEF KeepsNodes, processB, BothTypes, NewP!TypeOK, GraceOfBoth,
       OldP!GraceInv, NewP!GraceInv, OldP!GraceRespected, NewP!GraceRespected,
       NewP!Incarnation
  <2> QED
    BY <2>2, <2>3 DEF GraceOfBoth
<1>2. CASE NewSteps /\ UNCHANGED cfg
  <2>1. NewP!Next /\ KeepsNodes /\ UNCHANGED processA
    BY <1>2, NewSame, NewKeepsNodes DEF NewSteps, NewP!Next
  <2>2. NewP!GraceInv'
    BY <2>1, NewP!GraceInductive DEF BothTypes, GraceOfBoth
  <2>3. OldP!GraceInv'
    BY <2>1, <2>2 DEF KeepsNodes, processA, BothTypes, OldP!TypeOK, GraceOfBoth,
       OldP!GraceInv, NewP!GraceInv, OldP!GraceRespected, NewP!GraceRespected,
       OldP!Incarnation
  <2> QED
    BY <2>2, <2>3 DEF GraceOfBoth
<1>3. CASE ClusterSteps /\ UNCHANGED cfg
  <2>1. OldP!Next /\ NewP!Next
    BY <1>3, OldSame, ClusterForNew DEF ClusterSteps, OldP!Next, NewP!Next
  <2> QED
    BY <2>1, OldP!GraceInductive, NewP!GraceInductive DEF BothTypes, GraceOfBoth
<1>4. CASE UNCHANGED vars
  <2>1. UNCHANGED OldP!vars /\ UNCHANGED NewP!vars
    BY <1>4 DEF vars, processA, processB, OldP!vars, NewP!vars, OldP!cluster, NewP!cluster,
       OldP!informer, NewP!informer, OldP!worker, NewP!worker, OldP!bounds, NewP!bounds
  <2> QED
    BY <2>1, OldP!GraceInductive, NewP!GraceInductive DEF BothTypes, GraceOfBoth
<1> QED
  BY <1>1, <1>2, <1>3, <1>4 DEF Next

\* At the start no process has anything in hand and nothing is terminated.
LEMMA GraceOfBothInit == Init => GraceOfBoth
<1> SUFFICES ASSUME Init PROVE GraceOfBoth
  OBVIOUS
<1>1. /\ terminated = {} /\ pcA = "idle" /\ pcB = "idle"
      /\ \A n \in Nodes : cacheA[n] = api[n] /\ cacheB[n] = api[n] /\ api[n].gen = 1
  BY DEF Init, Old!Init, New!Init, Old!Listed, New!Listed
<1> QED
  BY <1>1 DEF GraceOfBoth, OldP!GraceInv, NewP!GraceInv, OldP!GraceRespected,
     NewP!GraceRespected

\* Two processes, each with a cache of its own age, terminate no instance of a
\* node inside its grace period.
THEOREM SharedGraceCorrect == Spec => []Old!GraceRespected
<1>1. GraceOfBoth => Old!GraceRespected
  BY DEF GraceOfBoth, OldP!GraceInv, OldP!GraceRespected, Old!GraceRespected
<1> QED
  BY <1>1, BothTypesInit, BothTypesInductive, GraceOfBothInit, GraceOfBothInductive, PTL DEF Spec
=============================================================================
