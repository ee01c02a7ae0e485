---------------------------- MODULE DrainedProofs ----------------------------
(***************************************************************************)
(* Theorems of Drainer about what a drain leaves behind, for every set of  *)
(* pods: the types of its variables, with the room of its channels, and    *)
(* that a drain that succeeds has emptied the node.                        *)
(***************************************************************************)
EXTENDS DrainerProofs

-----------------------------------------------------------------------------
(***************************************************************************)
(* The invariants.                                                         *)
(***************************************************************************)
\* The goroutines of an attempt.
Started(a) == {w \in Workers : AttemptOf(w) = a /\ w[2] \in filterDaemonSets(listed[a])}

\* The drain has nothing more to do with the pod.  A server without evictions
\* answers NotFound for pods that run.
Rid(p) == EvictionSupported => ~Exists(p) \/ p \in misread

\* Those that ended and are rid of their pod.
Cleared(a) == {w \in Workers : AttemptOf(w) = a /\ worker[w] = "end" /\ Rid(PodOf(w))}

\* Types, and that nothing is made of pods that were not born.
BaseInv ==
  /\ opts \in [useEviction : BOOLEAN, force : BOOLEAN]
  /\ copyCordoned \in BOOLEAN /\ cordoned \in BOOLEAN
  /\ pod \in [Pods -> PodStates]
  /\ here \subseteq Pods /\ hit \subseteq Pods /\ misread \subseteq Pods
  /\ pc \in {"cordon", "list", "select", "ok", "failed"}
  /\ attempt \in 1..2
  /\ listed \in [1..2 -> SUBSET Pods]
  /\ worker \in [Workers -> WorkerStates]
  /\ doneCh \in [1..2 -> Nat] /\ errCh \in [1..2 -> 0..1]
  /\ doneCount \in Nat /\ waited \in 0..Timeout /\ elapsed \in Nat
  /\ \A p \in here : pod[p] # "unborn"
  /\ \A a \in 1..2 : \A p \in listed[a] : pod[p] # "unborn"

\* A goroutine that was started is one of its attempt, which listed once.
WorkersInv ==
  /\ \A w \in Workers : worker[w] # "none" => w \in Started(AttemptOf(w))
  /\ \A a \in 1..2 :
       a > attempt \/ (a = attempt /\ pc \in {"cordon", "list"}) => listed[a] = {}

\* Each success, in the channel or counted, is of a goroutine that is rid of
\* its pod, and none is counted twice or for another attempt.
Counted(a) == IF a = attempt /\ pc = "select" THEN doneCount ELSE 0

CountInv ==
  /\ pc # "select" => doneCount = 0
  /\ \A a \in 1..2 : doneCh[a] + Counted(a) <= Cardinality(Cleared(a))

\* What is there, on a cordoned node, was listed.
NoneUnlisted ==
  pc \in {"select", "ok"} /\ cordoned =>
    \A p \in here : Movable(p) /\ Exists(p) => p \in listed[attempt]

\* A drain that succeeded is rid of all it listed.
AllRid == pc = "ok" => \A s \in filterDaemonSets(listed[attempt]) : Rid(s[1])

DrainInv == BaseInv /\ WorkersInv /\ CountInv /\ NoneUnlisted /\ AllRid

-----------------------------------------------------------------------------
(***************************************************************************)
(* Goroutines and slots.                                                   *)
(***************************************************************************)
\* A goroutine is its attempt and its slot, and a slot has a pod.
LEMMA WorkerFacts ==
  ASSUME NEW w \in Workers
  PROVE  /\ AttemptOf(w) \in 1..2 /\ w[2] \in Slots /\ w = <<AttemptOf(w), w[2]>>
         /\ PodOf(w) \in Pods
  BY DEF Workers, AttemptOf, PodOf, Slots

\* An attempt starts one goroutine for each pod and owner it listed.
LEMMA StartedCard ==
  ASSUME NEW a \in 1..2
  PROVE  IsFiniteSet(Started(a)) /\ Cardinality(Started(a)) = Expected(a)
<1> DEFINE S == filterDaemonSets(listed[a])
           f == [s \in S |-> <<a, s>>]
<1>1. IsFiniteSet(S)
  BY SlotsFinite, FS_Subset DEF filterDaemonSets
<1>2. S \subseteq Slots
  BY DEF filterDaemonSets
<1>3. \A s \in S : f[s] \in Started(a)
  BY <1>2 DEF Started, Workers, AttemptOf
<1>4. \A s, t \in S : f[s] = f[t] => s = t
  OBVIOUS
<1>5. ASSUME NEW w \in Started(a) PROVE \E s \in S : f[s] = w
  <2>1. w[2] \in S /\ w = <<a, w[2]>>
    BY WorkerFacts DEF Started
  <2> QED
    BY <2>1
<1> HIDE DEF f
<1>6. f \in Bijection(S, Started(a))
  <2>1. f \in [S -> Started(a)]
    BY <1>3 DEF f
  <2> QED
    BY <2>1, <1>4, <1>5 DEF Bijection, Injection, Surjection, IsInjective
<1>7. ExistsBijection(S, Started(a))
  BY <1>6 DEF ExistsBijection
<1> QED
  BY <1>1, <1>7, FS_Bijection DEF Expected

\* The goroutines rid of their pod are among those started.
LEMMA ClearedInStarted ==
  ASSUME WorkersInv, NEW a \in 1..2
  PROVE  /\ Cleared(a) \subseteq Started(a)
         /\ IsFiniteSet(Cleared(a)) /\ Cardinality(Cleared(a)) \in Nat
         /\ Cardinality(Cleared(a)) <= Expected(a)
<1>1. Cleared(a) \subseteq Started(a)
  BY DEF WorkersInv, Cleared
<1> QED
  BY <1>1, StartedCard, FS_Subset, FS_CardinalityType

-----------------------------------------------------------------------------
(***************************************************************************)
(* What a step may do to the pods.                                         *)
(***************************************************************************)
\* A pod that was born stays born, and one that ended does not come back.
PodsAge ==
  \A p \in Pods : pod[p] # "unborn" => pod'[p] # "unborn" /\ (~Exists(p) => ~Exists(p)')

\* A call that hits a pod ends it, at once or later.
LEMMA HitAges == ASSUME BaseInv, NEW p \in Pods, Exists(p), Hit(p) PROVE PodsAge
<1>1. PICK s \in {"terminating", "gone"} : pod' = [pod EXCEPT ![p] = s]
  BY DEF Hit
<1> QED
  BY <1>1 DEF BaseInv, PodsAge, Exists

\* A pod that stops by itself does not come back.
LEMMA StopAges == ASSUME BaseInv, NEW p \in Pods, Stop(p) PROVE PodsAge
<1>1. PICK s \in {"terminating", "gone"} : pod' = [pod EXCEPT ![p] = s]
  BY DEF Stop
<1> QED
  BY <1>1 DEF Stop, BaseInv, PodsAge, Exists

\* A pod is created once.
LEMMA CreateAges == ASSUME BaseInv, NEW p \in Pods, Create(p) PROVE PodsAge
  BY DEF Create, BaseInv, PodsAge, Exists

\* A step that leaves the pods alone ages none.
LEMMA SameAges == UNCHANGED pod => PodsAge
  BY DEF PodsAge, Exists

\* What a call acts on exists.
LEMMA TargetExists == ASSUME NEW w \in Workers, NEW p \in Target(w) PROVE p \in Pods /\ Exists(p)
  BY DEF Target, Holders

\* What the server does with a call only ends pods.
LEMMA CallAges ==
  ASSUME BaseInv, NEW w \in Workers, CallAccepted(w) \/ CallFails(w)
  PROVE  PodsAge /\ hit' \subseteq Pods /\ pod' \in [Pods -> PodStates]
<1>1. CASE UNCHANGED <<pod, hit>>
  BY <1>1, SameAges DEF BaseInv
<1>2. CASE \E p \in Target(w) : Hit(p)
  <2>1. PICK p \in Target(w) : Hit(p)
    BY <1>2
  <2>2. p \in Pods /\ Exists(p)
    BY TargetExists
  <2>3. PodsAge
    BY <2>1, <2>2, HitAges
  <2>4. hit' \subseteq Pods /\ pod' \in [Pods -> PodStates]
    BY <2>1, <2>2 DEF Hit, BaseInv, PodStates
  <2> QED
    BY <2>3, <2>4
<1> QED
  BY <1>1, <1>2 DEF CallAccepted, CallFails

\* The pods a goroutine leaves alone.
LEMMA GoroutineAges ==
  ASSUME BaseInv, NEW w \in Workers, Goroutine(w)
  PROVE  PodsAge /\ hit' \subseteq Pods /\ pod' \in [Pods -> PodStates]
<1>1. CASE CallAccepted(w) \/ CallFails(w)
  BY <1>1, CallAges
<1>2. CASE ~(CallAccepted(w) \/ CallFails(w))
  <2>1. UNCHANGED <<pod, hit>>
    BY <1>2 DEF Goroutine, CallNotFound, CallRefused, Wake, PollGone, PollFails, Unblock,
       cluster, history
  <2> QED
    BY <2>1, SameAges DEF BaseInv
<1> QED
  BY <1>1, <1>2

\* So pods only age, whatever the step.
LEMMA StepAges == ASSUME BaseInv, [Next]_vars PROVE PodsAge
<1>1. CASE Main \/ Tick
  <2>1. UNCHANGED pod
    BY <1>1 DEF Main, Cordon, CordonFails, List, ListFails, ReceiveErr, ReceiveDone, TimesOut,
       Tick, cluster
  <2> QED
    BY <2>1, SameAges
<1>2. CASE UNCHANGED vars
  BY <1>2, SameAges DEF vars, cluster
<1>3. ASSUME NEW w \in Workers, Goroutine(w) PROVE PodsAge
  BY <1>3, GoroutineAges
<1>4. ASSUME NEW p \in Pods, Create(p) \/ Stop(p) PROVE PodsAge
  BY <1>4, CreateAges, StopAges
<1> QED
  BY <1>1, <1>2, <1>3, <1>4 DEF Next

-----------------------------------------------------------------------------
(***************************************************************************)
(* Types.                                                                  *)
(***************************************************************************)
LEMMA BaseStep == BaseInv /\ [Next]_vars => BaseInv'
<1> SUFFICES ASSUME BaseInv, [Next]_vars PROVE BaseInv'
  OBVIOUS
<1>0. PodsAge /\ Timeout \in Nat \ {0}
  BY StepAges, TimeoutAssumption
<1> USE DEF BaseInv, config, cluster, main, loop, channels, history
<1>1. CASE Cordon
  <2>1. cordoned' \in BOOLEAN
    <3>1. cordoned' \in {cordoned, TRUE}
      BY <1>1 DEF Cordon
    <3> QED
      BY <3>1, Zenon
  <2> QED
    BY <1>1, <2>1 DEF Cordon
<1>2. ASSUME DrainFails PROVE /\ pc' \in {"cordon", "failed"} /\ attempt' \in 1..2
                              /\ doneCount' = 0 /\ waited' = 0 /\ elapsed' = 0
  BY <1>2 DEF DrainFails, ResetLoop
<1>3. CASE CordonFails
  <2>1. cordoned' \in BOOLEAN
    <3>1. cordoned' \in {cordoned, TRUE}
      BY <1>3 DEF CordonFails
    <3> QED
      BY <3>1, Zenon
  <2> QED
    BY <1>0, <1>2, <1>3, <2>1 DEF CordonFails
<1>4. CASE ListFails \/ TimesOut
  BY <1>0, <1>2, <1>4 DEF ListFails, TimesOut
<1>5. CASE ReceiveErr
  <2>1. errCh' \in [1..2 -> 0..1]
    BY <1>5 DEF ReceiveErr
  <2> QED
    BY <1>0, <1>2, <1>5, <2>1 DEF ReceiveErr
<1>6. CASE List
  <2> DEFINE pods == {p \in here : Exists(p)}
  <2>1. /\ listed' = [listed EXCEPT ![attempt] = pods]
        /\ pc' \in {"ok", "select"}
        /\ worker' = [w \in Workers |->
                        IF AttemptOf(w) = attempt /\ w[2] \in filterDaemonSets(pods)
                          THEN "call" ELSE worker[w]]
        /\ doneCount' = 0 /\ waited' = 0 /\ elapsed' = 0
        /\ UNCHANGED <<config, cluster, attempt, channels, history>>
    BY <1>6 DEF List, ResetLoop
  <2>2. pods \subseteq Pods /\ \A p \in pods : pod[p] # "unborn"
    BY DEF Exists
  <2> HIDE DEF pods
  <2>3. listed' \in [1..2 -> SUBSET Pods]
    BY <2>1, <2>2
  <2>4. \A a \in 1..2 : \A p \in listed'[a] : pod'[p] # "unborn"
    BY <2>1, <2>2
  <2>5. worker' \in [Workers -> WorkerStates]
    BY <2>1 DEF WorkerStates
  <2> QED
    BY <1>0, <2>1, <2>3, <2>4, <2>5
<1>7. CASE ReceiveDone
  <2>1. doneCh' \in [1..2 -> Nat]
    BY <1>7 DEF ReceiveDone
  <2>2. /\ pc' \in {"select", "ok"} /\ doneCount' \in Nat
        /\ waited' \in 0..Timeout /\ elapsed' \in Nat
    BY <1>0, <1>7 DEF ReceiveDone, ResetLoop
  <2> QED
    BY <1>7, <2>1, <2>2 DEF ReceiveDone
<1>8. CASE Tick
  BY <1>0, <1>8 DEF Tick
<1>9. ASSUME NEW w \in Workers, Goroutine(w) PROVE BaseInv'
  <2>1. hit' \subseteq Pods /\ pod' \in [Pods -> PodStates]
    BY <1>9, GoroutineAges
  <2>2. UNCHANGED <<config, cordoned, here, main>>
    BY <1>9 DEF Goroutine, CallAccepted, CallNotFound, CallRefused, CallFails, Wake,
       PollGone, PollFails, Unblock
  <2>3. misread' \subseteq Pods
    BY <1>9, WorkerFacts DEF Goroutine, CallAccepted, CallNotFound, CallRefused, CallFails,
       Wake, PollGone, PollFails, Unblock
  <2>4. worker' \in [Workers -> WorkerStates]
    BY <1>9 DEF Goroutine, CallAccepted, CallNotFound, CallRefused, CallFails,
       Wake, PollGone, PollFails, Unblock, SendDone, SendErr, WorkerStates
  <2>5. doneCh' \in [1..2 -> Nat] /\ errCh' \in [1..2 -> 0..1]
    BY <1>9, WorkerFacts DEF Goroutine, CallAccepted, CallNotFound, CallRefused, CallFails,
       Wake, PollGone, PollFails, Unblock, SendDone, SendErr
  <2> QED
    BY <1>0, <2>1, <2>2, <2>3, <2>4, <2>5 DEF PodsAge
<1>10. ASSUME NEW p \in Pods, Create(p) PROVE BaseInv'
  <2>1. pod' = [pod EXCEPT ![p] = "running"] /\ here' \subseteq here \cup {p}
    BY <1>10 DEF Create
  <2>2. pod' \in [Pods -> PodStates] /\ here' \subseteq Pods /\ \A q \in here' : pod'[q] # "unborn"
    BY <1>0, <2>1 DEF PodStates, PodsAge
  <2> QED
    BY <1>0, <1>10, <2>2 DEF Create, PodsAge
<1>11. ASSUME NEW p \in Pods, Stop(p) PROVE BaseInv'
  <2>1. pod' \in [Pods -> PodStates]
    BY <1>11 DEF Stop, PodStates
  <2> QED
    BY <1>0, <1>11, <2>1 DEF Stop, PodsAge
<1>12. CASE UNCHANGED vars
  BY <1>12 DEF vars
<1> QED
  BY <1>1, <1>3, <1>4, <1>5, <1>6, <1>7, <1>8, <1>9, <1>10, <1>11, <1>12 DEF Next, Main

-----------------------------------------------------------------------------
(***************************************************************************)
(* Goroutines belong to their attempt.                                     *)
(***************************************************************************)
\* A step starts the goroutines of the attempt under way and no others.
LEMMA WorkersStep == BaseInv /\ WorkersInv /\ [Next]_vars => WorkersInv'
<1> SUFFICES ASSUME BaseInv, WorkersInv, [Next]_vars PROVE WorkersInv'
  OBVIOUS
<1> USE DEF config, cluster, main, loop
<1>1. ASSUME UNCHANGED <<listed, worker>>,
             \/ attempt' = attempt /\ (pc' \in {"cordon", "list"} => pc \in {"cordon", "list"})
             \/ attempt' = attempt + 1
      PROVE  WorkersInv'
  BY <1>1 DEF BaseInv, WorkersInv, Started
<1>2. CASE Cordon
  BY <1>1, <1>2 DEF Cordon
<1>3. CASE CordonFails \/ ListFails \/ ReceiveErr \/ TimesOut
  <2>1. UNCHANGED <<listed, worker>> /\ DrainFails
    BY <1>3 DEF CordonFails, ListFails, ReceiveErr, TimesOut
  <2>2. \/ attempt' = attempt + 1
        \/ attempt' = attempt /\ pc' = "failed"
    BY <2>1 DEF DrainFails, BaseInv
  <2> QED
    BY <1>1, <2>1, <2>2
<1>4. CASE List
  <2> DEFINE pods == {p \in here : Exists(p)}
  <2>1. /\ pc = "list" /\ pc' \in {"ok", "select"} /\ attempt' = attempt
        /\ listed' = [listed EXCEPT ![attempt] = pods]
        /\ worker' = [w \in Workers |->
                        IF AttemptOf(w) = attempt /\ w[2] \in filterDaemonSets(pods)
                          THEN "call" ELSE worker[w]]
    BY <1>4 DEF List
  <2> HIDE DEF pods
  <2>2. ASSUME NEW w \in Workers, worker'[w] # "none" PROVE w \in Started(AttemptOf(w))'
    <3>1. AttemptOf(w) \in 1..2
      BY WorkerFacts
    <3>2. CASE AttemptOf(w) = attempt /\ w[2] \in filterDaemonSets(pods)
      <4>1. listed'[AttemptOf(w)] = pods
        BY <2>1, <3>2 DEF BaseInv
      <4> QED
        BY <3>2, <4>1 DEF Started
    <3>3. CASE ~(AttemptOf(w) = attempt /\ w[2] \in filterDaemonSets(pods))
      <4>1. w \in Started(AttemptOf(w))
        BY <2>1, <2>2, <3>3 DEF WorkersInv
      <4>2. AttemptOf(w) # attempt
        BY <2>1, <4>1 DEF WorkersInv, BaseInv, Started, filterDaemonSets
      <4>3. listed'[AttemptOf(w)] = listed[AttemptOf(w)]
        BY <2>1, <3>1, <4>2 DEF BaseInv
      <4> QED
        BY <4>1, <4>3 DEF Started
    <3> QED
      BY <3>2, <3>3
  <2>3. \A a \in 1..2 : a > attempt' => listed'[a] = {}
    BY <2>1 DEF WorkersInv, BaseInv
  <2> QED
    BY <2>1, <2>2, <2>3 DEF WorkersInv
<1>5. CASE ReceiveDone \/ Tick
  BY <1>1, <1>5 DEF ReceiveDone, Tick
<1>6. ASSUME NEW w \in Workers, Goroutine(w) PROVE WorkersInv'
  <2>1. worker[w] # "none" /\ UNCHANGED main
    BY <1>6 DEF Goroutine, CallAccepted, CallNotFound, CallRefused, CallFails, Wake, PollGone,
       PollFails, Unblock
  <2>2. \E t \in WorkerStates : worker' = [worker EXCEPT ![w] = t]
    BY <1>6 DEF Goroutine, CallAccepted, CallNotFound, CallRefused, CallFails, Wake, PollGone,
       PollFails, Unblock, SendDone, SendErr, WorkerStates
  <2>3. \A v \in Workers : worker'[v] # "none" => worker[v] # "none"
    BY <2>1, <2>2 DEF BaseInv
  <2> QED
    BY <2>1, <2>3 DEF WorkersInv, Started
<1>7. ASSUME NEW p \in Pods, Create(p) \/ Stop(p) PROVE WorkersInv'
  BY <1>1, <1>7 DEF Create, Stop
<1>8. CASE UNCHANGED vars
  BY <1>1, <1>8 DEF vars
<1> QED
  BY <1>2, <1>3, <1>4, <1>5, <1>6, <1>7, <1>8 DEF Next, Main

-----------------------------------------------------------------------------
(***************************************************************************)
(* Successes are counted once.                                             *)
(***************************************************************************)
LEMMA ClearedFinite ==
  ASSUME NEW S \in SUBSET Workers
  PROVE  IsFiniteSet(S) /\ Cardinality(S) \in Nat
<1>1. IsFiniteSet(1..2)
  <2>1. 1 \in Int /\ 2 \in Int
    OBVIOUS
  <2> QED
    BY <2>1, FS_Interval
<1>2. IsFiniteSet(Workers)
  BY <1>1, SlotsFinite, FS_Product DEF Workers
<1> QED
  BY <1>2, FS_Subset, FS_CardinalityType

\* A goroutine that is rid of its pod remains so.
LEMMA RidLasts ==
  ASSUME PodsAge, misread \subseteq misread', NEW p \in Pods, pod[p] # "unborn", Rid(p)
  PROVE  Rid(p)'
  BY DEF PodsAge, Rid

\* A goroutine that is rid of its pod stays so.
LEMMA ClearedGrows ==
  ASSUME BaseInv, WorkersInv, PodsAge, misread \subseteq misread', NEW a \in 1..2,
         \A w \in Workers : worker[w] = "end" => worker'[w] = "end"
  PROVE  Cleared(a) \subseteq Cleared(a)' /\ Cardinality(Cleared(a)) <= Cardinality(Cleared(a)')
<1>1. ASSUME NEW w \in Cleared(a) PROVE w \in Cleared(a)'
  <2>1. w \in Workers /\ AttemptOf(w) = a /\ worker[w] = "end" /\ Rid(PodOf(w))
    BY DEF Cleared
  <2>2. PodOf(w) \in listed[a] /\ PodOf(w) \in Pods
    BY <2>1, WorkerFacts DEF WorkersInv, Started, filterDaemonSets, PodOf
  <2>3. pod[PodOf(w)] # "unborn"
    BY <2>2 DEF BaseInv
  <2>4. Rid(PodOf(w))'
    BY <2>1, <2>2, <2>3, RidLasts
  <2> QED
    BY <2>1, <2>4 DEF Cleared
<1>2. Cleared(a)' \subseteq Workers
  BY DEF Cleared
<1> QED
  BY <1>1, <1>2, ClearedFinite, FS_Subset

\* A goroutine that reports success is rid of its pod.
LEMMA SuccessRids ==
  ASSUME BaseInv, NEW w \in Workers, Goroutine(w), doneCh' # doneCh
  PROVE  SendDone(w) /\ worker[w] # "end" /\ Rid(PodOf(w))'
<1>1. CASE CallNotFound(w)
  <2>1. EvictionSupported => PodOf(w) \notin Holders(NameOf[PodOf(w)])
    BY <1>1 DEF CallNotFound
  <2>2. UNCHANGED pod
    BY <1>1 DEF CallNotFound, cluster
  <2> QED
    BY <1>1, <2>1, <2>2, WorkerFacts DEF CallNotFound, Holders, Rid, Exists
<1>2. CASE PollGone(w)
  BY <1>2, WorkerFacts DEF PollGone, Holders, Rid, Exists, cluster
<1>3. CASE PollFails(w)
  <2>1. SendDone(w) /\ misread' = misread \cup {PodOf(w)}
    BY <1>3 DEF PollFails, SendErr
  <2> QED
    BY <1>3, <2>1 DEF PollFails, Rid
<1> QED
  BY <1>1, <1>2, <1>3 DEF Goroutine, CallAccepted, CallRefused, CallFails, Wake, Unblock,
     SendErr, channels

\* No attempt reports more successes than goroutines that are rid of their pod.
LEMMA CountStep ==
  ASSUME BaseInv, WorkersInv, CountInv, [Next]_vars
  PROVE  CountInv'
<1>0. PodsAge
  BY StepAges
<1>1. ASSUME NEW a \in 1..2
      PROVE  /\ doneCh[a] \in Nat /\ Counted(a) \in Nat
             /\ Cardinality(Cleared(a)) \in Nat
  BY ClearedInStarted DEF BaseInv, Counted
<1> USE DEF config, cluster, main, loop, channels, history
<1>2. ASSUME UNCHANGED <<worker, pod, misread>>,
             doneCount' \in Nat, pc' # "select" => doneCount' = 0,
             doneCh' \in [1..2 -> Nat],
             \A a \in 1..2 : doneCh'[a] + Counted(a)' <= doneCh[a] + Counted(a)
      PROVE  CountInv'
  <2>1. ASSUME NEW a \in 1..2 PROVE Cleared(a)' = Cleared(a)
    BY <1>2 DEF Cleared, Rid, Exists
  <2>2. ASSUME NEW a \in 1..2 PROVE doneCh'[a] + Counted(a)' <= Cardinality(Cleared(a))
    <3>1. doneCh[a] + Counted(a) <= Cardinality(Cleared(a))
      BY DEF CountInv
    <3>2. doneCh'[a] \in Nat /\ Counted(a)' \in Nat
      BY <1>2 DEF Counted
    <3>3. doneCh'[a] + Counted(a)' <= doneCh[a] + Counted(a)
      BY <1>2
    <3> QED
      BY <1>1, <3>1, <3>2, <3>3
  <2> QED
    BY <1>2, <2>1, <2>2 DEF CountInv
<1>3. CASE Cordon
  BY <1>2, <1>3 DEF Cordon, BaseInv, CountInv, Counted
<1>4. CASE CordonFails \/ ListFails \/ ReceiveErr \/ TimesOut
  <2>1. pc' # "select" /\ doneCount' = 0 /\ UNCHANGED <<worker, pod, misread, doneCh>>
    BY <1>4 DEF CordonFails, ListFails, ReceiveErr, TimesOut, DrainFails, ResetLoop
  <2>2. ASSUME NEW a \in 1..2 PROVE doneCh'[a] + Counted(a)' <= doneCh[a] + Counted(a)
    <3>1. Counted(a)' = 0 /\ doneCh'[a] = doneCh[a]
      BY <2>1 DEF Counted
    <3> QED
      BY <1>1, <3>1
  <2>3. doneCh' \in [1..2 -> Nat]
    BY <2>1 DEF BaseInv
  <2> QED
    BY <1>2, <2>1, <2>2, <2>3
<1>5. CASE List
  <2>1. /\ pc = "list" /\ doneCount' = 0 /\ UNCHANGED <<attempt, pod, misread, doneCh>>
        /\ \A w \in Workers : worker'[w] # worker[w] => AttemptOf(w) = attempt
    BY <1>5 DEF List, ResetLoop
  <2>2. \A a \in 1..2 : Counted(a)' = 0
    BY <2>1 DEF Counted
  <2>3. ASSUME NEW w \in Workers, worker[w] = "end" PROVE worker'[w] = "end"
    BY <2>1, <2>3, WorkerFacts DEF WorkersInv, BaseInv, Started, filterDaemonSets
  <2>4. ASSUME NEW a \in 1..2 PROVE doneCh'[a] + Counted(a)' <= Cardinality(Cleared(a)')
    <3>1. Cardinality(Cleared(a)) <= Cardinality(Cleared(a)')
      BY <1>0, <2>1, <2>3, ClearedGrows
    <3>2. doneCh[a] <= Cardinality(Cleared(a))
      BY <1>1 DEF CountInv
    <3>3. Cardinality(Cleared(a)') \in Nat
      BY ClearedFinite DEF Cleared
    <3> QED
      BY <1>1, <2>1, <2>2, <3>1, <3>2, <3>3
  <2> QED
    BY <2>1, <2>4 DEF CountInv
<1>6. CASE ReceiveDone
  <2>1. /\ pc = "select" /\ doneCh' = [doneCh EXCEPT ![attempt] = @ - 1]
        /\ UNCHANGED <<attempt, worker, pod, misread>>
        /\ \/ pc' = "ok" /\ doneCount' = 0
           \/ pc' = "select" /\ doneCount' = doneCount + 1
    BY <1>6 DEF ReceiveDone, ResetLoop
  <2>2. \A a \in 1..2 : doneCh'[a] + Counted(a)' <= doneCh[a] + Counted(a)
    BY <1>1, <2>1 DEF Counted, BaseInv
  <2>3. doneCh' \in [1..2 -> Nat] /\ doneCount' \in Nat
    BY <1>6, BaseStep DEF BaseInv
  <2> QED
    BY <1>2, <2>1, <2>2, <2>3
<1>7. CASE Tick
  BY <1>1, <1>2, <1>7 DEF Tick, BaseInv, CountInv, Counted
<1>8. ASSUME UNCHANGED <<main, doneCh>>, misread \subseteq misread',
             \A w \in Workers : worker[w] = "end" => worker'[w] = "end"
      PROVE  CountInv'
  <2>1. ASSUME NEW a \in 1..2 PROVE doneCh'[a] + Counted(a)' <= Cardinality(Cleared(a)')
    <3>1. Cardinality(Cleared(a)) <= Cardinality(Cleared(a)')
      BY <1>0, <1>8, ClearedGrows
    <3>2. doneCh'[a] = doneCh[a] /\ Counted(a)' = Counted(a)
      BY <1>8 DEF Counted
    <3>3. Cardinality(Cleared(a)') \in Nat
      BY ClearedFinite DEF Cleared
    <3> QED
      BY <1>1, <3>1, <3>2, <3>3 DEF CountInv
  <2> QED
    BY <1>8, <2>1 DEF CountInv
<1>9. ASSUME NEW w \in Workers, Goroutine(w) PROVE CountInv'
  <2>1. /\ UNCHANGED main /\ misread \subseteq misread' /\ worker[w] # "end"
    BY <1>9 DEF Goroutine, CallAccepted, CallNotFound, CallRefused, CallFails, Wake, PollGone,
       PollFails, Unblock
  <2>2. \E t \in WorkerStates : worker' = [worker EXCEPT ![w] = t]
    BY <1>9 DEF Goroutine, CallAccepted, CallNotFound, CallRefused, CallFails, Wake, PollGone,
       PollFails, Unblock, SendDone, SendErr, WorkerStates
  <2>3. \A v \in Workers : worker[v] = "end" => worker'[v] = "end"
    BY <2>1, <2>2 DEF BaseInv
  <2>4. CASE UNCHANGED doneCh
    BY <1>8, <2>1, <2>3, <2>4
  <2>5. CASE doneCh' # doneCh
    <3> DEFINE b == AttemptOf(w)
    <3>1. SendDone(w) /\ Rid(PodOf(w))' /\ b \in 1..2
      BY <1>9, <2>5, SuccessRids, WorkerFacts
    <3>2. doneCh' = [doneCh EXCEPT ![b] = @ + 1] /\ worker' = [worker EXCEPT ![w] = "end"]
      BY <3>1 DEF SendDone
    <3>3. w \notin Cleared(b) /\ w \in Cleared(b)'
      BY <2>1, <3>1, <3>2 DEF Cleared, BaseInv
    <3>4. ASSUME NEW a \in 1..2 PROVE doneCh'[a] + Counted(a)' <= Cardinality(Cleared(a)')
      <4>1. Counted(a)' = Counted(a)
        BY <2>1 DEF Counted
      <4>2. /\ Cleared(a) \subseteq Cleared(a)'
            /\ Cardinality(Cleared(a)) <= Cardinality(Cleared(a)')
        BY <1>0, <2>1, <2>3, ClearedGrows
      <4>3. IsFiniteSet(Cleared(a)') /\ Cardinality(Cleared(a)') \in Nat
        BY ClearedFinite DEF Cleared
      <4>4. doneCh[a] + Counted(a) <= Cardinality(Cleared(a))
        BY DEF CountInv
      <4>5. CASE a # b
        <5>1. doneCh'[a] = doneCh[a]
          BY <3>1, <3>2, <4>5 DEF BaseInv
        <5> QED
          BY <1>1, <4>1, <4>2, <4>3, <4>4, <5>1
      <4>6. CASE a = b
        <5>1. doneCh'[a] = doneCh[a] + 1
          BY <3>1, <3>2, <4>6 DEF BaseInv
        <5>2. IsFiniteSet(Cleared(a))
          BY ClearedInStarted
        <5>3. Cardinality(Cleared(a) \cup {w}) = Cardinality(Cleared(a)) + 1
          BY <3>3, <4>6, <5>2, FS_AddElement
        <5>4. Cleared(a) \cup {w} \subseteq Cleared(a)'
          BY <3>3, <4>2, <4>6
        <5>5. Cardinality(Cleared(a) \cup {w}) <= Cardinality(Cleared(a)')
          BY <4>3, <5>4, FS_Subset
        <5> QED
          BY <1>1, <4>1, <4>3, <4>4, <5>1, <5>3, <5>5
      <4> QED
        BY <4>5, <4>6
    <3> QED
      BY <2>1, <3>4 DEF CountInv
  <2> QED
    BY <2>4, <2>5
<1>10. ASSUME NEW p \in Pods, Create(p) \/ Stop(p) PROVE CountInv'
  BY <1>8, <1>10 DEF Create, Stop
<1>11. CASE UNCHANGED vars
  BY <1>8, <1>11 DEF vars
<1> QED
  BY <1>3, <1>4, <1>5, <1>6, <1>7, <1>9, <1>10, <1>11 DEF Next, Main

-----------------------------------------------------------------------------
(***************************************************************************)
(* What is left on the node.                                               *)
(***************************************************************************)
\* The pods that may be bound to a cordoned node are not movable.
LEMMA DaemonsAreNotMovable == ASSUME NEW p, IsDaemon(p) PROVE ~Movable(p)
  BY DEF IsDaemon, Movable, OtherOwners

\* Nothing movable comes to the cordoned node after the list.
LEMMA NoneUnlistedStep ==
  ASSUME BaseInv, NoneUnlisted, [Next]_vars
  PROVE  NoneUnlisted'
<1>0. PodsAge /\ here \subseteq Pods
  BY StepAges DEF BaseInv
<1> USE DEF config, cluster, main, loop
<1>1. ASSUME here' \subseteq here, UNCHANGED <<attempt, listed, cordoned>>,
             pc' \in {"select", "ok"} => pc \in {"select", "ok"}
      PROVE  NoneUnlisted'
  <2> SUFFICES ASSUME pc' \in {"select", "ok"}, cordoned', NEW p \in here', Movable(p), Exists(p)'
               PROVE  p \in listed'[attempt']
    BY DEF NoneUnlisted, Movable, OtherOwners
  <2>1. Exists(p)
    BY <1>0, <1>1, BaseInv DEF PodsAge, BaseInv
  <2> QED
    BY <1>1, <2>1 DEF NoneUnlisted
<1>2. ASSUME pc' \notin {"select", "ok"} PROVE NoneUnlisted'
  BY <1>2 DEF NoneUnlisted
<1>3. CASE Cordon \/ CordonFails \/ ListFails \/ ReceiveErr \/ TimesOut
  <2>1. pc' \notin {"select", "ok"}
    BY <1>3 DEF Cordon, CordonFails, ListFails, ReceiveErr, TimesOut, DrainFails
  <2> QED
    BY <1>2, <2>1
<1>4. CASE List
  <2>1. /\ listed' = [listed EXCEPT ![attempt] = {p \in here : Exists(p)}]
        /\ UNCHANGED <<attempt, pod, here>>
    BY <1>4 DEF List
  <2>2. listed'[attempt'] = {p \in here : Exists(p)}
    BY <2>1 DEF BaseInv
  <2>3. \A p \in here' : Exists(p)' => p \in listed'[attempt']
    BY <2>1, <2>2 DEF Exists
  <2> QED
    BY <2>3 DEF NoneUnlisted
<1>5. CASE ReceiveDone \/ Tick
  BY <1>1, <1>5 DEF ReceiveDone, Tick
<1>6. ASSUME NEW w \in Workers, Goroutine(w) PROVE NoneUnlisted'
  <2>1. UNCHANGED <<here, attempt, listed, cordoned, pc>>
    BY <1>6 DEF Goroutine, CallAccepted, CallNotFound, CallRefused, CallFails, Wake, PollGone,
       PollFails, Unblock
  <2> QED
    BY <1>1, <2>1
<1>7. ASSUME NEW q \in Pods, Create(q) PROVE NoneUnlisted'
  <2>1. CASE here' = here
    BY <1>1, <1>7, <2>1 DEF Create
  <2>2. CASE ~cordoned
    BY <1>7, <2>2 DEF Create, NoneUnlisted
  <2>3. CASE here' = here \cup {q} /\ IsDaemon(q)
    <3>1. ~Movable(q)
      BY <2>3, DaemonsAreNotMovable
    <3>2. UNCHANGED <<pc, cordoned, attempt, listed>>
      BY <1>7 DEF Create
    <3> SUFFICES ASSUME pc' \in {"select", "ok"}, cordoned',
                        NEW p \in here', Movable(p), Exists(p)'
                 PROVE  p \in listed'[attempt']
      BY DEF NoneUnlisted, Movable, OtherOwners
    <3>3. p \in here /\ pod[p] # "unborn"
      BY <2>3, <3>1 DEF BaseInv
    <3>4. Exists(p)
      BY <1>0, <3>3 DEF PodsAge
    <3> QED
      BY <3>2, <3>3, <3>4 DEF NoneUnlisted
  <2> QED
    BY <1>7, <2>1, <2>2, <2>3 DEF Create
<1>8. ASSUME NEW q \in Pods, Stop(q) PROVE NoneUnlisted'
  BY <1>1, <1>8 DEF Stop
<1>9. CASE UNCHANGED vars
  BY <1>1, <1>9 DEF vars
<1> QED
  BY <1>3, <1>4, <1>5, <1>6, <1>7, <1>8, <1>9 DEF Next, Main

\* The last success is counted when every goroutine of the attempt has ended.
LEMMA LastSuccess ==
  ASSUME BaseInv, WorkersInv, CountInv, ReceiveDone, doneCount + 1 = Expected(attempt),
         NEW s \in filterDaemonSets(listed[attempt])
  PROVE  Rid(s[1])
<1> DEFINE a == attempt
           w == <<a, s>>
<1>1. a \in 1..2 /\ pc = "select" /\ doneCh[a] \in Nat /\ doneCh[a] > 0 /\ doneCount \in Nat
  BY DEF BaseInv, ReceiveDone
<1>2. doneCh[a] + doneCount <= Cardinality(Cleared(a))
  BY <1>1 DEF CountInv, Counted
<1>3. /\ Cleared(a) \subseteq Started(a)
      /\ IsFiniteSet(Started(a)) /\ Cardinality(Started(a)) = Expected(a)
      /\ Cardinality(Cleared(a)) \in Nat /\ Cardinality(Cleared(a)) <= Expected(a)
  BY <1>1, ClearedInStarted, StartedCard
<1>4. Cardinality(Cleared(a)) = Cardinality(Started(a))
  BY <1>1, <1>2, <1>3
<1>5. Cleared(a) = Started(a)
  BY <1>3, <1>4, FS_Subset
<1>6. w \in Started(a) /\ PodOf(w) = s[1]
  BY <1>1 DEF Started, Workers, AttemptOf, PodOf, filterDaemonSets
<1> QED
  BY <1>5, <1>6 DEF Cleared

\* When the last success is counted, every listed pod is gone or misread.
LEMMA AllRidStep ==
  ASSUME BaseInv, WorkersInv, CountInv, AllRid, [Next]_vars
  PROVE  AllRid'
<1>0. PodsAge
  BY StepAges
<1> USE DEF config, cluster, main, loop, history
<1>1. ASSUME pc' # "ok" PROVE AllRid'
  BY <1>1 DEF AllRid
<1>2. ASSUME UNCHANGED <<pc, attempt, listed>>, misread \subseteq misread' PROVE AllRid'
  <2> SUFFICES ASSUME pc' = "ok", NEW s \in filterDaemonSets(listed'[attempt']) PROVE Rid(s[1])'
    BY DEF AllRid, filterDaemonSets
  <2>1. s \in filterDaemonSets(listed[attempt]) /\ s[1] \in Pods /\ s[1] \in listed[attempt]
    BY <1>2 DEF filterDaemonSets, Slots
  <2>2. Rid(s[1]) /\ pod[s[1]] # "unborn"
    BY <1>2, <2>1 DEF AllRid, BaseInv
  <2> QED
    BY <1>0, <1>2, <2>1, <2>2, RidLasts
<1>3. CASE Cordon \/ CordonFails \/ ListFails \/ ReceiveErr \/ TimesOut \/ Tick
  <2>1. pc' # "ok"
    BY <1>3 DEF Cordon, CordonFails, ListFails, ReceiveErr, TimesOut, Tick, DrainFails
  <2> QED
    BY <1>1, <2>1
<1>4. CASE List
  <2> DEFINE pods == {p \in here : Exists(p)}
  <2>1. /\ listed' = [listed EXCEPT ![attempt] = pods] /\ UNCHANGED attempt
        /\ pc' = "ok" => filterDaemonSets(pods) = {}
    BY <1>4 DEF List
  <2> HIDE DEF pods
  <2>2. listed'[attempt'] = pods
    BY <2>1 DEF BaseInv
  <2> QED
    BY <2>1, <2>2 DEF AllRid, filterDaemonSets
<1>5. CASE ReceiveDone
  <2>1. UNCHANGED <<attempt, listed, pod, misread>>
    BY <1>5 DEF ReceiveDone
  <2>2. CASE pc' = "ok"
    <3>1. doneCount + 1 = Expected(attempt)
      BY <1>5, <2>2 DEF ReceiveDone
    <3>2. \A s \in filterDaemonSets(listed[attempt]) : Rid(s[1])
      BY <1>5, <3>1, LastSuccess
    <3> QED
      BY <2>1, <3>2 DEF AllRid, Rid, Exists, filterDaemonSets
  <2> QED
    BY <1>1, <2>2
<1>6. ASSUME NEW w \in Workers, Goroutine(w) PROVE AllRid'
  <2>1. UNCHANGED <<pc, attempt, listed>> /\ misread \subseteq misread'
    BY <1>6 DEF Goroutine, CallAccepted, CallNotFound, CallRefused, CallFails, Wake, PollGone,
       PollFails, Unblock
  <2> QED
    BY <1>2, <2>1
<1>7. ASSUME NEW p \in Pods, Create(p) \/ Stop(p) PROVE AllRid'
  BY <1>2, <1>7 DEF Create, Stop
<1>8. CASE UNCHANGED vars
  BY <1>2, <1>8 DEF vars
<1> QED
  BY <1>3, <1>4, <1>5, <1>6, <1>7, <1>8 DEF Next, Main

-----------------------------------------------------------------------------
(***************************************************************************)
(* The theorems.                                                           *)
(***************************************************************************)
LEMMA DrainInit == Init => DrainInv
<1> SUFFICES ASSUME Init PROVE DrainInv
  OBVIOUS
<1>1. BaseInv
  <2>1. opts \in [useEviction : BOOLEAN, force : BOOLEAN] /\ copyCordoned \in BOOLEAN
        /\ cordoned \in BOOLEAN
    BY DEF Init
  <2>2. pod \in [Pods -> PodStates] /\ here \subseteq Pods /\ \A p \in here : pod[p] # "unborn"
    BY DEF Init, PodStates, Exists
  <2>3. /\ hit \subseteq Pods /\ misread \subseteq Pods
        /\ pc \in {"cordon", "list", "select", "ok", "failed"} /\ attempt \in 1..2
        /\ listed = [a \in 1..2 |-> {}] /\ worker \in [Workers -> WorkerStates]
        /\ doneCh \in [1..2 -> Nat] /\ errCh \in [1..2 -> 0..1]
        /\ doneCount \in Nat /\ waited \in 0..Timeout /\ elapsed \in Nat
    BY TimeoutAssumption DEF Init, WorkerStates
  <2> QED
    BY <2>1, <2>2, <2>3 DEF BaseInv
<1>2. WorkersInv
  BY DEF Init, WorkersInv
<1>3. CountInv
  <2>1. pc # "select" /\ doneCount = 0
    BY DEF Init
  <2>2. ASSUME NEW a \in 1..2
        PROVE  doneCh[a] = 0 /\ Counted(a) = 0 /\ Cardinality(Cleared(a)) \in Nat
    BY <1>1, <1>2, ClearedInStarted DEF Init, Counted
  <2> QED
    BY <2>1, <2>2 DEF CountInv
<1>4. NoneUnlisted /\ AllRid
  BY DEF Init, NoneUnlisted, AllRid
<1> QED
  BY <1>1, <1>2, <1>3, <1>4 DEF DrainInv

\* The invariant of the two theorems.
LEMMA DrainAlways == Spec => []DrainInv
<1>1. ASSUME DrainInv, [Next]_vars PROVE DrainInv'
  BY <1>1, BaseStep, WorkersStep, CountStep, NoneUnlistedStep, AllRidStep DEF DrainInv
<1> QED
  BY <1>1, DrainInit, PTL DEF Spec

\* The counts of the invariant leave room in the channels.
LEMMA InvTypes == ASSUME BaseInv, WorkersInv, CountInv PROVE TypeOK
<1>1. ASSUME NEW a \in 1..2
      PROVE  doneCh[a] \in 0..Expected(a) /\ errCh[a] \in 0..1 /\ Counted(a) \in 0..Expected(a)
  <2>1. /\ Cardinality(Cleared(a)) \in Nat /\ Cardinality(Cleared(a)) <= Expected(a)
        /\ Expected(a) \in Nat
    BY ClearedInStarted, StartedCard, FS_CardinalityType
  <2>2. doneCh[a] \in Nat /\ Counted(a) \in Nat /\ errCh[a] \in 0..1
    BY DEF BaseInv, Counted
  <2>3. doneCh[a] + Counted(a) <= Cardinality(Cleared(a))
    BY DEF CountInv
  <2> QED
    BY <2>1, <2>2, <2>3
<1>2. doneCount \in 0..Cardinality(Slots)
  <2>1. doneCount = Counted(attempt) \/ doneCount = 0
    BY DEF CountInv, Counted
  <2>2. doneCount \in 0..Expected(attempt) \/ doneCount = 0
    BY <1>1, <2>1 DEF BaseInv
  <2>3. /\ Expected(attempt) <= Cardinality(Slots)
        /\ Expected(attempt) \in Nat /\ Cardinality(Slots) \in Nat
    BY SlotsFinite, FS_Subset, FS_CardinalityType DEF Expected, filterDaemonSets
  <2> QED
    BY <2>2, <2>3
<1>3. \A a \in 1..2 : doneCh[a] \in 0..Expected(a) /\ errCh[a] \in 0..1
  BY <1>1
<1> QED
  BY <1>2, <1>3, Zenon DEF TypeOK, BaseInv

\* Every variable stays in its range, and no success ever waits for room: the
\* goroutines of an attempt are no more than the room of its doneCh.
THEOREM DrainerTypes == Spec => []TypeOK
<1>1. DrainInv => TypeOK
  BY InvTypes DEF DrainInv
<1> QED
  BY <1>1, DrainAlways, PTL

\* Where the server can evict, a drain that succeeded on a cordoned node left no
\* movable pod there, but for those whose Get failed: the successes that make up
\* the count are of distinct goroutines of that attempt, each rid of its pod,
\* and they are as many as it started.
THEOREM DrainedCorrect == ASSUME EvictionSupported PROVE Spec => []DrainedOrMisread
<1>1. ASSUME DrainInv PROVE DrainedOrMisread
  <2> SUFFICES ASSUME pc = "ok", cordoned, NEW p \in here, Movable(p), Exists(p)
               PROVE  p \in misread
    BY DEF DrainedOrMisread
  <2>1. p \in listed[attempt] /\ p \in Pods
    BY <1>1 DEF DrainInv, NoneUnlisted, BaseInv
  <2>2. PICK i \in OtherOwners(p) : TRUE
    BY DEF Movable
  <2>3. <<p, i>> \in filterDaemonSets(listed[attempt])
    BY <2>1, <2>2 DEF filterDaemonSets, Slots
  <2>4. Rid(p)
    BY <1>1, <2>3 DEF DrainInv, AllRid
  <2> QED
    BY <2>4 DEF Rid
<1> QED
  BY <1>1, DrainAlways, PTL
=============================================================================
