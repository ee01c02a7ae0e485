---------------------------- MODULE DrainerProofs ----------------------------
(***************************************************************************)
(* Theorems of Drainer, for every set of pods and every timeout.           *)
(***************************************************************************)
EXTENDS Drainer, FiniteSetTheorems, TLAPS

-----------------------------------------------------------------------------
(***************************************************************************)
(* The drainer implements the outcome its caller relies on.                *)
(***************************************************************************)
ControlInv ==
  /\ opts.force \in BOOLEAN /\ copyCordoned \in BOOLEAN /\ cordoned \in BOOLEAN
  /\ pc \in {"cordon", "list", "select", "ok", "failed"}
  /\ attempt \in 1..2

Stage == CASE pc = "cordon" -> "drain"
           [] pc \in {"list", "select"} -> "evict"
           [] pc = "ok" -> "reap"
           [] OTHER -> "failed"

\* The goroutines and the cluster never touch the main goroutine's control.
LEMMA OthersKeepControl ==
  ASSUME \/ \E w \in Workers : Goroutine(w)
         \/ \E p \in Pods : Create(p) \/ Stop(p)
  PROVE  UNCHANGED <<config, cordoned, main>>
<1>1. ASSUME NEW w \in Workers, Goroutine(w) PROVE UNCHANGED <<config, cordoned, main>>
  BY <1>1 DEF Goroutine, CallAccepted, CallNotFound, CallRefused, CallFails, Wake, PollGone,
     PollFails, Unblock, cluster
<1>2. ASSUME NEW p \in Pods, Create(p) \/ Stop(p) PROVE UNCHANGED <<config, cordoned, main>>
  BY <1>2 DEF Create, Stop
<1>3. QED
  BY <1>1, <1>2

\* There are two attempts at most.
LEMMA ControlInductive == ControlInv /\ [Next]_vars => ControlInv'
<1> SUFFICES ASSUME ControlInv, [Next]_vars PROVE ControlInv'
  OBVIOUS
<1> USE DEF ControlInv, config, cluster, main, loop
<1>1. CASE Cordon \/ CordonFails
  <2>1. cordoned' \in {cordoned, TRUE}
    BY <1>1 DEF Cordon, CordonFails
  <2>2. CASE Cordon
    BY <2>1, <2>2 DEF Cordon
  <2>3. CASE CordonFails
    <3>1. pc' \in {"cordon", "failed"} /\ attempt' \in 1..2
      BY <2>3 DEF CordonFails, DrainFails
    <3>2. cordoned' \in BOOLEAN
      BY <2>1, Zenon
    <3>3. UNCHANGED <<opts, copyCordoned>>
      BY <2>3 DEF CordonFails
    <3>4. QED
      BY <3>1, <3>2, <3>3
  <2>4. QED
    BY <1>1, <2>2, <2>3
<1>2. CASE List \/ ListFails
  BY <1>2 DEF List, ListFails, DrainFails
<1>3. CASE ReceiveErr \/ ReceiveDone \/ TimesOut \/ Tick
  BY <1>3 DEF ReceiveErr, ReceiveDone, TimesOut, Tick, DrainFails
<1>4. ASSUME UNCHANGED <<config, cordoned, main>> PROVE ControlInv'
  BY <1>4
<1>5. CASE UNCHANGED vars
  BY <1>4, <1>5 DEF vars
<1>6. QED
  BY <1>1, <1>2, <1>3, <1>4, <1>5, OthersKeepControl DEF Next, Main

\* Each step of the drainer is a step of DrainOutcome or a stutter.
LEMMA OutcomeStep ==
  ASSUME ControlInv, [Next]_vars
  PROVE  [Outcome!Next]_(Outcome!drainVars)
<1> USE DEF Outcome!Next, Outcome!drainVars, ControlInv, config, cluster, main
<1>1. CASE Cordon
  BY <1>1 DEF Cordon, Outcome!Cordon
<1>2. CASE CordonFails
  BY <1>2 DEF CordonFails, DrainFails, Outcome!CordonFails, Outcome!Fails
<1>3. CASE ListFails
  BY <1>3 DEF ListFails, DrainFails, Outcome!EvictFails, Outcome!Fails
<1>4. CASE List
  BY <1>4 DEF List, Outcome!Evict
<1>5. CASE ReceiveErr
  BY <1>5 DEF ReceiveErr, DrainFails, Outcome!EvictFails, Outcome!Fails
<1>6. CASE ReceiveDone
  BY <1>6 DEF ReceiveDone, Outcome!Evict
<1>7. CASE TimesOut
  BY <1>7 DEF TimesOut, DrainFails, Outcome!EvictFails, Outcome!Fails
<1>8. CASE Tick
  BY <1>8 DEF Tick
<1>9. ASSUME UNCHANGED <<config, cordoned, main>> PROVE UNCHANGED Outcome!drainVars
  BY <1>9
<1>10. CASE UNCHANGED vars
  BY <1>9, <1>10 DEF vars
<1>11. QED
  BY <1>1, <1>2, <1>3, <1>4, <1>5, <1>6, <1>7, <1>8, <1>9, <1>10, OthersKeepControl
  DEF Next, Main

\* Whatever the goroutines, the channels and the timer do, nr.drain behaves for
\* its caller as a cordon, an eviction and at most one forced retry.
THEOREM DrainerImplementsOutcome == Spec => DrainsAsPromised
<1>1. Init => ControlInv /\ Outcome!Init
  BY DEF Init, ControlInv, Outcome!Init
<1>2. QED
  BY <1>1, ControlInductive, OutcomeStep, PTL DEF Spec, DrainsAsPromised, Outcome!Spec

-----------------------------------------------------------------------------
(***************************************************************************)
(* The time an attempt takes.                                              *)
(***************************************************************************)
LEMMA SlotsFinite == IsFiniteSet(Slots)
<1>1. ASSUME NEW p \in Pods PROVE IsFiniteSet({p} \X OtherOwners(p))
  <2>1. PICK n \in Nat : DOMAIN OwnersOf[p] = 1..n
    BY PodsAssumption
  <2>2. IsFiniteSet(1..n) /\ OtherOwners(p) \subseteq 1..n
    BY <2>1, FS_Interval DEF OtherOwners
  <2>3. IsFiniteSet(OtherOwners(p)) /\ IsFiniteSet({p})
    BY <2>2, FS_Subset, FS_Singleton
  <2>4. QED
    BY <2>3, FS_Product
<1>2. IsFiniteSet({{p} \X OtherOwners(p) : p \in Pods})
  <2> DEFINE F == {{p} \X OtherOwners(p) : p \in Pods}
             f == [p \in Pods |-> {p} \X OtherOwners(p)]
  <2>1. f \in Surjection(Pods, F)
    BY DEF Surjection
  <2>2. QED
    BY <2>1, PodsAssumption, FS_Surjection
<1>3. QED
  BY <1>1, <1>2, FS_UNION DEF Slots

\* An attempt that lists something to evict expects at least one success.
LEMMA ExpectedType ==
  ASSUME NEW pods, filterDaemonSets(pods) # {}
  PROVE  Cardinality(filterDaemonSets(pods)) \in Nat \ {0}
<1>1. IsFiniteSet(filterDaemonSets(pods))
  BY SlotsFinite, FS_Subset DEF filterDaemonSets
<1>2. QED
  BY <1>1, FS_CardinalityType, FS_EmptySet

(***************************************************************************)
(* ElapsedBound is not inductive: the time so far is bounded by a full     *)
(* timeout for each success already counted and the wait since the last.   *)
(***************************************************************************)
TimeInv ==
  /\ pc \in {"cordon", "list", "select", "ok", "failed"}
  /\ attempt \in 1..2
  /\ listed = [a \in 1..2 |-> listed[a]]
  /\ doneCount \in Nat /\ waited \in Nat /\ elapsed \in Nat
  /\ pc = "select" =>
       /\ Expected(attempt) \in Nat
       /\ doneCount < Expected(attempt)
       /\ waited <= Timeout
       /\ elapsed <= doneCount * Timeout + waited

\* Each success that is counted buys one timeout more and no step buys another.
LEMMA TimeInductive == TimeInv /\ [Next]_vars => TimeInv'
<1> SUFFICES ASSUME TimeInv, [Next]_vars PROVE TimeInv'
  OBVIOUS
<1> USE DEF TimeInv, config, cluster, main, loop
<1>1. ASSUME UNCHANGED main PROVE TimeInv'
  BY <1>1 DEF Expected
<1>2. ASSUME DrainFails, UNCHANGED listed PROVE TimeInv'
  BY <1>2 DEF DrainFails, ResetLoop
<1>3. CASE Cordon
  BY <1>3 DEF Cordon
<1>4. CASE CordonFails \/ ListFails \/ ReceiveErr \/ TimesOut
  BY <1>2, <1>4 DEF CordonFails, ListFails, ReceiveErr, TimesOut
<1>5. CASE List
  <2> DEFINE pods == {p \in here : Exists(p)}
  <2>1. /\ listed' = [listed EXCEPT ![attempt] = pods]
        /\ pc' = IF filterDaemonSets(pods) = {} THEN "ok" ELSE "select"
        /\ doneCount' = 0 /\ waited' = 0 /\ elapsed' = 0 /\ attempt' = attempt
    BY <1>5 DEF List, ResetLoop
  <2>2. listed'[attempt] = pods /\ listed' = [a \in 1..2 |-> listed'[a]]
    BY <2>1
  <2>3. Expected(attempt)' = Cardinality(filterDaemonSets(pods))
    BY <2>1, <2>2 DEF Expected
  <2> HIDE DEF pods
  <2>4. pc' = "select" => Expected(attempt)' \in Nat \ {0}
    BY <2>1, <2>3, ExpectedType
  <2>5. QED
    BY <2>1, <2>2, <2>4, TimeoutAssumption
<1>6. CASE ReceiveDone
  <2>1. CASE doneCount + 1 = Expected(attempt)
    BY <1>6, <2>1 DEF ReceiveDone, ResetLoop
  <2>2. CASE doneCount + 1 # Expected(attempt)
    <3>1. /\ pc = "select" /\ pc' = "select"
          /\ doneCount' = doneCount + 1 /\ waited' = 0
          /\ UNCHANGED <<attempt, listed, elapsed>>
      BY <1>6, <2>2 DEF ReceiveDone
    <3>2. Expected(attempt)' = Expected(attempt)
      BY <3>1 DEF Expected
    <3>3. /\ doneCount * Timeout \in Nat
          /\ (doneCount + 1) * Timeout = doneCount * Timeout + Timeout
      BY TimeoutAssumption
    <3>4. elapsed <= (doneCount + 1) * Timeout
      BY <3>1, <3>3, TimeoutAssumption
    <3>5. doneCount + 1 < Expected(attempt)
      BY <2>2, <3>1
    <3>6. QED
      BY <3>1, <3>2, <3>4, <3>5, TimeoutAssumption
  <2>3. QED
    BY <2>1, <2>2
<1>7. CASE Tick
  <2>1. Expected(attempt)' = Expected(attempt)
    BY <1>7 DEF Tick, Expected
  <2>2. doneCount * Timeout \in Nat
    BY TimeoutAssumption
  <2>3. QED
    BY <1>7, <2>1, <2>2, TimeoutAssumption DEF Tick
<1>8. CASE UNCHANGED vars
  BY <1>1, <1>8 DEF vars
<1>9. QED
  BY <1>1, <1>3, <1>4, <1>5, <1>6, <1>7, <1>8, OthersKeepControl DEF Next, Main

\* An attempt lasts at most DrainTimeout for each goroutine, not DrainTimeout.
THEOREM ElapsedBoundCorrect == Spec => []ElapsedBound
<1>1. Init => TimeInv
  BY DEF Init, TimeInv
<1>2. TimeInv => ElapsedBound
  <2> SUFFICES ASSUME TimeInv, pc = "select" PROVE elapsed <= Timeout * Expected(attempt)
    BY DEF ElapsedBound
  <2> DEFINE k == Expected(attempt)
  <2>1. k \in Nat /\ doneCount \in Nat /\ doneCount + 1 <= k /\ elapsed \in Nat /\ waited \in Nat
    BY DEF TimeInv
  <2>2. elapsed <= (doneCount + 1) * Timeout
    <3>1. (doneCount + 1) * Timeout = doneCount * Timeout + Timeout /\ doneCount * Timeout \in Nat
      BY <2>1, TimeoutAssumption
    <3>2. QED
      BY <2>1, <3>1, TimeoutAssumption DEF TimeInv
  <2> HIDE DEF k
  <2>3. (doneCount + 1) * Timeout <= k * Timeout
    BY <2>1, TimeoutAssumption
  <2>4. k * Timeout = Timeout * k /\ k * Timeout \in Nat
    BY <2>1, TimeoutAssumption
  <2>5. QED
    BY <2>1, <2>2, <2>3, <2>4, TimeoutAssumption DEF k
<1>3. QED
  BY <1>1, <1>2, TimeInductive, PTL DEF Spec

-----------------------------------------------------------------------------
(***************************************************************************)
(* A drain goes forward.  The four places that Advances compares are       *)
(* bounded: by the attempts, by the stages and, as TimeInv says, by the    *)
(* goroutines of the attempt and by Timeout.                               *)
(***************************************************************************)
\* An attempt that fails is followed by the next one, or ends.
LEMMA FailureAdvances ==
  ASSUME TimeInv, DrainFails, pc \in {"cordon", "list", "select"}
  PROVE  Advances
<1>1. CASE attempt = 1 /\ opts.force
  BY <1>1 DEF DrainFails, Advances
<1>2. CASE ~(attempt = 1 /\ opts.force)
  BY <1>2 DEF DrainFails, Advances, Rank
<1>3. QED
  BY <1>1, <1>2

\* Every step of the main goroutine, or of its timer, is one forward.
LEMMA StepAdvances ==
  ASSUME TimeInv, [Next]_vars
  PROVE  UNCHANGED main \/ Advances
<1> USE DEF TimeInv
<1>1. CASE Cordon
  BY <1>1 DEF Cordon, Advances, Rank
<1>2. CASE CordonFails \/ ListFails \/ ReceiveErr \/ TimesOut
  BY <1>2, FailureAdvances DEF CordonFails, ListFails, ReceiveErr, TimesOut
<1>3. CASE List
  BY <1>3 DEF List, Advances, Rank
<1>4. CASE ReceiveDone
  <2>1. CASE doneCount + 1 = Expected(attempt)
    BY <1>4, <2>1 DEF ReceiveDone, Advances, Rank
  <2>2. CASE doneCount + 1 # Expected(attempt)
    BY <1>4, <2>2 DEF ReceiveDone, Advances
  <2>3. QED
    BY <2>1, <2>2
<1>5. CASE Tick
  BY <1>5 DEF Tick, Advances
<1>6. CASE UNCHANGED vars
  BY <1>6 DEF vars
<1>7. QED
  BY <1>1, <1>2, <1>3, <1>4, <1>5, <1>6, OthersKeepControl DEF Next, Main

\* nr.drain never goes back, whatever its goroutines do: neither a timer that
\* starts anew nor a retry lets it repeat a step.
THEOREM DrainAdvancesCorrect == Spec => DrainAdvances
<1>1. Init => TimeInv
  BY DEF Init, TimeInv
<1>2. TimeInv /\ [Next]_vars => [UNCHANGED main \/ Advances]_vars
  BY StepAdvances
<1>3. QED
  BY <1>1, <1>2, TimeInductive, PTL DEF Spec, DrainAdvances

-----------------------------------------------------------------------------
(***************************************************************************)
(* Deletions touch only pods that were listed, and evictions only those    *)
(* that have the name of one.  A goroutine that was started, in the        *)
(* current attempt or an abandoned one, is for a pod that its attempt      *)
(* listed, and an attempt lists only once.                                 *)
(***************************************************************************)
ListedInv ==
  /\ attempt \in 1..2
  /\ listed = [a \in 1..2 |-> listed[a]]
  /\ worker = [w \in Workers |-> worker[w]]
  /\ \A w \in Workers : worker[w] # "none" => PodOf(w) \in listed[AttemptOf(w)]
  /\ \A a \in 1..2 : a > attempt \/ (a = attempt /\ pc \in {"cordon", "list"}) => listed[a] = {}
  /\ pc \in {"cordon", "list", "select", "ok", "failed"}
  /\ NoBystander

\* More pods have more namesakes.
LEMMA MoreNamesakes ==
  ASSUME NEW P, NEW Q, P \subseteq Q
  PROVE  Namesakes(P) \subseteq Namesakes(Q)
  BY DEF Namesakes

\* Only listed pods have goroutines, and only theirs are deleted.
LEMMA ListedInductive == ListedInv /\ [Next]_vars => ListedInv'
<1> SUFFICES ASSUME ListedInv, [Next]_vars PROVE ListedInv'
  OBVIOUS
<1> USE DEF ListedInv, NoBystander, config, cluster, main, history
<1>1. ASSUME NEW w \in Workers PROVE AttemptOf(w) \in 1..2
  BY DEF Workers, AttemptOf
<1>2. ASSUME DrainFails, UNCHANGED <<opts, listed, worker, hit>>, pc # "ok", pc # "failed"
      PROVE  ListedInv'
  BY <1>2 DEF DrainFails
<1>3. CASE Cordon
  BY <1>3 DEF Cordon
<1>4. CASE CordonFails \/ ListFails \/ ReceiveErr \/ TimesOut
  BY <1>2, <1>4 DEF CordonFails, ListFails, ReceiveErr, TimesOut
<1>5. CASE List
  <2> DEFINE pods == {p \in here : Exists(p)}
  <2>1. /\ pc = "list" /\ pc' \in {"ok", "select"}
        /\ listed' = [listed EXCEPT ![attempt] = pods]
        /\ worker' = [w \in Workers |->
                        IF AttemptOf(w) = attempt /\ w[2] \in filterDaemonSets(pods)
                          THEN "call" ELSE worker[w]]
        /\ UNCHANGED <<opts, attempt, hit>>
    BY <1>5 DEF List
  <2> HIDE DEF pods
  <2>2. ASSUME NEW w \in Workers, worker'[w] # "none" PROVE PodOf(w) \in listed'[AttemptOf(w)]
    <3>1. CASE AttemptOf(w) = attempt /\ w[2] \in filterDaemonSets(pods)
      BY <2>1, <3>1 DEF filterDaemonSets, PodOf
    <3>2. CASE ~(AttemptOf(w) = attempt /\ w[2] \in filterDaemonSets(pods))
      <4>1. PodOf(w) \in listed[AttemptOf(w)]
        BY <2>1, <2>2, <3>2
      <4>2. AttemptOf(w) # attempt
        BY <2>1, <4>1
      <4>3. QED
        BY <1>1, <2>1, <4>1, <4>2
    <3>3. QED
      BY <3>1, <3>2
  <2>3. listed[attempt] = {}
    BY <2>1
  <2>4. listed[1] \subseteq listed'[1] /\ listed[2] \subseteq listed'[2]
    BY <2>1, <2>3
  <2>5. /\ listed' = [a \in 1..2 |-> listed'[a]]
        /\ worker' = [w \in Workers |-> worker'[w]]
    BY <2>1
  <2>6. \A a \in 1..2 : a > attempt' => listed'[a] = {}
    BY <2>1
  <2>7. pc' \in {"cordon", "list", "select", "ok", "failed"} /\ pc' \notin {"cordon", "list"}
    BY <2>1
  <2>8. NoBystander'
    <3>1. Namesakes(listed[1]) \subseteq Namesakes(listed'[1])
      BY <2>4, MoreNamesakes
    <3>2. QED
      BY <2>1, <2>4, <3>1
  <2>9. attempt' \in 1..2
    BY <2>1
  <2>10. QED
    BY <2>2, <2>5, <2>6, <2>7, <2>8, <2>9
<1>6. CASE ReceiveDone \/ Tick
  BY <1>6 DEF ReceiveDone, Tick
<1>7. ASSUME NEW w \in Workers, NEW s \in WorkerStates, worker[w] # "none",
             worker' = [worker EXCEPT ![w] = s], UNCHANGED <<config, main, hit>>
      PROVE  ListedInv'
  BY <1>7
<1>8. ASSUME NEW w \in Workers, Goroutine(w), UNCHANGED hit PROVE ListedInv'
  <2>1. worker[w] # "none" /\ UNCHANGED <<config, main>>
    BY <1>8 DEF Goroutine, CallAccepted, CallNotFound, CallRefused, CallFails, Wake, PollGone,
       PollFails, Unblock
  <2>2. \E s \in WorkerStates : worker' = [worker EXCEPT ![w] = s]
    BY <1>8 DEF Goroutine, CallAccepted, CallNotFound, CallRefused, CallFails, Wake, PollGone,
       PollFails, Unblock, SendDone, SendErr, WorkerStates
  <2>3. QED
    BY <1>7, <1>8, <2>1, <2>2
<1>9. ASSUME NEW w \in Workers, CallAccepted(w) \/ CallFails(w), ~(UNCHANGED hit) PROVE ListedInv'
  <2>1. PICK p \in Target(w) : hit' = hit \cup {p}
    BY <1>9 DEF CallAccepted, CallFails, Hit
  <2>2. worker[w] = "call" /\ UNCHANGED <<config, main>>
    BY <1>9 DEF CallAccepted, CallFails
  <2>3. \E s \in WorkerStates : worker' = [worker EXCEPT ![w] = s]
    BY <1>9 DEF CallAccepted, CallFails, SendErr, WorkerStates
  <2>4. PodOf(w) \in listed[AttemptOf(w)] /\ AttemptOf(w) \in 1..2
    BY <1>1, <2>2
  <2>5. CASE UsesEviction(AttemptOf(w))
    <3>1. opts.useEviction /\ PodOf(w) \in listed[1]
      BY <2>4, <2>5 DEF UsesEviction
    <3>2. p \in Pods /\ NameOf[p] = NameOf[PodOf(w)]
      BY <2>1, <2>5 DEF Target, Holders
    <3>3. p \in Namesakes(listed[1])
      BY <3>1, <3>2 DEF Namesakes
    <3>4. QED
      BY <2>1, <2>2, <2>3, <3>1, <3>3
  <2>6. CASE ~UsesEviction(AttemptOf(w))
    <3>1. p = PodOf(w)
      BY <2>1, <2>6 DEF Target
    <3>2. p \in listed[1] \cup listed[2]
      BY <2>4, <3>1
    <3>3. QED
      BY <2>1, <2>2, <2>3, <3>2
  <2>7. QED
    BY <2>5, <2>6
<1>10. ASSUME NEW w \in Workers, Goroutine(w) PROVE ListedInv'
  <2>1. UNCHANGED hit \/ CallAccepted(w) \/ CallFails(w)
    BY <1>10 DEF Goroutine, CallNotFound, CallRefused, Wake, PollGone, PollFails, Unblock
  <2>2. QED
    BY <1>8, <1>9, <1>10, <2>1
<1>11. ASSUME NEW p \in Pods, Create(p) \/ Stop(p) PROVE ListedInv'
  BY <1>11 DEF Create, Stop
<1>12. CASE UNCHANGED vars
  BY <1>12 DEF vars
<1>13. QED
  BY <1>3, <1>4, <1>5, <1>6, <1>10, <1>11, <1>12 DEF Next, Main

\* Whatever pods come and go under the same names, the drainer deletes only pods
\* that an attempt listed on the node, and evicts only those and, where the
\* configuration asks for evictions, namesakes of what the first attempt listed.
THEOREM NoBystanderCorrect == Spec => []NoBystander
<1>1. Init => ListedInv
  BY DEF Init, ListedInv, NoBystander
<1>2. ListedInv => NoBystander
  BY DEF ListedInv
<1>3. QED
  BY <1>1, <1>2, ListedInductive, PTL DEF Spec
=============================================================================
