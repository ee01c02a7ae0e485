---------------------------- MODULE TakedownProofs ----------------------------
(***************************************************************************)
(* Theorems of Takedown, for every set of pods, timeout and bound: what is *)
(* proved of the worker and of the drainer apart holds of the two together *)
(* and what they do together.                                              *)
(***************************************************************************)
EXTENDS Takedown, NodeReaperProofs

DrainP == INSTANCE DrainedProofs
            WITH opts         <- [useEviction |-> useEviction,
                                  force |-> cfg.drainForceRetryOnError],
                 copyCordoned <- ndCordoned,
                 cordoned     <- api[Host].cordoned,
                 pc           <- stage,
                 attempt      <- try,
                 worker       <- goroutine

-----------------------------------------------------------------------------
(***************************************************************************)
(* The definitions of the drainer are those its lemmas are about.          *)
(***************************************************************************)
\* The same text, with the variables of this module.
LEMMA DrainSame ==
  /\ Drain!Cordon <=> DrainP!Cordon
  /\ Drain!CordonFails <=> DrainP!CordonFails
  /\ Drain!List <=> DrainP!List
  /\ Drain!ListFails <=> DrainP!ListFails
  /\ Drain!ReceiveErr <=> DrainP!ReceiveErr
  /\ Drain!ReceiveDone <=> DrainP!ReceiveDone
  /\ Drain!TimesOut <=> DrainP!TimesOut
  /\ Drain!Tick <=> DrainP!Tick
  /\ \A w : Drain!Goroutine(w) <=> DrainP!Goroutine(w)
  /\ \A p : Drain!Create(p) <=> DrainP!Create(p)
  /\ \A p : Drain!Stop(p) <=> DrainP!Stop(p)
  /\ \A p : Drain!Movable(p) <=> DrainP!Movable(p)
  /\ \A p : Drain!Exists(p) <=> DrainP!Exists(p)
  /\ Drain!TypeOK <=> DrainP!TypeOK
  /\ Drain!Workers = DrainP!Workers
  BY DEF Drain!Cordon, DrainP!Cordon, Drain!CordonFails, DrainP!CordonFails, Drain!List,
         DrainP!List, Drain!ListFails, DrainP!ListFails, Drain!ReceiveErr, DrainP!ReceiveErr,
         Drain!ReceiveDone, DrainP!ReceiveDone, Drain!TimesOut, DrainP!TimesOut, Drain!Tick,
         DrainP!Tick, Drain!Goroutine, DrainP!Goroutine, Drain!CallAccepted, DrainP!CallAccepted,
         Drain!CallNotFound, DrainP!CallNotFound, Drain!CallRefused, DrainP!CallRefused,
         Drain!CallFails, DrainP!CallFails, Drain!Wake, DrainP!Wake, Drain!PollGone,
         DrainP!PollGone, Drain!PollFails, DrainP!PollFails, Drain!Unblock, DrainP!Unblock,
         Drain!Create, DrainP!Create, Drain!Stop, DrainP!Stop, Drain!TypeOK, DrainP!TypeOK,
         Drain!Movable, DrainP!Movable, Drain!Exists, DrainP!Exists, Drain!Workers,
         DrainP!Workers, Drain!Slots, DrainP!Slots, Drain!OtherOwners, DrainP!OtherOwners,
         Drain!AttemptOf, DrainP!AttemptOf, Drain!PodOf, DrainP!PodOf, Drain!Holders,
         DrainP!Holders, Drain!Expected, DrainP!Expected, Drain!UsesEviction,
         DrainP!UsesEviction, Drain!filterDaemonSets, DrainP!filterDaemonSets, Drain!ResetLoop,
         DrainP!ResetLoop, Drain!DrainFails, DrainP!DrainFails, Drain!SendDone, DrainP!SendDone,
         Drain!SendErr, DrainP!SendErr, Drain!Target, DrainP!Target, Drain!Hit, DrainP!Hit,
         Drain!IsDaemon, DrainP!IsDaemon, Drain!PodStates, DrainP!PodStates, Drain!WorkerStates,
         DrainP!WorkerStates, Drain!config, DrainP!config, Drain!cluster, DrainP!cluster,
         Drain!loop, DrainP!loop, Drain!main, DrainP!main, Drain!channels, DrainP!channels,
         Drain!history, DrainP!history, Drain!Cardinality, DrainP!Cardinality, Drain!IsFiniteSet,
         DrainP!IsFiniteSet

\* The assumptions of Drainer are those of this module.
LEMMA PodsFinite == DrainP!IsFiniteSet(Pods) /\ \A p \in Pods : OwnersOf[p] \in Seq(STRING)
  BY PodsAssumption DEF IsFiniteSet, DrainP!IsFiniteSet

-----------------------------------------------------------------------------
(***************************************************************************)
(* Every step is one of NodeReaper or leaves its variables alone; and for  *)
(* the drainer it is a step of Drainer, a fresh start, or a change that is *)
(* at most one of its node.                                                *)
(***************************************************************************)
\* The worker's steps are those of NodeReaper, whose drain Drainer refines.
LEMMA ReaperStep ==
  ASSUME [TakedownNext]_allVars
  PROVE  [Next]_vars /\ UNCHANGED settings
<1> USE DEF reaper, settings, allVars, vars, Next, Run, Controller, Environment
<1>1. CASE Work /\ UNCHANGED settings
  BY <1>1 DEF Work, Begin, Check, CordonHost, Emptied, AttemptFails, DrainerWorks, Finish
<1>2. CASE (Wait \/ Goroutines \/ PodsChange) /\ UNCHANGED settings
  BY <1>2 DEF Wait, Goroutines, PodsChange
<1>3. CASE RestartProcess /\ UNCHANGED settings
  BY <1>3 DEF RestartProcess
<1>4. CASE Watch /\ UNCHANGED settings
  BY <1>4, HostAssumption DEF Watch
<1>5. CASE UNCHANGED allVars
  BY <1>5
<1> QED
  BY <1>1, <1>2, <1>3, <1>4, <1>5 DEF TakedownNext

\* The reaper with the drainer in the place of its drain is still a node reaper:
\* what is proved of NodeReaper holds of every takedown.
THEOREM TakedownImplementsReaper == TakedownSpec => Spec
<1>1. TakedownInit => Init
  BY DEF TakedownInit
<1> QED
  BY <1>1, ReaperStep, PTL DEF TakedownSpec, Spec

Starts ==
  /\ FreshDrainer("cordon") \/ FreshDrainer("failed")
  /\ ndCordoned' \in BOOLEAN
  /\ UNCHANGED pods

Rests == UNCHANGED <<pods, drainer>>

\* What a step is to the drainer.
LEMMA DrainerStep ==
  ASSUME TypeOK, [TakedownNext]_allVars
  PROVE  \/ [DrainP!Next]_(DrainP!vars)
         \/ Starts
         \/ Rests
<1>1. CASE Begin
  <2>1. copy.cordoned \in BOOLEAN
    BY <1>1 DEF Begin, Assess, TypeOK, Node
  <2> QED
    BY <1>1, <2>1 DEF Begin, Starts
<1>2. CASE Check \/ Finish \/ Watch
  BY <1>2 DEF Check, Finish, Watch, Rests
<1>3. CASE CordonHost
  BY <1>3, DrainSame DEF CordonHost, DrainP!Next, DrainP!Main
<1>4. CASE Emptied \/ DrainerWorks
  BY <1>4, DrainSame DEF Emptied, DrainerWorks, DrainP!Next, DrainP!Main
<1>5. CASE AttemptFails
  BY <1>5, DrainSame DEF AttemptFails, DrainP!Next, DrainP!Main
<1>6. CASE Wait
  BY <1>6, DrainSame DEF Wait, DrainP!Next
<1>7. CASE Goroutines
  BY <1>7, DrainSame DEF Goroutines, DrainP!Next
<1>8. CASE PodsChange
  BY <1>8, DrainSame DEF PodsChange, DrainP!Next
<1>9. CASE RestartProcess
  BY <1>9 DEF RestartProcess, Starts
<1>10. CASE UNCHANGED allVars
  BY <1>10 DEF allVars, Rests
<1> QED
  BY <1>1, <1>2, <1>3, <1>4, <1>5, <1>6, <1>7, <1>8, <1>9, <1>10 DEF TakedownNext, Work

-----------------------------------------------------------------------------
(***************************************************************************)
(* The invariants of the drainer survive a fresh start and a node that     *)
(* others cordon or uncordon.                                              *)
(***************************************************************************)
DrainBase == DrainP!BaseInv /\ DrainP!WorkersInv /\ DrainP!CountInv /\ DrainP!AllRid

\* No step breaks what the drainer's proofs rest on.
LEMMA DrainBaseInductive ==
  ASSUME TypeOK, TypeOK', DrainBase, [TakedownNext]_allVars
  PROVE  DrainBase'
<1>1. UNCHANGED settings
  BY ReaperStep
<1>2. api'[Host].cordoned \in BOOLEAN
  BY HostAssumption DEF TypeOK, Node
<1>3. CASE [DrainP!Next]_(DrainP!vars)
  <2>1. DrainP!BaseInv'
    BY <1>3, DrainP!BaseStep, PodsFinite, TimeoutAssumption, ClientAssumption DEF DrainBase
  <2>2. DrainP!WorkersInv'
    BY <1>3, DrainP!WorkersStep, PodsFinite, TimeoutAssumption, ClientAssumption DEF DrainBase
  <2>3. DrainP!CountInv'
    BY <1>3, DrainP!CountStep, PodsFinite, TimeoutAssumption, ClientAssumption DEF DrainBase
  <2>4. DrainP!AllRid'
    BY <1>3, DrainP!AllRidStep, PodsFinite, TimeoutAssumption, ClientAssumption DEF DrainBase
  <2> QED
    BY <2>1, <2>2, <2>3, <2>4 DEF DrainBase
<1>4. CASE Starts
  <2>1. /\ stage' \in {"cordon", "failed"} /\ try' = 1
        /\ listed' = [a \in 1..2 |-> {}]
        /\ goroutine' = [w \in DrainP!Workers |-> "none"]
        /\ doneCh' = [a \in 1..2 |-> 0] /\ errCh' = [a \in 1..2 |-> 0]
        /\ doneCount' = 0 /\ waited' = 0 /\ elapsed' = 0
        /\ hit' = {} /\ misread' = {}
        /\ ndCordoned' \in BOOLEAN /\ UNCHANGED <<pod, here>>
    BY <1>4, DrainSame DEF Starts, FreshDrainer, pods
  <2>2. DrainP!BaseInv'
    <3>1. /\ listed' \in [1..2 -> SUBSET Pods]
          /\ goroutine' \in [DrainP!Workers -> DrainP!WorkerStates]
          /\ doneCh' \in [1..2 -> Nat] /\ errCh' \in [1..2 -> 0..1]
          /\ waited' \in 0..Timeout
      BY <2>1, TimeoutAssumption DEF DrainP!WorkerStates
    <3>2. \A a \in 1..2 : listed'[a] = {}
      BY <2>1
    <3> QED
      BY <1>1, <1>2, <2>1, <3>1, <3>2 DEF DrainBase, DrainP!BaseInv, settings
  <2>3. DrainP!WorkersInv'
    BY <2>1 DEF DrainP!WorkersInv
  <2>4. DrainP!CountInv'
    <3>1. ASSUME NEW a \in 1..2
          PROVE  /\ doneCh'[a] = 0 /\ DrainP!Counted(a)' = 0
                 /\ DrainP!Cardinality(DrainP!Cleared(a)') \in Nat
      <4>1. DrainP!Cleared(a)' \in SUBSET DrainP!Workers
        BY DEF DrainP!Cleared
      <4> QED
        BY <2>1, <4>1, DrainP!ClearedFinite, PodsFinite, TimeoutAssumption, ClientAssumption
           DEF DrainP!Counted
    <3> QED
      BY <2>1, <3>1 DEF DrainP!CountInv
  <2>5. DrainP!AllRid'
    BY <2>1 DEF DrainP!AllRid
  <2> QED
    BY <2>2, <2>3, <2>4, <2>5 DEF DrainBase
<1>5. CASE Rests
  <2> USE <1>5 DEF Rests, pods, drainer, DrainBase
  <2>1. DrainP!BaseInv'
    BY <1>1, <1>2 DEF DrainP!BaseInv, settings
  <2>2. DrainP!WorkersInv'
    BY DEF DrainP!WorkersInv, DrainP!Started
  <2>3. DrainP!CountInv'
    BY DEF DrainP!CountInv, DrainP!Counted, DrainP!Cleared, DrainP!Rid, DrainP!Exists
  <2>4. DrainP!AllRid'
    BY DEF DrainP!AllRid, DrainP!Rid, DrainP!Exists
  <2> QED
    BY <2>1, <2>2, <2>3, <2>4
<1> QED
  BY <1>3, <1>4, <1>5, DrainerStep

-----------------------------------------------------------------------------
(***************************************************************************)
(* Types.  TakedownOK is not inductive: between two drains the drainer     *)
(* keeps the end of the last one, and the worker brings only a first       *)
(* attempt to its checks.                                                  *)
(***************************************************************************)
Agree ==
  /\ pc = "drain" /\ ~cfg.dryRun <=> stage = "cordon"
  /\ pc = "evict" <=> stage \in {"list", "select"}
  /\ pc \in {"drain", "evict"} /\ ~cfg.dryRun => attempt = try /\ copy.cordoned = ndCordoned
  /\ pc = "list" => attempt = 1
  /\ pc = "evict" => ~cfg.dryRun
  /\ pc = "reap" /\ ~cfg.dryRun => stage = "ok"

\* The worker and the drainer fail an attempt, and retry it, together.
LEMMA FailTogether ==
  ASSUME Agree, DrainFails, Drain!DrainFails, UNCHANGED <<settings, ndCordoned>>,
         pc \in {"drain", "evict"}, ~cfg.dryRun
  PROVE  Agree'
<1> USE DEF Agree, settings
<1>1. attempt = try
  OBVIOUS
<1>2. CASE attempt = 1 /\ cfg.drainForceRetryOnError
  BY <1>1, <1>2 DEF DrainFails, Drain!DrainFails
<1>3. CASE ~(attempt = 1 /\ cfg.drainForceRetryOnError)
  BY <1>1, <1>3 DEF DrainFails, Drain!DrainFails, Return
<1> QED
  BY <1>2, <1>3

\* They agree after every step.
LEMMA AgreeInductive ==
  ASSUME TypeOK, Agree, [TakedownNext]_allVars
  PROVE  Agree'
<1>1. UNCHANGED settings
  BY ReaperStep
<1> USE <1>1 DEF Agree, settings
<1>2. CASE Begin
  <2>1. pc = "list" /\ UNCHANGED <<copy, attempt>>
    BY <1>2 DEF Begin, Assess, Goto, Return
  <2> QED
    BY <1>2, <2>1 DEF Begin, FreshDrainer
<1>3. ASSUME UNCHANGED drainer, pc \in {"list", "reap"} \/ (pc = "drain" /\ cfg.dryRun),
             \/ pc' = "idle"
             \/ pc' \in {"drain", "reap"} /\ cfg.dryRun
      PROVE  Agree'
  BY <1>3 DEF drainer
<1>4. CASE Check
  BY <1>3, <1>4 DEF Check, ListFails, DryDrain, Assess, Goto, Return
<1>5. CASE Finish
  BY <1>3, <1>5 DEF Finish, ReapDeclined, Reap, ReapFails, Return
<1>6. CASE CordonHost
  BY <1>6 DEF CordonHost, Cordon, Drain!Cordon, Goto, Drain!config
<1>7. CASE Emptied
  BY <1>7 DEF Emptied, Evict, Goto, Drain!List, Drain!ReceiveDone
<1>8. CASE DrainerWorks
  <2>1. UNCHANGED <<try, ndCordoned>> /\ stage \in {"list", "select"} /\ stage' = "select"
    BY <1>8 DEF DrainerWorks, Drain!List, Drain!ReceiveDone, Drain!config
  <2> QED
    BY <1>8, <2>1 DEF DrainerWorks, reaper, worker
<1>9. CASE AttemptFails
  <2>1. /\ DrainFails /\ Drain!DrainFails /\ pc \in {"drain", "evict"} /\ ~cfg.dryRun
        /\ UNCHANGED ndCordoned
    BY <1>9 DEF AttemptFails, CordonFails, EvictFails, Drain!CordonFails, Drain!ListFails,
       Drain!ReceiveErr, Drain!TimesOut, Drain!config
  <2> QED
    BY <2>1, FailTogether
<1>10. CASE Wait
  BY <1>10 DEF Wait, Drain!Tick, Drain!config, reaper, worker
<1>11. CASE Goroutines
  <2>1. UNCHANGED <<stage, try, ndCordoned>>
    BY <1>11 DEF Goroutines, Drain!Goroutine, Drain!CallAccepted, Drain!CallNotFound,
       Drain!CallRefused, Drain!CallFails, Drain!Wake, Drain!PollGone, Drain!PollFails,
       Drain!Unblock, Drain!main, Drain!config
  <2> QED
    BY <1>11, <2>1 DEF Goroutines, reaper, worker
<1>12. CASE PodsChange
  BY <1>12 DEF PodsChange, Drain!Create, Drain!Stop, Drain!main, Drain!config, reaper, worker
<1>13. CASE RestartProcess
  BY <1>13 DEF RestartProcess, Restart, Return, FreshDrainer
<1>14. CASE Watch
  <2>1. UNCHANGED drainer
    BY <1>14 DEF Watch
  <2>2. CASE Process(Host) /\ ~UNCHANGED worker
    BY <2>1, <2>2 DEF Process, drainer
  <2>3. CASE UNCHANGED worker
    BY <2>1, <2>3 DEF worker, drainer
  <2> QED
    BY <1>14, <2>2, <2>3 DEF Watch, Deliver, Resync, Environment, Administer, Remove, Report,
       Register, Age
<1>15. CASE UNCHANGED allVars
  BY <1>15 DEF allVars, reaper, worker, drainer
<1> QED
  BY <1>2, <1>4, <1>5, <1>6, <1>7, <1>8, <1>9, <1>10, <1>11, <1>12, <1>13, <1>14, <1>15
  DEF TakedownNext, Work

\* The invariants of the two parts and their agreement.
WholeInv == TypeOK /\ DrainBase /\ Agree

\* A new process starts with them.
LEMMA WholeInit == TakedownInit => WholeInv
<1> SUFFICES ASSUME TakedownInit PROVE WholeInv
  OBVIOUS
<1>1. TypeOK
  BY TypeInit DEF TakedownInit
<1>2. Agree
  BY DEF TakedownInit, Init, Agree
<1>3. DrainP!BaseInv
  <2>1. cfg.drainForceRetryOnError \in BOOLEAN /\ api[Host].cordoned \in BOOLEAN
    BY <1>1, ConfigAssumption, HostAssumption DEF TypeOK, Config, Node
  <2>2. /\ pod \in [Pods -> DrainP!PodStates] /\ here \subseteq Pods
        /\ \A p \in here : pod[p] # "unborn"
    BY DEF TakedownInit, DrainP!PodStates, Drain!Exists
  <2>3. /\ listed \in [1..2 -> SUBSET Pods] /\ \A a \in 1..2 : listed[a] = {}
        /\ goroutine \in [DrainP!Workers -> DrainP!WorkerStates]
        /\ doneCh \in [1..2 -> Nat] /\ errCh \in [1..2 -> 0..1]
        /\ waited \in 0..Timeout
    BY DrainSame, TimeoutAssumption DEF TakedownInit, DrainP!WorkerStates
  <2>4. [useEviction |-> useEviction, force |-> cfg.drainForceRetryOnError]
          \in [useEviction : BOOLEAN, force : BOOLEAN]
    BY <2>1 DEF TakedownInit
  <2>5. ndCordoned \in BOOLEAN
    BY DEF TakedownInit
  <2>6. /\ hit \subseteq Pods /\ misread \subseteq Pods
        /\ stage \in {"cordon", "list", "select", "ok", "failed"} /\ try \in 1..2
        /\ doneCount \in Nat /\ elapsed \in Nat
    BY DEF TakedownInit
  <2> QED
    BY <2>1, <2>2, <2>3, <2>4, <2>5, <2>6 DEF DrainP!BaseInv
<1>4. DrainP!WorkersInv
  BY DrainSame DEF TakedownInit, DrainP!WorkersInv
<1>5. DrainP!CountInv
  <2>1. ASSUME NEW a \in 1..2
        PROVE  /\ doneCh[a] = 0 /\ DrainP!Counted(a) = 0
               /\ DrainP!Cardinality(DrainP!Cleared(a)) \in Nat
    <3>1. DrainP!Cleared(a) \in SUBSET DrainP!Workers
      BY DEF DrainP!Cleared
    <3> QED
      BY <3>1, DrainP!ClearedFinite, PodsFinite, TimeoutAssumption, ClientAssumption
         DEF TakedownInit, DrainP!Counted
  <2> QED
    BY <2>1 DEF TakedownInit, DrainP!CountInv
<1>6. DrainP!AllRid
  BY DEF TakedownInit, DrainP!AllRid
<1> QED
  BY <1>1, <1>2, <1>3, <1>4, <1>5, <1>6 DEF WholeInv, DrainBase

\* Every takedown keeps them.
LEMMA WholeAlways == TakedownSpec => []WholeInv
<1>1. ASSUME WholeInv, [TakedownNext]_allVars PROVE WholeInv'
  <2>1. TypeOK'
    BY <1>1, ReaperStep, TypeInductive DEF WholeInv
  <2> QED
    BY <1>1, <2>1, DrainBaseInductive, AgreeInductive DEF WholeInv
<1> QED
  BY <1>1, WholeInit, PTL DEF TakedownSpec

\* The worker's idea of where its drain is and the drainer's own never part,
\* through retries, restarts and the goroutines that outlive an attempt, and no
\* success of a goroutine ever waits for room.
THEOREM TakedownTypes == TakedownSpec => []TakedownOK
<1>1. ASSUME WholeInv PROVE TakedownOK
  <2>1. DrainP!TypeOK
    BY <1>1, DrainP!InvTypes, PodsFinite, TimeoutAssumption, ClientAssumption
       DEF WholeInv, DrainBase
  <2> QED
    BY <1>1, <2>1, DrainSame DEF WholeInv, Agree, TakedownOK
<1> QED
  BY <1>1, WholeAlways, PTL

-----------------------------------------------------------------------------
(***************************************************************************)
(* The counters.  CountersAgree speaks of an idle worker; while one is     *)
(* busy with a drain it has begun, that drain is the one not accounted for.*)
(***************************************************************************)
Reaps == ~cfg.dryRun /\ ~SkipReaping

CountersInv ==
  /\ drainTotal \in Nat /\ drainFail \in Nat /\ reapTotal \in Nat /\ reapFail \in Nat
  /\ reapFail <= reapTotal
  /\ cfg.dryRun => drainTotal = 0
  /\ ~Reaps => reapTotal = 0
  /\ Reaps => drainTotal = drainFail + reapTotal + (IF Busy THEN 1 ELSE 0)

\* A drain is counted once when it begins and once when it ends.
LEMMA CountersInductive ==
  ASSUME TypeOK, CountersInv, [TakedownNext]_allVars
  PROVE  CountersInv'
<1>1. UNCHANGED settings /\ (Reaps' <=> Reaps)
  BY ReaperStep DEF settings, Reaps, SkipReaping
<1> USE <1>1 DEF CountersInv, Busy, settings
<1>2. ASSUME UNCHANGED counters, Reaps => (Busy' <=> Busy) PROVE CountersInv'
  BY <1>2 DEF counters
<1>3. CASE Begin
  <2>1. pc = "list" /\ pc' = "drain" /\ ~cfg.dryRun /\ drainTotal' = drainTotal + 1
        /\ UNCHANGED <<drainFail, reapTotal, reapFail>>
    BY <1>3 DEF Begin, Assess
  <2> QED
    BY <2>1
<1>4. CASE Check
  BY <1>2, <1>4 DEF Check, ListFails, DryDrain, Assess, Goto, Return, Reaps
<1>5. CASE CordonHost \/ Emptied
  BY <1>2, <1>5 DEF CordonHost, Emptied, Cordon, Evict, Goto
<1>6. CASE AttemptFails
  <2>1. Busy /\ (Busy' \/ pc' = "idle") /\ CountDrainFail
    BY <1>6 DEF AttemptFails, CordonFails, EvictFails, DrainFails, Return
  <2>2. CASE pc' = "idle"
    <3>1. drainFail' = drainFail + 1 /\ UNCHANGED <<drainTotal, reapTotal, reapFail>>
      BY <2>1, <2>2 DEF CountDrainFail
    <3> QED
      BY <2>1, <2>2, <3>1
  <2>3. CASE pc' # "idle"
    BY <1>2, <2>1, <2>3 DEF CountDrainFail, counters
  <2> QED
    BY <2>2, <2>3
<1>7. CASE DrainerWorks \/ Wait \/ Goroutines \/ PodsChange
  BY <1>2, <1>7 DEF DrainerWorks, Wait, Goroutines, PodsChange, reaper, worker
<1>8. CASE Finish
  <2>1. pc = "reap" /\ pc' = "idle"
    BY <1>8 DEF Finish, ReapDeclined, Reap, ReapFails, Return
  <2>2. ASSUME NEW failed \in BOOLEAN, Reaps, CountReap(failed) PROVE CountersInv'
    <3>1. /\ reapTotal' = reapTotal + 1 /\ UNCHANGED <<drainTotal, drainFail>>
          /\ reapFail' \in {reapFail, reapFail + 1}
      BY <2>2 DEF CountReap
    <3> QED
      BY <2>1, <2>2, <3>1 DEF Reaps
  <2>3. CASE ~Reaps /\ UNCHANGED counters
    BY <1>2, <2>3
  <2>4. \/ ~Reaps /\ UNCHANGED counters
        \/ Reaps /\ (CountReap(TRUE) \/ CountReap(FALSE))
    BY <1>8 DEF Finish, Reap, ReapFails, CanReap, Reaps
  <2> QED
    BY <2>2, <2>3, <2>4
<1>9. CASE RestartProcess
  <2>1. pc' = "idle" /\ ResetCounters
    BY <1>9 DEF RestartProcess, Restart, Return
  <2> QED
    BY <2>1 DEF ResetCounters
<1>10. CASE Watch
  <2>1. UNCHANGED counters
    BY <1>10 DEF Watch
  <2>2. Busy' <=> Busy
    BY <1>10 DEF Watch, Process, Deliver, Resync, Environment, Administer, Remove, Report,
       Register, Age, worker
  <2> QED
    BY <1>2, <2>1, <2>2
<1>11. CASE UNCHANGED allVars
  BY <1>2, <1>11 DEF allVars, reaper, worker
<1> QED
  BY <1>3, <1>4, <1>5, <1>6, <1>7, <1>8, <1>9, <1>10, <1>11 DEF TakedownNext, Work

\* The metrics never lose or invent a drain: through retries, refusals and
\* restarts each one begun is, once the worker is idle, a failure or a reap.
THEOREM CountersCorrect == TakedownSpec => []CountersAgree
<1>1. TakedownInit => CountersInv
  BY DEF TakedownInit, Init, CountersInv, Busy
<1>2. ASSUME CountersInv PROVE CountersAgree
  BY <1>2 DEF CountersInv, CountersAgree, Reaps, Busy
<1> QED
  BY <1>1, <1>2, WholeAlways, CountersInductive, PTL DEF TakedownSpec, WholeInv

-----------------------------------------------------------------------------
(***************************************************************************)
(* What is left on a node when its instance goes.                          *)
(***************************************************************************)
\* While the node the reaper cordoned stays so, nothing movable is on it that
\* the attempt did not list.
NoneSlippedIn ==
  stage \in {"select", "ok"} /\ Host \in quarantined =>
    \A p \in here : DrainP!Movable(p) /\ DrainP!Exists(p) => p \in listed[try]

\* The node joins the quarantine before the pods are listed.
LEMMA JoinsBeforeList ==
  ASSUME TypeOK, Agree, [TakedownNext]_allVars, Host \notin quarantined, Host \in quarantined'
  PROVE  stage' \notin {"select", "ok"}
<1> USE DEF reaper, cluster
<1>1. CASE Begin \/ Check
  BY <1>1 DEF Begin, Check, ListFails, DryDrain, Assess
<1>2. CASE CordonHost
  BY <1>2 DEF CordonHost, Drain!Cordon
<1>3. CASE AttemptFails
  BY <1>3 DEF AttemptFails, Drain!CordonFails, Drain!ListFails, Drain!ReceiveErr,
     Drain!TimesOut, Drain!DrainFails
<1>4. CASE Emptied \/ DrainerWorks \/ Finish
  BY <1>4 DEF Emptied, Evict, DrainerWorks, Finish, ReapDeclined, Reap, ReapFails
<1>5. CASE Wait \/ Goroutines \/ PodsChange
  BY <1>5 DEF Wait, Goroutines, PodsChange
<1>6. CASE RestartProcess
  BY <1>6 DEF RestartProcess, FreshDrainer
<1>7. CASE Watch
  BY <1>7 DEF Watch, Process, Deliver, Resync, Environment, Administer, Remove, Report,
     Register, Age
<1>8. CASE UNCHANGED allVars
  BY <1>8 DEF allVars
<1> QED
  BY <1>1, <1>2, <1>3, <1>4, <1>5, <1>6, <1>7, <1>8 DEF TakedownNext, Work

\* Nothing movable comes to the node between the list and the provider's call.
LEMMA NoneSlippedInInductive ==
  ASSUME WholeInv, QuarantinedAreCordoned, NoneSlippedIn, [TakedownNext]_allVars
  PROVE  NoneSlippedIn'
<1>1. QuarantinedAreCordoned'
  BY ReaperStep, CordonedInductive DEF WholeInv
<1>2. CASE Host \notin quarantined
  BY <1>2, JoinsBeforeList DEF WholeInv, NoneSlippedIn
<1>3. CASE Host \in quarantined /\ [DrainP!Next]_(DrainP!vars)
  <2>1. DrainP!NoneUnlisted
    BY <1>3 DEF NoneSlippedIn, DrainP!NoneUnlisted
  <2>2. DrainP!NoneUnlisted'
    BY <1>3, <2>1, DrainP!NoneUnlistedStep, PodsFinite, TimeoutAssumption, ClientAssumption
       DEF WholeInv, DrainBase
  <2> QED
    BY <1>1, <2>2 DEF QuarantinedAreCordoned, DrainP!NoneUnlisted, NoneSlippedIn
<1>4. CASE Starts
  BY <1>4 DEF Starts, FreshDrainer, NoneSlippedIn
<1>5. CASE Host \in quarantined /\ Rests
  BY <1>5 DEF Rests, pods, drainer, NoneSlippedIn, DrainP!Movable, DrainP!Exists,
     DrainP!OtherOwners
<1> QED
  BY <1>2, <1>3, <1>4, <1>5, DrainerStep DEF WholeInv

\* Only a reap of a node that was drained terminates an instance.
LEMMA ReapStep ==
  ASSUME WholeInv, [TakedownNext]_allVars, terminated' # terminated
  PROVE  stage = "ok"
<1> USE DEF reaper, cluster
<1>1. CASE Finish
  <2>1. pc = "reap" /\ ~cfg.dryRun
    BY <1>1 DEF Finish, ReapDeclined, Reap, ReapFails, CanReap
  <2> QED
    BY <2>1 DEF WholeInv, Agree
<1>2. CASE Begin \/ Check \/ CordonHost \/ Emptied \/ AttemptFails \/ DrainerWorks
  BY <1>2 DEF Begin, Check, ListFails, DryDrain, Assess, CordonHost, Cordon, Emptied, Evict,
     AttemptFails, CordonFails, EvictFails, DrainerWorks
<1>3. CASE Wait \/ Goroutines \/ PodsChange
  BY <1>3 DEF Wait, Goroutines, PodsChange
<1>4. CASE RestartProcess
  BY <1>4 DEF RestartProcess, Restart
<1>5. CASE Watch
  BY <1>5 DEF Watch, Process, Deliver, Resync, Environment, Administer, Remove, Report,
     Register, Age
<1>6. CASE UNCHANGED allVars
  BY <1>6 DEF allVars
<1> QED
  BY <1>1, <1>2, <1>3, <1>4, <1>5, <1>6 DEF TakedownNext, Work

\* With a server that can evict, no instance is terminated under a movable pod
\* of a node that has stayed cordoned, but for pods whose Get failed: nothing
\* came in since the list, and every listed pod was waited for.
THEOREM ReapedWasEmptiedCorrect ==
  ASSUME EvictionSupported PROVE TakedownSpec => ReapedWasEmptied
<1> DEFINE Inv == WholeInv /\ QuarantinedAreCordoned /\ NoneSlippedIn
<1>1. TakedownInit => QuarantinedAreCordoned /\ NoneSlippedIn
  BY DEF TakedownInit, Init, QuarantinedAreCordoned, NoneSlippedIn
<1>2. WholeInv /\ QuarantinedAreCordoned /\ [TakedownNext]_allVars => QuarantinedAreCordoned'
  BY ReaperStep, CordonedInductive DEF WholeInv
<1>3. ASSUME WholeInv, NoneSlippedIn, [TakedownNext]_allVars,
             terminated' # terminated, Host \in quarantined,
             NEW p \in here, Drain!Movable(p), Drain!Exists(p)
      PROVE  p \in misread
  <2>1. stage = "ok" /\ DrainP!Movable(p) /\ DrainP!Exists(p)
    BY <1>3, ReapStep, DrainSame
  <2>2. p \in listed[try] /\ p \in Pods
    BY <1>3, <2>1 DEF NoneSlippedIn, WholeInv, DrainBase, DrainP!BaseInv
  <2>3. PICK i \in DrainP!OtherOwners(p) : TRUE
    BY <2>1 DEF DrainP!Movable
  <2>4. <<p, i>> \in DrainP!filterDaemonSets(listed[try])
    BY <2>2, <2>3 DEF DrainP!filterDaemonSets, DrainP!Slots
  <2>5. DrainP!Rid(p)
    BY <1>3, <2>1, <2>4 DEF WholeInv, DrainBase, DrainP!AllRid
  <2> QED
    BY <2>1, <2>5 DEF DrainP!Rid
<1>4. WholeInv /\ NoneSlippedIn /\ [TakedownNext]_allVars =>
        [terminated' # terminated /\ Host \in quarantined =>
           \A p \in here : Drain!Movable(p) /\ Drain!Exists(p) => p \in misread]_allVars
  BY <1>3
<1> QED
  BY <1>1, <1>2, <1>4, WholeAlways, NoneSlippedInInductive, PTL
     DEF TakedownSpec, ReapedWasEmptied
=============================================================================
