------------------------------- MODULE Takedown -------------------------------
(***************************************************************************)
(* A node taken down: NodeReaper's worker with Drainer in the place of its *)
(* drain, and the counters of pkg/metrics.  The steps Cordon, CordonFails, *)
(* Evict and EvictFails of NodeReaper are steps of the drainer here; in    *)
(* between come its goroutines, its timer and the pods.  The goroutines a  *)
(* drain leaves behind go on after it, until they end or the process does. *)
(***************************************************************************)
EXTENDS NodeReaper, Sequences

CONSTANTS
  Host,               \* the node; it is the only one
  Pods, NameOf, OwnersOf, Timeout, ErrorCarriesPod, EvictionSupported,
  MaxDrains           \* bound: drains of one process

ASSUME HostAssumption  == Nodes = {Host}
ASSUME PodsAssumption == IsFiniteSet(Pods) /\ \A p \in Pods : OwnersOf[p] \in Seq(STRING)
ASSUME TimeoutAssumption == Timeout \in Nat \ {0}
ASSUME ClientAssumption == ErrorCarriesPod \in BOOLEAN /\ EvictionSupported \in BOOLEAN
ASSUME DrainsAssumption == MaxDrains \in Nat

VARIABLES
  useEviction,        \* cfg.UseEviction
  ndCordoned,         \* the drainer's copy of the node, if it is cordoned
  pod, here,          \* the pods, and those bound to the node
  stage, try,         \* the drainer's main goroutine
  listed, goroutine, doneCh, errCh, doneCount, waited, elapsed, hit, misread,
  drainTotal, drainFail, reapTotal, reapFail

Drain == INSTANCE Drainer
           WITH opts         <- [useEviction |-> useEviction,
                                 force |-> cfg.drainForceRetryOnError],
                copyCordoned <- ndCordoned,
                cordoned     <- api[Host].cordoned,
                pc           <- stage,
                attempt      <- try,
                worker       <- goroutine

pods     == <<pod, here>>
drainer  == <<ndCordoned, stage, try, listed, goroutine, doneCh, errCh,
              doneCount, waited, elapsed, hit, misread>>
counters == <<drainTotal, drainFail, reapTotal, reapFail>>
settings == <<cfg, useEviction>>
reaper   == <<cluster, informer, worker, bounds>>
allVars  == <<settings, reaper, pods, drainer, counters>>

-----------------------------------------------------------------------------
(***************************************************************************)
(* The counters.                                                           *)
(***************************************************************************)
\* Mutant: the failure of each attempt is counted.
CountEveryFailure == drainFail' = drainFail + 1 /\ UNCHANGED <<drainTotal, reapTotal, reapFail>>

\* A drain counts as failed once, when no attempt is left.
CountDrainFail ==
  /\ drainFail' = IF pc' = "idle" THEN drainFail + 1 ELSE drainFail
  /\ UNCHANGED <<drainTotal, reapTotal, reapFail>>

\* A reap counts before the provider is looked up; that it is declined for
\* want of a provider, or fails, counts besides.
CountReap(failed) ==
  /\ reapTotal' = reapTotal + 1
  /\ reapFail' = IF failed THEN reapFail + 1 ELSE reapFail
  /\ UNCHANGED <<drainTotal, drainFail>>

ResetCounters == drainTotal' = 0 /\ drainFail' = 0 /\ reapTotal' = 0 /\ reapFail' = 0

-----------------------------------------------------------------------------
(***************************************************************************)
(* The worker.                                                             *)
(***************************************************************************)
\* No goroutine of an earlier drain still does anything; one that waits for
\* room in a channel nobody reads never will.
Settled == \A w \in Drain!Workers : goroutine[w] \in {"none", "end", "blocked"}

\* The drainer's state in a process that drains nothing.
FreshDrainer(first) ==
  /\ stage' = first /\ try' = 1
  /\ listed' = [a \in 1..2 |-> {}]
  /\ goroutine' = [w \in Drain!Workers |-> "none"]
  /\ doneCh' = [a \in 1..2 |-> 0] /\ errCh' = [a \in 1..2 |-> 0]
  /\ doneCount' = 0 /\ waited' = 0 /\ elapsed' = 0
  /\ hit' = {} /\ misread' = {}

\* The checks pass and nr.drain makes a NodeDrainer of the copy.
Begin ==
  /\ Assess /\ pc' = "drain"
  /\ ~cfg.dryRun
  /\ Settled /\ drainTotal < MaxDrains
  /\ FreshDrainer("cordon")
  /\ ndCordoned' = copy.cordoned
  /\ drainTotal' = drainTotal + 1
  /\ UNCHANGED <<pods, drainFail, reapTotal, reapFail>>

\* What Run does without the drainer, or before it.
Check ==
  /\ ListFails \/ DryDrain \/ (Assess /\ (pc' = "idle" \/ cfg.dryRun))
  /\ UNCHANGED <<pods, drainer, counters>>

CordonHost == Cordon /\ Drain!Cordon /\ UNCHANGED counters

Emptied == Evict /\ (Drain!List \/ Drain!ReceiveDone) /\ stage' = "ok" /\ UNCHANGED counters

AttemptFails ==
  /\ \/ CordonFails /\ Drain!CordonFails
     \/ EvictFails /\ (Drain!ListFails \/ Drain!ReceiveErr \/ Drain!TimesOut)
  /\ CountDrainFail

\* The drainer goes on, and the worker waits for it.
DrainerWorks ==
  /\ UNCHANGED reaper
  /\ (Drain!List \/ Drain!ReceiveDone) /\ stage' # "ok"
  /\ UNCHANGED counters

Finish ==
  /\ \/ ReapDeclined /\ IF cfg.dryRun \/ SkipReaping THEN UNCHANGED counters ELSE CountReap(TRUE)
     \/ Reap /\ CountReap(FALSE)
     \/ ReapFails /\ CountReap(TRUE)
  /\ UNCHANGED <<pods, drainer>>

Work == Begin \/ Check \/ CordonHost \/ Emptied \/ AttemptFails \/ DrainerWorks \/ Finish

-----------------------------------------------------------------------------
Wait == UNCHANGED reaper /\ Drain!Tick /\ UNCHANGED counters

Goroutines ==
  /\ UNCHANGED reaper
  /\ \E w \in Drain!Workers : Drain!Goroutine(w)
  /\ UNCHANGED counters

\* A pod is bound to the node only while its object is there.
PodsChange ==
  /\ UNCHANGED reaper
  /\ \E p \in Pods : (Drain!Create(p) /\ (api[Host].live \/ here' = here)) \/ Drain!Stop(p)
  /\ UNCHANGED counters

\* The goroutines and the counters die with the process.
RestartProcess ==
  /\ Restart
  /\ FreshDrainer("failed")
  /\ ndCordoned' = FALSE
  /\ ResetCounters
  /\ UNCHANGED pods

Watch ==
  /\ Process(Host) \/ Deliver(Host) \/ Resync \/ Environment
  /\ UNCHANGED <<pods, drainer, counters>>

TakedownInit ==
  /\ Init /\ api[Host].cordoned = FALSE /\ young = {}
  /\ useEviction \in BOOLEAN
  /\ ndCordoned = FALSE
  /\ pod \in [Pods -> {"unborn", "running"}]
  /\ \A p, q \in Pods : Drain!Exists(p) /\ Drain!Exists(q) /\ NameOf[p] = NameOf[q] => p = q
  /\ here \in SUBSET {p \in Pods : Drain!Exists(p)}
  /\ stage = "failed" /\ try = 1
  /\ listed = [a \in 1..2 |-> {}]
  /\ goroutine = [w \in Drain!Workers |-> "none"]
  /\ doneCh = [a \in 1..2 |-> 0] /\ errCh = [a \in 1..2 |-> 0]
  /\ doneCount = 0 /\ waited = 0 /\ elapsed = 0
  /\ hit = {} /\ misread = {}
  /\ drainTotal = 0 /\ drainFail = 0 /\ reapTotal = 0 /\ reapFail = 0

TakedownNext ==
  /\ UNCHANGED settings
  /\ Work \/ Wait \/ Goroutines \/ PodsChange \/ RestartProcess \/ Watch

TakedownSpec ==
  /\ TakedownInit /\ [][TakedownNext]_allVars
  /\ WF_allVars(UNCHANGED settings /\ Work)
  /\ WF_allVars(UNCHANGED settings /\ Wait)

-----------------------------------------------------------------------------
(***************************************************************************)
(* Properties.                                                             *)
(***************************************************************************)
\* The worker and the drainer agree on where the drain is and on the attempt,
\* and neither leaves its own range.
TakedownOK ==
  /\ TypeOK /\ Drain!TypeOK
  /\ pc = "drain" /\ ~cfg.dryRun <=> stage = "cordon"
  /\ pc = "evict" <=> stage \in {"list", "select"}
  /\ pc \in {"drain", "evict"} /\ ~cfg.dryRun => attempt = try /\ copy.cordoned = ndCordoned

\* An instance is terminated only after its node was emptied: a node that has
\* stayed cordoned since the drain has no movable pod left when the provider is
\* called, but for pods whose Get failed.
ReapedWasEmptied ==
  [][terminated' # terminated /\ Host \in quarantined =>
       \A p \in here : Drain!Movable(p) /\ Drain!Exists(p) => p \in misread]_allVars

\* The counters tell the truth while the worker is idle: every drain that was
\* begun has failed or has led to a reap, whichever way it went, and nothing is
\* counted that the configuration forbids.
CountersAgree ==
  /\ reapFail <= reapTotal
  /\ cfg.dryRun => drainTotal = 0
  /\ cfg.dryRun \/ SkipReaping => reapTotal = 0
  /\ pc = "idle" /\ ~cfg.dryRun /\ ~SkipReaping => drainTotal = drainFail + reapTotal

\* The worker of the sequential controller becomes free again, although any
\* call of a drain's goroutines may hang for ever: what module NodeReaper
\* assumes of Run.
WorkerReturns == pc # "idle" ~> pc = "idle"
=============================================================================
