------------------------------- MODULE Drainer -------------------------------
(***************************************************************************)
(* pkg/drainer: emptying one node, as nr.drain calls it: a first attempt   *)
(* with the configured options and perhaps a forced second one.  An        *)
(* attempt cordons the node, lists its pods and starts one goroutine per   *)
(* listed pod and owner; the main goroutine selects between their errors,  *)
(* their successes and a timer.  Nobody stops the goroutines of an attempt *)
(* that has returned: they go on during the second attempt and after it.   *)
(*                                                                         *)
(* A pod is its UID; names are reused by replacements (a StatefulSet's     *)
(* pods).  The API server, the scheduler and the kubelets are external.    *)
(***************************************************************************)
EXTENDS Integers, FiniteSets, Sequences

CONSTANTS
  Pods,               \* the pods of the cluster, by UID, born or not
  NameOf,             \* [Pods -> names], namespace included
  OwnersOf,           \* [Pods -> sequences of kinds]: the owner references
  Timeout,            \* DrainTimeout, in ticks
  ErrorCarriesPod,    \* Get returns an empty pod, not nil, with an error
  EvictionSupported   \* the server has the eviction subresource

ASSUME PodsAssumption == IsFiniteSet(Pods) /\ \A p \in Pods : OwnersOf[p] \in Seq(STRING)
ASSUME TimeoutAssumption == Timeout \in Nat \ {0}
ASSUME ClientAssumption == ErrorCarriesPod \in BOOLEAN /\ EvictionSupported \in BOOLEAN

VARIABLES
  opts,          \* UseEviction and DrainForceRetryOnError
  copyCordoned,  \* nd.Node.Spec.Unschedulable, of the cached copy
  cordoned,      \* the same of the node itself
  pod,           \* [Pods -> PodStates]
  here,          \* the pods bound to the node
  pc, attempt,   \* the main goroutine
  listed,        \* the pods each attempt listed
  worker,        \* [Workers -> WorkerStates]: the goroutines
  doneCh, errCh, \* messages in each attempt's channels; errCh holds one
  doneCount,     \* the main goroutine's count of successes
  waited,        \* ticks since the select armed its timer
  elapsed,       \* ticks since the attempt's goroutines were started
  hit,           \* history: pods evicted or deleted by the drainer
  misread        \* history: pods a failed Get declared deleted

config   == <<opts, copyCordoned>>
cluster  == <<cordoned, pod, here>>
loop     == <<doneCount, waited, elapsed>>
main     == <<pc, attempt, listed, loop>>
channels == <<doneCh, errCh>>
history  == <<hit, misread>>
vars     == <<config, cluster, main, worker, channels, history>>

PodStates    == {"unborn", "running", "terminating", "gone"}
WorkerStates == {"none", "call", "backoff", "poll", "blocked", "end"}

Exists(p) == pod[p] \in {"running", "terminating"}

Holders(name) == {p \in Pods : Exists(p) /\ NameOf[p] = name}

(***************************************************************************)
(* filterDaemonSets keeps a pod once for every owner that is no DaemonSet. *)
(***************************************************************************)
OtherOwners(p) == {i \in DOMAIN OwnersOf[p] : OwnersOf[p][i] # "DaemonSet"}

Slots == UNION {{p} \X OtherOwners(p) : p \in Pods}

filterDaemonSets(pods) == {s \in Slots : s[1] \in pods}

Workers  == (1..2) \X Slots
AttemptOf(w) == w[1]
PodOf(w)     == w[2][1]

\* len(pods), the capacity of doneCh.
Expected(a) == Cardinality(filterDaemonSets(listed[a]))

\* The second attempt always deletes.
UsesEviction(a) == a = 1 /\ opts.useEviction

-----------------------------------------------------------------------------
(***************************************************************************)
(* The main goroutine.                                                     *)
(***************************************************************************)
ResetLoop == doneCount' = 0 /\ waited' = 0 /\ elapsed' = 0

\* Mutant: the forced attempt takes the node for cordoned.
RetrySkipsCordon ==
  /\ IF attempt = 1 /\ opts.force
       THEN pc' = "list" /\ attempt' = 2
       ELSE pc' = "failed" /\ UNCHANGED attempt
  /\ ResetLoop

DrainFails ==
  /\ IF attempt = 1 /\ opts.force
       THEN pc' = "cordon" /\ attempt' = 2
       ELSE pc' = "failed" /\ UNCHANGED attempt
  /\ ResetLoop

Cordon ==
  /\ pc = "cordon"
  /\ cordoned' = IF copyCordoned THEN cordoned ELSE TRUE
  /\ pc' = "list"
  /\ UNCHANGED <<config, pod, here, attempt, listed, loop, worker, channels, history>>

CordonFails ==
  /\ pc = "cordon" /\ ~copyCordoned
  /\ cordoned' \in {cordoned, TRUE}
  /\ DrainFails
  /\ UNCHANGED <<config, pod, here, listed, worker, channels, history>>

\* Discovery, or the list of the node's pods, fails.
ListFails ==
  /\ pc = "list"
  /\ DrainFails
  /\ UNCHANGED <<config, cluster, listed, worker, channels, history>>

\* Mutant: pods that are terminating already are not listed.
ListRunning ==
  /\ pc = "list"
  /\ LET pods == {p \in here : pod[p] = "running"}
         slots == filterDaemonSets(pods)
     IN /\ listed' = [listed EXCEPT ![attempt] = pods]
        /\ pc' = IF slots = {} THEN "ok" ELSE "select"
        /\ worker' = [w \in Workers |->
                        IF AttemptOf(w) = attempt /\ w[2] \in slots THEN "call" ELSE worker[w]]
  /\ ResetLoop
  /\ UNCHANGED <<config, cluster, attempt, channels, history>>

\* The pods are listed and a goroutine is started for each; no pod, no wait.
List ==
  /\ pc = "list"
  /\ LET pods == {p \in here : Exists(p)}
         slots == filterDaemonSets(pods)
     IN /\ listed' = [listed EXCEPT ![attempt] = pods]
        /\ pc' = IF slots = {} THEN "ok" ELSE "select"
        /\ worker' = [w \in Workers |->
                        IF AttemptOf(w) = attempt /\ w[2] \in slots THEN "call" ELSE worker[w]]
  /\ ResetLoop
  /\ UNCHANGED <<config, cluster, attempt, channels, history>>

ReceiveErr ==
  /\ pc = "select"
  /\ errCh[attempt] > 0
  /\ errCh' = [errCh EXCEPT ![attempt] = @ - 1]
  /\ DrainFails
  /\ UNCHANGED <<config, cluster, listed, worker, doneCh, history>>

\* Mutant: one success too many is waited for.
DoneOffByOne ==
  /\ pc = "select"
  /\ doneCh[attempt] > 0
  /\ doneCh' = [doneCh EXCEPT ![attempt] = @ - 1]
  /\ IF doneCount = Expected(attempt)
       THEN pc' = "ok" /\ ResetLoop
       ELSE doneCount' = doneCount + 1 /\ waited' = 0 /\ UNCHANGED <<pc, elapsed>>
  /\ UNCHANGED <<config, cluster, attempt, listed, worker, errCh, history>>

\* Each turn of the loop calls time.After again: the timer starts anew.
ReceiveDone ==
  /\ pc = "select"
  /\ doneCh[attempt] > 0
  /\ doneCh' = [doneCh EXCEPT ![attempt] = @ - 1]
  /\ IF doneCount + 1 = Expected(attempt)
       THEN pc' = "ok" /\ ResetLoop
       ELSE doneCount' = doneCount + 1 /\ waited' = 0 /\ UNCHANGED <<pc, elapsed>>
  /\ UNCHANGED <<config, cluster, attempt, listed, worker, errCh, history>>

\* Mutant: the timeout breaks out of the select and not of the loop.
BreaksOnlySelect ==
  /\ pc = "select"
  /\ waited = Timeout
  /\ waited' = 0 /\ elapsed' = 0
  /\ UNCHANGED <<config, cluster, pc, attempt, listed, doneCount, worker, channels, history>>

TimesOut ==
  /\ pc = "select"
  /\ waited = Timeout
  /\ DrainFails
  /\ UNCHANGED <<config, cluster, listed, worker, channels, history>>

\* Time passes while the select waits.
Tick ==
  /\ pc = "select"
  /\ waited < Timeout
  /\ waited' = waited + 1
  /\ elapsed' = elapsed + 1
  /\ UNCHANGED <<config, cluster, pc, attempt, listed, doneCount, worker, channels, history>>

-----------------------------------------------------------------------------
(***************************************************************************)
(* A goroutine.  doneCh has room for every one of them; errCh has room for *)
(* one message, and once the main goroutine has left nobody empties it.    *)
(***************************************************************************)
SendDone(w) ==
  /\ doneCh' = [doneCh EXCEPT ![AttemptOf(w)] = @ + 1]
  /\ worker' = [worker EXCEPT ![w] = "end"]
  /\ UNCHANGED errCh

SendErr(w) ==
  /\ IF errCh[AttemptOf(w)] = 0
       THEN /\ errCh' = [errCh EXCEPT ![AttemptOf(w)] = 1]
            /\ worker' = [worker EXCEPT ![w] = "end"]
       ELSE /\ worker' = [worker EXCEPT ![w] = "blocked"]
            /\ UNCHANGED errCh
  /\ UNCHANGED doneCh

\* Mutant: deletions have no precondition.
TargetByName(w) ==
  IF UsesEviction(AttemptOf(w)) /\ ~EvictionSupported
    THEN {} ELSE Holders(NameOf[PodOf(w)])

\* The pods a call may act on: an eviction names the pod, a deletion has a
\* precondition on its UID.
Target(w) ==
  IF UsesEviction(AttemptOf(w))
    THEN IF EvictionSupported THEN Holders(NameOf[PodOf(w)]) ELSE {}
    ELSE {PodOf(w)} \cap Holders(NameOf[PodOf(w)])

\* The pod gets its grace period, or goes at once.
Hit(p) ==
  /\ \E s \in {"terminating", "gone"} : pod' = [pod EXCEPT ![p] = s]
  /\ hit' = hit \cup {p}

CallAccepted(w) ==
  /\ worker[w] = "call"
  /\ \E p \in Target(w) : Hit(p)
  /\ worker' = [worker EXCEPT ![w] = "poll"]
  /\ UNCHANGED <<config, cordoned, here, main, channels, misread>>

\* Mutant: after NotFound the goroutine goes on to wait for the deletion.
NotFoundAndWait(w) ==
  /\ worker[w] = "call"
  /\ \/ Holders(NameOf[PodOf(w)]) = {}
     \/ UsesEviction(AttemptOf(w)) /\ ~EvictionSupported
  /\ doneCh' = [doneCh EXCEPT ![AttemptOf(w)] = @ + 1]
  /\ worker' = [worker EXCEPT ![w] = "poll"]
  /\ UNCHANGED <<config, cluster, main, errCh, history>>

\* NotFound: the name is free, or the server does not know the subresource.
CallNotFound(w) ==
  /\ worker[w] = "call"
  /\ \/ Holders(NameOf[PodOf(w)]) = {}
     \/ UsesEviction(AttemptOf(w)) /\ ~EvictionSupported
  /\ SendDone(w)
  /\ UNCHANGED <<config, cluster, main, history>>

\* TooManyRequests: a disruption budget forbids the eviction for now.
CallRefused(w) ==
  /\ worker[w] = "call"
  /\ Target(w) # {}
  /\ worker' = [worker EXCEPT ![w] = "backoff"]
  /\ UNCHANGED <<config, cluster, main, channels, history>>

Wake(w) ==
  /\ worker[w] = "backoff"
  /\ worker' = [worker EXCEPT ![w] = "call"]
  /\ UNCHANGED <<config, cluster, main, channels, history>>

\* Any other error, the Conflict of a deletion whose pod was replaced
\* included; the call may have been carried out all the same.
CallFails(w) ==
  /\ worker[w] = "call"
  /\ UNCHANGED <<pod, hit>> \/ \E p \in Target(w) : Hit(p)
  /\ SendErr(w)
  /\ UNCHANGED <<config, cordoned, here, main, misread>>

\* waitForDelete: the name is free or another UID holds it.
PollGone(w) ==
  /\ worker[w] = "poll"
  /\ PodOf(w) \notin Holders(NameOf[PodOf(w)])
  /\ SendDone(w)
  /\ UNCHANGED <<config, cluster, main, history>>

\* waitForDelete compares the UID before it looks at the error.
PollFails(w) ==
  /\ worker[w] = "poll"
  /\ IF ErrorCarriesPod
       THEN SendDone(w) /\ misread' = misread \cup {PodOf(w)}
       ELSE SendErr(w) /\ UNCHANGED misread
  /\ UNCHANGED <<config, cluster, main, hit>>

Unblock(w) ==
  /\ worker[w] = "blocked"
  /\ errCh[AttemptOf(w)] = 0
  /\ SendErr(w)
  /\ UNCHANGED <<config, cluster, main, history>>

-----------------------------------------------------------------------------
(***************************************************************************)
(* The cluster.                                                            *)
(***************************************************************************)
IsDaemon(p) == OwnersOf[p] # <<>> /\ \A i \in DOMAIN OwnersOf[p] : OwnersOf[p][i] = "DaemonSet"

\* A controller creates a pod whose name is free.  Only a DaemonSet's pod is
\* bound to a cordoned node.
Create(p) ==
  /\ pod[p] = "unborn"
  /\ Holders(NameOf[p]) = {}
  /\ pod' = [pod EXCEPT ![p] = "running"]
  /\ \/ here' = here
     \/ (~cordoned \/ IsDaemon(p)) /\ here' = here \cup {p}
  /\ UNCHANGED <<config, cordoned, main, worker, channels, history>>

\* A pod ends: its grace period is over, or somebody else deleted it.
Stop(p) ==
  /\ Exists(p)
  /\ \E s \in {"terminating", "gone"} \ {pod[p]} : pod' = [pod EXCEPT ![p] = s]
  /\ UNCHANGED <<config, cordoned, here, main, worker, channels, history>>

Init ==
  /\ opts \in [useEviction : BOOLEAN, force : BOOLEAN]
  /\ copyCordoned \in BOOLEAN /\ cordoned \in BOOLEAN
  /\ pod \in [Pods -> {"unborn", "running"}]
  /\ \A p, q \in Pods : Exists(p) /\ Exists(q) /\ NameOf[p] = NameOf[q] => p = q
  /\ here \in SUBSET {p \in Pods : Exists(p)}
  /\ pc = "cordon" /\ attempt = 1
  /\ listed = [a \in 1..2 |-> {}]
  /\ worker = [w \in Workers |-> "none"]
  /\ doneCh = [a \in 1..2 |-> 0]
  /\ errCh = [a \in 1..2 |-> 0]
  /\ doneCount = 0 /\ waited = 0 /\ elapsed = 0
  /\ hit = {} /\ misread = {}

Main == Cordon \/ CordonFails \/ List \/ ListFails \/ ReceiveErr \/ ReceiveDone \/ TimesOut

Goroutine(w) ==
  \/ CallAccepted(w) \/ CallNotFound(w) \/ CallRefused(w) \/ CallFails(w) \/ Wake(w)
  \/ PollGone(w) \/ PollFails(w) \/ Unblock(w)

Next ==
  \/ Main \/ Tick
  \/ \E w \in Workers : Goroutine(w)
  \/ \E p \in Pods : Create(p) \/ Stop(p)

Spec == Init /\ [][Next]_vars

\* The calls of the main goroutine are answered and time passes; nothing is
\* assumed of the goroutines, whose calls may hang for ever.
FairSpec == Spec /\ WF_vars(Main) /\ WF_vars(Tick)

-----------------------------------------------------------------------------
(***************************************************************************)
(* Properties.                                                             *)
(***************************************************************************)
\* Every variable stays in its range; a success never blocks, for doneCh
\* never holds more than the attempt's goroutines, and errCh holds one error.
TypeOK ==
  /\ opts \in [useEviction : BOOLEAN, force : BOOLEAN]
  /\ copyCordoned \in BOOLEAN /\ cordoned \in BOOLEAN
  /\ pod \in [Pods -> PodStates]
  /\ here \subseteq Pods /\ hit \subseteq Pods /\ misread \subseteq Pods
  /\ pc \in {"cordon", "list", "select", "ok", "failed"}
  /\ attempt \in 1..2
  /\ listed \in [1..2 -> SUBSET Pods]
  /\ worker \in [Workers -> WorkerStates]
  /\ \A a \in 1..2 : doneCh[a] \in 0..Expected(a) /\ errCh[a] \in 0..1
  /\ doneCount \in 0..Cardinality(Slots)
  /\ waited \in 0..Timeout
  /\ elapsed \in Nat

\* The pods a drain is for: those with an owner that is no DaemonSet.
Movable(p) == OtherOwners(p) # {}

\* A drain that succeeded on a node that is cordoned left no movable pod on it,
\* but for pods whose Get failed: cordoning came before listing, every listed
\* pod was waited for, and no count was completed by another attempt's news.
DrainedOrMisread ==
  pc = "ok" /\ cordoned =>
    \A p \in here : Movable(p) /\ Exists(p) => p \in misread

\* The pods that have the name of one of these.
Namesakes(pods) == {p \in Pods : \E q \in pods : NameOf[p] = NameOf[q]}

\* A deletion, by either attempt and however late, reaches only a pod that was
\* listed, even when a replacement has taken its name since.  An eviction, which
\* has no UID, may reach a replacement wherever it runs: but only of a pod that
\* the first attempt listed, and only if the configuration asks for evictions.
NoBystander ==
  hit \subseteq listed[1] \cup listed[2]
             \cup (IF opts.useEviction THEN Namesakes(listed[1]) ELSE {})

\* One attempt takes at most DrainTimeout for each goroutine it started: the
\* timer starts anew with each success, so that it may take longer than one.
ElapsedBound == pc = "select" => elapsed <= Timeout * Expected(attempt)

\* nr.drain never goes back: a step that moves the main goroutine or its timer
\* takes it to the next attempt, to a later stage of its attempt, to one success
\* more, or to one tick more since the last.  Each of these is bounded, so that a
\* timer that starts anew, a retry and goroutines of an abandoned attempt cannot
\* keep a drain going: the safety half of DrainReturns.
Rank(stage) == CASE stage = "cordon" -> 0
                 [] stage = "list"   -> 1
                 [] stage = "select" -> 2
                 [] OTHER            -> 3

Advances ==
  \/ attempt' > attempt
  \/ attempt' = attempt /\ Rank(pc') > Rank(pc)
  \/ /\ UNCHANGED <<attempt, pc>>
     /\ \/ doneCount' > doneCount
        \/ doneCount' = doneCount /\ waited' > waited

DrainAdvances == [][UNCHANGED main \/ Advances]_vars

\* Whatever calls of the goroutines hang, nr.drain returns.
DrainReturns == <>(pc \in {"ok", "failed"})

\* nr.drain is, to its caller, the cordon, eviction and retry of NodeReaper.
Outcome == INSTANCE DrainOutcome
             WITH stage <- CASE pc = "cordon" -> "drain"
                             [] pc \in {"list", "select"} -> "evict"
                             [] pc = "ok" -> "reap"
                             [] OTHER -> "failed",
                  force <- opts.force,
                  trusted <- copyCordoned

DrainsAsPromised == Outcome!Spec

\* Comment of waitForDelete: it returns nil if the pod is deleted.  README: all
\* pods are evicted or deleted.  So no movable pod outlives a drain that succeeds.
DrainedNodeIsEmpty ==
  pc = "ok" /\ cordoned => \A p \in here : Movable(p) => ~Exists(p)

\* README: all pods are evicted or deleted, ignoring DaemonSets.
OnlyDaemonsLeft ==
  pc = "ok" /\ cordoned => \A p \in here : Exists(p) => IsDaemon(p)
=============================================================================
