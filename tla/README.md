# node-reaper in TLA+

A model of node-reaper: the controller that finds malfunctioning Kubernetes
nodes, cordons and drains them and terminates their cloud instances. The
modules here are translated from `src/`, checked with TLC on small clusters,
and partly proved with TLAPS for every cluster.

All paths below are relative to the repository root (`src/...`) or to this
directory.

## 1. The system

One process, one worker. A Kubernetes informer keeps a copy of the cluster's
nodes; every change of a node, and a resync every 30 s, puts its name in a work
queue; a sequential controller takes one name at a time and calls
`NodeReaper.Run` with the *copy*. `Run` either stops at a check or takes the
node out of service.

| Component | Source | State | Operations |
|---|---|---|---|
| node reaper | `pkg/nodereaper/nodereaper.go`, `handler.go` | its configuration; where `Run` is; which drain attempt | `Run`: `shouldReap` (predicate, age, live list, cluster and zone health), `drain`, `reap`; `Handler.Add`/`Delete` |
| controller, informer | `controller.go`, `retriever.go` (on kooper and client-go) | store, work queue | watch event, resync, process a key |
| cluster health calculator | `cluster_health_calculator.go` | none | `IsHealthy` for an absolute or percentual limit |
| node predicates | `evaluable_predicate.go` | none | `NewEvaluablePredicate`, `Eval`, `Meets` |
| node drainer | `pkg/drainer/drain.go` | channels, count and timer of an attempt; one goroutine for each pod and owner | `DrainNode`: cordon, discovery, list, evict or delete, wait for the deletion |
| configuration | `pkg/config/config.go` | the parsed settings | `Load`, `Parse`, defaults, `MaxNodesUnhealthy.Type/Uint`, durations |
| program | `cmd/nodereaper/main.go` | flags, loaded plugins, stop channel | start, load plugins, exit on a signal or an error |
| node providers | `node_provider.go`, `pkg/plugins/aws/main.go` | map from a provider's type to its plugin | `AsNodeProviders`, `Reap` |
| metrics | `pkg/metrics` | four counters | increments |
| logging | `pkg/log` | none | output |

Outside the program, and modelled only as far as the program can see them: the
API server, the scheduler, the kubelets, the controllers that replace pods, an
administrator who cordons, uncordons and deletes nodes, and the cloud.

### What is hard about it

* **Two views of the cluster.** The candidate is judged on the informer's copy,
  the cluster's health on a live list, the cordon and the eviction go to
  whatever node holds the name by then, and the reap goes to the instance the
  copy names. Minutes may pass between these four.
* **Nothing is persisted.** `main` exits without waiting for the worker; only the
  cordon remembers that a node was being taken out.
* **Errors are swallowed.** `Handler.Add` returns nil whatever `Run` returned, so
  the work queue never retries.
* **Goroutines outlive their attempt.** An attempt that fails or times out
  returns; its goroutines go on evicting, with channels nobody reads.
* **Names are reused**, by nodes that register again and by the pods of a
  StatefulSet, while most calls name an object and only some give a UID.
* **A timer that starts anew** at each turn of a `select` loop, and a `select`
  that picks any of the cases that are ready.
* **Limits at their edge**: a percentage rounded up, zero nodes, a zone whose
  share is taken of the whole cluster.

`PROJECT.json` lists each of these hazards at the line where it bites, with the
properties that are about it.

### What would make each component correct

* node reaper: an instance is never terminated inside its node's grace period;
  the nodes it holds out of service stay within the limits, in the cluster and
  in a zone, whatever is stale and whoever crashes; no candidate waits for ever;
  a node taken out is either reaped or given back.
* drainer: a drain that succeeds has emptied the node; it returns, and in
  bounded time; it touches no pod but those it listed; to its caller it is
  nothing but cordon, empty, perhaps once more.
* calculator and predicates: the verdict is the arithmetic one at every edge.
* drainer and controller together: an instance is terminated only after its node
  was emptied, and the only worker is given back whatever calls hang.
* two processes, as during a rolling update: they exceed the limits by one node
  each, and no more.
* configuration: what `Parse` lets through, the rest of the program can use; a
  duration in range is what the file says; nothing is done to a node that the
  file does not ask for.
* program and plugins: the reaper works with every plugin of its paths or not at
  all; a signal or an error of a goroutine ends the program, and only then does
  it end; its exit status tells which.
* metrics: every drain and every reap that was tried is counted once.

## 2. Modules

| Module | What it is |
|---|---|
| `NodePredicate` | predicates as named expressions over labels, conditions and `Cordoned` |
| `ClusterHealth` | the calculator and the `MaxNodesUnhealthy` type |
| `NodeReaper` | the controller, the informer, the process and the cluster (extends the two above) |
| `QuarantineHistory` | `NodeReaper` with a history of the quarantined nodes whose own `Run` ended short of their reap |
| `DisruptionBudget` | abstract: what the controller promises the cluster |
| `Drainer` | `nr.drain` in detail: both attempts, main goroutine, goroutines, channels, timer, pods |
| `DrainOutcome` | abstract: what a drain is to `NodeReaper` |
| `Takedown` | `NodeReaper` and `Drainer` composed for one node, with the counters of `pkg/metrics` |
| `ReaperReplicas` | two instances of `NodeReaper` on one cluster |
| `Configuration` | `Load`, the defaults and `Parse`, with the width of their integers |
| `Startup` | `Main.Run`, from the flags to the exit status (extends `Configuration`) |
| `MCNodeReaper`, `MCQuarantine`, `MCDrainer`, `MCTakedown`, `MCReplicas`, `MCStartup` | small instances for TLC |
| `NodeReaperProofs`, `DisruptionBudgetProofs`, `QuarantineProofs`, `TakedownProofs`, `ReplicasProofs`, `DrainerProofs`, `DrainedProofs`, `StartupProofs` | the theorems, each about the module it is named after (`DrainedProofs` is the second of `Drainer`, about its pods) |

How they compose: `NodeReaper` implements `DisruptionBudget`, and `Drainer`
implements `DrainOutcome`, whose four steps are the steps `Cordon`,
`CordonFails`, `Evict` and `EvictFails` by which `NodeReaper` stands for a
drain. `Takedown` puts the drainer itself behind those four steps.
`ReaperReplicas` gives two processes one cluster. `Startup` ends where
`NodeReaper` begins: its `cfg` is in `ParsedConfig`, which is what
`ConfigAssumption` of `NodeReaper` asks for. Comments that begin with "Mutant"
mark plausible bugs kept beside the definition they would spoil; no
specification uses them.

### NodeReaper: state and actions

| Variable | Stands for |
|---|---|
| `cfg` | `config.Config`, constant in a run of the program |
| `api` | the Node objects; `gen` tells apart the incarnations of a name |
| `young` | the incarnations inside `NewNodeGracePeriod` |
| `terminated` | the incarnations whose instance the provider terminated |
| `cache`, `queue` | the informer's store, the work queue |
| `pc`, `key`, `copy`, `attempt` | the worker inside `Run`: `list`, `drain`, `evict`, `reap` |
| `quarantined` | history: cordoned by the reaper, not given back since |

| Action | Code |
|---|---|
| `Process` | the controller takes a key; `isReapable` and `isNodeCreating` on the copy (`nodereaper.go:100-117`) |
| `ListFails`, `Assess` | `getNodesFn` and the two calls of `isClusterHealthy` |
| `DryDrain`, `Cordon`, `CordonFails`, `Evict`, `EvictFails` | `nr.drain`, an attempt and the forced second one |
| `ReapDeclined`, `Reap`, `ReapFails` | `nr.reap` |
| `Deliver`, `Resync`, `Restart` | the watch, the 30 s resync, exit and start |
| `Report`, `Administer`, `Remove`, `Register`, `Age` | the cluster |

`Run` is split exactly where it leaves the process, so anything in the cluster
may happen between two of its steps. The checks between two calls are one step:
they read local data only. A call that fails may have been carried out
(`CordonFails`, `ReapFails`).

### Drainer: state and actions

A pod is its UID; `NameOf` gives the name it is known by. Every listed pod has a
goroutine for each of its owners that is no DaemonSet, as `filterDaemonSets`
appends it; `worker` says where each goroutine of each attempt is (`call`,
`backoff` after a 429, `poll` in `waitForDelete`, `blocked` on a full `errCh`).
`doneCh` and `errCh` count the messages in the two channels of each attempt.
`Target` is where eviction and deletion differ: an eviction acts on whichever
pod holds the name, a deletion carries a UID precondition.

Time is counted in ticks: `waited` since the `select` called `time.After`, and
`elapsed` since the goroutines were started. The main goroutine takes no time
for its own steps, so the clock does not pass a timer that has fired before the
`select` has acted on something.

`ErrorCarriesPod` is how the client answers a failed Get: client-go gives back
an empty, non-nil Pod (TRUE), a client that gives nil is FALSE. `EvictionSupported`
is whether the API server knows the eviction subresource.

### Takedown: state and actions

The worker's variables are those of `NodeReaper`, the drainer's those of
`Drainer` under other names (`stage` and `try` for `pc` and `attempt`,
`goroutine` for `worker`), and the node is one: what the drainer calls
`cordoned` is `api[Host].cordoned`. `drainTotal`, `drainFail`, `reapTotal` and
`reapFail` are the counters of `pkg/metrics/prom.go`.

| Action | Code |
|---|---|
| `Begin` | the checks pass, `NewNodeDrainer` is called with the copy, the drain is counted |
| `CordonHost`, `Emptied`, `AttemptFails` | a step of the worker that is a step of the drainer as well |
| `DrainerWorks`, `Wait`, `Goroutines` | the drainer goes on while the worker waits in `DrainNode` |
| `Check`, `Finish` | the rest of `Run`; `Finish` counts the reap |
| `RestartProcess` | goroutines and counters end with the process |
| `PodsChange`, `Watch` | the pods; the informer and the cluster |

The goroutines of a drain go on after it, as in the code, and through the reap.
A new drain begins only once they have all ended or are blocked for ever
(`Settled`); the goroutines of one drain during the next are what the two
attempts of `Drainer` are about.

### ReaperReplicas: state and actions

The old process and the new one each have an informer, a queue and a worker
(`cacheA`, `pcA`, ... and `cacheB`, `pcB`, ...), and share `api`, `young`,
`terminated` and `quarantined`. `OldSteps` and `NewSteps` are the steps of
`NodeReaper!Run` and `NodeReaper!Controller` of one process; `ClusterSteps` are
those of the environment. The other process is never told: it sees a cordon
through the watch and in the live list.

### Configuration and Startup: state and actions

A document is what a configuration file holds: it is not readable, not
acceptable to `UnmarshalStrict`, null, or a map from the keys that are written
to values. `Load` reads it over the defaults, so that a key that is absent keeps
its default while a key that is written without a value is zeroed. `Parse`
converts: `Seconds` is `time.Duration(n) * time.Second` in two's complement,
with `MaxUint` for the width and `Second` for 10^9.

| Variable of `Startup` | Stands for |
|---|---|
| `doc`, `args`, `disk` | the file, the command line, the plugin paths and what they hold |
| `pc`, `status` | where `Main.Run` is; the exit status |
| `cfg` | `config.Config`, `NoConfig` before `Parse` |
| `loaded`, `plugins` | plugin paths gone through; files in the map from types to providers |
| `metrics`, `controller` | the two goroutines: running, blocked in the send of their error, received |
| `sigC`, `signalled` | the channel of signals, with room for one; history: one was sent |

| Action | Code |
|---|---|
| `ShowVersion`, `CreateLogger`, `loadConfig`, `createKubernetesClients` | `main.go:107-141` |
| `SkipPath`, `UseNilPlugin`, `LoadPath`, `DirectoryFails`, `PluginsLoaded` | `loadNodeProviderPlugins` and what it calls |
| `Serve`, `Control`, `createSignalCapturer` | the two `go` statements and `signal.Notify` |
| `SelectSignal`, `SelectError` | the final `select` |
| `MetricsFails`, `ControllerFails`, `Signal` | the endpoint, kooper's `Run`, the operating system |

## 3. What is checked

Run any of them with `tlc -config X.cfg M`.

| Run | Bounds | Shows |
|---|---|---|
| `lifecycle` (`NodeReaper_lifecycle.cfg`, `MCNodeReaper`) | 2 nodes, 2 incarnations, 3 changes, 1 restart, 8 configurations | `TypeOK`; `GraceRespected`; `DefaultCordonsFirst` |
| `budget` (`NodeReaper_budget.cfg`, `MCNodeReaper`) | 3 nodes in 2 zones, 1 change, 1 restart, 4 settings of the limits | `BlastRadius`, `ZoneBlastRadius`; `KeepsBudget`: the reaper implements `DisruptionBudget` |
| `starvation` (`NodeReaper_starvation.cfg`, `MCQuarantine`) | 2 nodes, 2 changes, 1 restart | `CandidateNotStarved`: a swallowed error costs a candidate at most a resync; `NoneForgotten`, `QuarantineResolves`: no quarantined node is forgotten, at any time or for ever, but one whose own drain or reap went wrong |
| `drain_replaced` (`Drainer_replaced.cfg`, `MCDrainer`) | a pod, its replacement, a DaemonSet's pod; 1 tick | `TypeOK`; `DrainedOrMisread`; `NoBystander`: what a late deletion, and a late eviction, may hit; `DrainsAsPromised`: the drainer implements `DrainOutcome` |
| `drain_timing` (`Drainer_timing.cfg`, `MCDrainer`) | a pod with two owners (two goroutines in each attempt); 2 ticks | `ElapsedBound`; `DrainAdvances`: no step of a drain is repeated; `DrainReturns` |
| `takedown` (`Takedown.cfg`, `MCTakedown`) | 1 node, 1 pod, 1 change, 1 restart, 2 drains, 1 tick, 3 configurations | `TakedownOK`: worker and drainer agree, as the split of `Run` assumes; `ReapedWasEmptied`; `CountersAgree`; `WorkerReturns` |
| `replicas` (`Replicas.cfg`, `MCReplicas`) | 3 equal nodes, 2 processes, 2 changes, limits of 0 | `TypeOK`; `SharedBlastRadius` |
| `startup` (`Startup.cfg`, `MCStartup`) | 15 documents, 5 command lines, 5 disks; `MaxUint` 4095, `Second` 4 | `TypeOK`; `OnlyWhatWasAsked`; `DurationsHold`; `NoPluginLost`; `ZeroMeansAsked`; `NothingUnheard`; `EndsWhenTold` |

The remaining runs each state one sentence of the documentation, or of a
comment, and TLC finds a behaviour of the code that contradicts it:

| Run | The sentence | What the code does |
|---|---|---|
| `regardless` | README:33, the instance is reaped regardless of whether draining succeeded | `Run` returns the drain's error and never reaps (`nodereaper.go:85`) |
| `zone_share` | README:89-90, how many nodes, or which percentage, can be unhealthy in the candidate's zone | the zone's count is divided by the nodes of the whole cluster (`nodereaper.go:206`) |
| `misread` | drain.go:104, waitForDelete returns nil if the pod is deleted | a failed Get is taken for a deletion (`drain.go:116`) |
| `bare_pods` | README:41 and drain.go:214, all pods except those of DaemonSets | a pod without an owner is dropped (`drain.go:218`) |

### What else the models show

These need no run of their own; to see one, change the constant that is named.

* A restart between the cordon and the reap, a drain that fails and a provider
  that fails each leave a node cordoned with its instance running. The default
  `reapPredicate` asks for `Cordoned == false`, so the node stays so and counts
  against `maxNodesUnhealthy` until somebody uncordons it. These are the nodes
  `QuarantineHistory` calls `abandoned`, and `NoneForgotten` says there are no
  others but one kind: a node registered again after the copy in hand was taken
  and before the patch. The patch names the node and cordons the new one, the reap
  names the instance and terminates the old one (`ReapMisses`): the new node is
  left cordoned.
* An attempt may take `Timeout` for every goroutine: `ElapsedBound` is reached,
  for each success makes `time.After` anew (`drain.go:208`). README:96 calls
  `drainTimeoutSeconds` the time after which an unfinished attempt fails.
* `dryRun:` written without a value means FALSE: yaml zeroes the field, and only
  a document in which everything is zero gets the defaults back. The same holds
  of every key; of `unhealthyPredicate` it makes an expression that never parses,
  so that no node is ever reaped.
* A plain number over 2^64 - 1 as a limit passes `Parse`, and `Uint` then fails at
  every check: no node is reaped.
* A number of seconds that overflows `time.Duration` may become negative: a drain
  then times out at once, and a new node has no grace period. It never becomes
  longer than the file says (`DurationsHold`).
* A plugin path that names a file which is no plugin ends the program by a nil
  pointer (`main.go:288-292`, `UseNilPlugin`), though a directory's bad file is
  skipped.
* Two processes with a limit of k may have k + 2 nodes out of service.
* With `EvictionSupported = FALSE` and `ErrorCarriesPod = FALSE`,
  `DrainedNodeIsEmpty` fails without any misread Get: discovery's answer is not
  used, every eviction is NotFound, and NotFound counts as a pod that is gone.
* The patch of the cordon names the node only: when the name is registered again
  after the age was checked, the new node is cordoned inside its grace period.
  It is not terminated; that is `GraceRespected`. The drain then evicts its pods,
  and it stays cordoned.
* `newCordonFn` skips the patch of a copy that is cordoned. With the default
  predicate no such copy is a candidate (`DefaultCordonsFirst`); with an
  operator's predicate that ignores `Cordoned` and a copy older than an uncordon,
  pods are evicted from a schedulable node.

### Bounds, and why they are enough

* `MaxGen = 2` in `lifecycle`: one name registered again is what tells a copy from
  its successor; a third incarnation is a successor of a successor. The other runs
  have 1, where a node that is removed does not come back: the invariants they
  check are proved for any number, and a run with two takes TLC minutes.
* `MaxChanges` 1 to 3 counts the changes of the cluster nobody asked the reaper
  for. Three are an administrator's, a removal and a registration, the longest
  sequence a property of `lifecycle` is about. `budget` has three nodes and needs
  one, the recovery that hides the candidate from the live list: all initial
  states are explored, so nodes that are unhealthy or cordoned need no change.
  What the reaper, the watch and the resync do is unbounded.
* `MaxCrashes = 1`: the process has no memory, so a second restart meets what the
  first one did.
* `MaxUint = 255` stands for 2^64 - 1; `Variants` has a setting above it. Where
  durations are computed it is 4095, with `Second = 4`: the defaults and the floor
  fit, 600 seconds are negative and 1024 wrap around to none.
* `MaxDrains = 2` in `takedown` bounds the drains of one process, so that its
  counters are finite; a second drain begins from what a first one left.
* Replicas: two nodes in hand and one that is neither; a limit of 0 makes the
  excess visible, and a percentage goes through the same comparison.
* Documents and disks: each decides one branch of `Load`, `Parse` or
  `loadNodeProviderPlugins`.
* Nodes: two are the candidate and another one; three, in two zones, are what a
  percentual limit and a zone's limit need.
* Pods: in `takedown` one, for `Drainer` has the replacements; elsewhere three tell replaced pods from waited-for ones; two goroutines are what
  contend for the single place in `errCh` and restart the timer.
* `Timeout`: one tick when only the order matters, two where a success between
  two ticks restarts the timer.
* The runs of `Drainer` and `Startup` set `CHECK_DEADLOCK FALSE`: a drain and a
  program end.
* `replicas` checks safety only and its nodes are equal, so it uses symmetry
  (`EqualNodes`), and starts with no node cordoned or new. Cordons come later;
  new nodes do not, and the grace period of two processes is what
  `SharedGraceCorrect` proves.
  `starvation` checks liveness and uses none: `OrderedInit` takes one of each two
  initial states that differ by the names of the two equal nodes. Elsewhere nodes
  differ by zone or provider, and pods by name and owners.

`Configs` is a set of whole configurations rather than every combination: each
one changes a setting of the default that decides a branch of `Run`. `dryRun` is
off in all but one, although it is on by default, because a dry run changes
nothing.

### Fairness, and why the code justifies it

`NodeReaper!Fairness`, used by `FairSpec` and `HistorySpec`:

* `WF(Run)`: each call of the worker ends. The drain does because of its timer,
  which is what `DrainReturns` checks. List, patch and discovery have no timeout
  in the code: that they end is an assumption on the API server.
* `WF(Resync)`: a ticker of the informer. `WF(Deliver(n))`: a watch delivers, or
  is made again by the reflector. `WF(Age)`: time passes.
* `SF(Process(n))`: the work queue is first in first out, so a key that is queued
  is taken although other keys come again and again.
* `SF(Assess)` and `SF(Cordon)` for one key: a call that is made for ever does not
  fail for ever. Nothing is assumed of the eviction and of the provider.

`Drainer!FairSpec` has `WF(Main)` and `WF(Tick)`: cordon and list are answered and
time passes. Nothing is assumed of the goroutines, whose calls may hang for ever.

`TakedownSpec` has `WF(Work)` and `WF(Wait)`, the same for the worker and the
drainer together: from them alone `WorkerReturns` follows, which is what `WF(Run)`
takes for granted of a drain.

`Startup!FairSpec` has `WF(Main)`: the main goroutine runs. No goroutine has to
fail and no signal has to come. That kooper's `Run` returns an error when it gives
up, rather than nil, is an assumption on that library.

## 4. What is proved

`tlapm` on `NodeReaperProofs`, `DisruptionBudgetProofs`, `QuarantineProofs`,
`TakedownProofs`, `ReplicasProofs`, `DrainerProofs`, `DrainedProofs` and `StartupProofs`: every
safety property a run checks, and the three refinements. The theorems hold for every set of nodes and pods, every
configuration, document, command line and disk, and every bound, from the
assumptions the modules name: `NodesAssumption`, `ConfigAssumption`,
`BoundAssumption`, `MaxUintAssumption`, `PodsAssumption`, `TimeoutAssumption`,
`ClientAssumption`, `HostAssumption`, `DrainsAssumption`, `SecondAssumption`, `NullAssumption`, `DocumentAssumption`,
`ArgumentAssumption`, `PluginAssumption`, `DiskAssumption`.

| Theorem | Along which argument |
|---|---|
| `TypeCorrect` | by the actions; an idle worker has no key, a busy one a copy of a registered node |
| `GraceCorrect` | `terminated \cap young = {}` is not inductive: a reap could take an incarnation that is young. `GraceInv` adds that the worker's copy is never young, and that what is cached, in hand or terminated is never a later incarnation than the API server's. A registration makes a greater `gen`, so whatever becomes young was never in hand and never terminated |
| `BlastRadiusCorrect`, `ZoneBlastRadiusCorrect` | at the check, the live list shows each quarantined node as cordoned, therefore unhealthy, therefore counted; afterwards only the candidate is added. `BudgetInv` keeps both halves: quarantined nodes are live and cordoned, and while the worker is past the check the quarantine without its key is within the limits |
| `ReaperKeepsBudget` | the same invariant, step by step, against `DisruptionBudget` |
| `OneMoreThanAffordable` | of the abstract specification alone: the target is the one node that is too many (`TargetIsTheOne`), for it was picked when all that was out was affordable. Asks that fewer nodes than an affordable set are affordable, which `AffordableDownwardClosed` proves of the reaper's limits |
| `CordonsFirstCorrect` | under the default predicate a copy in hand is uncordoned (`CopyUncordoned`), so no attempt skips the patch |
| `CalculatorExact` | an integer quotient rounded up is at most `p` exactly if the dividend is at most `p` times the divisor (`CeilDivExact`) |
| `NoneForgottenCorrect` | `ForgottenInv` adds to `NoneForgotten` that a quarantined node is live and cordoned. A node joins the quarantine only by the patch of its own drain, while it is in hand; the worker lets go of it by a reap that terminates its own instance, or by a step that `Abandons` counts; what is terminated or abandoned stays so until the node is given back |
| `TakedownImplementsReaper` | each step of the composition is a step of `NodeReaper` or a stutter: those of the drainer's main goroutine that its caller can see are `Cordon`, `CordonFails`, `Evict` and `EvictFails`, the others leave its variables alone. So every theorem about `NodeReaper!Spec` holds of the composition |
| `TakedownTypes` | `Agree`: while the worker drains, its place in `Run` and the drainer's in `DrainNode` determine each other, and the drainer's copy is the worker's |
| `CountersCorrect` | `CountersAgree` speaks of an idle worker. `CountersInv` adds the busy one: then exactly one drain is begun and not accounted for |
| `ReapedWasEmptiedCorrect` | when the drain succeeds, each pod it listed is gone or misread, as `DrainedCorrect` has it for the drainer; `NoneSlippedIn` says that there are no others: a node that is quarantined was not uncordoned since, so nothing but a DaemonSet's pod was bound to it after the list. Assumes `EvictionSupported` |
| `ReplicasTypes` | a step of one process, or of the cluster, leaves what the other one has cached and in hand alone (`WhoSteps`); each half is then the lemma of `NodeReaperProofs`, instantiated |
| `SharedBlastRadiusCorrect` | `SharedInv`: the quarantine without two nodes is within the limit, and each process past its checks has its own candidate among the two. A selection has seen every node that is quarantined, by whichever process, so the candidate it brings takes the place of the node that process had before. `Shape` says what a step of a process may do, and the same lemma serves both, for `WithinTwo` is symmetric |
| `SharedZoneBlastRadiusCorrect` | the same argument for a set of nodes, here those of a zone: a region's quarantine without two nodes is within the limit (`RegionWithinTwo`) |
| `SharedGraceCorrect` | `GraceInv` of both halves at once: what one process has in hand or terminates is never young, for it was registered before whatever is |
| `DrainerImplementsOutcome` | every action of the main goroutine is a step of `DrainOutcome`, every other action a stutter; only needs that `attempt` is 1 or 2 |
| `ElapsedBoundCorrect` | `TimeInv`: what has elapsed is at most `Timeout` for each success counted, plus `waited`, and while the loop goes on fewer successes are counted than there are goroutines |
| `DrainAdvancesCorrect` | attempt, stage, successes and ticks in lexicographic order: each step of the main goroutine increases them, a success that restarts the timer included, no other step moves them, and `TimeInv` bounds all four. What is left to TLC of `DrainReturns` is that some step is always possible and taken |
| `NoBystanderCorrect` | `ListedInv`: a goroutine that has started belongs to a pod its attempt listed, a deletion reaches that pod or none, and an eviction, which only the first attempt makes, a pod of that name |
| `DrainerTypes` | that a success always finds room in `doneCh` needs a count: `CountInv` says that the successes of an attempt, in the channel or counted already, are no more than its goroutines that have ended and are rid of their pod (`Cleared`), and these are among those it started, as many as the channel has room for. A goroutine that sends joins `Cleared`, and none leaves it |
| `DrainedCorrect` | when the last success is counted, `Cleared` has as many members as `Started`, so they are equal and each listed pod is gone or misread (`AllRid`); what is on the cordoned node and movable was there when the attempt listed (`NoneUnlisted`), for nothing but a DaemonSet's pod was bound since. Assumes `EvictionSupported`, without which it is false |
| `StartupTypes` | `Load` of any document is a `File` (each key holds a default, a zero or a value that was accepted), and `Parse` of a `File` that does not fail is in `ParsedConfig` |
| `OnlyWhatWasAskedCorrect` | a configuration whose `dryRun` is off came from a document that is not null or empty, hence from a key that was written |
| `DurationsCorrect` | arithmetic modulo `MaxUint + 1`: a product in range is not changed, and no other becomes greater (`SecondsNeverMore`) |
| `NoPluginLostCorrect` | the plugins are those of the paths gone through, and no two have one type, so that `Put` replaces none |
| `ZeroMeansAskedCorrect` | a signal in `sigC` was sent |
| `NothingUnheardCorrect` | an error is taken only by the step that ends the program (`UnheardInv`), and no step but the last empties `sigC` |

The limits are proved with the integer ceiling `CeilDiv`; that `math.Ceil` of the
floating-point quotient is this ceiling is a modelling assumption, sound for node
counts far below 2^53.

Model-checked only: the liveness properties (`CandidateNotStarved`,
`QuarantineResolves`, `DrainReturns`, `WorkerReturns`, `EndsWhenTold`), for
fairness and ENABLED are out of the prover's reach. The safety half of three of
them is proved: `NoneForgotten` of `QuarantineResolves`, `DrainAdvances` of
`DrainReturns`, `NothingUnheard` of `EndsWhenTold`.

## 5. Assumptions and what is left out

* A name keeps its labels and provider across incarnations.
* The scheduler binds no pod but a DaemonSet's to a cordoned node.
* A terminated instance's node is never Ready again.
* A patch that is still on its way when its process dies arrives before the next
  process makes its checks, or not at all. One that arrives later is a second
  process that does nothing more: the limits are then those of
  `SharedBlastRadius`, which holds for an old process that stops at its patch.
* kooper's and client-go's controller, store and queue are modelled as the code
  uses them: a key appears in the queue once, and one worker serves it.
* Predicates are named, not parsed: the two defaults, an operator's predicate that
  ignores `Cordoned`, one that is no boolean and one that does not parse.
* The grace period of a pod is a pod that ends at once or later.
* Two plugins of one type in one directory end the start in the model, as
  `main.go` says; a plugin's own code runs when its `Type` is asked for and when it
  reaps, and is otherwise unknown.
* Which path the configuration is read from is left out. (`NODEREAPERCONFIG`
  only counts when the flag is empty, and the flag's default is not.) So are
  the text of `-version` and the syntax of YAML.
* The output of the logger is left out. Its buffer (`zap.go:92`) is one for the
  package and the goroutines of a drain share it without a lock, which is a data
  race; that a panic ends the process is a restart of `NodeReaper` and `Takedown`.
* The HTTP endpoint of the metrics is a goroutine that may fail; what it serves,
  the Helm chart and the build are left out.
* `Takedown` begins a drain only when the goroutines of the drain before have ended
  or are blocked for ever, and at most `MaxDrains` times in a process. The code has
  neither condition.
* `Takedown` has one node, so that goroutines of a drain of one node do not meet
  the drain of another; they share nothing but the API server.

## 6. Plan

Done, in this order: `NodePredicate`, `ClusterHealth`, `NodeReaper`,
`DisruptionBudget`, `NodeReaperProofs`, `Drainer`, `DrainOutcome`,
`DrainerProofs`, `Configuration`, `Startup`, `StartupProofs`, `Takedown`,
`ReaperReplicas`, `QuarantineHistory`, `DrainedProofs`, `ReplicasProofs`,
`TakedownProofs`, `QuarantineProofs`, `DisruptionBudgetProofs`.

Next, in this order: that two processes keep a `DisruptionBudget` of two more
nodes, as a refinement; that the configuration `Startup` hands over is in
`NodeReaper!Config`, as a theorem rather than by the shape of `ParsedConfig`;
`NoneForgotten` for two processes, where a node may be cordoned by one and reaped
by the other.
