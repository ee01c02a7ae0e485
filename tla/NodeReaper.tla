------------------------------ MODULE NodeReaper ------------------------------
(***************************************************************************)
(* The node reaper controller: the informer's cache and work queue, the    *)
(* one worker of the sequential controller, and NodeReaper.Run with its    *)
(* safety checks, drain and reap, against a cluster that changes by itself *)
(* and a process that may be killed at any point.                          *)
(*                                                                         *)
(* Run is split where it leaves the process: reading the cached node, the  *)
(* live list of nodes, the cordon patch, the eviction of the pods (module  *)
(* Drainer has its detail) and the provider's call.  The predicates are    *)
(* evaluated on the cached copy, the health checks on the live list.       *)
(*                                                                         *)
(* Nodes are names.  A name may be registered again after its object was   *)
(* deleted; gen tells the incarnations, and their instances, apart.        *)
(***************************************************************************)
EXTENDS NodePredicate, ClusterHealth, FiniteSets

CONSTANTS
  Nodes,        \* the names of nodes
  NoNode,       \* the worker's key when it has none
  LabelsOf,     \* [Nodes -> partial functions from label names to values]
  ProviderOf,   \* [Nodes -> the text of spec.providerID before the colon]
  Plugins,      \* the types of the node provider plugins that were loaded
  Statuses,     \* the condition maps a node's status may hold
  Configs,      \* the configurations the program may be started with
  MaxGen,       \* bound: incarnations of a node name
  MaxChanges,   \* bound: changes of the cluster nobody asked the reaper for
  MaxCrashes    \* bound: restarts of the process

Config == [reapPredicate : Expressions, unhealthyPredicate : Expressions,
           maxNodesUnhealthy : AcceptedSettings,
           maxNodesUnhealthyInSameZone : AcceptedSettings,
           drainForceRetryOnError : BOOLEAN, skipReaping : BOOLEAN, dryRun : BOOLEAN]

ASSUME NodesAssumption  == IsFiniteSet(Nodes) /\ Nodes # {} /\ NoNode \notin Nodes
ASSUME ConfigAssumption == Configs \subseteq Config
ASSUME BoundAssumption  == MaxGen \in Nat \ {0} /\ MaxChanges \in Nat /\ MaxCrashes \in Nat

VARIABLES
  cfg,          \* the configuration of this run of the program
  api,          \* [Nodes -> Node]: the API server's objects
  young,        \* the incarnations still inside NewNodeGracePeriod
  terminated,   \* the incarnations whose instance the provider terminated
  cache,        \* [Nodes -> Node \cup {Absent}]: the informer's store
  queue,        \* the keys in the work queue
  pc,           \* where the worker is in Run
  key, copy,    \* the name being processed and the cached object it got
  attempt,      \* which of the two drain attempts is under way
  quarantined,  \* history: the nodes cordoned by the reaper and not released
  changes, crashes

cluster == <<api, young, terminated, quarantined>>
informer == <<cache, queue>>
worker  == <<pc, key, copy, attempt>>
bounds  == <<changes, crashes>>
vars    == <<cfg, cluster, informer, worker, bounds>>

\* A node object; live is false when the name is not registered.
Node == [live : BOOLEAN, gen : 1..MaxGen, conditions : Statuses, cordoned : BOOLEAN]

\* What the informer's store holds for a name that is not registered.
Absent == [live |-> FALSE]

zoneLabel == "failure-domain.beta.kubernetes.io/zone"

Incarnation(n, node) == <<n, node.gen>>

IsReapable(n, node) ==
  Parses(cfg.reapPredicate) /\ Meets(cfg.reapPredicate, LabelsOf[n], node)

isNodeCreating(n, node) == Incarnation(n, node) \in young

(***************************************************************************)
(* The safety checks on the live list of nodes.                            *)
(***************************************************************************)
Live == {n \in Nodes : api[n].live}

InZone(zone) == {n \in Nodes : Param(LabelsOf[n], zoneLabel) = zone}

\* The unhealthy nodes countUnhealthyNodes counts; zone "" is the cluster.
UnhealthyNodes(zone) ==
  {n \in Live : /\ Meets(cfg.unhealthyPredicate, LabelsOf[n], api[n])
                /\ zone = "" \/ n \in InZone(zone)}

CountFails == EvalFails(cfg.unhealthyPredicate) /\ Live # {}

\* What isClusterHealthy may return; an error stops Run as FALSE does.
isClusterHealthy(mnu, zone) ==
  IF CountFails \/ ~HasCalculator(mnu)
    THEN {FALSE}
    ELSE Verdicts(mnu, Cardinality(UnhealthyNodes(zone)), Cardinality(Live))

\* Mutant: the zone is held to the setting of the cluster.
ClusterSettingForZone(n) ==
  IF Parses(cfg.unhealthyPredicate) /\ zoneLabel \in DOMAIN LabelsOf[n]
    THEN {healthy \in BOOLEAN :
            \E c \in isClusterHealthy(cfg.maxNodesUnhealthy, ""),
               z \in isClusterHealthy(cfg.maxNodesUnhealthy, LabelsOf[n][zoneLabel]) :
               healthy = (c /\ z)}
    ELSE {FALSE}

\* The second half of shouldReap, after the list of nodes came back.
SafetyChecks(n) ==
  IF Parses(cfg.unhealthyPredicate) /\ zoneLabel \in DOMAIN LabelsOf[n]
    THEN {healthy \in BOOLEAN :
            \E c \in isClusterHealthy(cfg.maxNodesUnhealthy, ""),
               z \in isClusterHealthy(cfg.maxNodesUnhealthyInSameZone,
                                      LabelsOf[n][zoneLabel]) :
               healthy = (c /\ z)}
    ELSE {FALSE}

-----------------------------------------------------------------------------
(***************************************************************************)
(* The worker.  Handler.Add logs the error Run returns and swallows it, so *)
(* a Run that ends ends for good: the key is not queued again.             *)
(***************************************************************************)
Goto(next) == pc' = next /\ UNCHANGED <<key, copy, attempt>>

Return ==
  /\ pc' = "idle"
  /\ key' = NoNode
  /\ copy' = Absent
  /\ attempt' = 0

\* The worker takes a key and reads the cache.  A key whose object is gone
\* goes to Handler.Delete; Run goes on while the node is a candidate.
Process(n) ==
  /\ pc = "idle"
  /\ n \in queue
  /\ queue' = queue \ {n}
  /\ IF cache[n].live /\ IsReapable(n, cache[n]) /\ ~isNodeCreating(n, cache[n])
       THEN pc' = "list" /\ key' = n /\ copy' = cache[n] /\ attempt' = 1
       ELSE UNCHANGED worker
  /\ UNCHANGED <<cluster, cache, bounds>>

ListFails ==
  /\ pc = "list"
  /\ Return
  /\ UNCHANGED <<cluster, informer, bounds>>

Assess ==
  /\ pc = "list"
  /\ \E healthy \in SafetyChecks(key) : IF healthy THEN Goto("drain") ELSE Return
  /\ UNCHANGED <<cluster, informer, bounds>>

\* Mutant: a failed drain is retried until it succeeds.
DrainRetriesForEver ==
  IF cfg.drainForceRetryOnError
    THEN pc' = "drain" /\ attempt' = attempt + 1 /\ UNCHANGED <<key, copy>>
    ELSE Return

(***************************************************************************)
(* nr.drain: one attempt with the configured options, then, when it failed *)
(* and drainForceRetryOnError is set, one more.  An attempt cordons        *)
(* ("drain") and then empties the node ("evict").                          *)
(***************************************************************************)
DrainFails ==
  IF attempt = 1 /\ cfg.drainForceRetryOnError
    THEN pc' = "drain" /\ attempt' = 2 /\ UNCHANGED <<key, copy>>
    ELSE Return

DryDrain ==
  /\ pc = "drain"
  /\ cfg.dryRun
  /\ Goto("reap")
  /\ UNCHANGED <<cluster, informer, bounds>>

\* The patch names the node, whichever incarnation holds the name by now.
Patch ==
  /\ api[key].live
  /\ api' = [api EXCEPT ![key].cordoned = TRUE]
  /\ quarantined' = quarantined \cup {key}

\* Mutants: the retry does not cordon again; the drain stops after the patch
\* and waits for the event of its own update.
CordonOnce ==
  /\ pc = "drain"
  /\ ~cfg.dryRun
  /\ IF copy.cordoned \/ attempt = 2 THEN UNCHANGED <<api, quarantined>> ELSE Patch
  /\ Goto("evict")
  /\ UNCHANGED <<young, terminated, informer, bounds>>

CordonAndWait ==
  /\ pc = "drain"
  /\ ~cfg.dryRun
  /\ IF copy.cordoned
       THEN Goto("evict") /\ UNCHANGED <<api, quarantined>>
       ELSE Patch /\ Return
  /\ UNCHANGED <<young, terminated, informer, bounds>>

\* newCordonFn trusts the copy: it skips the patch of a cordoned node.
Cordon ==
  /\ pc = "drain"
  /\ ~cfg.dryRun
  /\ IF copy.cordoned THEN UNCHANGED <<api, quarantined>> ELSE Patch
  /\ Goto("evict")
  /\ UNCHANGED <<young, terminated, informer, bounds>>

\* The patch fails, unapplied or with only its answer lost.
CordonFails ==
  /\ pc = "drain"
  /\ ~cfg.dryRun
  /\ ~copy.cordoned
  /\ UNCHANGED <<api, quarantined>> \/ Patch
  /\ DrainFails
  /\ UNCHANGED <<young, terminated, informer, bounds>>

Evict ==
  /\ pc = "evict"
  /\ Goto("reap")
  /\ UNCHANGED <<cluster, informer, bounds>>

\* Discovery, the list of pods, a pod or the timeout failed the attempt.
EvictFails ==
  /\ pc = "evict"
  /\ DrainFails
  /\ UNCHANGED <<cluster, informer, bounds>>

(***************************************************************************)
(* nr.reap.  Main sets SkipReaping when no plugin was loaded.              *)
(***************************************************************************)
SkipReaping == cfg.skipReaping \/ Plugins = {}

CanReap == ~cfg.dryRun /\ ~SkipReaping /\ ProviderOf[key] \in Plugins \ {""}

\* Dry run, skipped reaping, no provider in the ID or no such plugin.
ReapDeclined ==
  /\ pc = "reap"
  /\ ~CanReap
  /\ Return
  /\ UNCHANGED <<cluster, informer, bounds>>

\* Mutant: the instance is looked up by the node's name.
TerminateByName == terminated' = terminated \cup {Incarnation(key, api[key])}

\* The instance is named by the copy's externalID.
Terminate == terminated' = terminated \cup {Incarnation(key, copy)}

Reap ==
  /\ pc = "reap"
  /\ CanReap
  /\ Terminate
  /\ Return
  /\ UNCHANGED <<api, young, quarantined, informer, bounds>>

\* The provider's error is the last word: nothing is undone or retried.
ReapFails ==
  /\ pc = "reap"
  /\ CanReap
  /\ UNCHANGED terminated \/ Terminate
  /\ Return
  /\ UNCHANGED <<api, young, quarantined, informer, bounds>>

-----------------------------------------------------------------------------
(***************************************************************************)
(* The informer and the process (kooper's sequential controller).          *)
(***************************************************************************)
Listed(n) == IF api[n].live THEN api[n] ELSE Absent

\* A watch event reaches the store and its key the queue.
Deliver(n) ==
  /\ cache[n] # Listed(n)
  /\ cache' = [cache EXCEPT ![n] = Listed(n)]
  /\ queue' = queue \cup {n}
  /\ UNCHANGED <<cluster, worker, bounds>>

\* Mutant: no resync.
NoResync == UNCHANGED <<cluster, informer, worker, bounds>>

Resync ==
  /\ queue' = queue \cup {n \in Nodes : cache[n].live}
  /\ UNCHANGED <<cluster, cache, worker, bounds>>

\* A signal or an error makes main exit without waiting for the worker; the
\* new process starts from a fresh list and remembers nothing.
Restart ==
  /\ crashes < MaxCrashes
  /\ crashes' = crashes + 1
  /\ cache' = [n \in Nodes |-> Listed(n)]
  /\ queue' = Live
  /\ Return
  /\ UNCHANGED <<cluster, changes>>

-----------------------------------------------------------------------------
(***************************************************************************)
(* The cluster, which the program does not control.                        *)
(***************************************************************************)
Change == changes < MaxChanges /\ changes' = changes + 1

\* The kubelet or the node controller; a terminated instance is never Ready.
Report(n, status) ==
  /\ Change
  /\ api[n].live
  /\ status # api[n].conditions
  /\ Incarnation(n, api[n]) \in terminated => Param(status, "Ready") # "True"
  /\ api' = [api EXCEPT ![n].conditions = status]
  /\ UNCHANGED <<young, terminated, quarantined, informer, worker, crashes>>

\* An administrator cordons or uncordons a node.
Administer(n) ==
  /\ Change
  /\ api[n].live
  /\ api' = [api EXCEPT ![n].cordoned = ~@]
  /\ quarantined' = quarantined \ {n}
  /\ UNCHANGED <<young, terminated, informer, worker, crashes>>

\* The node object is deleted, its instance gone or not.
Remove(n) ==
  /\ Change
  /\ api[n].live
  /\ api' = [api EXCEPT ![n].live = FALSE, ![n].cordoned = FALSE]
  /\ quarantined' = quarantined \ {n}
  /\ UNCHANGED <<young, terminated, informer, worker, crashes>>

\* A kubelet registers the name again: a new object, inside the grace period.
Register(n, status) ==
  /\ Change
  /\ ~api[n].live
  /\ api[n].gen < MaxGen
  /\ api' = [api EXCEPT ![n] = [live |-> TRUE, gen |-> api[n].gen + 1,
                                conditions |-> status, cordoned |-> FALSE]]
  /\ young' = young \cup {<<n, api[n].gen + 1>>}
  /\ UNCHANGED <<terminated, quarantined, informer, worker, crashes>>

\* The grace period of an incarnation ends.
Age(i) ==
  /\ young' = young \ {i}
  /\ UNCHANGED <<api, terminated, quarantined, informer, worker, bounds>>

Init ==
  /\ cfg \in Configs
  /\ api \in [Nodes -> [live : {TRUE}, gen : {1}, conditions : Statuses, cordoned : BOOLEAN]]
  /\ young \in SUBSET (Nodes \X {1})
  /\ terminated = {}
  /\ cache = [n \in Nodes |-> Listed(n)]
  /\ queue = Live
  /\ pc = "idle" /\ key = NoNode /\ copy = Absent /\ attempt = 0
  /\ quarantined = {}
  /\ changes = 0 /\ crashes = 0

Run ==
  \/ ListFails \/ Assess
  \/ DryDrain \/ Cordon \/ CordonFails \/ Evict \/ EvictFails
  \/ ReapDeclined \/ Reap \/ ReapFails

Controller ==
  \/ \E n \in Nodes : Process(n) \/ Deliver(n)
  \/ Resync \/ Restart

Environment ==
  \/ \E n \in Nodes : Administer(n) \/ Remove(n)
  \/ \E n \in Nodes, status \in Statuses : Report(n, status) \/ Register(n, status)
  \/ \E i \in young : Age(i)

Next == (Run \/ Controller \/ Environment) /\ UNCHANGED cfg

Spec == Init /\ [][Next]_vars

(***************************************************************************)
(* Fairness: every call Run makes ends, the watch delivers, the work queue *)
(* is first in first out, resync is a ticker and time passes.  A call that *)
(* is made again and again for a node does not fail for ever.              *)
(***************************************************************************)
Fairness ==
  /\ WF_vars(Run /\ UNCHANGED cfg)
  /\ WF_vars(Resync /\ UNCHANGED cfg)
  /\ \A n \in Nodes :
       /\ WF_vars(Deliver(n) /\ UNCHANGED cfg)
       /\ SF_vars(Process(n) /\ UNCHANGED cfg)
       /\ SF_vars(key = n /\ Assess /\ UNCHANGED cfg)
       /\ SF_vars(key = n /\ Cordon /\ UNCHANGED cfg)
  /\ \A i \in Nodes \X (1..MaxGen) : WF_vars(i \in young /\ Age(i) /\ UNCHANGED cfg)

FairSpec == Spec /\ Fairness

-----------------------------------------------------------------------------
(***************************************************************************)
(* Properties.                                                             *)
(***************************************************************************)
WorkerStates == {"idle", "list", "drain", "evict", "reap"}

\* Every variable stays in its range, a busy worker has a key and a copy of a
\* registered node, and an idle one has neither.
TypeOK ==
  /\ cfg \in Configs
  /\ api \in [Nodes -> Node]
  /\ young \subseteq Nodes \X (1..MaxGen)
  /\ terminated \subseteq Nodes \X (1..MaxGen)
  /\ cache \in [Nodes -> {node \in Node : node.live} \cup {Absent}]
  /\ queue \subseteq Nodes
  /\ pc \in WorkerStates
  /\ IF pc = "idle"
       THEN key = NoNode /\ copy = Absent /\ attempt = 0
       ELSE key \in Nodes /\ copy \in {node \in Node : node.live} /\ attempt \in 1..2
  /\ quarantined \subseteq Nodes
  /\ changes \in 0..MaxChanges
  /\ crashes \in 0..MaxCrashes

\* An instance is never terminated inside its node's grace period, although
\* the age that was checked is that of a cached copy and the name may belong
\* to a new node by the time the provider is called.
GraceRespected == terminated \cap young = {}

\* So many quarantined nodes are within a MaxNodesUnhealthy setting.
WithinLimit(mnu, out) ==
  \/ out = 0
  \/ mnu.form = "number"  /\ out <= mnu.value
  \/ mnu.form = "percent" /\ out * 100 <= mnu.value * Cardinality(Nodes)

QuarantineCounts == cfg.unhealthyPredicate = "defaultUnhealthy"

\* However the cluster changes and however often the process restarts, the
\* reaper's quarantined nodes exceed maxNodesUnhealthy by at most one node:
\* the candidate, which the live list may still show healthy.
BlastRadius ==
  QuarantineCounts =>
    \E n \in Nodes : WithinLimit(cfg.maxNodesUnhealthy, Cardinality(quarantined \ {n}))

\* The same in each zone, for maxNodesUnhealthyInSameZone.
ZoneBlastRadius ==
  QuarantineCounts =>
    \A m \in Nodes :
      zoneLabel \in DOMAIN LabelsOf[m] =>
        \E n \in Nodes :
          WithinLimit(cfg.maxNodesUnhealthyInSameZone,
                      Cardinality((quarantined \cap InZone(LabelsOf[m][zoneLabel])) \ {n}))

\* The reaper keeps the disruption budget of the cluster.
Affordable ==
  {S \in SUBSET Nodes :
     QuarantineCounts => WithinLimit(cfg.maxNodesUnhealthy, Cardinality(S))}

Budget == INSTANCE DisruptionBudget
            WITH affordable <- Affordable,
                 out        <- quarantined,
                 target     <- IF pc \in {"drain", "evict", "reap"} THEN key ELSE NoNode,
                 gone       <- {i[1] : i \in terminated}

KeepsBudget == Budget!Spec

\* Pods are evicted only from a node that was cordoned first, for a candidate
\* whose predicate asks for an uncordoned node: the skipped patch of newCordonFn
\* and the forced retry never let a drain reach the pods of a schedulable node.
DefaultCordonsFirst ==
  [][cfg.reapPredicate = "defaultReap" /\ pc = "drain" /\ pc' = "evict"
       => api'[key].cordoned]_vars

\* An error ends Run for good and only an event or a resync brings the node
\* back.  No candidate is lost: a node that meets the predicate and passes the
\* checks does not stay so for ever.
Waiting(n) ==
  /\ ~cfg.dryRun
  /\ api[n].live
  /\ ~api[n].cordoned
  /\ IsReapable(n, api[n])
  /\ ~isNodeCreating(n, api[n])
  /\ SafetyChecks(n) = {TRUE}

CandidateNotStarved == \A n \in Nodes : []<>~Waiting(n)

\* README: the instance is reaped regardless of whether draining succeeded.
ReapsRegardless ==
  [][~cfg.skipReaping /\ pc = "evict" /\ crashes' = crashes => pc' # "idle"]_vars

\* README: if more nodes of the candidate's zone than the setting allows are
\* unhealthy, reaping is cancelled; a percentage is of the zone's nodes.
ZoneShareRespected ==
  [][pc = "list" /\ pc' = "drain" /\ cfg.maxNodesUnhealthyInSameZone.form = "percent" =>
       LET zone == LabelsOf[key][zoneLabel]
       IN Cardinality(UnhealthyNodes(zone)) * 100
            <= cfg.maxNodesUnhealthyInSameZone.value * Cardinality(Live \cap InZone(zone))]_vars
=============================================================================
