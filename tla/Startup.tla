------------------------------- MODULE Startup -------------------------------
(***************************************************************************)
(* cmd/nodereaper/main.go: Main.Run, from the flags to the exit, with the  *)
(* configuration, the node provider plugins, the goroutines of the metrics *)
(* endpoint and of the controller, and the signals.                        *)
(*                                                                         *)
(* A plugin path is missing, a file, a directory or a directory that is    *)
(* not read.  A file is one .so wherever it is found, and holds a provider *)
(* of some type or nothing that can be used.                               *)
(***************************************************************************)
EXTENDS Configuration, FiniteSets, Sequences

CONSTANTS
  Documents,     \* what the configuration file may hold
  Arguments,     \* the command lines
  Disks,         \* what the plugin paths may hold
  Files,         \* the files under those paths
  Types,         \* the types of node providers
  TypeOfPlugin   \* [Files -> Types \cup {"none"}]: what Type() answers

\* The flags that decide something; providerPlugins was split at the commas.
Argument == [version : BOOLEAN, logLevel : STRING, providerPlugins : Seq(STRING)]
Entry    == [kind : {"missing", "file", "dir", "closed"}, files : SUBSET Files]

\* The paths loadNodeProviderPlugins goes through: $PWD/plugins by default.
Paths(a) == IF a.providerPlugins = <<>> THEN <<"plugins">> ELSE a.providerPlugins

ASSUME DocumentAssumption == \A doc \in Documents : IsDocument(doc)
ASSUME ArgumentAssumption == \A a \in Arguments : a \in Argument
ASSUME PluginAssumption   == "none" \notin Types /\ TypeOfPlugin \in [Files -> Types \cup {"none"}]
ASSUME DiskAssumption ==
  \A d \in Disks, a \in Arguments : \A i \in DOMAIN Paths(a) :
    /\ Paths(a)[i] \in DOMAIN d
    /\ d[Paths(a)[i]] \in Entry
    /\ d[Paths(a)[i]].kind = "file" => \E f \in Files : d[Paths(a)[i]].files = {f}
    /\ d[Paths(a)[i]].kind = "missing" => d[Paths(a)[i]].files = {}

VARIABLES
  doc, args, disk,  \* what the program is started with
  pc,               \* the main goroutine
  cfg,              \* the parsed configuration
  loaded,           \* how many of the plugin paths were gone through
  plugins,          \* the plugin files in the map from types to providers
  metrics,          \* the goroutine of the metrics endpoint
  controller,       \* the goroutine of the controller
  sigC,             \* signals in the channel, which holds one
  signalled,        \* history: the program was sent a signal
  status            \* the exit status

input == <<doc, args, disk>>
goroutines == <<metrics, controller>>
signals == <<sigC, signalled>>
vars == <<input, pc, cfg, loaded, plugins, goroutines, signals, status>>

NoConfig == [dryRun |-> TRUE, skipReaping |-> TRUE]
NoStatus == -1

\* The program is over: it returned, a nil plugin was used, or it was killed.
Ended == pc \in {"exited", "panicked", "killed"}

Exit(code) == pc' = "exited" /\ status' = code

-----------------------------------------------------------------------------
(***************************************************************************)
(* Flags, logger, configuration and clients.                               *)
(***************************************************************************)
Levels == {"INFO", "DEBUG"}

ShowVersion ==
  /\ pc = "flags" /\ args.version
  /\ Exit(0)
  /\ UNCHANGED <<input, cfg, loaded, plugins, goroutines, signals>>

CreateLogger ==
  /\ pc = "flags" /\ ~args.version
  /\ IF args.logLevel \in Levels \cup {""}
       THEN pc' = "config" /\ UNCHANGED status
       ELSE Exit(1)
  /\ UNCHANGED <<input, cfg, loaded, plugins, goroutines, signals>>

loadConfig ==
  /\ pc = "config"
  /\ IF LoadFails(doc) \/ ParseFails(Load(doc))
       THEN Exit(1) /\ UNCHANGED cfg
       ELSE pc' = "clients" /\ cfg' = Parse(Load(doc)) /\ UNCHANGED status
  /\ UNCHANGED <<input, loaded, plugins, goroutines, signals>>

\* The kubeconfig is not usable, or the program is outside a cluster.
createKubernetesClients ==
  /\ pc = "clients"
  /\ \/ pc' = "plugins" /\ UNCHANGED status
     \/ Exit(1)
  /\ UNCHANGED <<input, cfg, loaded, plugins, goroutines, signals>>

-----------------------------------------------------------------------------
(***************************************************************************)
(* The node provider plugins, one path after the other.                    *)
(***************************************************************************)
\* LoadNodeProviderPlugin: the file opens and has a NodeProvider.
Loads(f) == TypeOfPlugin[f] # "none"

\* What a path contributes: in a directory a bad file is logged and skipped.
PluginsAt(path) == {f \in disk[path].files : Loads(f)}

NextPath == Paths(args)[loaded + 1]

\* Mutant: a type is looked for among the plugins of other paths only.
DuplicateOfOtherPath(new) ==
  \E f \in new, g \in plugins : TypeOfPlugin[f] = TypeOfPlugin[g]

\* One of the new plugins has the type of one that is loaded, or two of the
\* new ones have the same.
Duplicate(new) ==
  \/ \E f \in new, g \in plugins : TypeOfPlugin[f] = TypeOfPlugin[g]
  \/ \E f, g \in new : f # g /\ TypeOfPlugin[f] = TypeOfPlugin[g]

\* The map has one provider for each type: the last to come replaces another.
Put(new) ==
  plugins' \in {S \in SUBSET (plugins \cup new) :
                  /\ {TypeOfPlugin[f] : f \in S} = {TypeOfPlugin[f] : f \in plugins \cup new}
                  /\ \A f, g \in S : TypeOfPlugin[f] = TypeOfPlugin[g] => f = g}

\* A path that cannot be examined is logged and skipped.
SkipPath ==
  /\ pc = "plugins" /\ loaded < Len(Paths(args))
  /\ disk[NextPath].kind = "missing"
  /\ loaded' = loaded + 1
  /\ UNCHANGED <<input, pc, cfg, plugins, goroutines, signals, status>>

\* The error of a file that is no plugin is logged, and Type() called on nil.
UseNilPlugin ==
  /\ pc = "plugins" /\ loaded < Len(Paths(args))
  /\ disk[NextPath].kind = "file" /\ PluginsAt(NextPath) = {}
  /\ pc' = "panicked"
  /\ UNCHANGED <<input, cfg, loaded, plugins, goroutines, signals, status>>

LoadPath ==
  /\ pc = "plugins" /\ loaded < Len(Paths(args))
  /\ \/ disk[NextPath].kind = "file" /\ PluginsAt(NextPath) # {}
     \/ disk[NextPath].kind = "dir"
  /\ IF Duplicate(PluginsAt(NextPath))
       THEN Exit(1) /\ UNCHANGED <<loaded, plugins>>
       ELSE loaded' = loaded + 1 /\ Put(PluginsAt(NextPath)) /\ UNCHANGED <<pc, status>>
  /\ UNCHANGED <<input, cfg, goroutines, signals>>

DirectoryFails ==
  /\ pc = "plugins" /\ loaded < Len(Paths(args))
  /\ disk[NextPath].kind = "closed"
  /\ Exit(1)
  /\ UNCHANGED <<input, cfg, loaded, plugins, goroutines, signals>>

\* Without a plugin the program cordons and drains only.
PluginsLoaded ==
  /\ pc = "plugins" /\ loaded = Len(Paths(args))
  /\ cfg' = [cfg EXCEPT !.skipReaping = @ \/ plugins = {}]
  /\ pc' = "serve"
  /\ UNCHANGED <<input, loaded, plugins, goroutines, signals, status>>

-----------------------------------------------------------------------------
(***************************************************************************)
(* The goroutines, and the wait for an error or a signal.  errC has no     *)
(* room: a goroutine that sends waits for the select.                      *)
(***************************************************************************)
Serve ==
  /\ pc = "serve"
  /\ metrics' = "running"
  /\ pc' = "control"
  /\ UNCHANGED <<input, cfg, loaded, plugins, controller, signals, status>>

Control ==
  /\ pc = "control"
  /\ controller' = "running"
  /\ pc' = "capture"
  /\ UNCHANGED <<input, cfg, loaded, plugins, metrics, signals, status>>

\* From here on a signal no longer kills the process.
createSignalCapturer ==
  /\ pc = "capture"
  /\ pc' = "select"
  /\ UNCHANGED <<input, cfg, loaded, plugins, goroutines, signals, status>>

\* The endpoint's port is taken, or kooper's Run gives up.
MetricsFails ==
  /\ metrics = "running" /\ ~Ended
  /\ metrics' = "sending"
  /\ UNCHANGED <<input, pc, cfg, loaded, plugins, controller, signals, status>>

ControllerFails ==
  /\ controller = "running" /\ ~Ended
  /\ controller' = "sending"
  /\ UNCHANGED <<input, pc, cfg, loaded, plugins, metrics, signals, status>>

\* main closes stopC and returns without waiting for anybody.
SelectSignal ==
  /\ pc = "select" /\ sigC = 1
  /\ sigC' = 0
  /\ Exit(0)
  /\ UNCHANGED <<input, cfg, loaded, plugins, goroutines, signalled>>

\* Mutant: err in the case of the select shadows the error to return.
ShadowsError ==
  /\ pc = "select"
  /\ \/ metrics = "sending" /\ metrics' = "sent" /\ UNCHANGED controller
     \/ controller = "sending" /\ controller' = "sent" /\ UNCHANGED metrics
  /\ Exit(0)
  /\ UNCHANGED <<input, cfg, loaded, plugins, signals>>

SelectError ==
  /\ pc = "select"
  /\ \/ metrics = "sending" /\ metrics' = "sent" /\ UNCHANGED controller
     \/ controller = "sending" /\ controller' = "sent" /\ UNCHANGED metrics
  /\ Exit(1)
  /\ UNCHANGED <<input, cfg, loaded, plugins, signals>>

\* Mutant: sigC has no room, and the select may not have been reached.
UnbufferedSignal ==
  /\ ~Ended
  /\ signalled' = TRUE
  /\ IF pc = "select"
       THEN sigC' \in {sigC, 1} /\ UNCHANGED pc
       ELSE pc' = "killed" /\ UNCHANGED sigC
  /\ UNCHANGED <<input, cfg, loaded, plugins, goroutines, status>>

\* SIGTERM or SIGINT, any number of times: one waits in sigC.
Signal ==
  /\ ~Ended
  /\ signalled' = TRUE
  /\ IF pc = "select"
       THEN sigC' = 1 /\ UNCHANGED pc
       ELSE pc' = "killed" /\ UNCHANGED sigC
  /\ UNCHANGED <<input, cfg, loaded, plugins, goroutines, status>>

Init ==
  /\ doc \in Documents /\ args \in Arguments /\ disk \in Disks
  /\ pc = "flags" /\ cfg = NoConfig
  /\ loaded = 0 /\ plugins = {}
  /\ metrics = "none" /\ controller = "none"
  /\ sigC = 0 /\ signalled = FALSE
  /\ status = NoStatus

Main ==
  \/ ShowVersion \/ CreateLogger \/ loadConfig \/ createKubernetesClients
  \/ SkipPath \/ UseNilPlugin \/ LoadPath \/ DirectoryFails \/ PluginsLoaded
  \/ Serve \/ Control \/ createSignalCapturer
  \/ SelectSignal \/ SelectError

Next == Main \/ MetricsFails \/ ControllerFails \/ Signal

Spec == Init /\ [][Next]_vars

\* The main goroutine runs; no error and no signal has to come.
FairSpec == Spec /\ WF_vars(Main)

-----------------------------------------------------------------------------
(***************************************************************************)
(* Properties.                                                             *)
(***************************************************************************)
GoroutineStates == {"none", "running", "sending", "sent"}

\* Every variable stays in its range, a process that exited has a status, and
\* from Parse on cfg is a configuration the reaper can use (NodeReaper's
\* ConfigAssumption): both limits have a type and there is a predicate.
TypeOK ==
  /\ doc \in Documents /\ args \in Arguments /\ disk \in Disks
  /\ pc \in {"flags", "config", "clients", "plugins", "serve", "control", "capture",
             "select", "exited", "panicked", "killed"}
  /\ pc \in {"clients", "plugins", "serve", "control", "capture", "select"}
       => cfg \in ParsedConfig
  /\ cfg \in ParsedConfig \cup {NoConfig}
  /\ loaded \in 0..Len(Paths(args))
  /\ plugins \subseteq Files
  /\ metrics \in GoroutineStates /\ controller \in GoroutineStates
  /\ sigC \in 0..1 /\ signalled \in BOOLEAN
  /\ status \in {NoStatus, 0, 1}
  /\ status # NoStatus <=> pc = "exited"

\* The reaper is at work, in this process.
Reaping == controller = "running" /\ ~Ended

\* A reaper that touches nodes was told to by a file that writes dryRun, and
\* one that terminates instances has a provider and no word against it.
OnlyWhatWasAsked ==
  Reaping /\ ~cfg.dryRun =>
    /\ "dryRun" \in Written(doc)
    /\ ~cfg.skipReaping => plugins # {}

\* A drain has thirty seconds and a new node its grace period, unless the
\* number in the file overflows time.Duration; and one that overflows may make
\* a duration shorter than the file says, negative even, but never longer: the
\* only worker does not wait for centuries.
DurationsHold ==
  Reaping =>
    LET drain == Load(doc).drainTimeoutSeconds
        grace == Load(doc).newNodeGracePeriodSeconds
    IN /\ InRange(drain) => cfg.drainTimeout >= 30 * Second
       /\ InRange(grace) => cfg.newNodeGracePeriod = grace * Second
       /\ cfg.drainTimeout <= (IF drain < 30 THEN 30 ELSE drain) * Second
       /\ cfg.newNodeGracePeriod <= grace * Second

\* A reaper has every plugin its paths hold: none replaced another silently.
NoPluginLost ==
  Reaping => plugins = UNION {PluginsAt(Paths(args)[i]) : i \in DOMAIN Paths(args)}

\* The program exits with status 0 only when it was asked to.
ZeroMeansAsked == status = 0 => signalled \/ args.version

\* No signal and no error is lost: a program that was sent a signal is over, or
\* is in its select with the signal waiting, however many came and whatever the
\* goroutines do; and an error that was taken is what the program exits with,
\* although another one, or a signal, may have been ready.
NothingUnheard ==
  /\ signalled => Ended \/ (pc = "select" /\ sigC = 1)
  /\ "sent" \in {metrics, controller} => status = 1

\* A signal, or an error of a goroutine, ends the program, whatever main was
\* doing and however many come.
EndsWhenTold ==
  signalled \/ metrics = "sending" \/ controller = "sending" ~> Ended
=============================================================================
