---------------------------- MODULE StartupProofs ----------------------------
(***************************************************************************)
(* Theorems about module Startup, for every set of documents, command      *)
(* lines and disks: a reaper is at work only with a configuration it can   *)
(* use, on what it was asked to do and with every plugin it was pointed    *)
(* to, and the program ends well only when it was asked to.                *)
(***************************************************************************)
EXTENDS Startup, TLAPS

-----------------------------------------------------------------------------
(***************************************************************************)
(* Durations.                                                              *)
(***************************************************************************)
\* A number of seconds is a time.Duration, whatever the number.
LEMMA SecondsIsDuration == ASSUME NEW n \in Nat PROVE Seconds(n) \in Durations
<1>1. Second \in Nat /\ MaxUint \in Nat
  BY SecondAssumption, MaxUintAssumption
<1> DEFINE x == n * Second
           r == x % (MaxUint + 1)
<1>2. x \in Nat
  BY <1>1
<1>3. r \in 0..MaxUint
  BY <1>1, <1>2
<1>4. ToInt(x) = IF 2 * r > MaxUint THEN r - (MaxUint + 1) ELSE r
  BY DEF ToInt
<1> HIDE DEF r, x
<1>5. ToInt(x) \in Durations
  BY <1>1, <1>3, <1>4 DEF Durations
<1> QED
  BY <1>5 DEF Seconds, x

\* In range it is that number of seconds.
LEMMA SecondsInRange ==
  ASSUME NEW n \in Nat, InRange(n)
  PROVE  Seconds(n) = n * Second
<1>1. Second \in Nat /\ MaxUint \in Nat
  BY SecondAssumption, MaxUintAssumption
<1> DEFINE x == n * Second
<1>2. x \in Nat
  BY <1>1
<1>3. 2 * x <= MaxUint
  BY <1>1 DEF InRange
<1> HIDE DEF x
<1>4. x % (MaxUint + 1) = x
  BY <1>1, <1>2, <1>3
<1>5. ToInt(x) = x
  BY <1>1, <1>2, <1>3, <1>4 DEF ToInt
<1> QED
  BY <1>5 DEF Seconds, x

\* The floor of the drain timeout holds for every number that is in range.
LEMMA TimeoutHasFloor ==
  ASSUME NEW n \in Nat, InRange(n)
  PROVE  DrainTimeout(n) >= 30 * Second
<1>1. Second \in Nat /\ MaxUint \in Nat /\ 2 * (30 * Second) <= MaxUint
  BY SecondAssumption, MaxUintAssumption
<1>2. CASE n < 30
  <2>1. InRange(30)
    BY <1>1 DEF InRange
  <2> QED
    BY <1>1, <1>2, <2>1, SecondsInRange DEF DrainTimeout
<1>3. CASE n >= 30
  <2>1. n * Second >= 30 * Second
    BY <1>1, <1>3
  <2> QED
    BY <1>1, <1>3, <2>1, SecondsInRange DEF DrainTimeout
<1> QED
  BY <1>2, <1>3

\* An overflow makes no duration longer.
LEMMA SecondsNeverMore ==
  ASSUME NEW n \in Nat
  PROVE  Seconds(n) <= n * Second
<1>1. Second \in Nat /\ MaxUint \in Nat
  BY SecondAssumption, MaxUintAssumption
<1> DEFINE x == n * Second
           r == x % (MaxUint + 1)
<1>2. x \in Nat
  BY <1>1
<1>3. r \in Nat /\ r <= x
  BY <1>1, <1>2
<1>4. ToInt(x) = IF 2 * r > MaxUint THEN r - (MaxUint + 1) ELSE r
  BY DEF ToInt
<1> HIDE DEF r, x
<1>5. ToInt(x) <= x
  BY <1>1, <1>2, <1>3, <1>4
<1> QED
  BY <1>5 DEF Seconds, x

\* Nor does it make a drain wait longer than the file or the floor says.
LEMMA TimeoutNeverMore ==
  ASSUME NEW n \in Nat
  PROVE  DrainTimeout(n) <= (IF n < 30 THEN 30 ELSE n) * Second
  BY SecondsNeverMore DEF DrainTimeout

\* The drain timeout is a time.Duration.
LEMMA TimeoutIsDuration == ASSUME NEW n \in Nat PROVE DrainTimeout(n) \in Durations
  BY SecondsIsDuration DEF DrainTimeout

-----------------------------------------------------------------------------
(***************************************************************************)
(* Load and Parse.                                                         *)
(***************************************************************************)
\* The keys of a file.
LEMMA KeysOfFile ==
  Keys = {"reapPredicate", "unhealthyPredicate", "maxNodesUnhealthy",
          "maxNodesUnhealthyInSameZone", "newNodeGracePeriodSeconds",
          "drainTimeoutSeconds", "drainForceRetryOnError",
          "podDeletionGracePeriodSeconds", "useEviction", "skipReaping", "dryRun"}
  BY DEF Keys, defaultConfig

\* The two constants of Load are files.
LEMMA ConstantsAreFiles == defaultConfig \in File /\ zeroedConfig \in File
<1>1. MaxUint \in Nat /\ MaxUint >= 310
  BY SecondAssumption, MaxUintAssumption
<1> QED
  BY <1>1 DEF defaultConfig, zeroedConfig, File, Expressions, Settings, Unset

\* A value of one key that fits into an empty File fits its field.
LEMMA FieldTypes ==
  ASSUME NEW u, \A k \in Keys : [zeroedConfig EXCEPT ![k] = u[k]] \in File
  PROVE  /\ u["reapPredicate"] \in Expressions
         /\ u["unhealthyPredicate"] \in Expressions
         /\ u["maxNodesUnhealthy"] \in Settings
         /\ u["maxNodesUnhealthyInSameZone"] \in Settings
         /\ u["newNodeGracePeriodSeconds"] \in 0..MaxUint
         /\ u["drainTimeoutSeconds"] \in 0..MaxUint
         /\ u["drainForceRetryOnError"] \in BOOLEAN
         /\ u["podDeletionGracePeriodSeconds"] \in 0..MaxUint
         /\ u["useEviction"] \in BOOLEAN
         /\ u["skipReaping"] \in BOOLEAN
         /\ u["dryRun"] \in BOOLEAN
<1> USE KeysOfFile DEF File, zeroedConfig
<1>1. u["reapPredicate"] \in Expressions
  <2>1. [zeroedConfig EXCEPT !["reapPredicate"] = u["reapPredicate"]] \in File
    OBVIOUS
  <2> QED
    BY <2>1
<1>2. u["unhealthyPredicate"] \in Expressions
  <2>1. [zeroedConfig EXCEPT !["unhealthyPredicate"] = u["unhealthyPredicate"]] \in File
    OBVIOUS
  <2> QED
    BY <2>1
<1>3. u["maxNodesUnhealthy"] \in Settings
  <2>1. [zeroedConfig EXCEPT !["maxNodesUnhealthy"] = u["maxNodesUnhealthy"]] \in File
    OBVIOUS
  <2> QED
    BY <2>1
<1>4. u["maxNodesUnhealthyInSameZone"] \in Settings
  <2>1. [zeroedConfig EXCEPT !["maxNodesUnhealthyInSameZone"] = u["maxNodesUnhealthyInSameZone"]] \in File
    OBVIOUS
  <2> QED
    BY <2>1
<1>5. u["newNodeGracePeriodSeconds"] \in 0..MaxUint
  <2>1. [zeroedConfig EXCEPT !["newNodeGracePeriodSeconds"] = u["newNodeGracePeriodSeconds"]] \in File
    OBVIOUS
  <2> QED
    BY <2>1
<1>6. u["drainTimeoutSeconds"] \in 0..MaxUint
  <2>1. [zeroedConfig EXCEPT !["drainTimeoutSeconds"] = u["drainTimeoutSeconds"]] \in File
    OBVIOUS
  <2> QED
    BY <2>1
<1>7. u["drainForceRetryOnError"] \in BOOLEAN
  <2>1. [zeroedConfig EXCEPT !["drainForceRetryOnError"] = u["drainForceRetryOnError"]] \in File
    OBVIOUS
  <2> QED
    BY <2>1
<1>8. u["podDeletionGracePeriodSeconds"] \in 0..MaxUint
  <2>1. [zeroedConfig EXCEPT !["podDeletionGracePeriodSeconds"] = u["podDeletionGracePeriodSeconds"]] \in File
    OBVIOUS
  <2> QED
    BY <2>1
<1>9. u["useEviction"] \in BOOLEAN
  <2>1. [zeroedConfig EXCEPT !["useEviction"] = u["useEviction"]] \in File
    OBVIOUS
  <2> QED
    BY <2>1
<1>10. u["skipReaping"] \in BOOLEAN
  <2>1. [zeroedConfig EXCEPT !["skipReaping"] = u["skipReaping"]] \in File
    OBVIOUS
  <2> QED
    BY <2>1
<1>11. u["dryRun"] \in BOOLEAN
  <2>1. [zeroedConfig EXCEPT !["dryRun"] = u["dryRun"]] \in File
    OBVIOUS
  <2> QED
    BY <2>1
<1> QED
  BY <1>1, <1>2, <1>3, <1>4, <1>5, <1>6, <1>7, <1>8, <1>9, <1>10, <1>11

\* A default fits into an empty File.
LEMMA DefaultFits ==
  ASSUME NEW k \in Keys
  PROVE  [zeroedConfig EXCEPT ![k] = defaultConfig[k]] \in File
<1> DEFINE v == [zeroedConfig EXCEPT ![k] = defaultConfig[k]]
<1>1. DOMAIN v = Keys /\ v = [j \in Keys |-> IF j = k THEN defaultConfig[j] ELSE zeroedConfig[j]]
  BY KeysOfFile DEF zeroedConfig
<1>2. v = [j \in Keys |-> v[j]]
  BY <1>1
<1>3. \A j \in Keys : v[j] = defaultConfig[j] \/ v[j] = zeroedConfig[j]
  BY <1>1
<1> HIDE DEF v
<1>4. v \in File
  BY <1>2, <1>3, KeysOfFile, ConstantsAreFiles DEF File
<1> QED
  BY <1>4 DEF v

\* Load returns a File.
LEMMA LoadIsFile ==
  ASSUME NEW d, IsDocument(d), ~LoadFails(d)
  PROVE  Load(d) \in File
<1> DEFINE u == Unmarshal(d)
<1>0. \A k \in Keys : [zeroedConfig EXCEPT ![k] = defaultConfig[k]] \in File
  BY DefaultFits
<1>1. ASSUME NEW k \in Keys
      PROVE  [zeroedConfig EXCEPT ![k] = u[k]] \in File
  <2>1. [zeroedConfig EXCEPT ![k] = defaultConfig[k]] \in File
    BY <1>0
  <2>2. [zeroedConfig EXCEPT ![k] = zeroedConfig[k]] \in File
    BY ConstantsAreFiles, KeysOfFile DEF File, zeroedConfig
  <2>3. ASSUME k \in Written(d), d.keys[k] # Null
        PROVE  [zeroedConfig EXCEPT ![k] = d.keys[k]] \in File
    BY <2>3 DEF Written, IsDocument, IsMap, LoadFails
  <2>4. \/ u[k] = defaultConfig[k]
        \/ u[k] = zeroedConfig[k]
        \/ k \in Written(d) /\ d.keys[k] # Null /\ u[k] = d.keys[k]
    BY DEF Unmarshal
  <2> QED
    BY <2>1, <2>2, <2>3, <2>4
<1>2. DOMAIN u = Keys /\ u = [k \in Keys |-> u[k]]
  BY DEF Unmarshal
<1> HIDE DEF u
<1>3. u \in File
  BY <1>1, <1>2, FieldTypes, KeysOfFile DEF File
<1> QED
  BY <1>3, ConstantsAreFiles DEF Load, u

\* Parse returns a Config the reaper can use.
LEMMA ParseIsConfig ==
  ASSUME NEW cf \in File, ~ParseFails(cf)
  PROVE  Parse(cf) \in ParsedConfig
<1>1. /\ cf.newNodeGracePeriodSeconds \in Nat
      /\ cf.drainTimeoutSeconds \in Nat
      /\ cf.podDeletionGracePeriodSeconds \in Nat
  BY MaxUintAssumption DEF File
<1>2. /\ Seconds(cf.newNodeGracePeriodSeconds) \in Durations
      /\ DrainTimeout(cf.drainTimeoutSeconds) \in Durations
      /\ Seconds(cf.podDeletionGracePeriodSeconds) \in Durations
  BY <1>1, SecondsIsDuration, TimeoutIsDuration
<1>3. /\ cf.maxNodesUnhealthy \in AcceptedSettings
      /\ cf.maxNodesUnhealthyInSameZone \in AcceptedSettings
  BY DEF File, ParseFails, AcceptedSettings
<1>4. /\ cf.reapPredicate \in Expressions /\ cf.unhealthyPredicate \in Expressions
      /\ cf.drainForceRetryOnError \in BOOLEAN /\ cf.useEviction \in BOOLEAN
      /\ cf.skipReaping \in BOOLEAN /\ cf.dryRun \in BOOLEAN
  BY DEF File
<1>5. (IF cf.reapPredicate = "" THEN "defaultReap" ELSE cf.reapPredicate) \in Expressions \ {""}
  BY <1>4 DEF Expressions
<1> QED
  BY <1>2, <1>3, <1>4, <1>5 DEF Parse, ParsedConfig

\* What Parse makes of the settings the properties speak of.
LEMMA ParseKeeps ==
  ASSUME NEW cf
  PROVE  /\ Parse(cf).dryRun = cf.dryRun
         /\ Parse(cf).drainTimeout = DrainTimeout(cf.drainTimeoutSeconds)
         /\ Parse(cf).newNodeGracePeriod = Seconds(cf.newNodeGracePeriodSeconds)
  BY DEF Parse

\* Only a file that writes dryRun switches it off.
LEMMA DryRunByDefault ==
  ASSUME NEW d, IsDocument(d), ~LoadFails(d), ~Load(d).dryRun
  PROVE  "dryRun" \in Written(d)
<1> DEFINE u == Unmarshal(d)
<1>1. SUFFICES ASSUME "dryRun" \notin Written(d) PROVE Load(d).dryRun
  OBVIOUS
<1>2. defaultConfig.dryRun /\ ~zeroedConfig.dryRun
  BY DEF defaultConfig, zeroedConfig
<1>3. CASE d.kind = "null"
  <2>1. \A k \in Keys : u[k] = zeroedConfig[k]
    BY <1>3 DEF Unmarshal, Written
  <2>2. u = [k \in Keys |-> u[k]]
    BY DEF Unmarshal
  <2>3. zeroedConfig = [k \in Keys |-> zeroedConfig[k]]
    BY KeysOfFile DEF zeroedConfig
  <2> HIDE DEF u
  <2>4. u = zeroedConfig
    BY <2>1, <2>2, <2>3
  <2> QED
    BY <1>2, <2>4 DEF Load, u
<1>4. CASE d.kind # "null"
  <2>1. u["dryRun"] = defaultConfig["dryRun"]
    BY <1>1, <1>4, KeysOfFile DEF Unmarshal
  <2> HIDE DEF u
  <2> QED
    BY <1>2, <2>1 DEF Load, u
<1> QED
  BY <1>3, <1>4

-----------------------------------------------------------------------------
(***************************************************************************)
(* Plugin paths.                                                           *)
(***************************************************************************)
LEMMA PathsAreCounted ==
  ASSUME args \in Arguments
  PROVE  Len(Paths(args)) \in Nat /\ DOMAIN Paths(args) = 1..Len(Paths(args))
<1>1. args.providerPlugins \in Seq(STRING)
  BY ArgumentAssumption DEF Argument
<1>2. CASE args.providerPlugins = <<>>
  BY <1>2 DEF Paths
<1>3. CASE args.providerPlugins # <<>>
  <2>1. Paths(args) = args.providerPlugins
    BY <1>3 DEF Paths
  <2> QED
    BY <1>1, <2>1
<1> QED
  BY <1>2, <1>3

\* There is a path to go to while not all were gone through.
LEMMA NextPathHolds ==
  ASSUME args \in Arguments, disk \in Disks, loaded \in 0..Len(Paths(args)),
         loaded < Len(Paths(args))
  PROVE  loaded + 1 \in DOMAIN Paths(args) /\ PluginsAt(NextPath) \subseteq Files
<1>2. Len(Paths(args)) \in Nat /\ DOMAIN Paths(args) = 1..Len(Paths(args))
  BY PathsAreCounted
<1>3. loaded + 1 \in DOMAIN Paths(args)
  BY <1>2
<1>4. disk[NextPath] \in Entry
  BY <1>3, DiskAssumption DEF NextPath
<1> QED
  BY <1>3, <1>4 DEF PluginsAt, Entry

\* Without a duplicate, Put adds every new plugin, and each type is there once.
LEMMA PutAddsAll ==
  ASSUME NEW new, ~Duplicate(new), Put(new),
         \A f, g \in plugins : TypeOfPlugin[f] = TypeOfPlugin[g] => f = g
  PROVE  /\ plugins' = plugins \cup new
         /\ \A f, g \in plugins' : TypeOfPlugin[f] = TypeOfPlugin[g] => f = g
<1>1. \A f, g \in plugins \cup new : TypeOfPlugin[f] = TypeOfPlugin[g] => f = g
  BY DEF Duplicate
<1>2. /\ plugins' \subseteq plugins \cup new
      /\ {TypeOfPlugin[f] : f \in plugins'} = {TypeOfPlugin[f] : f \in plugins \cup new}
      /\ \A f, g \in plugins' : TypeOfPlugin[f] = TypeOfPlugin[g] => f = g
  BY DEF Put
<1>3. ASSUME NEW f \in plugins \cup new PROVE f \in plugins'
  <2>1. PICK g \in plugins' : TypeOfPlugin[g] = TypeOfPlugin[f]
    BY <1>2
  <2> QED
    BY <1>1, <1>2, <2>1
<1> QED
  BY <1>2, <1>3

-----------------------------------------------------------------------------
(***************************************************************************)
(* Types.                                                                  *)
(***************************************************************************)
\* The configuration can be read off the document once it was parsed.
LEMMA LoadedConfig ==
  ASSUME doc \in Documents, ~LoadFails(doc), ~ParseFails(Load(doc))
  PROVE  Parse(Load(doc)) \in ParsedConfig
  BY DocumentAssumption, LoadIsFile, ParseIsConfig

\* Every start is in range.
LEMMA TypeInit == Init => TypeOK
<1> SUFFICES ASSUME Init PROVE TypeOK
  OBVIOUS
<1>1. Len(Paths(args)) \in Nat
  BY PathsAreCounted DEF Init
<1>2. loaded \in 0..Len(Paths(args))
  BY <1>1 DEF Init
<1>3. metrics \in GoroutineStates /\ controller \in GoroutineStates
  BY DEF Init, GoroutineStates
<1>4. plugins \subseteq Files
  BY DEF Init
<1>7. sigC \in 0..1
  BY DEF Init
<1>8. signalled \in BOOLEAN
  BY DEF Init
<1>5. status \in {NoStatus, 0, 1} /\ cfg \in ParsedConfig \cup {NoConfig}
  BY DEF Init
<1>6. pc = "flags" /\ status = NoStatus
  BY DEF Init
<1> QED
  BY <1>2, <1>3, <1>4, <1>5, <1>6, <1>7, <1>8 DEF Init, TypeOK

\* No step takes a variable out of its range.
LEMMA TypeStep == TypeOK /\ [Next]_vars => TypeOK'
<1> SUFFICES ASSUME TypeOK, [Next]_vars PROVE TypeOK'
  OBVIOUS
<1> USE DEF TypeOK, GoroutineStates, NoStatus, Exit, input, goroutines, signals, Ended
<1>0. Len(Paths(args)) \in Nat
  BY PathsAreCounted
<1>1. CASE ShowVersion
  BY <1>1 DEF ShowVersion
<1>2. CASE CreateLogger
  <2>1. /\ (pc' = "config" /\ status' = status) \/ (pc' = "exited" /\ status' = 1)
        /\ UNCHANGED <<input, cfg, loaded, plugins, goroutines, signals>>
    BY <1>2 DEF CreateLogger
  <2>2. CASE pc' = "config" /\ status' = status
    BY <1>2, <2>1, <2>2 DEF CreateLogger
  <2>3. CASE pc' = "exited" /\ status' = 1
    BY <2>1, <2>3
  <2> QED
    BY <2>1, <2>2, <2>3
<1>3. CASE loadConfig
  BY <1>3, LoadedConfig DEF loadConfig
<1>4. CASE createKubernetesClients
  BY <1>4 DEF createKubernetesClients
<1>5. CASE SkipPath
  BY <1>0, <1>5 DEF SkipPath
<1>6. CASE UseNilPlugin
  BY <1>6 DEF UseNilPlugin
<1>7. CASE LoadPath
  <2>1. PluginsAt(NextPath) \subseteq Files
    BY <1>7, NextPathHolds DEF LoadPath
  <2>2. CASE Duplicate(PluginsAt(NextPath))
    BY <1>7, <2>2 DEF LoadPath
  <2>3. CASE ~Duplicate(PluginsAt(NextPath))
    <3>1. plugins' \subseteq Files
      BY <1>7, <2>1, <2>3 DEF LoadPath, Put
    <3> QED
      BY <1>0, <1>7, <2>3, <3>1 DEF LoadPath
  <2> QED
    BY <2>2, <2>3
<1>8. CASE DirectoryFails
  BY <1>8 DEF DirectoryFails
<1>9. CASE PluginsLoaded
  <2>1. cfg' \in ParsedConfig
    BY <1>9 DEF PluginsLoaded, ParsedConfig
  <2> QED
    BY <1>9, <2>1 DEF PluginsLoaded
<1>10. CASE Serve
  BY <1>10 DEF Serve
<1>11. CASE Control
  BY <1>11 DEF Control
<1>12. CASE createSignalCapturer
  BY <1>12 DEF createSignalCapturer
<1>13. CASE MetricsFails
  BY <1>13 DEF MetricsFails
<1>14. CASE ControllerFails
  BY <1>14 DEF ControllerFails
<1>15. CASE SelectSignal
  BY <1>15 DEF SelectSignal
<1>16. CASE SelectError
  BY <1>16 DEF SelectError
<1>17. CASE Signal
  BY <1>17 DEF Signal
<1>18. CASE UNCHANGED vars
  BY <1>18 DEF vars
<1> QED
  BY <1>1, <1>2, <1>3, <1>4, <1>5, <1>6, <1>7, <1>8, <1>9, <1>10, <1>11, <1>12,
     <1>13, <1>14, <1>15, <1>16, <1>17, <1>18 DEF Next, Main

\* Type correctness: from Parse on the configuration is one that NodeReaper's
\* assumptions allow, for every document the file may hold.
THEOREM StartupTypes == Spec => []TypeOK
<1>1. Init => TypeOK
  BY TypeInit
<1>2. TypeOK /\ [Next]_vars => TypeOK'
  BY TypeStep
<1> QED
  BY <1>1, <1>2, PTL DEF Spec

-----------------------------------------------------------------------------
(***************************************************************************)
(* The exit status.                                                        *)
(***************************************************************************)
\* A signal that waits was sent, and a zero was asked for.
StatusInv ==
  /\ sigC = 1 => signalled
  /\ ZeroMeansAsked

\* Nothing but a signal or -version ends the program with 0.
LEMMA StatusStep == StatusInv /\ [Next]_vars => StatusInv'
<1> SUFFICES ASSUME StatusInv, [Next]_vars PROVE StatusInv'
  OBVIOUS
<1> USE DEF StatusInv, ZeroMeansAsked, Exit, input, goroutines, signals
<1>1. CASE ShowVersion
  BY <1>1 DEF ShowVersion
<1>2. CASE CreateLogger
  <2>1. status' \in {status, 1} /\ UNCHANGED <<args, sigC, signalled>>
    BY <1>2 DEF CreateLogger
  <2> QED
    BY <2>1
<1>3. CASE loadConfig
  BY <1>3 DEF loadConfig
<1>4. CASE createKubernetesClients
  BY <1>4 DEF createKubernetesClients
<1>5. CASE LoadPath
  BY <1>5 DEF LoadPath
<1>6. CASE DirectoryFails
  BY <1>6 DEF DirectoryFails
<1>7. CASE SelectSignal
  BY <1>7 DEF SelectSignal
<1>8. CASE SelectError
  BY <1>8 DEF SelectError
<1>9. CASE Signal
  BY <1>9 DEF Signal
<1>10. CASE \/ SkipPath \/ UseNilPlugin \/ PluginsLoaded \/ Serve \/ Control
            \/ createSignalCapturer \/ MetricsFails \/ ControllerFails \/ UNCHANGED vars
  BY <1>10 DEF SkipPath, UseNilPlugin, PluginsLoaded, Serve, Control,
               createSignalCapturer, MetricsFails, ControllerFails, vars
<1> QED
  BY <1>1, <1>2, <1>3, <1>4, <1>5, <1>6, <1>7, <1>8, <1>9, <1>10 DEF Next, Main

\* A zero means that the program was asked to end: by a signal or with -version.
THEOREM ZeroMeansAskedCorrect == Spec => []ZeroMeansAsked
<1>1. Init => StatusInv
  BY DEF Init, StatusInv, ZeroMeansAsked, NoStatus
<1>2. StatusInv /\ [Next]_vars => StatusInv'
  BY StatusStep
<1>3. StatusInv => ZeroMeansAsked
  BY DEF StatusInv
<1> QED
  BY <1>1, <1>2, <1>3, PTL DEF Spec

-----------------------------------------------------------------------------
(***************************************************************************)
(* What main is told.  An error is taken only by the step that ends the    *)
(* program, and only a program at its select survives a signal: so neither *)
(* can be passed over by a step that comes later.                          *)
(***************************************************************************)
UnheardInv ==
  /\ ~Ended => "sent" \notin {metrics, controller}
  /\ NothingUnheard

\* A step that ends the program takes what was told; every other one keeps it.
LEMMA UnheardStep == UnheardInv /\ [Next]_vars => UnheardInv'
<1> SUFFICES ASSUME UnheardInv, [Next]_vars PROVE UnheardInv'
  OBVIOUS
<1> USE DEF UnheardInv, NothingUnheard, Ended, Exit, input, goroutines, signals
<1>1. CASE ShowVersion \/ CreateLogger \/ loadConfig \/ createKubernetesClients
  <2>1. pc \in {"flags", "config", "clients"} /\ UNCHANGED <<goroutines, signals>>
    BY <1>1 DEF ShowVersion, CreateLogger, loadConfig, createKubernetesClients
  <2>2. ~signalled /\ "sent" \notin {metrics, controller}
    BY <2>1
  <2> QED
    BY <2>1, <2>2
<1>2. CASE SkipPath \/ UseNilPlugin \/ LoadPath \/ DirectoryFails \/ PluginsLoaded
  BY <1>2 DEF SkipPath, UseNilPlugin, LoadPath, DirectoryFails, PluginsLoaded
<1>3. CASE Serve \/ Control \/ createSignalCapturer
  BY <1>3 DEF Serve, Control, createSignalCapturer
<1>4. CASE SelectSignal
  BY <1>4 DEF SelectSignal
<1>5. CASE SelectError
  BY <1>5 DEF SelectError
<1>6. CASE MetricsFails \/ ControllerFails
  BY <1>6 DEF MetricsFails, ControllerFails
<1>7. CASE Signal
  BY <1>7 DEF Signal
<1>8. CASE UNCHANGED vars
  BY <1>8 DEF vars
<1> QED
  BY <1>1, <1>2, <1>3, <1>4, <1>5, <1>6, <1>7, <1>8 DEF Next, Main

\* No signal is lost, before main listens, while it does or after, and no error
\* is taken without becoming the exit status.
THEOREM NothingUnheardCorrect == Spec => []NothingUnheard
<1>1. Init => UnheardInv
  BY DEF Init, UnheardInv, NothingUnheard
<1>2. UnheardInv /\ [Next]_vars => UnheardInv'
  BY UnheardStep
<1>3. UnheardInv => NothingUnheard
  BY DEF UnheardInv
<1> QED
  BY <1>1, <1>2, <1>3, PTL DEF Spec

-----------------------------------------------------------------------------
(***************************************************************************)
(* The plugins.                                                            *)
(***************************************************************************)
\* The plugins of the paths that were gone through.
Held == UNION {PluginsAt(Paths(args)[i]) : i \in 1..loaded}

\* A program that goes on has every plugin it came across, each type once, and
\* no controller before it went through all paths.
PluginInv ==
  /\ ~Ended => plugins = Held
  /\ ~Ended => \A f, g \in plugins : TypeOfPlugin[f] = TypeOfPlugin[g] => f = g
  /\ pc \in {"serve", "control", "capture", "select"} => loaded = Len(Paths(args))
  /\ controller # "none" => pc \in {"capture", "select"} \/ Ended

\* What the paths hold depends on the paths gone through only.
LEMMA HeldSame == UNCHANGED <<args, disk, loaded>> => Held' = Held
  BY DEF Held, PluginsAt, Paths

\* Going through one path more adds its plugins.
LEMMA HeldGrows ==
  ASSUME TypeOK, UNCHANGED <<args, disk>>, loaded' = loaded + 1
  PROVE  Held' = Held \cup PluginsAt(NextPath)
<1>1. loaded \in Nat
  BY PathsAreCounted DEF TypeOK
<1>2. 1..loaded' = 1..loaded \cup {loaded + 1}
  BY <1>1
<1>3. Held' = UNION {PluginsAt(Paths(args)[i]) : i \in 1..loaded'}
  BY DEF Held, PluginsAt, Paths
<1> QED
  BY <1>2, <1>3 DEF Held, NextPath

\* Every step keeps the plugins of the paths gone through.
LEMMA PluginStep == TypeOK /\ PluginInv /\ [Next]_vars => PluginInv'
<1> SUFFICES ASSUME TypeOK, PluginInv, [Next]_vars PROVE PluginInv'
  OBVIOUS
<1> USE DEF PluginInv, Exit, input, goroutines, signals, Ended
<1>1. CASE ShowVersion
  BY <1>1 DEF ShowVersion
<1>2. CASE CreateLogger
  BY <1>2, HeldSame DEF CreateLogger
<1>3. CASE loadConfig
  BY <1>3, HeldSame DEF loadConfig
<1>4. CASE createKubernetesClients
  BY <1>4, HeldSame DEF createKubernetesClients
<1>5. CASE SkipPath
  <2>1. PluginsAt(NextPath) = {}
    <3>1. loaded + 1 \in DOMAIN Paths(args)
      BY <1>5, NextPathHolds DEF SkipPath, TypeOK
    <3>2. disk[NextPath].files = {}
      BY <1>5, <3>1, DiskAssumption DEF SkipPath, TypeOK, NextPath
    <3> QED
      BY <3>2 DEF PluginsAt
  <2> QED
    BY <1>5, <2>1, HeldGrows DEF SkipPath
<1>6. CASE UseNilPlugin
  BY <1>6 DEF UseNilPlugin
<1>7. CASE LoadPath
  <2>1. CASE Duplicate(PluginsAt(NextPath))
    BY <1>7, <2>1 DEF LoadPath
  <2>2. CASE ~Duplicate(PluginsAt(NextPath))
    <3>1. /\ plugins' = plugins \cup PluginsAt(NextPath)
          /\ \A f, g \in plugins' : TypeOfPlugin[f] = TypeOfPlugin[g] => f = g
      BY <1>7, <2>2, PutAddsAll DEF LoadPath
    <3>2. Held' = Held \cup PluginsAt(NextPath)
      BY <1>7, <2>2, HeldGrows DEF LoadPath
    <3> QED
      BY <1>7, <2>2, <3>1, <3>2 DEF LoadPath
  <2> QED
    BY <2>1, <2>2
<1>8. CASE DirectoryFails
  BY <1>8 DEF DirectoryFails
<1>9. CASE PluginsLoaded
  <2>1. Held' = Held
    BY <1>9, HeldSame DEF PluginsLoaded
  <2>2. Paths(args)' = Paths(args)
    BY <1>9 DEF PluginsLoaded, Paths
  <2> QED
    BY <1>9, <2>1, <2>2 DEF PluginsLoaded
<1>10. CASE Serve \/ Control \/ createSignalCapturer \/ MetricsFails \/ ControllerFails
  <2>1. Held' = Held
    BY <1>10, HeldSame DEF Serve, Control, createSignalCapturer, MetricsFails, ControllerFails
  <2>2. Paths(args)' = Paths(args)
    BY <1>10 DEF Serve, Control, createSignalCapturer, MetricsFails, ControllerFails, Paths
  <2> QED
    BY <1>10, <2>1, <2>2
       DEF Serve, Control, createSignalCapturer, MetricsFails, ControllerFails
<1>11. CASE SelectSignal \/ SelectError
  BY <1>11 DEF SelectSignal, SelectError
<1>12. CASE Signal \/ UNCHANGED vars
  <2>1. Held' = Held
    BY <1>12, HeldSame DEF Signal, vars
  <2>2. Paths(args)' = Paths(args)
    BY <1>12 DEF Signal, vars, Paths
  <2> QED
    BY <1>12, <2>1, <2>2 DEF Signal, vars
<1> QED
  BY <1>1, <1>2, <1>3, <1>4, <1>5, <1>6, <1>7, <1>8, <1>9, <1>10, <1>11, <1>12 DEF Next, Main

\* A reaper at work has every plugin its paths hold.
THEOREM NoPluginLostCorrect == Spec => []NoPluginLost
<1>1. Init => PluginInv
  BY DEF Init, PluginInv, Held, Ended
<1>2. TypeOK /\ PluginInv /\ [Next]_vars => PluginInv'
  BY PluginStep
<1>3. TypeOK /\ PluginInv => NoPluginLost
  <2> SUFFICES ASSUME TypeOK, PluginInv, Reaping
               PROVE  plugins = UNION {PluginsAt(Paths(args)[i]) : i \in DOMAIN Paths(args)}
    BY DEF NoPluginLost
  <2>1. plugins = Held /\ loaded = Len(Paths(args))
    BY DEF Reaping, PluginInv
  <2>2. DOMAIN Paths(args) = 1..Len(Paths(args))
    BY PathsAreCounted DEF TypeOK
  <2> QED
    BY <2>1, <2>2 DEF Held
<1> QED
  BY <1>1, <1>2, <1>3, StartupTypes, PTL DEF Spec

-----------------------------------------------------------------------------
(***************************************************************************)
(* The configuration.                                                      *)
(***************************************************************************)
\* From Parse on the settings are those of the document; only skipReaping is
\* set later, when there is no plugin.
ConfigInv ==
  /\ pc \in {"clients", "plugins", "serve", "control", "capture", "select"} =>
       /\ ~LoadFails(doc)
       /\ cfg.dryRun = Load(doc).dryRun
       /\ cfg.drainTimeout = DrainTimeout(Load(doc).drainTimeoutSeconds)
       /\ cfg.newNodeGracePeriod = Seconds(Load(doc).newNodeGracePeriodSeconds)
  /\ pc \in {"serve", "control", "capture", "select"} => plugins # {} \/ cfg.skipReaping
  /\ controller # "none" => pc \in {"capture", "select"} \/ Ended

\* Every step keeps the configuration that of the document.
LEMMA ConfigStep == TypeOK /\ ConfigInv /\ [Next]_vars => ConfigInv'
<1> SUFFICES ASSUME TypeOK, ConfigInv, [Next]_vars PROVE ConfigInv'
  OBVIOUS
<1> USE DEF ConfigInv, Exit, input, goroutines, signals, Ended
<1>1. CASE ShowVersion
  BY <1>1 DEF ShowVersion
<1>2. CASE CreateLogger
  <2>1. pc' \in {"config", "exited"} /\ pc = "flags" /\ UNCHANGED controller
    BY <1>2 DEF CreateLogger
  <2> QED
    BY <2>1
<1>3. CASE loadConfig
  <2>1. CASE LoadFails(doc) \/ ParseFails(Load(doc))
    BY <1>3, <2>1 DEF loadConfig
  <2>2. CASE ~LoadFails(doc) /\ ~ParseFails(Load(doc))
    <3>1. /\ pc = "config" /\ pc' = "clients" /\ cfg' = Parse(Load(doc))
          /\ UNCHANGED <<doc, controller>>
      BY <1>3, <2>2 DEF loadConfig
    <3> QED
      BY <2>2, <3>1, ParseKeeps
  <2> QED
    BY <2>1, <2>2
<1>4. CASE createKubernetesClients
  BY <1>4 DEF createKubernetesClients
<1>5. CASE SkipPath \/ UseNilPlugin \/ DirectoryFails
  BY <1>5 DEF SkipPath, UseNilPlugin, DirectoryFails
<1>6. CASE LoadPath
  BY <1>6 DEF LoadPath
<1>7. CASE PluginsLoaded
  <2>1. cfg' = [cfg EXCEPT !.skipReaping = @ \/ plugins = {}]
    BY <1>7 DEF PluginsLoaded
  <2>2. pc = "plugins" /\ pc' = "serve" /\ UNCHANGED <<doc, plugins, controller>>
    BY <1>7 DEF PluginsLoaded
  <2>3. cfg \in ParsedConfig
    BY <2>2 DEF TypeOK
  <2>4. /\ cfg'.dryRun = cfg.dryRun /\ cfg'.drainTimeout = cfg.drainTimeout
        /\ cfg'.newNodeGracePeriod = cfg.newNodeGracePeriod
        /\ plugins = {} => cfg'.skipReaping
    BY <2>1, <2>3 DEF ParsedConfig
  <2> QED
    BY <2>2, <2>4
<1>8. CASE Serve \/ Control \/ createSignalCapturer
  BY <1>8 DEF Serve, Control, createSignalCapturer
<1>9. CASE MetricsFails \/ ControllerFails
  BY <1>9 DEF MetricsFails, ControllerFails
<1>10. CASE SelectSignal \/ SelectError
  BY <1>10 DEF SelectSignal, SelectError
<1>11. CASE Signal \/ UNCHANGED vars
  BY <1>11 DEF Signal, vars
<1> QED
  BY <1>1, <1>2, <1>3, <1>4, <1>5, <1>6, <1>7, <1>8, <1>9, <1>10, <1>11 DEF Next, Main

\* The invariant about the configuration.
LEMMA ConfigAlways == Spec => [](TypeOK /\ ConfigInv)
<1>1. Init => ConfigInv
  BY DEF Init, ConfigInv
<1>2. TypeOK /\ ConfigInv /\ [Next]_vars => ConfigInv'
  BY ConfigStep
<1> QED
  BY <1>1, <1>2, StartupTypes, PTL DEF Spec

\* A reaper touches nodes only if its file writes dryRun, and terminates
\* instances only if it has a provider.
THEOREM OnlyWhatWasAskedCorrect == Spec => []OnlyWhatWasAsked
<1>1. TypeOK /\ ConfigInv => OnlyWhatWasAsked
  <2> SUFFICES ASSUME TypeOK, ConfigInv, Reaping, ~cfg.dryRun
               PROVE  "dryRun" \in Written(doc) /\ (~cfg.skipReaping => plugins # {})
    BY DEF OnlyWhatWasAsked
  <2>1. pc \in {"capture", "select"}
    BY DEF Reaping, ConfigInv
  <2>2. ~LoadFails(doc) /\ ~Load(doc).dryRun /\ (plugins # {} \/ cfg.skipReaping)
    BY <2>1 DEF ConfigInv
  <2>3. IsDocument(doc)
    BY DocumentAssumption DEF TypeOK
  <2> QED
    BY <2>2, <2>3, DryRunByDefault
<1> QED
  BY <1>1, ConfigAlways, PTL

\* The floor of the drain timeout and the grace period hold, unless the number
\* of seconds overflows.
THEOREM DurationsCorrect == Spec => []DurationsHold
<1>1. TypeOK /\ ConfigInv => DurationsHold
  <2> SUFFICES ASSUME TypeOK, ConfigInv, Reaping PROVE DurationsHold
    BY DEF DurationsHold
  <2>1. pc \in {"capture", "select"}
    BY DEF Reaping, ConfigInv
  <2>2. /\ ~LoadFails(doc)
        /\ cfg.drainTimeout = DrainTimeout(Load(doc).drainTimeoutSeconds)
        /\ cfg.newNodeGracePeriod = Seconds(Load(doc).newNodeGracePeriodSeconds)
    BY <2>1 DEF ConfigInv
  <2>3. Load(doc) \in File
    BY <2>2, DocumentAssumption, LoadIsFile DEF TypeOK
  <2>4. /\ Load(doc).drainTimeoutSeconds \in Nat
        /\ Load(doc).newNodeGracePeriodSeconds \in Nat
    BY <2>3, MaxUintAssumption DEF File
  <2> DEFINE drain == Load(doc).drainTimeoutSeconds
             grace == Load(doc).newNodeGracePeriodSeconds
  <2>5. /\ InRange(drain) => cfg.drainTimeout >= 30 * Second
        /\ InRange(grace) => cfg.newNodeGracePeriod = grace * Second
    BY <2>2, <2>4, TimeoutHasFloor, SecondsInRange
  <2>6. /\ cfg.drainTimeout <= (IF drain < 30 THEN 30 ELSE drain) * Second
        /\ cfg.newNodeGracePeriod <= grace * Second
    BY <2>2, <2>4, TimeoutNeverMore, SecondsNeverMore
  <2> QED
    BY <2>5, <2>6 DEF DurationsHold
<1> QED
  BY <1>1, ConfigAlways, PTL

=============================================================================
