---------------------------- MODULE Configuration ----------------------------
(***************************************************************************)
(* pkg/config/config.go: how a configuration file becomes the settings of  *)
(* a run.  A document is what the file holds: text that is not read or not *)
(* accepted, the null document, or a map from the keys that are written in *)
(* it to their values, of which Null is one.                               *)
(***************************************************************************)
EXTENDS NodePredicate, ClusterHealth

CONSTANTS
  Null,     \* YAML's null: a key written without a value
  Second    \* time.Second in the unit of time.Duration, 10^9 ns

\* The two defaults of the timeout and its floor do not overflow.
ASSUME SecondAssumption == Second \in Nat \ {0} /\ 2 * 310 * Second <= MaxUint
ASSUME NullAssumption   == Null \notin BOOLEAN \cup Nat \cup Settings \cup Expressions

\* The text of a setting that is empty; an "other" with another value is junk.
Unset == [form |-> "other", value |-> 0]

File ==
  [reapPredicate : Expressions, unhealthyPredicate : Expressions,
   maxNodesUnhealthy : Settings, maxNodesUnhealthyInSameZone : Settings,
   newNodeGracePeriodSeconds : 0..MaxUint, drainTimeoutSeconds : 0..MaxUint,
   drainForceRetryOnError : BOOLEAN, podDeletionGracePeriodSeconds : 0..MaxUint,
   useEviction : BOOLEAN, skipReaping : BOOLEAN, dryRun : BOOLEAN]

defaultConfig ==
  [reapPredicate |-> "defaultReap", unhealthyPredicate |-> "defaultUnhealthy",
   maxNodesUnhealthy |-> [form |-> "number", value |-> 1],
   maxNodesUnhealthyInSameZone |-> [form |-> "number", value |-> 1],
   newNodeGracePeriodSeconds |-> 300, drainTimeoutSeconds |-> 310,
   drainForceRetryOnError |-> TRUE, podDeletionGracePeriodSeconds |-> 300,
   useEviction |-> TRUE, skipReaping |-> FALSE, dryRun |-> TRUE]

zeroedConfig ==
  [reapPredicate |-> "", unhealthyPredicate |-> "",
   maxNodesUnhealthy |-> Unset, maxNodesUnhealthyInSameZone |-> Unset,
   newNodeGracePeriodSeconds |-> 0, drainTimeoutSeconds |-> 0,
   drainForceRetryOnError |-> FALSE, podDeletionGracePeriodSeconds |-> 0,
   useEviction |-> FALSE, skipReaping |-> FALSE, dryRun |-> FALSE]

Keys == DOMAIN defaultConfig

\* The maps UnmarshalStrict accepts: known keys, with values of their type.
IsMap(doc) ==
  /\ doc.kind = "map"
  /\ DOMAIN doc.keys \subseteq Keys
  /\ \A k \in DOMAIN doc.keys :
       \/ doc.keys[k] = Null
       \/ [zeroedConfig EXCEPT ![k] = doc.keys[k]] \in File

IsDocument(doc) == doc.kind \in {"unreadable", "invalid", "null"} \/ IsMap(doc)

Written(doc) == IF doc.kind = "map" THEN DOMAIN doc.keys ELSE {}

LoadFails(doc) == doc.kind \in {"unreadable", "invalid"}

\* Mutant: the document is read into an empty File.
UnmarshalAlone(doc) ==
  [k \in Keys |-> IF k \in Written(doc) /\ doc.keys[k] # Null
                    THEN doc.keys[k] ELSE zeroedConfig[k]]

\* UnmarshalStrict over the defaults: Null is the zero value, and the null
\* document zeroes everything.
Unmarshal(doc) ==
  [k \in Keys |->
     CASE k \notin Written(doc) /\ doc.kind # "null"  -> defaultConfig[k]
       [] k \in Written(doc) /\ doc.keys[k] # Null    -> doc.keys[k]
       [] OTHER                                       -> zeroedConfig[k]]

Load(doc) ==
  IF Unmarshal(doc) = zeroedConfig THEN defaultConfig ELSE Unmarshal(doc)

-----------------------------------------------------------------------------
(***************************************************************************)
(* Parse.                                                                  *)
(***************************************************************************)
\* Two's complement: the int64 that a number becomes.
ToInt(x) ==
  LET r == x % (MaxUint + 1) IN IF 2 * r > MaxUint THEN r - (MaxUint + 1) ELSE r

\* time.Duration(n) * time.Second, which wraps around.
Seconds(n) == ToInt(n * Second)

InRange(n) == 2 * n * Second <= MaxUint

\* Mutant: the limit of the zone is not looked at.
IgnoresZoneLimit(cf) == TypeOf(cf.maxNodesUnhealthy) = "error"

ParseFails(cf) ==
  \/ TypeOf(cf.maxNodesUnhealthy) = "error"
  \/ TypeOf(cf.maxNodesUnhealthyInSameZone) = "error"

\* Mutant: the floor is compared with a Duration, in its own unit.
FloorInUnits(n) == IF Seconds(n) < 30 THEN Seconds(30) ELSE Seconds(n)

DrainTimeout(n) == IF n < 30 THEN Seconds(30) ELSE Seconds(n)

Parse(cf) ==
  [reapPredicate |-> IF cf.reapPredicate = "" THEN "defaultReap" ELSE cf.reapPredicate,
   unhealthyPredicate |-> cf.unhealthyPredicate,
   maxNodesUnhealthy |-> cf.maxNodesUnhealthy,
   maxNodesUnhealthyInSameZone |-> cf.maxNodesUnhealthyInSameZone,
   newNodeGracePeriod |-> Seconds(cf.newNodeGracePeriodSeconds),
   drainTimeout |-> DrainTimeout(cf.drainTimeoutSeconds),
   drainForceRetryOnError |-> cf.drainForceRetryOnError,
   podDeletionGracePeriod |-> Seconds(cf.podDeletionGracePeriodSeconds),
   useEviction |-> cf.useEviction, skipReaping |-> cf.skipReaping, dryRun |-> cf.dryRun]

\* A time.Duration.
Durations == (-MaxUint)..MaxUint

ParsedConfig ==
  [reapPredicate : Expressions \ {""}, unhealthyPredicate : Expressions,
   maxNodesUnhealthy : AcceptedSettings, maxNodesUnhealthyInSameZone : AcceptedSettings,
   newNodeGracePeriod : Durations, drainTimeout : Durations,
   drainForceRetryOnError : BOOLEAN, podDeletionGracePeriod : Durations,
   useEviction : BOOLEAN, skipReaping : BOOLEAN, dryRun : BOOLEAN]
=============================================================================
