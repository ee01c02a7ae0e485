------------------------------ MODULE MCStartup ------------------------------
(***************************************************************************)
(* Configuration files, command lines and plugin paths for Startup.  Each  *)
(* document decides a branch of Load or Parse, each command line and disk  *)
(* one of the loading of plugins.                                          *)
(***************************************************************************)
EXTENDS Startup

NoKeys == [k \in {} |-> Null]

Broken(kind) == [kind |-> kind, keys |-> NoKeys]
Map(keys)    == [kind |-> "map", keys |-> keys]

Number(k)  == [form |-> "number", value |-> k]
Percent(k) == [form |-> "percent", value |-> k]

\* MaxUint = 4095 and Second = 4: 510 seconds are in range, 600 are negative
\* and 1024 are none; 5000 is over the largest uint.
SomeDocuments ==
  {Broken("unreadable"), Broken("invalid"), Broken("null"), Map(NoKeys),
   Map([dryRun |-> FALSE]),
   Map([dryRun |-> Null]),
   Map([skipReaping |-> TRUE, dryRun |-> FALSE]),
   Map([maxNodesUnhealthy |-> Percent(100), maxNodesUnhealthyInSameZone |-> Number(5000)]),
   Map([maxNodesUnhealthy |-> Number(0), maxNodesUnhealthyInSameZone |-> Percent(101)]),
   Map([maxNodesUnhealthy |-> Null]),
   Map([reapPredicate |-> Null, unhealthyPredicate |-> "invalid"]),
   Map([drainTimeoutSeconds |-> 10, dryRun |-> FALSE]),
   Map([drainTimeoutSeconds |-> 600, newNodeGracePeriodSeconds |-> 510]),
   Map([drainTimeoutSeconds |-> 30, newNodeGracePeriodSeconds |-> 1024]),
   Map([k \in Keys |-> Null])}

Flags == [version |-> FALSE, logLevel |-> "", providerPlugins |-> <<>>]

SomeArguments ==
  {Flags,
   [Flags EXCEPT !.version = TRUE],
   [Flags EXCEPT !.logLevel = "debug"],
   [Flags EXCEPT !.logLevel = "DEBUG", !.providerPlugins = <<"plugins", "aws.so">>],
   [Flags EXCEPT !.providerPlugins = <<"aws.so", "nowhere", "other">>]}

Entries(kind, files) == [kind |-> kind, files |-> files]

Disk(inPlugins, inAws, inOther) ==
  [p \in {"plugins", "aws.so", "nowhere", "other"} |->
     CASE p = "plugins" -> inPlugins
       [] p = "aws.so"  -> inAws
       [] p = "other"   -> inOther
       [] OTHER         -> Entries("missing", {})]

\* Two builds of the aws provider, one of gcloud and a file that is no plugin.
SomeFiles == {"aws", "awsOld", "gcloud", "readme"}
SomeTypes == {"aws", "gcloud"}
SomeTypeOf ==
  [f \in SomeFiles |-> CASE f = "readme" -> "none"
                         [] f = "gcloud" -> "gcloud"
                         [] OTHER        -> "aws"]

SomeDisks ==
  LET aws == Entries("file", {"aws"})
  IN {Disk(Entries("dir", {"gcloud", "readme"}), aws, Entries("dir", {"gcloud"})),
      Disk(Entries("dir", {"aws", "awsOld"}), aws, Entries("dir", {"gcloud", "awsOld"})),
      Disk(Entries("dir", {"aws", "gcloud"}), aws, Entries("closed", {})),
      Disk(Entries("missing", {}), Entries("file", {"readme"}), aws),
      Disk(Entries("dir", {"readme"}), Entries("missing", {}), Entries("missing", {}))}
=============================================================================
