---------------------------- MODULE NodePredicate ----------------------------
(***************************************************************************)
(* pkg/nodereaper/evaluable_predicate.go: a govaluate expression evaluated *)
(* against one node.  An expression is named, not parsed: "defaultReap"    *)
(* and "defaultUnhealthy" are the two defaults of pkg/config/config.go,    *)
(* "notReady" is an operator's expression that reads a condition and       *)
(* ignores Cordoned, "notBoolean" evaluates to something that is not a     *)
(* boolean; "invalid" does not parse and "", the empty text, neither.      *)
(*                                                                         *)
(* A node carries a partial function from condition types to statuses; its *)
(* labels are a partial function from label names to values.               *)
(***************************************************************************)

Expressions ==
  {"defaultReap", "defaultUnhealthy", "notReady", "notBoolean", "invalid", ""}

\* The value Eval gives to a parameter that the node does not have.
Nil == "nil"

\* NewEvaluablePredicate returns no error.
Parses(expr) == expr \notin {"invalid", ""}

\* A user specified parameter, blanked when the node has no such key.
Param(f, k) == IF k \in DOMAIN f THEN f[k] ELSE Nil

DefaultReap(labels, node) ==
  /\ node.cordoned = FALSE
  /\ Param(labels, "kubernetes.io/role") # "master"
  /\ Param(node.conditions, "Ready") # "True"

DefaultUnhealthy(node) ==
  \/ node.cordoned = TRUE
  \/ Param(node.conditions, "OutOfDisk") # "False"
  \/ Param(node.conditions, "MemoryPressure") # "False"
  \/ Param(node.conditions, "DiskPressure") # "False"
  \/ Param(node.conditions, "Ready") # "True"

Meets(expr, labels, node) ==
  \/ expr = "defaultReap"      /\ DefaultReap(labels, node)
  \/ expr = "defaultUnhealthy" /\ DefaultUnhealthy(node)
  \/ expr = "notReady"         /\ Param(node.conditions, "Ready") # "True"

\* Eval returns (false, error) when the result is not a boolean.
EvalFails(expr) == expr = "notBoolean"
=============================================================================
