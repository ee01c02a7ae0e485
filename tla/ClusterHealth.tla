---------------------------- MODULE ClusterHealth ----------------------------
(***************************************************************************)
(* pkg/nodereaper/cluster_health_calculator.go and the MaxNodesUnhealthy   *)
(* type of pkg/config/config.go: whether so many unhealthy nodes are too   *)
(* many.  A setting is abstracted to its form ("number" for \d+, "percent" *)
(* for \d{1,3}%, "other" for anything else) and its numeric value.         *)
(***************************************************************************)
EXTENDS Integers

CONSTANT MaxUint   \* the largest uint, 2^64 - 1 in the program

ASSUME MaxUintAssumption == MaxUint \in Nat /\ MaxUint >= 255

Settings == [form : {"number", "percent", "other"}, value : Nat]

\* MaxNodesUnhealthy.Uint: strconv.ParseUint fails out of range.
UintFails(mnu) == mnu.form = "other" \/ mnu.value > MaxUint

\* MaxNodesUnhealthy.Type.  A plain number is ABSOLUTE whatever its size.
TypeOf(mnu) ==
  CASE mnu.form = "number" -> "ABSOLUTE"
    [] mnu.form = "percent" /\ ~UintFails(mnu) /\ mnu.value <= 100 -> "PERCENTUAL"
    [] OTHER -> "error"

\* The settings Parse accepts: it asks for a type and not for a number.
AcceptedSettings == {mnu \in Settings : TypeOf(mnu) # "error"}

\* NewClusterHealthCalculator returns a calculator and no error.
HasCalculator(mnu) == TypeOf(mnu) # "error" /\ ~UintFails(mnu)

\* Mutant: integer division without the math.Ceil.
FloorDiv(a, b) == a \div b

CeilDiv(a, b) == (a + b - 1) \div b

(***************************************************************************)
(* uint(math.Ceil(un * 100 / tn)).  The quotient is exact enough for Ceil  *)
(* to be the integer ceiling.  With no node it is 0/0, a NaN, whose        *)
(* conversion to uint depends on the platform: 0 on arm64, 2^63 on amd64.  *)
(***************************************************************************)
UnhealthyPercents(unhealthy, total) ==
  IF total = 0 THEN {0, (MaxUint + 1) \div 2} ELSE {CeilDiv(unhealthy * 100, total)}

\* Mutants: as if the candidate were not among the unhealthy nodes; the
\* operands swapped.
AllowsOneMore(max, unhealthy) == ~(unhealthy > max + 1)

ComparesBackwards(max, unhealthy) == ~(max > unhealthy)

AbsoluteHealthy(max, unhealthy) == ~(unhealthy > max)

PercentualHealthy(max, percent) == ~(percent > max)

\* The verdicts a calculator may give: two when the platform decides.
Verdicts(mnu, unhealthy, total) ==
  IF TypeOf(mnu) = "PERCENTUAL"
    THEN {PercentualHealthy(mnu.value, p) : p \in UnhealthyPercents(unhealthy, total)}
    ELSE {AbsoluteHealthy(mnu.value, unhealthy)}
=============================================================================
