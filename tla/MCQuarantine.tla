---------------------------- MODULE MCQuarantine ----------------------------
(***************************************************************************)
(* The clusters of MCNodeReaper for QuarantineHistory.                     *)
(***************************************************************************)
EXTENDS MCNodeReaper, QuarantineHistory

\* Two nodes of one zone and provider are alike: of two initial states that
\* differ by their names one is enough.
Bit(b) == IF b THEN 1 ELSE 0

Rank(n) == 4 * Bit(api[n].cordoned) + 2 * Bit(api[n].conditions = Healthy)
             + Bit(<<n, 1>> \in young)

OrderedInit == HistoryInit /\ Rank(n1) <= Rank(n2)

OrderedSpec == OrderedInit /\ [][HistoryNext]_<<vars, abandoned>> /\ Fairness
=============================================================================
