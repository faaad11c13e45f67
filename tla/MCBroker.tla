------------------------------ MODULE MCBroker ------------------------------
(***************************************************************************)
(* Instances of Broker for TLC.                                            *)
(***************************************************************************)
EXTENDS Broker, TLC

CONSTANTS c1, c2, c3, n1, n2, t1, t2, t3

TwoCalls   == {c1, c2}
ThreeCalls == {c1, c2, c3}
OneName    == {n1}
TwoNames   == {n1, n2}
OneAsync   == {t1}
OneSync    == {t3}

\* An unknown level is a medium one.
SomeLevels == {"low", "other", "critical"}

\* Scores on both sides of the thresholds of the three levels.
SomeRisks  == {9, 10, 39, 40, 59, 60, 80}

Symmetry == Permutations({c1, c2, c3}) \cup Permutations({n1, n2})
=============================================================================
