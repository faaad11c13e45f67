------------------------------ MODULE MCLedger ------------------------------
(***************************************************************************)
(* Instances of Ledger for TLC: workers, events, and their symmetry.        *)
(***************************************************************************)
EXTENDS LedgerRefinesLog, TLC

CONSTANTS w1, w2, e1, e2, e3, e4

OneWorker   == {w1}
TwoWorkers  == {w1, w2}
TwoEvents   == {e1, e2}
ThreeEvents == {e1, e2, e3}
FourEvents  == {e1, e2, e3, e4}

Symmetry == Permutations(FourEvents) \cup Permutations(TwoWorkers)
=============================================================================
