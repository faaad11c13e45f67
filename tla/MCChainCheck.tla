---------------------------- MODULE MCChainCheck ----------------------------
(***************************************************************************)
(* Instances of ChainCheck for TLC, and the lists Merkle is checked with.   *)
(***************************************************************************)
EXTENDS ChainCheck, TLC

CONSTANTS w1, w2, e1, e2, e3, e4

OneWorker   == {w1}
TwoWorkers  == {w1, w2}
TwoEvents   == {e1, e2}
ThreeEvents == {e1, e2, e3}
FourEvents  == {e1, e2, e3, e4}

Symmetry == Permutations(FourEvents) \cup Permutations(TwoWorkers)

\* All lists of up to five items out of three, repetitions included.
ThreeItems == 1..3
ShortLists == UNION {[1..n -> ThreeItems] : n \in 1..5}
=============================================================================
