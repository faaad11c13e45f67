---------------------------- MODULE MCPatternDB -----------------------------
(***************************************************************************)
(* Instances of PatternDB for TLC.                                         *)
(***************************************************************************)
EXTENDS PatternDB, TLC

CONSTANTS p1, p2, c1, c2

OnePattern    == {p1}
TwoPatterns   == {p1, p2}
OneCycle      == {c1}
TwoCycles     == {c1, c2}

Symmetry == Permutations(TwoPatterns) \cup Permutations(TwoCycles)
=============================================================================
