---------------------------- MODULE MCConsensus ----------------------------
(***************************************************************************)
(* Instances of Consensus for TLC.                                         *)
(***************************************************************************)
EXTENDS Consensus, TLC

CONSTANTS r1, r2, v1, v2, v3, v4, s1

OneRound    == {r1}
TwoRounds   == {r1, r2}
TwoVoters   == {v1, v2}
ThreeVoters == {v1, v2, v3}
FourVoters  == {v1, v2, v3, v4}
OneOther    == {s1}
Nobody      == {}

ThreeActions == {"allow", "quarantine", "block"}
=============================================================================
