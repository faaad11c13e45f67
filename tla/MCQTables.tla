----------------------------- MODULE MCQTables -----------------------------
(***************************************************************************)
(* Instances of QTables for TLC.                                           *)
(***************************************************************************)
EXTENDS QTables

\* A seeded vector of high risk, and one the seed leaves out.
SomeVectors == {<<2, 1, 0, 0>>, <<2, 0, 1, 0>>}
=============================================================================
