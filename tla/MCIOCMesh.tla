----------------------------- MODULE MCIOCMesh ------------------------------
(***************************************************************************)
(* Instances of IOCMesh for TLC: two nodes, three in a line, three that    *)
(* all know each other.                                                    *)
(***************************************************************************)
EXTENDS IOCMesh, TLC

CONSTANTS n1, n2, n3, p1

TwoNodes    == {n1, n2}
ThreeNodes  == {n1, n2, n3}
OnePattern  == {p1}

PairPeers == [n \in TwoNodes |-> TwoNodes \ {n}]
LinePeers == (n1 :> {n2}) @@ (n2 :> {n1, n3}) @@ (n3 :> {n2})
MeshPeers == [n \in ThreeNodes |-> ThreeNodes \ {n}]
=============================================================================
