------------------------------- MODULE Merkle -------------------------------
(***************************************************************************)
(* The Merkle tree of ledger/merkle.py.  SHA-256 is taken to be injective,  *)
(* so a hash is the term it was computed from: <<item>> for a leaf and      *)
(* <<left, right>> for an inner node.                                      *)
(***************************************************************************)
EXTENDS Integers, Sequences

Leaf(item)  == <<item>>
Node(l, r)  == <<l, r>>

Padded_Never(level) == level

\* An odd level repeats its last node.
Padded(level) ==
    IF Len(level) % 2 = 1 THEN Append(level, level[Len(level)]) ELSE level

\* The level above; the root is above itself.
Parents(level) ==
    IF Len(level) = 1 THEN level
    ELSE LET p == Padded(level) IN
         [i \in 1..(Len(p) \div 2) |-> Node(p[2 * i - 1], p[2 * i])]

\* All levels from the leaves up; Len(items) levels are enough to reach the root.
Levels(items) ==
    LET level[k \in 0..Len(items)] ==
            IF k = 0 THEN [i \in 1..Len(items) |-> Leaf(items[i])]
            ELSE Parents(level[k - 1])
    IN  level

Root(items) == Levels(items)[Len(items)][1]

\* The number of levels below the root.
Height(items) ==
    CHOOSE h \in 0..Len(items) :
        /\ Len(Levels(items)[h]) = 1
        /\ \A k \in 0..(h - 1) : Len(Levels(items)[k]) > 1

\* The zero-based indices of leaf i and of its ancestors, up to h levels above it.
Ancestors(i, h) ==
    LET at[k \in 0..h] == IF k = 0 THEN i ELSE at[k - 1] \div 2 IN at

Sibling_Itself(level, i) == [position |-> "right", hash |-> Padded(level)[i + 1]]

\* The step of a proof at the node with zero-based index i of a level.
Sibling(level, i) ==
    IF i % 2 = 0
    THEN [position |-> "right", hash |-> Padded(level)[i + 2]]
    ELSE [position |-> "left", hash |-> Padded(level)[i]]

Contains(items, item) == \E i \in DOMAIN items : items[i] = item

\* get_proof(): from the first leaf with the hash of the item; an empty proof for an
\* item that is not in the tree.
GetProof(items, item) ==
    IF ~Contains(items, item) THEN <<>>
    ELSE LET first == CHOOSE i \in DOMAIN items :
                          items[i] = item /\ \A j \in 1..(i - 1) : items[j] # item
             at == Ancestors(first - 1, Height(items))
         IN  [k \in 1..Height(items) |-> Sibling(Levels(items)[k - 1], at[k - 1])]

\* The hashes on the way up, each with the sibling on its side.
HashesUp(item, proof) ==
    LET up[k \in 0..Len(proof)] ==
            IF k = 0 THEN Leaf(item)
            ELSE IF proof[k].position = "right"
                 THEN Node(up[k - 1], proof[k].hash)
                 ELSE Node(proof[k].hash, up[k - 1])
    IN  up

\* verify_proof()
VerifyProof(item, proof, root) == HashesUp(item, proof)[Len(proof)] = root

-----------------------------------------------------------------------------
(* Properties of a list of items, over a set of items it is compared with *)

\* The proofs made from a tree verify for its items and for no others.
ProvesExactly(items, all) ==
    \A item \in all :
        /\ VerifyProof(item, GetProof(items, item), Root(items)) <=> Contains(items, item)
        /\ \A i \in DOMAIN items :
              VerifyProof(item, GetProof(items, items[i]), Root(items)) => item = items[i]

\* The same root described from the top: a tree just high enough for all leaves.  Every
\* level has half the nodes of the one below, rounded up; a node beyond the end of its
\* level is the last one.

\* The zero-based index of the last node of each level.
Lasts(n) ==
    LET last[k \in 0..n] == IF k = 0 THEN n - 1 ELSE last[k - 1] \div 2 IN last

\* The nodes of each level, with indices from zero on and beyond the end.
Rows(items) ==
    LET n == Len(items)
        within(k, i) == IF i > Lasts(n)[k] THEN Lasts(n)[k] ELSE i
        row[k \in 0..n] ==
            [i \in 0..n |->
                IF k = 0 THEN Leaf(items[within(k, i) + 1])
                ELSE Node(row[k - 1][2 * within(k, i)], row[k - 1][2 * within(k, i) + 1])]
    IN  row

BalancedRoot(items) ==
    LET last == Lasts(Len(items))
        h == CHOOSE k \in 0..Len(items) : last[k] = 0 /\ \A m \in 0..(k - 1) : last[m] > 0
    IN  Rows(items)[h][0]
=============================================================================
