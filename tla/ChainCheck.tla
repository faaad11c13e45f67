----------------------------- MODULE ChainCheck -----------------------------
(***************************************************************************)
(* Verification of the ledger: is_valid() (ledger/blockchain.py), which     *)
(* /api/ledger/verify and /ready call on the chain in memory and            *)
(* src/scripts/verify_ledger.py on the file, and the inclusion proofs of    *)
(* get_merkle_proof().  The ledger is that of Ledger; in addition the file  *)
(* may be altered from outside, in any way that leaves it a list of blocks. *)
(*                                                                         *)
(* A recomputed hash equals the stored one for a block that is exactly as   *)
(* it was mined and for no other: SHA-256 covers every field of the header, *)
(* and the events both directly and through the Merkle root.  (The header   *)
(* is the fields one after the other: an alteration that moves characters   *)
(* from the end of one field to the start of the next is not considered.)   *)
(***************************************************************************)
EXTENDS Ledger, Merkle

CONSTANTS
    MaxAlterations,  \* bound: alterations of the file from outside
    Items,           \* items of the trees that are looked at by themselves
    Lists            \* their lists of items

ASSUME AlterationsAssumption == MaxAlterations \in Nat
ASSUME ListsAssumption == Lists \subseteq Seq(Items) /\ <<>> \notin Lists

VARIABLES
    minted,      \* history: every block ever mined, as it was mined
    alterations  \* bounded environment counter

checkVars == <<vars, minted, alterations>>

-----------------------------------------------------------------------------
(* is_valid(), the script, and get_merkle_proof() *)

HashMatches(b) == b \in minted

IsValid_HashesOnly(c) == \A i \in 2..Len(c) : HashMatches(c[i])

\* From block 1 on: each block refers to its predecessor, and its hash matches.
IsValid(c) ==
    \A i \in 2..Len(c) : c[i].prev = c[i - 1].hash /\ HashMatches(c[i])

\* What the script may report now.  Like a process that starts, it cannot load a file
\* that is cut short, or that two workers are writing over each other.
ScriptVerdicts ==
    (IF file.state = "absent" THEN {"not found"} ELSE {})
    \cup (IF file.state = "torn" \/ \E w \in Workers : phase[w] = "contended"
          THEN {"cannot load"} ELSE {})
    \cup (IF file.state = "whole"
          THEN {IF IsValid(file.blocks) THEN "valid" ELSE "tampered"} ELSE {})

\* The answer for the event e of the block with zero-based index i of chain c.
MerkleProof(c, i, e) ==
    IF i \notin 0..(Len(c) - 1) THEN [error |-> "block not found"]
    ELSE LET items == c[i + 1].events IN
         IF items = <<>> THEN [error |-> "no events"]
         ELSE IF ~Contains(items, e) THEN [error |-> "event not in block"]
         ELSE [root  |-> Root(items),
               proof |-> GetProof(items, e),
               valid |-> VerifyProof(e, GetProof(items, e), Root(items))]

-----------------------------------------------------------------------------
CheckInit == Init /\ minted = {} /\ alterations = 0

\* A step of the ledger; a block is mined at the end of the chain of its worker.
LedgerStep ==
    /\ Next
    /\ minted' = minted \cup
          {chain'[w][Len(chain'[w])] : w \in {v \in Workers : phase'[v] = "mined"}}
    /\ UNCHANGED alterations

\* A block whose content, hash or reference was changed and the rest was kept.
Alterations(b) ==
    ({[b EXCEPT !.index = @ + 1], [b EXCEPT !.prev = -1], [b EXCEPT !.hash = -1]}
     \cup {[b EXCEPT !.events = <<e>>] : e \in Events}
     \cup {[b EXCEPT !.events = SubSeq(@, 2, Len(@))]}) \ {b}

\* The chain c with one block replaced by another mined block, with one block changed,
\* and with one block after the first taken out.
Replaced(c)  == {[c EXCEPT ![i] = b] : i \in DOMAIN c, b \in minted}
Changed(c)   == UNION {{[c EXCEPT ![i] = b] : b \in Alterations(c[i])} : i \in DOMAIN c}
Shortened(c) == {SubSeq(c, 1, i - 1) \o SubSeq(c, i + 1, Len(c)) : i \in 2..Len(c)}

Alter ==
    /\ file.state = "whole"
    /\ alterations < MaxAlterations
    /\ alterations' = alterations + 1
    /\ \E c \in Replaced(file.blocks) \cup Changed(file.blocks) \cup Shortened(file.blocks) :
          file' = Whole(c)
    /\ UNCHANGED <<mem, env, history, minted>>

CheckNext == LedgerStep \/ Alter

CheckSpec == CheckInit /\ [][CheckNext]_checkVars

-----------------------------------------------------------------------------
(* Properties *)

\* The chains of this installation: what its workers hold and what its file holds.
Copies ==
    {chain[w] : w \in {v \in Workers : Running(v)}}
    \cup (IF file.state = "whole" THEN {file.blocks} ELSE {})

\* The program never accuses itself: as long as nobody altered the file, every running
\* worker passes is_valid() (so /ready reports it ready) and the script does not report a
\* tampered chain, whatever workers, faults and crashes do to each other's file.
NeverAccused ==
    alterations = 0 =>
        /\ \A c \in Copies : IsValid(c)
        /\ "tampered" \notin ScriptVerdicts

\* "each block correctly references its predecessor" (blockchain.py:266): a hash
\* commits to everything before it.  Two copies that both pass and have a block in
\* common from block 1 on have the same blocks before it, back to the first block of the
\* shorter one, of which only the hash is the same: nothing in between was changed,
\* dropped or spliced.  The shorter one may have lost its first blocks: two alterations,
\* one that takes block 1 out and one that puts it in the place of the genesis block,
\* leave a file that passes.
LastBlockCommits ==
    \A c, d \in {x \in Copies : IsValid(x)} :
        \A i \in 2..Len(c), j \in 2..Len(d) :
            c[i] = d[j] =>
                \A k \in 1..(i - 1) : k < j =>
                    /\ c[i - k].hash = d[j - k].hash
                    /\ k < i - 1 /\ k < j - 1 => c[i - k] = d[j - k]

\* "Returns a Merkle inclusion proof for an event in a block" (blockchain.py:315): for
\* every event of every block in memory the answer is a valid proof that proves no
\* other event, and no two mined blocks share a Merkle root, although the tree repeats the
\* last node of an odd level.
ProofsHold ==
    /\ \A w \in Workers, e \in Events :
          \A i \in DOMAIN chain[w] :
             LET answer == MerkleProof(chain[w], i - 1, e) IN
             IF Contains(chain[w][i].events, e)
             THEN /\ answer.valid
                  /\ \A x \in Events \ {e} : ~VerifyProof(x, answer.proof, answer.root)
             ELSE "error" \in DOMAIN answer
    /\ \A b, d \in {x \in minted : x.events # <<>>} :
          Root(b.events) = Root(d.events) => b = d

\* The tree as the code builds it, level by level from the leaves, is the balanced tree,
\* and its proofs prove exactly the items of the list (merkle.py:4), also where odd levels
\* repeat their last node and where items are equal.  It is a fact about lists; it is
\* stated of the initial state, so that TLC evaluates it once.
TreeIsBalanced ==
    CheckInit =>
        \A items \in Lists :
            Root(items) = BalancedRoot(items) /\ ProvesExactly(items, Items)

-----------------------------------------------------------------------------
(* What the documentation says, and the code does not keep *)

\* "Checks that every block's stored hash matches a recomputed hash"
\* (blockchain.py:265): a copy that passes has no altered block at all.
ValidIsUnaltered ==
    \A c \in Copies : IsValid(c) => \A i \in DOMAIN c : c[i] \in minted
=============================================================================
