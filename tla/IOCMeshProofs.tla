--------------------------- MODULE IOCMeshProofs ----------------------------
(***************************************************************************)
(* Proofs about IOCMesh, for any nodes, peers, patterns and bounds.        *)
(*                                                                         *)
(* AddKeeps and EvictKeeps say what the two operations that change a store *)
(* do to it; the invariants are then proved action by action.              *)
(***************************************************************************)
EXTENDS IOCMesh, TLAPS

-----------------------------------------------------------------------------
(* The store of one node *)

LEMMA NoIdIsNone == NoId \notin Ids
BY DEF NoId, Ids

Stores ==
    /\ iocs \in [Nodes -> [Ids -> Nat]]
    /\ index \in [Nodes -> [Patterns -> Ids \cup {NoId}]]

\* IndexIsInverse, and an index entry has the pattern it is listed under.
IndexInv ==
    /\ IndexIsInverse
    /\ \A n \in Nodes, p \in Patterns : index[n][p] # NoId => index[n][p].pattern = p

LEMMA KnownHas ==
    ASSUME Stores, IndexInv, NEW n \in Nodes, NEW p \in Patterns
    PROVE  /\ Known(n, p) <=> index[n][p] # NoId
           /\ index[n][p] # NoId =>
                /\ index[n][p] \in Ids /\ index[n][p].pattern = p
                /\ iocs[n][index[n][p]] > 0
BY DEF Stores, IndexInv, IndexIsInverse, Known, Stored

\* What Add() is given: for a pattern that is not known, an IOC of that pattern with
\* a hit at least.
Arrives(n, in, S) ==
    /\ DOMAIN in = S
    /\ S \subseteq Patterns
    /\ \A p \in S : in[p].again \in Nat
    /\ \A p \in S : ~Known(n, p) =>
          /\ in[p].id \in Ids /\ in[p].id.pattern = p
          /\ in[p].first \in Nat /\ in[p].first > 0

LEMMA AddKeeps ==
    ASSUME Stores, IndexInv, NEW n \in Nodes, NEW S, NEW in, Arrives(n, in, S), Add(n, in)
    PROVE  /\ Stores' /\ IndexInv'
           /\ \A p \in S : Known(n, p)'
           /\ \A m \in Nodes, p \in Patterns : Known(m, p) => Known(m, p)'
<1> DEFINE again(i) == i.pattern \in S /\ Known(n, i.pattern) /\ i = index[n][i.pattern]
           first(i) == i.pattern \in S /\ ~Known(n, i.pattern) /\ i = in[i.pattern].id
<1>1. /\ iocs' = [iocs EXCEPT ![n] =
            [i \in Ids |-> IF again(i) THEN iocs[n][i] + in[i.pattern].again
                           ELSE IF first(i) THEN in[i.pattern].first
                           ELSE iocs[n][i]]]
      /\ index' = [index EXCEPT ![n] =
            [p \in Patterns |-> IF p \in S /\ ~Known(n, p) THEN in[p].id ELSE index[n][p]]]
    BY DEF Add, Arrives
<1>2. \A i \in Ids :
        /\ again(i) => iocs'[n][i] = iocs[n][i] + in[i.pattern].again
        /\ first(i) => iocs'[n][i] = in[i.pattern].first
        /\ ~again(i) /\ ~first(i) => iocs'[n][i] = iocs[n][i]
    BY <1>1 DEF Stores
<1>3. \A p \in Patterns :
        index'[n][p] = IF p \in S /\ ~Known(n, p) THEN in[p].id ELSE index[n][p]
    BY <1>1 DEF Stores
<1>4. \A m \in Nodes \ {n} : iocs'[m] = iocs[m] /\ index'[m] = index[m]
    BY <1>1 DEF Stores
<1>5. Stores'
    <2>1. ASSUME NEW i \in Ids
          PROVE  (IF again(i) THEN iocs[n][i] + in[i.pattern].again
                  ELSE IF first(i) THEN in[i.pattern].first
                  ELSE iocs[n][i]) \in Nat
        BY DEF Stores, Arrives
    <2>2. ASSUME NEW p \in Patterns
          PROVE  (IF p \in S /\ ~Known(n, p) THEN in[p].id ELSE index[n][p]) \in Ids \cup {NoId}
        BY DEF Stores, Arrives
    <2> HIDE DEF again, first
    <2> QED BY <1>1, <2>1, <2>2 DEF Stores
<1>6. ASSUME NEW p \in Patterns
      PROVE  /\ index'[n][p] # NoId =>
                  index'[n][p] \in Stored(n)' /\ index'[n][p].pattern = p
             /\ Known(n, p) \/ p \in S => index'[n][p] # NoId
    <2>1. CASE p \in S /\ ~Known(n, p)
        <3> DEFINE j == in[p].id
        <3>1. index'[n][p] = j /\ j \in Ids /\ j.pattern = p /\ j # NoId
            BY <1>3, <2>1, NoIdIsNone DEF Arrives
        <3>2. first(j) /\ in[j.pattern].first > 0
            BY <2>1, <3>1 DEF Arrives
        <3>3. iocs'[n][j] > 0
            BY <1>2, <3>1, <3>2
        <3> QED BY <3>1, <3>3 DEF Stored
    <2>2. CASE ~(p \in S /\ ~Known(n, p))
        <3> DEFINE j == index[n][p]
        <3>1. index'[n][p] = j
            BY <1>3, <2>2
        <3>2. ASSUME j # NoId
              PROVE  j \in Stored(n)' /\ j.pattern = p
            <4>1. j \in Ids /\ j.pattern = p /\ iocs[n][j] > 0 /\ Known(n, p)
                BY <3>2, KnownHas
            <4>2. ~first(j)
                BY <4>1
            <4>3. again(j) => in[p].again \in Nat
                BY <4>1 DEF Arrives
            <4>4. iocs[n][j] \in Nat
                BY <4>1 DEF Stores
            <4>5. iocs'[n][j] > 0
                BY <1>2, <4>1, <4>2, <4>3, <4>4
            <4> QED BY <4>1, <4>5 DEF Stored
        <3> QED BY <2>2, <3>1, <3>2, KnownHas
    <2> QED BY <2>1, <2>2
<1>7. ASSUME NEW i \in Stored(n)'
      PROVE  index'[n][i.pattern] = i
    <2>1. i \in Ids /\ i.pattern \in Patterns /\ iocs'[n][i] > 0
        BY DEF Stored, Ids
    <2>2. CASE again(i)
        BY <1>3, <2>1, <2>2
    <2>3. CASE first(i)
        BY <1>3, <2>1, <2>3
    <2>4. CASE ~again(i) /\ ~first(i)
        <3>1. i \in Stored(n)
            BY <1>2, <2>1, <2>4 DEF Stored
        <3>2. index[n][i.pattern] = i
            BY <3>1 DEF IndexInv, IndexIsInverse
        <3>3. Known(n, i.pattern)
            BY <2>1, <3>2, KnownHas, NoIdIsNone
        <3> QED BY <1>3, <2>1, <3>2, <3>3
    <2> QED BY <2>2, <2>3, <2>4
<1>8. ASSUME NEW m \in Nodes \ {n}
      PROVE  /\ Stored(m)' = Stored(m)
             /\ \A p \in Patterns : index'[m][p] = index[m][p]
    BY <1>4 DEF Stored
<1>9. IndexIsInverse'
    <2> SUFFICES ASSUME NEW m \in Nodes
                 PROVE  /\ \A i \in Stored(m)' : index'[m][i.pattern] = i
                        /\ \A p \in Patterns : index'[m][p] # NoId => index'[m][p] \in Stored(m)'
        BY DEF IndexIsInverse
    <2>1. CASE m = n
        BY <1>6, <1>7, <2>1
    <2>2. CASE m # n
        <3>1. \A i \in Stored(m) : i.pattern \in Patterns
            BY DEF Stored, Ids
        <3> QED BY <1>8, <2>2, <3>1 DEF IndexInv, IndexIsInverse
    <2> QED BY <2>1, <2>2
<1>10. IndexInv'
    <2>1. ASSUME NEW m \in Nodes, NEW p \in Patterns, index'[m][p] # NoId
          PROVE  index'[m][p].pattern = p
        BY <1>6, <1>8, <2>1 DEF IndexInv
    <2> QED BY <1>9, <2>1 DEF IndexInv
<1>11. \A m \in Nodes, p \in Patterns :
          (m = n /\ p \in S) \/ Known(m, p) => Known(m, p)'
    <2> SUFFICES ASSUME NEW m \in Nodes, NEW p \in Patterns,
                        (m = n /\ p \in S) \/ Known(m, p)
                 PROVE  Known(m, p)'
        OBVIOUS
    <2>1. CASE m = n
        BY <1>6, <2>1 DEF Known
    <2>2. CASE m # n
        BY <1>8, <2>2 DEF Known
    <2> QED BY <2>1, <2>2
<1> QED BY <1>5, <1>10, <1>11 DEF Arrives

LEMMA EvictKeeps ==
    ASSUME Stores, IndexInv, NEW n \in Nodes, Evict(n)
    PROVE  /\ Stores' /\ IndexInv'
           /\ \A m \in Nodes, p \in Patterns : Known(m, p) => Known(m, p)' \/ AgedPattern(p)
<1> DEFINE gone == Stored(n) \cap old
           out(p) == \E i \in gone : i.pattern = p
<1>1. /\ iocs' = [iocs EXCEPT ![n] = [i \in Ids |-> IF i \in gone THEN 0 ELSE iocs[n][i]]]
      /\ index' = [index EXCEPT ![n] =
            [p \in Patterns |-> IF out(p) THEN NoId ELSE index[n][p]]]
    BY DEF Evict
<1> HIDE DEF gone
<1>2. /\ \A i \in Ids : iocs'[n][i] = IF i \in gone THEN 0 ELSE iocs[n][i]
      /\ \A p \in Patterns : index'[n][p] = IF out(p) THEN NoId ELSE index[n][p]
      /\ \A m \in Nodes \ {n} : iocs'[m] = iocs[m] /\ index'[m] = index[m]
    BY <1>1 DEF Stores
<1>3. Stores'
    BY <1>1 DEF Stores
<1>4. \A i \in Stored(n)' : i \in Stored(n) \ gone /\ i.pattern \in Patterns
    BY <1>2 DEF Stored, Ids
<1>5. \A i \in gone : i \in Stored(n) /\ index[n][i.pattern] = i
    BY DEF gone, IndexInv, IndexIsInverse
<1>6. ASSUME NEW i \in Stored(n)'
      PROVE  index'[n][i.pattern] = i
    <2>1. index[n][i.pattern] = i
        BY <1>4 DEF IndexInv, IndexIsInverse
    <2>2. ~out(i.pattern)
        BY <1>4, <1>5, <2>1
    <2> QED BY <1>2, <1>4, <2>1, <2>2
<1>7. ASSUME NEW p \in Patterns, index'[n][p] # NoId
      PROVE  index'[n][p] \in Stored(n)' /\ index'[n][p].pattern = p
    <2>1. ~out(p) /\ index'[n][p] = index[n][p]
        BY <1>2, <1>7
    <2>2. index[n][p] \in Ids /\ index[n][p].pattern = p /\ iocs[n][index[n][p]] > 0
        BY <1>7, <2>1, KnownHas
    <2>3. index[n][p] \notin gone
        BY <2>1, <2>2
    <2> QED BY <1>2, <2>1, <2>2, <2>3 DEF Stored
<1>8. ASSUME NEW m \in Nodes \ {n}
      PROVE  /\ Stored(m)' = Stored(m)
             /\ \A p \in Patterns : index'[m][p] = index[m][p]
    BY <1>2 DEF Stored
<1>9. IndexIsInverse'
    <2> SUFFICES ASSUME NEW m \in Nodes
                 PROVE  /\ \A i \in Stored(m)' : index'[m][i.pattern] = i
                        /\ \A p \in Patterns : index'[m][p] # NoId => index'[m][p] \in Stored(m)'
        BY DEF IndexIsInverse
    <2>1. CASE m = n
        BY <1>6, <1>7, <2>1
    <2>2. CASE m # n
        <3>1. \A i \in Stored(m) : i.pattern \in Patterns
            BY DEF Stored, Ids
        <3> QED BY <1>8, <2>2, <3>1 DEF IndexInv, IndexIsInverse
    <2> QED BY <2>1, <2>2
<1>10. IndexInv'
    <2>1. ASSUME NEW m \in Nodes, NEW p \in Patterns, index'[m][p] # NoId
          PROVE  index'[m][p].pattern = p
        BY <1>7, <1>8, <2>1 DEF IndexInv
    <2> QED BY <1>9, <2>1 DEF IndexInv
<1>11. ASSUME NEW m \in Nodes, NEW p \in Patterns, Known(m, p), ~AgedPattern(p)
       PROVE  Known(m, p)'
    <2>1. CASE m = n
        <3>1. ~out(p)
            BY <1>11 DEF AgedPattern, gone
        <3>2. index'[n][p] # NoId
            BY <1>2, <1>11, <2>1, <3>1, KnownHas
        <3> QED BY <1>7, <2>1, <3>2 DEF Known
    <2>2. CASE m # n
        BY <1>8, <1>11, <2>2 DEF Known
    <2> QED BY <2>1, <2>2
<1> QED BY <1>3, <1>10, <1>11

-----------------------------------------------------------------------------
(* Type correctness and the index *)

Base == TypeOK /\ IndexInv

LEMMA BaseStores == Base => Stores
BY DEF Base, TypeOK, Stores

Hit(report) == {p \in Patterns : report[p] > 0}

\* What ingest_threat() and receive_gossip() give to Add().
Evidence(n, report) ==
    [p \in Hit(report) |-> [id |-> [node |-> n, pattern |-> p, no |-> made[n][p] + 1],
                            first |-> report[p], again |-> report[p]]]

Gossiped(r) == {i.pattern : i \in Carried(r)}

Chosen(r, p) == CHOOSE i \in Carried(r) : i.pattern = p

Gossip(r) ==
    [p \in Gossiped(r) |->
        LET i == Chosen(r, p) IN [id |-> i, first |-> r.hits[i], again |-> 1]]

LEMMA DetectAdds ==
    ASSUME Base, NEW n \in Nodes, NEW report \in Reports, Detect(n, report)
    PROVE  Add(n, Evidence(n, report)) /\ Arrives(n, Evidence(n, report), Hit(report))
<1>1. Add(n, Evidence(n, report))
    BY DEF Detect, Evidence, Hit
<1>2. \A p \in Hit(report) :
        p \in Patterns /\ report[p] \in Nat /\ report[p] > 0 /\ made[n][p] \in 0..MaxMade
    <2>1. made \in [Nodes -> [Patterns -> 0..MaxMade]]
        BY DEF Base, TypeOK
    <2>2. report \in [Patterns -> 0..2]
        BY DEF Reports
    <2> QED BY <2>1, <2>2 DEF Hit
<1>3. \A p \in Hit(report) : Known(n, p) \/ made[n][p] < MaxMade
    BY DEF Detect, Hit
<1>4. ASSUME NEW p \in Hit(report), ~Known(n, p)
      PROVE  Evidence(n, report)[p].id \in Ids /\ Evidence(n, report)[p].id.pattern = p
    <2>1. made[n][p] + 1 \in 1..MaxMade
        BY <1>2, <1>3, <1>4, BoundsAssumption
    <2> QED BY <1>2, <2>1 DEF Evidence, Ids
<1>5. \A p \in Hit(report) :
        Evidence(n, report)[p].first = report[p] /\ Evidence(n, report)[p].again = report[p]
    BY DEF Evidence
<1>6. DOMAIN Evidence(n, report) = Hit(report) /\ Hit(report) \subseteq Patterns
    BY DEF Evidence, Hit
<1> QED BY <1>1, <1>2, <1>4, <1>5, <1>6 DEF Arrives

LEMMA DeliverAdds ==
    ASSUME Base, NEW r \in net, Deliver(r)
    PROVE  /\ r.dst \in Nodes
           /\ Add(r.dst, Gossip(r)) /\ Arrives(r.dst, Gossip(r), Gossiped(r))
<1>1. Add(r.dst, Gossip(r))
    BY DEF Deliver, Gossip, Gossiped, Chosen
<1>2. r.dst \in Nodes /\ r.hits \in [Ids -> Nat]
    BY DEF Base, TypeOK, Requests
<1>3. ASSUME NEW p \in Gossiped(r)
      PROVE  Chosen(r, p) \in Ids /\ Chosen(r, p).pattern = p /\ r.hits[Chosen(r, p)] > 0
    BY <1>3 DEF Gossiped, Chosen, Carried
<1>4. \A p \in Gossiped(r) : p \in Patterns
    BY DEF Gossiped, Carried, Ids
<1>5. /\ DOMAIN Gossip(r) = Gossiped(r)
      /\ \A p \in Gossiped(r) :
            /\ Gossip(r)[p].id = Chosen(r, p)
            /\ Gossip(r)[p].first = r.hits[Chosen(r, p)]
            /\ Gossip(r)[p].again = 1
    BY DEF Gossip
<1> QED BY <1>1, <1>2, <1>3, <1>4, <1>5 DEF Arrives

LEMMA HaltForgets ==
    ASSUME Base, NEW n \in Nodes, Halt(n)
    PROVE  Stores' /\ IndexInv' /\ \A m \in Nodes \ {n}, p \in Patterns : Known(m, p) => Known(m, p)'
<1>1. /\ iocs' = [iocs EXCEPT ![n] = Empty]
      /\ index' = [index EXCEPT ![n] = [p \in Patterns |-> NoId]]
    BY DEF Halt
<1>2. Stores'
    BY <1>1, BaseStores DEF Stores, Empty
<1>3. /\ Stored(n)' = {} /\ \A p \in Patterns : index'[n][p] = NoId
      /\ \A m \in Nodes \ {n} : Stored(m)' = Stored(m) /\ index'[m] = index[m]
    BY <1>1, BaseStores DEF Stores, Stored, Empty
<1>4. IndexInv'
    BY <1>3 DEF Base, IndexInv, IndexIsInverse
<1> QED BY <1>2, <1>3, <1>4 DEF Known

\* Nothing but a halt or the age of an IOC makes a node forget a pattern.
LEMMA StoreStep ==
    ASSUME Base, Next
    PROVE  /\ Stores' /\ IndexInv'
           /\ old \subseteq old' /\ restarted \subseteq restarted'
           /\ \A m \in Nodes, p \in Patterns :
                 Known(m, p) => Known(m, p)' \/ AgedPattern(p) \/ m \in restarted'
<1> USE BaseStores
<1>1. CASE UNCHANGED <<iocs, index>> /\ restarted' = restarted /\ old \subseteq old'
    <2>1. \A m : Stored(m)' = Stored(m)
        BY <1>1 DEF Stored
    <2> QED BY <1>1, <2>1 DEF Base, Stores, IndexInv, IndexIsInverse, Known
<1>2. ASSUME NEW n \in Nodes, Halt(n)
      PROVE  /\ Stores' /\ IndexInv'
             /\ old \subseteq old' /\ restarted \subseteq restarted'
             /\ \A m \in Nodes, p \in Patterns :
                   Known(m, p) => Known(m, p)' \/ m \in restarted'
    <2>1. old' = old /\ restarted' = restarted \cup {n}
        BY <1>2 DEF Halt
    <2> QED BY <1>2, <2>1, HaltForgets
<1>3. ASSUME NEW n \in Nodes, NEW report \in Reports, Detect(n, report)
      PROVE  /\ Stores' /\ IndexInv' /\ old' = old /\ restarted' = restarted
             /\ \A m \in Nodes, p \in Patterns : Known(m, p) => Known(m, p)'
    BY <1>3, DetectAdds, AddKeeps DEF Base, Detect
<1>4. ASSUME NEW r \in net, Deliver(r)
      PROVE  /\ Stores' /\ IndexInv' /\ old' = old /\ restarted' = restarted
             /\ \A m \in Nodes, p \in Patterns : Known(m, p) => Known(m, p)'
    BY <1>4, DeliverAdds, AddKeeps DEF Base, Deliver, history
<1>5. ASSUME NEW n \in Nodes, EndCycle(n)
      PROVE  /\ Stores' /\ IndexInv' /\ old' = old /\ restarted' = restarted
             /\ \A m \in Nodes, p \in Patterns : Known(m, p) => Known(m, p)' \/ AgedPattern(p)
    BY <1>5, EvictKeeps DEF Base, EndCycle, history
<1>6. ASSUME NEW n \in Nodes,
             Start(n) \/ BeginCycle(n)
             \/ \E m \in Peers[n] : Answer(n, m) \/ Refused(n, m) \/ TimeOut(n, m)
      PROVE  UNCHANGED <<iocs, index>> /\ restarted' = restarted /\ old \subseteq old'
    BY <1>6 DEF Start, BeginCycle, Answer, Refused, TimeOut, local, history
<1>7. ASSUME NEW i \in Ids, Age(i)
      PROVE  UNCHANGED <<iocs, index>> /\ restarted' = restarted /\ old \subseteq old'
    BY <1>7 DEF Age, local, history
<1> QED BY <1>1, <1>2, <1>3, <1>4, <1>5, <1>6, <1>7 DEF Next

LEMMA BaseInit == Init => Base
<1> SUFFICES ASSUME Init PROVE Base
    OBVIOUS
<1>1. NoCall \in Calls /\ Empty \in [Ids -> Nat]
    BY DEF NoCall, Calls, Empty
<1>2. 0 \in 0..MaxMade
    BY BoundsAssumption
<1>3. TypeOK
    BY <1>1, <1>2 DEF Init, TypeOK
<1>4. \A n \in Nodes : Stored(n) = {}
    BY DEF Init, Stored, Empty
<1>5. IndexInv
    BY <1>4 DEF Init, IndexInv, IndexIsInverse
<1> QED BY <1>3, <1>5 DEF Base

\* The peers an action names are nodes.
LEMMA PeerNode == \A n \in Nodes : Peers[n] \subseteq Nodes
BY PeersAssumption

LEMMA PostType ==
    ASSUME TypeOK, NEW n \in Nodes, NEW m \in Nodes
    PROVE  /\ [state |-> "pending", ids |-> Unsent(n, m)] \in Calls
           /\ [src |-> n, dst |-> m, open |-> TRUE,
               hits |-> [i \in Ids |-> IF i \in Unsent(n, m) THEN iocs[n][i] ELSE 0]]
                  \in Requests
<1>1. Unsent(n, m) \subseteq Ids
    BY DEF Unsent, Stored
<1>2. [i \in Ids |-> IF i \in Unsent(n, m) THEN iocs[n][i] ELSE 0] \in [Ids -> Nat]
    BY DEF TypeOK
<1> QED BY <1>1, <1>2 DEF Calls, Requests

LEMMA ClosedType ==
    ASSUME NEW r \in Requests
    PROVE  [r EXCEPT !.open = FALSE] \in Requests
BY DEF Requests

LEMMA NoCallType == NoCall \in Calls
BY DEF NoCall, Calls

LEMMA TypeStep == Base /\ [Next]_vars => TypeOK'
<1> SUFFICES ASSUME Base, [Next]_vars PROVE TypeOK'
    OBVIOUS
<1>0. TypeOK
    BY DEF Base
<1>1. CASE UNCHANGED vars
    BY <1>0, <1>1 DEF vars, local, history, TypeOK
<1>2. CASE Next
    <2>0. /\ iocs' \in [Nodes -> [Ids -> Nat]]
          /\ index' \in [Nodes -> [Patterns -> Ids \cup {NoId}]]
        BY <1>2, StoreStep DEF Stores
    <2>1. ASSUME NEW n \in Nodes, Start(n) PROVE TypeOK'
        BY <1>0, <2>1 DEF Start, TypeOK, local, history
    <2>2. ASSUME NEW n \in Nodes, Halt(n) PROVE TypeOK'
        <3>1. /\ up' = [up EXCEPT ![n] = FALSE] /\ halts' = halts + 1
              /\ restarted' = restarted \cup {n}
              /\ sent' = [sent EXCEPT ![n] = [m \in Nodes |-> {}]]
              /\ sending' = [sending EXCEPT ![n] = FALSE]
              /\ call' = [call EXCEPT ![n] = [m \in Nodes |-> NoCall]]
              /\ UNCHANGED <<old, made, lost, detections>>
            BY <2>2 DEF Halt
        <3>2. net' \subseteq Requests
            BY <1>0, <2>2, ClosedType DEF Halt, TypeOK
        <3> QED BY <1>0, <2>0, <3>1, <3>2, NoCallType DEF TypeOK
    <2>3. ASSUME NEW n \in Nodes, NEW report \in Reports, Detect(n, report) PROVE TypeOK'
        <3> DEFINE more(p) == p \in Hit(report) /\ ~Known(n, p)
        <3>1. report \in [Patterns -> 0..2]
            BY DEF Reports
        <3>2. \A p \in Patterns : Known(n, p) \/ made[n][p] < MaxMade \/ p \notin Hit(report)
            BY <2>3 DEF Detect, Hit
        <3>3. made' = [made EXCEPT ![n] =
                  [p \in Patterns |-> IF more(p) THEN made[n][p] + 1 ELSE made[n][p]]]
            BY <2>3 DEF Detect, Hit
        <3>4. \A p \in Patterns : made[n][p] \in 0..MaxMade
            BY <1>0 DEF TypeOK
        <3>5. ASSUME NEW p \in Patterns
              PROVE  (IF more(p) THEN made[n][p] + 1 ELSE made[n][p]) \in 0..MaxMade
            BY <3>2, <3>4, BoundsAssumption
        <3> HIDE DEF more
        <3>6. made' \in [Nodes -> [Patterns -> 0..MaxMade]]
            BY <1>0, <3>3, <3>5 DEF TypeOK
        <3>7. detections' = [detections EXCEPT ![n] =
                  [p \in Patterns |-> detections[n][p] + report[p]]]
            BY <2>3 DEF Detect
        <3>8. ASSUME NEW p \in Patterns PROVE detections[n][p] + report[p] \in Nat
            <4>1. detections[n][p] \in Nat /\ report[p] \in 0..2
                BY <1>0, <3>1 DEF TypeOK
            <4> QED BY <4>1
        <3>9. detections' \in [Nodes -> [Patterns -> Nat]]
            BY <1>0, <3>7, <3>8 DEF TypeOK
        <3> QED BY <1>0, <2>0, <2>3, <3>6, <3>9 DEF Detect, TypeOK
    <2>4. ASSUME NEW n \in Nodes, BeginCycle(n) PROVE TypeOK'
        <3>1. call' \in [Nodes -> [Nodes -> Calls]]
            BY <1>0, <2>4, PostType, NoCallType DEF BeginCycle, TypeOK
        <3>2. net' \subseteq Requests
            <4>1. \A m \in Peers[n] : m \in Nodes
                BY PeerNode
            <4> QED BY <1>0, <2>4, <4>1, PostType DEF BeginCycle, TypeOK
        <3> QED BY <1>0, <2>4, <3>1, <3>2 DEF BeginCycle, TypeOK, history
    <2>5. ASSUME NEW n \in Nodes, EndCycle(n) PROVE TypeOK'
        BY <1>0, <2>0, <2>5 DEF EndCycle, TypeOK, history
    <2>6. ASSUME NEW n \in Nodes, NEW m \in Nodes, Answer(n, m) PROVE TypeOK'
        <3>1. call[n][m].ids \subseteq Ids
            BY <1>0 DEF TypeOK, Calls
        <3> QED BY <1>0, <2>6, <3>1, NoCallType DEF Answer, TypeOK, history
    <2>7. ASSUME NEW n \in Nodes, NEW m \in Nodes, Refused(n, m) PROVE TypeOK'
        BY <1>0, <2>7, NoCallType DEF Refused, TypeOK, history
    <2>8. ASSUME NEW n \in Nodes, NEW m \in Nodes, TimeOut(n, m) PROVE TypeOK'
        <3>1. net' \subseteq Requests
            BY <1>0, <2>8, ClosedType DEF TimeOut, TypeOK, Pending
        <3> QED BY <1>0, <2>8, <3>1, NoCallType DEF TimeOut, TypeOK, history
    <2>9. ASSUME NEW r \in net, Deliver(r) PROVE TypeOK'
        <3>1. call' \in [Nodes -> [Nodes -> Calls]]
            <4>1. r.src \in Nodes /\ r.dst \in Nodes
                BY <1>0 DEF TypeOK, Requests
            <4>2. [call[r.src][r.dst] EXCEPT !.state = "answered"] \in Calls
                <5>1. call[r.src][r.dst] \in Calls
                    BY <1>0, <4>1 DEF TypeOK
                <5> QED BY <5>1 DEF Calls
            <4> QED BY <1>0, <2>9, <4>1, <4>2 DEF Deliver, TypeOK
        <3> QED BY <1>0, <2>0, <2>9, <3>1 DEF Deliver, TypeOK, history
    <2>10. ASSUME NEW i \in Ids, Age(i) PROVE TypeOK'
        BY <1>0, <2>10 DEF Age, TypeOK, local, history
    <2> QED BY <1>2, <2>1, <2>2, <2>3, <2>4, <2>5, <2>6, <2>7, <2>8, <2>9, <2>10, PeerNode DEF Next
<1> QED BY <1>1, <1>2

LEMMA BaseStep == Base /\ [Next]_vars => Base'
<1> SUFFICES ASSUME Base, [Next]_vars PROVE IndexInv'
    BY TypeStep DEF Base
<1>1. CASE UNCHANGED vars
    BY <1>1 DEF vars, local, Base, IndexInv, IndexIsInverse, Stored
<1> QED BY <1>1, StoreStep

LEMMA BaseAlways == Spec => []Base
BY BaseInit, BaseStep, PTL DEF Spec

\* Every variable keeps its type, for any peers, also peers that are not mutual.
THEOREM MeshTypeCorrect == Spec => []TypeOK
BY BaseAlways, PTL DEF Base

\* The pattern index of every node is the inverse of its store, in whatever order
\* detections, gossip, evictions and restarts come.
THEOREM MeshIndexIsInverse == Spec => []IndexIsInverse
BY BaseAlways, PTL DEF Base, IndexInv

-----------------------------------------------------------------------------
(* What a node was told it still knows *)

\* A request whose sender waits is the only one of its sender to its peer, its POST
\* is pending, and it carries what the sender will note as sent.
Matched ==
    /\ \A r \in net : r.open =>
          /\ call[r.src][r.dst].state = "pending"
          /\ call[r.src][r.dst].ids \subseteq Carried(r)
    /\ \A r, q \in net : r.open /\ q.open /\ r.src = q.src /\ r.dst = q.dst => r = q
    /\ \A n, m \in Nodes : ~sending[n] => call[n][m] = NoCall

\* Node n detected p, or a peer has, or is about to have, an IOC of p noted as sent.
Told(n, p) ==
    \/ detections[n][p] > 0
    \/ \E m \in Nodes : \E i \in sent[m][n] : i.pattern = p
    \/ \E m \in Nodes :
          call[m][n].state = "answered" /\ \E i \in call[m][n].ids : i.pattern = p

RememberInv ==
    \A n \in Nodes, p \in Patterns :
        n \notin restarted /\ Told(n, p) => Known(n, p) \/ AgedPattern(p)

LEMMA NoCallIdle == NoCall.state = "none" /\ NoCall.ids = {}
BY DEF NoCall

\* A step that opens no request and leaves the calls of open ones alone.
LEMMA MatchedRest ==
    ASSUME Matched,
           \A r \in net' : r.open => r \in net /\ call'[r.src][r.dst] = call[r.src][r.dst],
           \A n, m \in Nodes : ~sending'[n] => call'[n][m] = NoCall
    PROVE  Matched'
BY DEF Matched, Carried

LEMMA MatchedBegin ==
    ASSUME Base, Matched, NEW n \in Nodes, BeginCycle(n)
    PROVE  Matched'
<1> DEFINE to == {m \in Peers[n] : Unsent(n, m) # {}}
           post(m) == [state |-> "pending", ids |-> Unsent(n, m)]
           req(m) == [src |-> n, dst |-> m, open |-> TRUE,
                      hits |-> [i \in Ids |-> IF i \in Unsent(n, m) THEN iocs[n][i] ELSE 0]]
<1>1. /\ ~sending[n]
      /\ sending' = [sending EXCEPT ![n] = TRUE]
      /\ call' = [call EXCEPT ![n] = [m \in Nodes |-> IF m \in to THEN post(m) ELSE NoCall]]
      /\ net' = net \cup {req(m) : m \in to}
    BY DEF BeginCycle
<1>2. /\ sending \in [Nodes -> BOOLEAN] /\ call \in [Nodes -> [Nodes -> Calls]]
      /\ \A r \in net : r.src \in Nodes /\ r.dst \in Nodes
      /\ to \subseteq Nodes
    BY PeerNode DEF Base, TypeOK, Requests
<1>3. \A r \in net : r.open => r.src # n /\ call'[r.src][r.dst] = call[r.src][r.dst]
    BY <1>1, <1>2, NoCallIdle DEF Matched
<1>4. ASSUME NEW m \in to
      PROVE  /\ req(m).src = n /\ req(m).dst = m /\ call'[n][m] = post(m)
             /\ Unsent(n, m) \subseteq Carried(req(m))
    <2>1. \A i \in Unsent(n, m) : i \in Ids /\ iocs[n][i] > 0
        BY DEF Unsent, Stored
    <2>2. \A i \in Unsent(n, m) : req(m).hits[i] = iocs[n][i]
        BY <2>1
    <2>3. call'[n] = [k \in Nodes |-> IF k \in to THEN post(k) ELSE NoCall]
        BY <1>1, <1>2
    <2>4. call'[n][m] = post(m)
        BY <1>2, <2>3
    <2> QED BY <2>1, <2>2, <2>4 DEF Carried
<1> HIDE DEF to, req
<1>5. \A r \in net' : r.open =>
         /\ call'[r.src][r.dst].state = "pending"
         /\ call'[r.src][r.dst].ids \subseteq Carried(r)
    <2>1. \A r \in net : r.open =>
             /\ call'[r.src][r.dst].state = "pending"
             /\ call'[r.src][r.dst].ids \subseteq Carried(r)
        BY <1>3 DEF Matched
    <2>2. \A m \in to : post(m).state = "pending" /\ post(m).ids = Unsent(n, m)
        OBVIOUS
    <2>3. \A m \in to :
             /\ call'[req(m).src][req(m).dst].state = "pending"
             /\ call'[req(m).src][req(m).dst].ids \subseteq Carried(req(m))
        <3> TAKE m \in to
        <3>1. post(m).state = "pending" /\ post(m).ids = Unsent(n, m)
            BY <2>2
        <3>2. call'[req(m).src][req(m).dst] = post(m)
            BY <1>4
        <3>3. Unsent(n, m) \subseteq Carried(req(m))
            BY <1>4
        <3> HIDE DEF post
        <3> QED BY <3>1, <3>2, <3>3
    <2> QED BY <1>1, <2>1, <2>3
<1>6. \A r, q \in net' : r.open /\ q.open /\ r.src = q.src /\ r.dst = q.dst => r = q
    <2>1. \A r, q \in net : r.open /\ q.open /\ r.src = q.src /\ r.dst = q.dst => r = q
        BY DEF Matched
    <2>2. \A m \in to : req(m).src = n /\ req(m).dst = m
        BY <1>4
    <2>3. \A r \in net' : r \in net \/ \E m \in to : r = req(m)
        BY <1>1
    <2>4. \A r \in net, m \in to : r.open => r.src # req(m).src
        BY <1>3, <2>2
    <2> QED BY <2>1, <2>2, <2>3, <2>4
<1>7. \A k, m \in Nodes : ~sending'[k] => call'[k][m] = NoCall
    BY <1>1, <1>2 DEF Matched
<1>8. \A r \in net' : Carried(r)' = Carried(r)
    BY DEF Carried
<1> QED BY <1>5, <1>6, <1>7, <1>8 DEF Matched

LEMMA MatchedStep == Base /\ Matched /\ [Next]_vars => Matched'
<1> SUFFICES ASSUME Base, Matched, [Next]_vars PROVE Matched'
    OBVIOUS
<1>0. /\ sending \in [Nodes -> BOOLEAN] /\ call \in [Nodes -> [Nodes -> Calls]]
      /\ \A r \in net : r.src \in Nodes /\ r.dst \in Nodes /\ r \in Requests
    BY DEF Base, TypeOK, Requests
<1>1. CASE UNCHANGED <<sending, call, net>>
    BY <1>1 DEF Matched, Carried
<1>2. ASSUME NEW n \in Nodes, EndCycle(n) PROVE Matched'
    BY <1>0, <1>2, MatchedRest DEF EndCycle, Matched
<1>3. ASSUME NEW n \in Nodes, NEW m \in Nodes, Answer(n, m) PROVE Matched'
    BY <1>0, <1>3, MatchedRest DEF Answer, MarkSent, Matched
<1>4. ASSUME NEW n \in Nodes, NEW m \in Nodes, Refused(n, m) \/ TimeOut(n, m) PROVE Matched'
    <2>1. \A r \in net' : r.open => r \in net /\ ~(r.src = n /\ r.dst = m)
        <3>1. \A r \in Pending(n, m) : [r EXCEPT !.open = FALSE].open = FALSE
            BY <1>0 DEF Pending, Requests
        <3>2. net' \subseteq (net \ Pending(n, m))
                    \cup {[r EXCEPT !.open = FALSE] : r \in Pending(n, m)}
            BY <1>4 DEF Refused, TimeOut
        <3>3. \A r \in net \ Pending(n, m) : r.open => ~(r.src = n /\ r.dst = m)
            BY DEF Pending
        <3> QED BY <3>1, <3>2, <3>3
    <2>2. sending' = sending /\ call' = [call EXCEPT ![n][m] = NoCall]
        BY <1>4 DEF Refused, TimeOut
    <2>3. \A k, j \in Nodes : ~sending'[k] => call'[k][j] = NoCall
        BY <1>0, <2>2 DEF Matched
    <2> QED BY <1>0, <2>1, <2>2, <2>3, MatchedRest
<1>5. ASSUME NEW n \in Nodes, Halt(n) PROVE Matched'
    <2>1. /\ sending' = [sending EXCEPT ![n] = FALSE]
          /\ call' = [call EXCEPT ![n] = [m \in Nodes |-> NoCall]]
          /\ net' = {IF r.src = n THEN [r EXCEPT !.open = FALSE] ELSE r :
                        r \in {q \in net : q.dst # n}}
        BY <1>5 DEF Halt
    <2>2. \A r \in net' : r.open => r \in net /\ r.src # n
        <3>1. \A r \in net : [r EXCEPT !.open = FALSE].open = FALSE
            BY <1>0 DEF Requests
        <3> QED BY <2>1, <3>1
    <2>3. \A k, m \in Nodes : ~sending'[k] => call'[k][m] = NoCall
        BY <1>0, <2>1 DEF Matched
    <2> QED BY <1>0, <2>1, <2>2, <2>3, MatchedRest
<1>6. ASSUME NEW r \in net, Deliver(r) PROVE Matched'
    <2>1. /\ net' = net \ {r} /\ sending' = sending
          /\ call' = IF r.open THEN [call EXCEPT ![r.src][r.dst].state = "answered"] ELSE call
        BY <1>6 DEF Deliver
    <2>2. \A q \in net' : q.open =>
             q \in net /\ (r.open => ~(q.src = r.src /\ q.dst = r.dst))
        BY <2>1 DEF Matched
    <2>3. \A q \in net' : q.open => call'[q.src][q.dst] = call[q.src][q.dst]
        BY <1>0, <2>1, <2>2
    <2>4. r.open => sending[r.src]
        BY <1>0, NoCallIdle DEF Matched
    <2>5. \A k, m \in Nodes : ~sending'[k] => call'[k][m] = NoCall
        BY <1>0, <2>1, <2>4 DEF Matched
    <2> QED BY <2>2, <2>3, <2>5, MatchedRest
<1>7. ASSUME NEW n \in Nodes, Start(n) \/ \E report \in Reports : Detect(n, report)
      PROVE  UNCHANGED <<sending, call, net>>
    BY <1>7 DEF Start, Detect, local
<1>8. ASSUME NEW i \in Ids, Age(i) PROVE UNCHANGED <<sending, call, net>>
    BY <1>8 DEF Age, local
<1>9. CASE UNCHANGED vars
    BY <1>1, <1>9 DEF vars, local
<1> QED BY <1>1, <1>2, <1>3, <1>4, <1>5, <1>6, <1>7, <1>8, <1>9, MatchedBegin, PeerNode DEF Next

\* What a node is told in a step it has been told before, or knows after the step.
LEMMA ToldStep ==
    ASSUME Base, Matched, Next, NEW n \in Nodes, NEW p \in Patterns, Told(n, p)'
    PROVE  Told(n, p) \/ Known(n, p)'
<1>0. /\ sent \in [Nodes -> [Nodes -> SUBSET Ids]]
      /\ call \in [Nodes -> [Nodes -> Calls]]
      /\ detections \in [Nodes -> [Patterns -> Nat]]
      /\ \A r \in net : r.src \in Nodes /\ r.dst \in Nodes
    BY DEF Base, TypeOK, Requests
<1>1. CASE UNCHANGED <<sent, call, detections>>
    BY <1>1 DEF Told
<1>2. ASSUME NEW k \in Nodes, BeginCycle(k) PROVE Told(n, p)
    <2>1. call'[k][n].state # "answered" /\ \A m \in Nodes \ {k} : call'[m][n] = call[m][n]
        BY <1>0, <1>2, NoCallIdle DEF BeginCycle
    <2> QED BY <1>2, <2>1 DEF BeginCycle, Told, history
<1>3. ASSUME NEW k \in Nodes, NEW report \in Reports, Detect(k, report)
      PROVE  Told(n, p) \/ Known(n, p)'
    <2>1. \A q \in Hit(report) : Known(k, q)'
        BY <1>3, BaseStores, DetectAdds, AddKeeps DEF Base
    <2>2. detections'[n][p] = detections[n][p] \/ (n = k /\ p \in Hit(report))
        <3>1. report[p] \in 0..2
            BY DEF Reports
        <3>2. n = k => detections'[n][p] = detections[n][p] + report[p]
            BY <1>0, <1>3 DEF Detect
        <3>3. n # k => detections'[n][p] = detections[n][p]
            BY <1>0, <1>3 DEF Detect
        <3>4. detections[n][p] \in Nat
            BY <1>0
        <3> QED BY <3>1, <3>2, <3>3, <3>4 DEF Hit
    <2> QED BY <1>3, <2>1, <2>2 DEF Detect, Told
<1>4. ASSUME NEW k \in Nodes, NEW m \in Nodes, Answer(k, m) PROVE Told(n, p)
    <2>1. /\ call[k][m].state = "answered"
          /\ sent' = [sent EXCEPT ![k][m] = @ \cup call[k][m].ids]
          /\ call' = [call EXCEPT ![k][m] = NoCall]
          /\ detections' = detections
        BY <1>4 DEF Answer, MarkSent, history
    <2>2. \A j \in Nodes :
             /\ sent'[j][n] = sent[j][n] \/ (j = k /\ n = m /\ sent'[j][n] = sent[j][n] \cup call[j][n].ids)
             /\ call'[j][n] = call[j][n] \/ call'[j][n] = NoCall
        BY <1>0, <2>1
    <2> QED BY <2>1, <2>2, NoCallIdle DEF Told
<1>5. ASSUME NEW k \in Nodes, NEW m \in Nodes, Refused(k, m) \/ TimeOut(k, m)
      PROVE  Told(n, p)
    <2>0. call' = [call EXCEPT ![k][m] = NoCall]
        BY <1>5 DEF Refused, TimeOut
    <2>1. \A j \in Nodes : call'[j][n] = call[j][n] \/ call'[j][n] = NoCall
        BY <1>0, <2>0
    <2> QED BY <1>5, <2>1, NoCallIdle DEF Refused, TimeOut, Told, history
<1>6. ASSUME NEW k \in Nodes, Halt(k) PROVE Told(n, p)
    <2>1. \A j \in Nodes :
             /\ sent'[j][n] = sent[j][n] \/ sent'[j][n] = {}
             /\ call'[j][n] = call[j][n] \/ call'[j][n] = NoCall
        BY <1>0, <1>6 DEF Halt
    <2> QED BY <1>6, <2>1, NoCallIdle DEF Halt, Told
<1>7. ASSUME NEW r \in net, Deliver(r) PROVE Told(n, p) \/ Known(n, p)'
    <2>1. \A q \in Gossiped(r) : Known(r.dst, q)'
        BY <1>7, BaseStores, DeliverAdds, AddKeeps DEF Base
    <2>2. /\ sent' = sent /\ detections' = detections
          /\ call' = IF r.open THEN [call EXCEPT ![r.src][r.dst].state = "answered"] ELSE call
        BY <1>7 DEF Deliver, history
    <2>3. \A j \in Nodes :
             \/ call'[j][n] = call[j][n]
             \/ r.open /\ j = r.src /\ n = r.dst /\ call'[j][n].ids = call[j][n].ids
        <3>1. ASSUME NEW j \in Nodes, r.open, j = r.src, n = r.dst
              PROVE  call'[j][n].ids = call[j][n].ids
            <4>1. call[j][n] \in Calls
                BY <1>0
            <4>2. call'[j][n] = [call[j][n] EXCEPT !.state = "answered"]
                BY <1>0, <2>2, <3>1
            <4> QED BY <4>1, <4>2 DEF Calls
        <3>2. ASSUME NEW j \in Nodes, ~(r.open /\ j = r.src /\ n = r.dst)
              PROVE  call'[j][n] = call[j][n]
            BY <1>0, <2>2, <3>2
        <3> QED BY <3>1, <3>2
    <2>4. r.open => call[r.src][r.dst].ids \subseteq Carried(r)
        BY DEF Matched
    <2>5. \A i \in Carried(r) : i.pattern \in Gossiped(r)
        BY DEF Gossiped
    <2> QED BY <2>1, <2>2, <2>3, <2>4, <2>5, SMTT(20) DEF Told
<1>8. ASSUME NEW k \in Nodes, Start(k) \/ EndCycle(k)
      PROVE  UNCHANGED <<sent, call, detections>>
    BY <1>8 DEF Start, EndCycle, local, history
<1>9. ASSUME NEW i \in Ids, Age(i) PROVE UNCHANGED <<sent, call, detections>>
    BY <1>9 DEF Age, local, history
<1> QED BY <1>1, <1>2, <1>3, <1>4, <1>5, <1>6, <1>7, <1>8, <1>9, PeerNode DEF Next

LEMMA RememberStep == Base /\ Matched /\ RememberInv /\ [Next]_vars => RememberInv'
<1> SUFFICES ASSUME Base, Matched, RememberInv, [Next]_vars PROVE RememberInv'
    OBVIOUS
<1>1. CASE UNCHANGED vars
    BY <1>1 DEF vars, local, history, RememberInv, Told, Known, Stored, AgedPattern
<1>2. CASE Next
    <2> SUFFICES ASSUME NEW n \in Nodes, NEW p \in Patterns, n \notin restarted', Told(n, p)'
                 PROVE  Known(n, p)' \/ AgedPattern(p)'
        BY DEF RememberInv
    <2>1. Told(n, p) \/ Known(n, p)'
        BY <1>2, ToldStep
    <2>2. /\ old \subseteq old' /\ restarted \subseteq restarted'
          /\ Known(n, p) => Known(n, p)' \/ AgedPattern(p)
        BY <1>2, StoreStep
    <2>3. AgedPattern(p) => AgedPattern(p)'
        BY <2>2 DEF AgedPattern
    <2> QED BY <2>1, <2>2, <2>3 DEF RememberInv
<1> QED BY <1>1, <1>2

\* What a node detected, or a peer noted as sent to it, it still knows, whichever
\* requests and answers are lost, late or handled after their sender gave up.
THEOREM MeshRemembered == Spec => []Remembered
<1>1. Init => Matched /\ RememberInv
    BY NoCallIdle DEF Init, Matched, RememberInv, Told
<1>2. RememberInv => Remembered
    BY DEF RememberInv, Remembered, Told
<1> QED BY <1>1, <1>2, MatchedStep, RememberStep, BaseAlways, PTL DEF Spec
=============================================================================
