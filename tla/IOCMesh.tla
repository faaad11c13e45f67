------------------------------- MODULE IOCMesh ------------------------------
(***************************************************************************)
(* The Sentinel mesh: the IOC store of every node (sentinel/ioc_store.py), *)
(* the node that feeds it (sentinel/node.py) and the HTTP push gossip      *)
(* between nodes (sentinel/gossip.py, POST /api/sentinel/gossip).          *)
(*                                                                         *)
(* A node is one event loop.  Its gossip loop takes a snapshot, posts to   *)
(* all peers at once, waits for every answer, then evicts what has aged.   *)
(* Detections and gossip of peers come in between.  A request or its       *)
(* answer may be lost, and a request whose sender gave up may still be     *)
(* handled.  A process keeps nothing across a restart: neither its store   *)
(* nor what it has sent to whom.                                           *)
(*                                                                         *)
(* An IOC is known by its ioc_id, here its source node, its pattern and a  *)
(* number.  Severity and the times that are only displayed are left out.   *)
(***************************************************************************)
EXTENDS Integers, FiniteSets

CONSTANTS
    Nodes,          \* the processes of the mesh
    Peers,          \* [Nodes -> SUBSET Nodes]: SENTINEL_PEERS of each node
    Patterns,       \* patterns of IOCs
    MinHits,        \* min_hits of promote_ioc_patterns()
    MaxMade,        \* bound: IOCs a node creates for one pattern
    MaxDetections,  \* bound: detections in the mesh
    MaxLost,        \* bound: requests or answers the network loses
    MaxHalts,       \* bound: crashes and shutdowns
    MaxAged         \* bound: IOCs that reach their time to live

ASSUME PeersAssumption == Peers \in [Nodes -> SUBSET Nodes]
ASSUME BoundsAssumption ==
    /\ MinHits \in Nat /\ MaxMade \in Nat /\ MaxDetections \in Nat
    /\ MaxLost \in Nat /\ MaxHalts \in Nat /\ MaxAged \in Nat

VARIABLES
    up,        \* [Nodes -> BOOLEAN]
    iocs,      \* [Nodes -> [Ids -> Nat]]: hit_count of a stored IOC, 0 when not stored
    index,     \* [Nodes -> [Patterns -> Ids or NoId]]: _pattern_index
    sent,      \* [Nodes -> [Nodes -> SUBSET Ids]]: _sent_ioc_ids
    sending,   \* [Nodes -> BOOLEAN]: is the gossip loop inside broadcast_iocs()
    call,      \* [Nodes -> [Nodes -> Calls]]: the POST to a peer, and what it carries
    net,       \* the requests under way
    old,       \* IOCs past their time to live
    made,      \* [Nodes -> [Patterns -> Nat]]: IOCs created: the source of fresh ids
    lost, halts,  \* bounded environment counters
    detections,   \* history: [Nodes -> [Patterns -> Nat]]
    restarted     \* history: nodes that ever halted

local   == <<iocs, index, sent, sending, call>>
history == <<detections, restarted>>
vars    == <<up, local, net, old, made, lost, halts, history>>

-----------------------------------------------------------------------------
(* Data *)

Ids  == [node : Nodes, pattern : Patterns, no : 1..MaxMade]
NoId == [node |-> "none", pattern |-> "none", no |-> 0]

Calls    == [state : {"none", "pending", "answered"}, ids : SUBSET Ids]
NoCall   == [state |-> "none", ids |-> {}]
Empty    == [i \in Ids |-> 0]

\* A request: the IOCs it carries with their hit counts, 0 for those it does not,
\* and whether its sender still waits for the answer.
Requests == [src : Nodes, dst : Nodes, hits : [Ids -> Nat], open : BOOLEAN]

Stored(n)   == {i \in Ids : iocs[n][i] > 0}
Carried(r)  == {i \in Ids : r.hits[i] > 0}
Known(n, p) == index[n][p] # NoId /\ index[n][p] \in Stored(n)

Init ==
    /\ up = [n \in Nodes |-> FALSE]
    /\ iocs = [n \in Nodes |-> Empty]
    /\ index = [n \in Nodes |-> [p \in Patterns |-> NoId]]
    /\ sent = [n \in Nodes |-> [m \in Nodes |-> {}]]
    /\ sending = [n \in Nodes |-> FALSE]
    /\ call = [n \in Nodes |-> [m \in Nodes |-> NoCall]]
    /\ net = {} /\ old = {}
    /\ made = [n \in Nodes |-> [p \in Patterns |-> 0]]
    /\ lost = 0 /\ halts = 0
    /\ detections = [n \in Nodes |-> [p \in Patterns |-> 0]]
    /\ restarted = {}

-----------------------------------------------------------------------------
(* IOCStore *)

\* add() for a list of IOCs, at most one id per pattern.  in[p] is what arrives for
\* pattern p: the id, the hit count it is stored with when p is new, and the hits
\* it adds to the IOC of p when there is one.
Add(n, in) ==
    LET again(i) == i.pattern \in DOMAIN in /\ Known(n, i.pattern) /\ i = index[n][i.pattern]
        first(i) == i.pattern \in DOMAIN in /\ ~Known(n, i.pattern) /\ i = in[i.pattern].id
    IN
    /\ iocs' = [iocs EXCEPT ![n] =
            [i \in Ids |-> IF again(i) THEN iocs[n][i] + in[i.pattern].again
                           ELSE IF first(i) THEN in[i.pattern].first
                           ELSE iocs[n][i]]]
    /\ index' = [index EXCEPT ![n] =
            [p \in Patterns |-> IF p \in DOMAIN in /\ ~Known(n, p)
                                THEN in[p].id ELSE index[n][p]]]

Evict_KeepsIndex(n) ==
    /\ iocs' = [iocs EXCEPT ![n] = [i \in Ids |-> IF i \in old THEN 0 ELSE iocs[n][i]]]
    /\ UNCHANGED index

Evict_UnlessHit(n) ==
    LET gone == {i \in Stored(n) \cap old : iocs[n][i] < 2} IN
    /\ iocs' = [iocs EXCEPT ![n] = [i \in Ids |-> IF i \in gone THEN 0 ELSE iocs[n][i]]]
    /\ index' = [index EXCEPT ![n] =
            [p \in Patterns |-> IF \E i \in gone : i.pattern = p THEN NoId ELSE index[n][p]]]

\* evict_expired()
Evict(n) ==
    LET gone == Stored(n) \cap old IN
    /\ iocs' = [iocs EXCEPT ![n] = [i \in Ids |-> IF i \in gone THEN 0 ELSE iocs[n][i]]]
    /\ index' = [index EXCEPT ![n] =
            [p \in Patterns |-> IF \E i \in gone : i.pattern = p THEN NoId ELSE index[n][p]]]

-----------------------------------------------------------------------------
(* SentinelNode *)

Start(n) ==
    /\ ~up[n]
    /\ up' = [up EXCEPT ![n] = TRUE]
    /\ UNCHANGED <<local, net, old, made, lost, halts, history>>

Total(p) == LET S == Nodes \X (1..MaxDetections) IN
    Cardinality({x \in S : x[2] <= detections[x[1]][p]})

\* ingest_threat(): report[p] pieces of evidence in the report carry pattern p.
Detect(n, report) ==
    LET ps == {p \in Patterns : report[p] > 0} IN
    /\ up[n]
    /\ \A p \in ps : Total(p) + report[p] <= MaxDetections
    /\ \A p \in ps : Known(n, p) \/ made[n][p] < MaxMade
    /\ Add(n, [p \in ps |-> [id |-> [node |-> n, pattern |-> p, no |-> made[n][p] + 1],
                             first |-> report[p], again |-> report[p]]])
    /\ made' = [made EXCEPT ![n] =
            [p \in Patterns |-> IF p \in ps /\ ~Known(n, p) THEN @[p] + 1 ELSE @[p]]]
    /\ detections' = [detections EXCEPT ![n] = [p \in Patterns |-> @[p] + report[p]]]
    /\ UNCHANGED <<up, sent, sending, call, net, old, lost, halts, restarted>>

Unsent_OwnOnly(n, m) == {i \in Stored(n) \ sent[n][m] : i.node = n}

\* The IOCs of n it has not sent to peer m.
Unsent(n, m) == Stored(n) \ sent[n][m]

\* _gossip_loop() wakes: broadcast_iocs() posts to every peer what is new to it.
BeginCycle(n) ==
    LET to == {m \in Peers[n] : Unsent(n, m) # {}} IN
    /\ up[n] /\ ~sending[n]
    /\ sending' = [sending EXCEPT ![n] = TRUE]
    /\ call' = [call EXCEPT ![n] =
            [m \in Nodes |-> IF m \in to THEN [state |-> "pending", ids |-> Unsent(n, m)]
                             ELSE NoCall]]
    /\ net' = net \cup
            {[src |-> n, dst |-> m, open |-> TRUE,
              hits |-> [i \in Ids |-> IF i \in Unsent(n, m) THEN iocs[n][i] ELSE 0]] : m \in to}
    /\ UNCHANGED <<up, iocs, index, sent, old, made, lost, halts, history>>

\* Every peer has answered or failed: the loop evicts and sleeps.
EndCycle(n) ==
    /\ up[n] /\ sending[n]
    /\ \A m \in Nodes : call[n][m] = NoCall
    /\ sending' = [sending EXCEPT ![n] = FALSE]
    /\ Evict(n)
    /\ UNCHANGED <<up, sent, call, net, old, made, lost, halts, history>>

-----------------------------------------------------------------------------
(* The POST of one IOC list to one peer *)

\* receive_gossip() at the peer: ingest_gossip() adds each IOC as it was dumped.
Deliver(r) ==
    /\ r \in net
    /\ up[r.dst]
    /\ Add(r.dst, [p \in {i.pattern : i \in Carried(r)} |->
            LET i == CHOOSE i \in Carried(r) : i.pattern = p IN
            [id |-> i, first |-> r.hits[i], again |-> 1]])
    /\ net' = net \ {r}
    /\ call' = IF r.open THEN [call EXCEPT ![r.src][r.dst].state = "answered"] ELSE call
    /\ UNCHANGED <<up, sent, sending, old, made, lost, halts, history>>

MarkSent_AnyOutcome(n, m) == call[n][m].state # "none"

\* The answer that lets _send_to_peer() note the IOCs as sent.
MarkSent(n, m) == call[n][m].state = "answered"

Answer(n, m) ==
    /\ MarkSent(n, m)
    /\ sent' = [sent EXCEPT ![n][m] = @ \cup call[n][m].ids]
    /\ call' = [call EXCEPT ![n][m] = NoCall]
    /\ UNCHANGED <<up, iocs, index, sending, net, old, made, lost, halts, history>>

Pending(n, m) == {r \in net : r.src = n /\ r.dst = m /\ r.open}

\* The connection is refused or reset: the peer is down, or was since the request.
Refused(n, m) ==
    /\ call[n][m].state = "pending"
    /\ ~up[m] \/ Pending(n, m) = {}
    /\ net' = net \ Pending(n, m)
    /\ call' = [call EXCEPT ![n][m] = NoCall]
    /\ UNCHANGED <<up, iocs, index, sent, sending, old, made, lost, halts, history>>

\* The request or its answer is lost, or the peer takes longer than 10 s: the
\* request may be gone, may have been handled, or may be handled later.
TimeOut(n, m) ==
    /\ call[n][m].state # "none"
    /\ lost < MaxLost
    /\ lost' = lost + 1
    /\ \/ net' = net \ Pending(n, m)
       \/ net' = (net \ Pending(n, m)) \cup {[r EXCEPT !.open = FALSE] : r \in Pending(n, m)}
    /\ call' = [call EXCEPT ![n][m] = NoCall]
    /\ UNCHANGED <<up, iocs, index, sent, sending, old, made, halts, history>>

-----------------------------------------------------------------------------
(* The environment *)

\* A crash or a shutdown.  Requests to the node are reset; those it has on the wire
\* may still be handled, and nobody waits for their answers.
Halt(n) ==
    /\ up[n]
    /\ halts < MaxHalts
    /\ halts' = halts + 1
    /\ restarted' = restarted \cup {n}
    /\ up' = [up EXCEPT ![n] = FALSE]
    /\ iocs' = [iocs EXCEPT ![n] = Empty]
    /\ index' = [index EXCEPT ![n] = [p \in Patterns |-> NoId]]
    /\ sent' = [sent EXCEPT ![n] = [m \in Nodes |-> {}]]
    /\ sending' = [sending EXCEPT ![n] = FALSE]
    /\ call' = [call EXCEPT ![n] = [m \in Nodes |-> NoCall]]
    /\ net' = {IF r.src = n THEN [r EXCEPT !.open = FALSE] ELSE r :
                  r \in {q \in net : q.dst # n}}
    /\ UNCHANGED <<old, made, lost, detections>>

\* An IOC reaches its time to live: first_seen travels with it, so it is old at
\* every node (the nodes agree on the time and on SENTINEL_MAX_IOC_AGE_HOURS).
Age(i) ==
    /\ i \notin old
    /\ i.no <= made[i.node][i.pattern]
    /\ Cardinality(old) < MaxAged
    /\ old' = old \cup {i}
    /\ UNCHANGED <<up, local, net, made, lost, halts, history>>

Reports == {r \in [Patterns -> 0..2] : \E p \in Patterns : r[p] > 0}

Next ==
    \/ \E n \in Nodes :
          \/ Start(n) \/ Halt(n)
          \/ \E report \in Reports : Detect(n, report)
          \/ BeginCycle(n) \/ EndCycle(n)
          \/ \E m \in Peers[n] : Answer(n, m) \/ Refused(n, m) \/ TimeOut(n, m)
    \/ \E r \in net : Deliver(r)
    \/ \E i \in Ids : Age(i)

Spec == Init /\ [][Next]_vars

Serve(n, m) == \E r \in Pending(n, m) : Deliver(r)

(***************************************************************************)
(* Fairness: the gossip loop of a running node wakes up again and again,   *)
(* its HTTP calls end (httpx time-out of 10 s), and a request that is not  *)
(* lost is served by a peer that is up.                                    *)
(***************************************************************************)
FairSpec ==
    /\ Spec
    /\ \A n \in Nodes :
          /\ WF_vars(BeginCycle(n))
          /\ WF_vars(EndCycle(n))
          /\ \A m \in Peers[n] :
                /\ WF_vars(Serve(n, m))
                /\ WF_vars(Answer(n, m))
                /\ WF_vars(Refused(n, m))

-----------------------------------------------------------------------------
(* Properties *)

TypeOK ==
    /\ up \in [Nodes -> BOOLEAN]
    /\ iocs \in [Nodes -> [Ids -> Nat]]
    /\ index \in [Nodes -> [Patterns -> Ids \cup {NoId}]]
    /\ sent \in [Nodes -> [Nodes -> SUBSET Ids]]
    /\ sending \in [Nodes -> BOOLEAN]
    /\ call \in [Nodes -> [Nodes -> Calls]]
    /\ net \subseteq Requests
    /\ old \subseteq Ids
    /\ made \in [Nodes -> [Patterns -> 0..MaxMade]]
    /\ lost \in Nat /\ halts \in Nat
    /\ detections \in [Nodes -> [Patterns -> Nat]]
    /\ restarted \subseteq Nodes

\* The pattern index is the inverse of the store, so a pattern is stored once per
\* node, whatever order detections, gossip, evictions and restarts come in.
IndexIsInverse ==
    \A n \in Nodes :
        /\ \A i \in Stored(n) : index[n][i.pattern] = i
        /\ \A p \in Patterns : index[n][p] # NoId => index[n][p] \in Stored(n)

AgedPattern(p) == \E i \in old : i.pattern = p

\* What a node detected, and what a peer believes to have sent it, the node still
\* knows, unless it restarted or an IOC of that pattern has aged: a lost request
\* or answer never makes a peer believe something was sent that was not stored.
Remembered ==
    \A n \in Nodes \ restarted :
        \A p \in Patterns :
            \/ detections[n][p] > 0
            \/ \E m \in Nodes : \E i \in sent[m][n] : i.pattern = p
            => Known(n, p) \/ AgedPattern(p)

\* "peers propagate further, forming an eventually-consistent mesh" (node.py:32-33):
\* a pattern a node keeps knowing, also one it got from a peer, becomes known at
\* every peer of it that stays up.
MeshConverges ==
    \A n \in Nodes : \A m \in Peers[n], p \in Patterns :
        up[n] /\ Known(n, p) ~> Known(m, p) \/ ~up[m] \/ ~Known(n, p)

\* An IOC past its time to live is gone from every node for good, although peers
\* that have not evicted it yet may send it to nodes that have (ioc_store.py:24).
ExpiredVanish ==
    \A i \in Ids : i \in old ~> [](\A n \in Nodes : iocs[n][i] = 0)

-----------------------------------------------------------------------------
(* What the documentation says, and the code does not keep *)

\* "IOCs that have been matched min_hits+ times are reliable enough"
\* (pattern_updater.py:311): an IOC with min_hits hits stands for as many
\* detections.  Gossip counts too: every echo of one detection is a hit.
HotWasDetected ==
    \A n \in Nodes : \A i \in Stored(n) :
        iocs[n][i] >= MinHits => Total(i.pattern) >= MinHits
=============================================================================
