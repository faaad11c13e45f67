------------------------------ MODULE Consensus ------------------------------
(***************************************************************************)
(* Consensus rounds (a2a/negotiation.py) over the agent bus (a2a/bus.py).   *)
(*                                                                         *)
(* A round publishes a request, asks every registered voter, and counts the *)
(* votes that reach the engine's handler on the vote topic.  All of it runs *)
(* on one event loop; a step ends where the code gives the loop up: in the  *)
(* handlers of a publication, in a voter, and in the wait for the future.   *)
(*                                                                         *)
(* A vote reaches the engine's handler in the step in which it is           *)
(* published: publish() makes the handler a task at once, and what runs     *)
(* before that task has its turn does so as if the vote came after it.      *)
(* There is no clock; a time-out is a step that may happen whenever the     *)
(* code is waiting under one.                                               *)
(***************************************************************************)
EXTENDS Integers, Sequences, FiniteSets

CONSTANTS
    Rounds,       \* consensus ids
    Voters,       \* ids for register_voter()
    Subscribers,  \* other handlers that subscribe to the two topics
    Actions,      \* the threat actions voted on
    MinMajority,  \* _MIN_MAJORITY_VOTES
    MaxForeign    \* bound: votes published by anyone but a round

ASSUME ActionsAssumption == {"block", "quarantine"} \subseteq Actions /\ "none" \notin Actions
ASSUME VotersAssumption == IsFiniteSet(Voters) /\ "engine" \notin Voters
ASSUME MajorityAssumption == MinMajority \in Nat /\ MaxForeign \in Nat

VARIABLES
    voters,    \* ConsensusEngine._voters
    subs,      \* [Topics -> SUBSET Subscribers]: A2ABus._subscribers
    stage,     \* [Rounds -> Stages]: where run_consensus() is
    asked,     \* [Rounds -> [Voters -> Answers]]: where _solicit_vote() is
    waiting,   \* [Rounds -> [Voters \cup {"engine"} -> SUBSET Subscribers]]: the
               \* handlers a publication of the round is still in
    log,       \* [Rounds -> Seq(Vote)]: ConsensusEngine._vote_log
    resolved,  \* rounds whose future has its result
    result,    \* [Rounds -> Actions]: what run_consensus() returned
    foreign,   \* bounded environment counter
    cast       \* history: [Rounds -> [Voters -> Vote \cup {NoVote}]], what each voter
               \* answered in time

vars == <<voters, subs, stage, asked, waiting, log, resolved, result, foreign, cast>>

-----------------------------------------------------------------------------
Topics  == {"request", "vote"}
Stages  == {"idle", "request", "solicit", "wait", "done"}
Answers == {"no", "asked", "publishing", "ended"}

\* sure: a confidence of 0.9 or more, which is read of votes to block only.  Nobody
\* reads who sent a vote.
Vote   == {v \in [act : Actions, sure : BOOLEAN] : v.sure => v.act = "block"}
NoVote == [act |-> "none", sure |-> FALSE]

Count(l, a) == Cardinality({i \in DOMAIN l : l[i].act = a})

IsVeto(v) == v.act = "block" /\ v.sure

\* Counter.most_common(1): of the actions with most votes, the one voted for first.
Winner(l) ==
    LET leads(i) == \A a \in Actions : Count(l, l[i].act) >= Count(l, a)
        first    == CHOOSE i \in DOMAIN l : leads(i) /\ \A j \in 1..(i - 1) : ~leads(j)
    IN  l[first].act

Tally_AnyPlurality(l) ==
    IF l = <<>> THEN "quarantine"
    ELSE IF \E i \in DOMAIN l : IsVeto(l[i]) THEN "block"
    ELSE Winner(l)

\* _tally_votes()
Tally(l) ==
    IF l = <<>> THEN "quarantine"
    ELSE IF \E i \in DOMAIN l : IsVeto(l[i]) THEN "block"
    ELSE IF Count(l, Winner(l)) >= MinMajority THEN Winner(l)
    ELSE "quarantine"

-----------------------------------------------------------------------------
Init ==
    /\ voters = {}
    /\ subs = [t \in Topics |-> {}]
    /\ stage = [r \in Rounds |-> "idle"]
    /\ asked = [r \in Rounds |-> [v \in Voters |-> "no"]]
    /\ waiting = [r \in Rounds |-> [x \in Voters \cup {"engine"} |-> {}]]
    /\ log = [r \in Rounds |-> <<>>]
    /\ resolved = {}
    /\ result = [r \in Rounds |-> "quarantine"]
    /\ foreign = 0
    /\ cast = [r \in Rounds |-> [v \in Voters |-> NoVote]]

Register(v) ==
    /\ voters' = voters \cup {v}
    /\ UNCHANGED <<subs, stage, asked, waiting, log, resolved, result, foreign, cast>>

Subscribe(t, h) ==
    /\ h \notin subs[t]
    /\ subs' = [subs EXCEPT ![t] = @ \cup {h}]
    /\ UNCHANGED <<voters, stage, asked, waiting, log, resolved, result, foreign, cast>>

Unsubscribe(t, h) ==
    /\ h \in subs[t]
    /\ subs' = [subs EXCEPT ![t] = @ \ {h}]
    /\ UNCHANGED <<voters, stage, asked, waiting, log, resolved, result, foreign, cast>>

-----------------------------------------------------------------------------
(* run_consensus() *)

\* Every voter registered now is asked.
Solicit(r) ==
    /\ stage' = [stage EXCEPT ![r] = "solicit"]
    /\ asked' = [asked EXCEPT ![r] = [v \in Voters |-> IF v \in voters THEN "asked" ELSE "no"]]

\* publish() with no subscriber on the topic returns without giving up the loop.
StartRound(r) ==
    /\ stage[r] = "idle"
    /\ IF subs["request"] = {}
       THEN Solicit(r) /\ UNCHANGED waiting
       ELSE /\ stage' = [stage EXCEPT ![r] = "request"]
            /\ waiting' = [waiting EXCEPT ![r]["engine"] = subs["request"]]
            /\ UNCHANGED asked
    /\ UNCHANGED <<voters, subs, log, resolved, result, foreign, cast>>

\* Of the publication of x, handler h ends, or raises, which publish() collects.
\* After the last one the publisher goes on.
Handled(r, x, h) ==
    /\ h \in waiting[r][x]
    /\ waiting' = [waiting EXCEPT ![r][x] = @ \ {h}]
    /\ IF waiting[r][x] # {h} THEN UNCHANGED <<stage, asked>>
       ELSE IF x = "engine" THEN Solicit(r)
       ELSE asked' = [asked EXCEPT ![r][x] = "ended"] /\ UNCHANGED stage
    /\ UNCHANGED <<voters, subs, log, resolved, result, foreign, cast>>

HandleVote_OnlyUnresolved(r, vote) ==
    IF r \in resolved THEN UNCHANGED <<log, resolved>>
    ELSE /\ log' = [log EXCEPT ![r] = Append(@, vote)]
         /\ resolved' = IF Len(log'[r]) >= Cardinality(voters)
                        THEN resolved \cup {r} ELSE resolved

\* _handle_vote(): any vote with the id of a round is counted; as many votes as
\* there are voters resolve the round.
HandleVote(r, vote) ==
    /\ log' = [log EXCEPT ![r] = Append(@, vote)]
    /\ resolved' = IF Len(log'[r]) >= Cardinality(voters) THEN resolved \cup {r} ELSE resolved

\* A voter answers within its three seconds, and its vote is published.
Answer(r, v, vote) ==
    /\ asked[r][v] = "asked"
    /\ cast' = [cast EXCEPT ![r][v] = vote]
    /\ HandleVote(r, vote)
    /\ waiting' = [waiting EXCEPT ![r][v] = subs["vote"]]
    /\ asked' = [asked EXCEPT ![r][v] = IF subs["vote"] = {} THEN "ended" ELSE "publishing"]
    /\ UNCHANGED <<voters, subs, stage, result, foreign>>

\* A voter raises, answers nonsense, or is cancelled after three seconds.
Fail(r, v) ==
    /\ asked[r][v] = "asked"
    /\ asked' = [asked EXCEPT ![r][v] = "ended"]
    /\ UNCHANGED <<voters, subs, stage, waiting, log, resolved, result, foreign, cast>>

Decide(r) ==
    /\ stage' = [stage EXCEPT ![r] = "done"]
    /\ result' = [result EXCEPT ![r] = Tally(log[r])]

AllEnded(r) == \A v \in Voters : asked[r][v] \in {"no", "ended"}

\* gather() returns when no voter is left; a resolved future is not waited for.
Gathered(r) ==
    /\ stage[r] = "solicit"
    /\ AllEnded(r)
    /\ IF r \in resolved THEN Decide(r)
       ELSE stage' = [stage EXCEPT ![r] = "wait"] /\ UNCHANGED result
    /\ UNCHANGED <<voters, subs, asked, waiting, log, resolved, foreign, cast>>

WaitOver_NoTimeOut(r) ==
    /\ stage[r] = "wait"
    /\ r \in resolved
    /\ Decide(r)
    /\ UNCHANGED <<voters, subs, asked, waiting, log, resolved, foreign, cast>>

\* The future is resolved, or the wait for it times out.
WaitOver(r) ==
    /\ stage[r] = "wait"
    /\ Decide(r)
    /\ UNCHANGED <<voters, subs, asked, waiting, log, resolved, foreign, cast>>

\* Anyone may publish a vote with the id of a round that was started, at any time, as
\* often as they like and in the name of a voter.  _vote_log keeps every round.
Foreign(r, vote) ==
    /\ stage[r] # "idle"
    /\ foreign < MaxForeign
    /\ foreign' = foreign + 1
    /\ HandleVote(r, vote)
    /\ UNCHANGED <<voters, subs, stage, asked, waiting, result, cast>>

-----------------------------------------------------------------------------
BusStep ==
    \/ \E v \in Voters : Register(v)
    \/ \E t \in Topics, h \in Subscribers : Subscribe(t, h) \/ Unsubscribe(t, h)

Next ==
    \/ BusStep
    \/ \E r \in Rounds :
        \/ StartRound(r)
        \/ \E x \in Voters \cup {"engine"}, h \in Subscribers : Handled(r, x, h)
        \/ \E v \in Voters, vote \in Vote : Answer(r, v, vote)
        \/ \E v \in Voters : Fail(r, v)
        \/ Gathered(r)
        \/ WaitOver(r)
        \/ \E vote \in Vote : Foreign(r, vote)

Spec == Init /\ [][Next]_vars

(***************************************************************************)
(* Fairness: wait_for() ends a voter that does not answer, and the wait for *)
(* the future; a gather() whose members are done returns.  Nothing is       *)
(* assumed of the other subscribers: publish() waits for their handlers     *)
(* without a time-out.                                                     *)
(***************************************************************************)
Ends(r, v) == Fail(r, v) \/ \E vote \in Vote : Answer(r, v, vote)

FairSpec ==
    /\ Spec
    /\ \A r \in Rounds :
        /\ \A v \in Voters : WF_vars(Ends(r, v))
        /\ WF_vars(Gathered(r)) /\ WF_vars(WaitOver(r))

-----------------------------------------------------------------------------
(* Properties *)

TypeOK ==
    /\ voters \subseteq Voters
    /\ subs \in [Topics -> SUBSET Subscribers]
    /\ stage \in [Rounds -> Stages]
    /\ asked \in [Rounds -> [Voters -> Answers]]
    /\ waiting \in [Rounds -> [Voters \cup {"engine"} -> SUBSET Subscribers]]
    /\ log \in [Rounds -> Seq(Vote)]
    /\ resolved \subseteq Rounds
    /\ result \in [Rounds -> Actions]
    /\ foreign \in Nat
    /\ cast \in [Rounds -> [Voters -> Vote \cup {NoVote}]]

\* "HighConfidenceVeto — single agent overrides at threshold >= 0.9"
\* (negotiation.py:8): if a voter answered in time with a sure vote to block, the
\* round blocks, although strangers may have resolved its future before that voter
\* was done.
VetoBlocks ==
    \A r \in Rounds :
        stage[r] = "done" /\ (\E v \in Voters : IsVeto(cast[r][v])) => result[r] = "block"

For(r, a) == Cardinality({v \in Voters : cast[r][v].act = a})

\* A round decides by its voters unless others interfere: an action with more voters
\* than any other, and no fewer than MinMajority, is the result if nobody vetoes and
\* fewer foreign votes arrived than it leads by; and without foreign votes no result
\* but quarantine has fewer than MinMajority voters behind it, except a veto.  Failures
\* and time-outs alone therefore quarantine.
VotersDecide ==
    \A r \in Rounds : stage[r] = "done" =>
        /\ \A a \in Actions :
              /\ For(r, a) >= MinMajority
              /\ \A b \in Actions \ {a} : For(r, a) > For(r, b) + foreign
              /\ \A i \in DOMAIN log[r] : ~IsVeto(log[r][i])
              => result[r] = a
        /\ foreign = 0 /\ result[r] # "quarantine" =>
              \/ For(r, result[r]) >= MinMajority
              \/ result[r] = "block" /\ \E v \in Voters : IsVeto(cast[r][v])

Hung(r) == \E x \in Voters \cup {"engine"} : waiting[r][x] # {}

\* Every round that is started returns, whatever its voters do, or some handler of
\* another subscriber never ends.
RoundEnds ==
    \A r \in Rounds : []<>(stage[r] \in {"idle", "done"}) \/ <>[]Hung(r)

-----------------------------------------------------------------------------
(* What the documentation says, and the code does not keep *)

\* "MajorityVote — 3+ agents must agree before blocking" (negotiation.py:7).
ThreeAgreeToBlock ==
    \A r \in Rounds :
        stage[r] = "done" /\ result[r] = "block" =>
            \/ \E i \in DOMAIN log[r] : IsVeto(log[r][i])
            \/ Count(log[r], "block") >= 3

\* "Returns the majority action" (negotiation.py:76): more than half of the votes.
MajorityDecides ==
    \A r \in Rounds :
        stage[r] = "done" /\ result[r] # "quarantine" /\ foreign = 0 =>
            \/ \E v \in Voters : IsVeto(cast[r][v])
            \/ 2 * For(r, result[r]) > Cardinality({v \in Voters : cast[r][v] # NoVote})

\* "timeout: Maximum seconds to collect votes" (negotiation.py:81): a round that is
\* started returns.
RoundReturns == \A r \in Rounds : stage[r] # "idle" ~> stage[r] = "done"
=============================================================================
