--------------------------- MODULE RequestPipeline ---------------------------
(***************************************************************************)
(* What becomes of a chat request: chat_completions() of core/router.py    *)
(* with the calls it makes.  Several requests are under way at once and    *)
(* share the IOC store, the audit log and the A2A bus.                     *)
(*                                                                         *)
(* A request waits in two places, in the Guardian and at the provider.     *)
(* From the IOC check to the first byte for the provider nothing suspends: *)
(* decide() has no await, nobody subscribes to the bus, record() and       *)
(* ingest_threat() are synchronous.  That stretch is one action.           *)
(***************************************************************************)
EXTENDS RiskPolicy

CONSTANTS
    Requests,
    Prompts,
    Patterns,     \* IOC patterns
    Matching,     \* [Prompts -> SUBSET Patterns]: re.search() finds the pattern
    Assessments,  \* what the four agents may say of a prompt: sequences of signals
    PeerIocs,     \* [severity, category] of the IOCs that peers may send
    MaxAttempts   \* stop_after_attempt(3)

ASSUME PipelineAssumption ==
    /\ Matching \in [Prompts -> SUBSET Patterns]
    /\ Assessments \subseteq Seq(Signals)
    /\ PeerIocs \subseteq [severity : 1..10, category : Categories]
    /\ MaxAttempts \in Nat \ {0}

VARIABLES
    asked,      \* [Requests -> [prompt, stream]]: what the client sends
    stage,      \* [Requests -> Stages]
    reply,      \* [Requests -> Replies]: the status the client gets
    attempts,   \* [Requests -> 0..MaxAttempts]: calls of the provider so far
    store,      \* [Patterns -> Matchings]: the IOC store; NoIoc for no IOC
    audit,      \* the audit events recorded
    published,  \* the bus messages of the router: [request, topic]
    learned,    \* the requests whose report went to ingest_threat()
    reached,    \* the requests that a provider has received
    failed      \* the requests whose last call of the provider failed

vars == <<asked, stage, reply, attempts, store, audit, published, learned, reached, failed>>

-----------------------------------------------------------------------------
(* Data *)

Stages  == {"new", "analysing", "calling", "streaming", "done"}
Replies == {"none", "200", "202", "400", "403", "500", "503"}
Topics  == {"threat.detected", "threat.blocked"}

Forwarding == {"calling", "streaming"}
Holding    == {"block", "quarantine"}

-----------------------------------------------------------------------------
(* The IOC store, as far as the pipeline sees it *)

Known(p) == {store[k] : k \in {j \in Matching[p] : store[j] # NoIoc}}

WorstMatches_LeastFirst(p) ==
    IF Known(p) = {} THEN {NoIoc}
    ELSE {m \in Known(p) : \A n \in Known(p) : m.severity <= n.severity}

\* match() sorts by severity; which of two equals is first depends on their age.
WorstMatches(p) ==
    IF Known(p) = {} THEN {NoIoc}
    ELSE {m \in Known(p) : \A n \in Known(p) : m.severity >= n.severity}

Severity(s) == Max({1, s.score \div 10})

\* ingest_threat(): a signal yields a pattern for each piece of evidence that is long
\* enough.  Which patterns those are is the agents' choice of words.  add() raises the
\* severity of a pattern it has and keeps the category.
Stores(ss) ==
    {[k \in Patterns |->
        LET by == {i \in DOMAIN ss : k \in yields[i]} IN
        IF by = {} THEN store[k]
        ELSE [severity |-> Max({store[k].severity} \cup {Severity(ss[i]) : i \in by}),
              category |-> IF store[k] = NoIoc THEN ss[Min(by)].category
                           ELSE store[k].category]] :
       yields \in [DOMAIN ss -> SUBSET Patterns]}

Ingest(r, ss) == store' \in Stores(ss) /\ learned' = learned \cup {r}

-----------------------------------------------------------------------------
(* MARL: decide() *)

\* One vote of each of the four agents.  The policies explore, and nothing bounds
\* what the tables have learnt: any vote is possible.
Votes == [1..4 -> 0..4]

ToThreat == <<"allow", "rate_limit", "quarantine", "escalate", "block">>

Times(v, c) == Cardinality({i \in 1..4 : v[i] = c})

\* max(set(votes), key=votes.count): a set of small integers is run through in order.
Majority(v) == Min({c \in 0..4 : \A d \in 0..4 : Times(v, c) >= Times(v, d)})

Decide(band, v) ==
    IF band = "high" /\ \E i \in 1..4 : v[i] = 4 THEN "block" ELSE ToThreat[Majority(v) + 1]

Decisions ==
    [band \in {"low", "medium", "high"} |-> {a \in Actions : \E v \in Votes : a = Decide(band, v)}]

-----------------------------------------------------------------------------
Init ==
    /\ asked \in [Requests -> [prompt : Prompts, stream : BOOLEAN]]
    /\ stage = [r \in Requests |-> "new"]
    /\ reply = [r \in Requests |-> "none"]
    /\ attempts = [r \in Requests |-> 0]
    /\ store = [k \in Patterns |-> NoIoc]
    /\ audit = {} /\ published = {} /\ learned = {} /\ reached = {} /\ failed = {}

Reply(r, status) ==
    /\ reply' = [reply EXCEPT ![r] = status]
    /\ stage' = [stage EXCEPT ![r] = "done"]

Arrive(r) ==
    /\ stage[r] = "new"
    /\ stage' = [stage EXCEPT ![r] = "analysing"]
    /\ UNCHANGED <<asked, reply, attempts, store, audit, published, learned, reached, failed>>

\* A body that is not JSON, or one with a field that LLMRequest does not accept.
Reject(r) ==
    /\ stage[r] = "new"
    /\ \E status \in {"400", "500"} : Reply(r, status)
    /\ UNCHANGED <<asked, attempts, store, audit, published, learned, reached, failed>>

\* analyse() raises: module Guardian.
AnalysisRaises(r) ==
    /\ stage[r] = "analysing"
    /\ Reply(r, "500")
    /\ UNCHANGED <<asked, attempts, store, audit, published, learned, reached, failed>>

\* The reports analyse() may give: the agents' signals and that of the IOC check.
Reports(p) ==
    UNION {{[risk |-> risk, signals |-> ss] : risk \in RiskScores(ss)} :
             ss \in {a \o IocSignals(m) : a \in Assessments, m \in WorstMatches(p)}}

Audit_HeldOnly(r, action) ==
    IF action \in Holding THEN audit \cup {[request |-> r, action |-> action]} ELSE audit

\* record() raises when it fills a block and the block cannot be saved; the event is
\* in the log all the same (module Ledger).
Audit(r, action) == audit \cup {[request |-> r, action |-> action]}

BlockEarly_NoIngest(r) ==
    /\ stage[r] = "analysing"
    /\ \E report \in Reports(asked[r].prompt) :
        /\ Action(report.risk, report.signals) = "block"
        /\ audit' = Audit(r, "block")
        /\ Reply(r, "403")
    /\ UNCHANGED <<asked, attempts, store, published, learned, reached, failed>>

\* "Early Exit on Hard Block": no bus message; nothing is learned if record() raises.
BlockEarly(r) ==
    /\ stage[r] = "analysing"
    /\ \E report \in Reports(asked[r].prompt) :
        /\ Action(report.risk, report.signals) = "block"
        /\ audit' = Audit(r, "block")
        /\ \/ Ingest(r, report.signals) /\ Reply(r, "403")
           \/ UNCHANGED <<store, learned>> /\ Reply(r, "500")
    /\ UNCHANGED <<asked, attempts, published, reached, failed>>

\* What the client gets for the final action, once the event is recorded.
Respond(r, action) ==
    CASE action = "block"      -> Reply(r, "403")
      [] action = "quarantine" -> Reply(r, "202")
      [] OTHER ->
           IF asked[r].stream
           THEN /\ stage' = [stage EXCEPT ![r] = "streaming"]
                /\ reply' = [reply EXCEPT ![r] = "200"]
           ELSE stage' = [stage EXCEPT ![r] = "calling"] /\ UNCHANGED reply

\* The MARL decision, unless it is to allow.
Final(guardian, marl) == IF marl = "allow" THEN guardian ELSE marl

Recorded_Guardian(guardian, marl) == guardian

\* report.action = final_action, before record() reads it.
Recorded(guardian, marl) == Final(guardian, marl)

\* The rest of the handler for a request that the Guardian does not block.
Override(r) ==
    /\ stage[r] = "analysing"
    /\ \E report \in Reports(asked[r].prompt) : \E marl \in Decisions[Band(report.risk)] :
        LET guardian == Action(report.risk, report.signals)
            final    == Final(guardian, marl)
        IN
        /\ guardian # "block"
        /\ published' = published \cup
             ({r} \X (IF final \in Holding THEN Topics ELSE {"threat.detected"}))
        /\ IF final \in Holding THEN Ingest(r, report.signals) ELSE UNCHANGED <<store, learned>>
        /\ audit' = Audit(r, Recorded(guardian, marl))
        /\ Respond(r, final) \/ Reply(r, "500")
    /\ UNCHANGED <<asked, attempts, reached, failed>>

-----------------------------------------------------------------------------
(* The provider *)

Reaches(r) == reached' = reached \cup {r}

CallAnswered(r) ==
    /\ stage[r] = "calling"
    /\ attempts' = [attempts EXCEPT ![r] = @ + 1]
    /\ Reaches(r)
    /\ Reply(r, "200")
    /\ UNCHANGED <<asked, store, audit, published, learned, failed>>

\* An error that is not retried: a status of 4xx or 5xx, an answer that is not as expected.
CallRejected(r) ==
    /\ stage[r] = "calling"
    /\ attempts' = [attempts EXCEPT ![r] = @ + 1]
    /\ Reaches(r)
    /\ Reply(r, "503") /\ failed' = failed \cup {r}
    /\ UNCHANGED <<asked, store, audit, published, learned>>

GivesUp_Late(r) == attempts[r] >= MaxAttempts

GivesUp(r) == attempts[r] + 1 >= MaxAttempts

\* A time-out, after which the provider may or may not have had the request, or a
\* refused connection: tried again, up to MaxAttempts calls in all.
CallFails(r) ==
    /\ stage[r] = "calling"
    /\ attempts' = [attempts EXCEPT ![r] = @ + 1]
    /\ Reaches(r) \/ UNCHANGED reached
    /\ IF GivesUp(r) THEN Reply(r, "503") /\ failed' = failed \cup {r}
       ELSE UNCHANGED <<stage, reply, failed>>
    /\ UNCHANGED <<asked, store, audit, published, learned>>

StreamEnds(r) ==
    /\ stage[r] = "streaming"
    /\ Reaches(r)
    /\ stage' = [stage EXCEPT ![r] = "done"]
    /\ UNCHANGED <<asked, reply, attempts, store, audit, published, learned, failed>>

\* The stream breaks, or the provider's client has no stream(): the status is out.
StreamFails(r) ==
    /\ stage[r] = "streaming"
    /\ Reaches(r) \/ UNCHANGED reached
    /\ stage' = [stage EXCEPT ![r] = "done"] /\ failed' = failed \cup {r}
    /\ UNCHANGED <<asked, reply, attempts, store, audit, published, learned>>

-----------------------------------------------------------------------------
(* The mesh changes the IOC store meanwhile: module IOCMesh *)

\* add(), for a pattern that has the entry old.
Merged(old, new) ==
    IF old = NoIoc THEN new
    ELSE [old EXCEPT !.severity = Max({old.severity, new.severity})]

Gossip(k) ==
    /\ \E i \in PeerIocs : store' = [store EXCEPT ![k] = Merged(store[k], i)]
    /\ UNCHANGED <<asked, stage, reply, attempts, audit, published, learned, reached, failed>>

Evict(k) ==
    /\ store[k] # NoIoc
    /\ store' = [store EXCEPT ![k] = NoIoc]
    /\ UNCHANGED <<asked, stage, reply, attempts, audit, published, learned, reached, failed>>

-----------------------------------------------------------------------------
Analysed(r) == AnalysisRaises(r) \/ BlockEarly(r) \/ Override(r)
Called(r)   == CallAnswered(r) \/ CallRejected(r) \/ CallFails(r)
Streamed(r) == StreamEnds(r) \/ StreamFails(r)

Next ==
    \/ \E r \in Requests :
        \/ Arrive(r) \/ Reject(r)
        \/ AnalysisRaises(r) \/ BlockEarly(r) \/ Override(r)
        \/ CallAnswered(r) \/ CallRejected(r) \/ CallFails(r)
        \/ StreamEnds(r) \/ StreamFails(r)
    \/ \E k \in Patterns : Gossip(k) \/ Evict(k)

Spec == Init /\ [][Next]_vars

(***************************************************************************)
(* Fairness: an analysis ends (AnalysisEnds of Guardian), a call of a      *)
(* provider ends, in an answer, an error or the time-out of the HTTP       *)
(* client, and a provider that streams ends its stream.                    *)
(***************************************************************************)
FairSpec ==
    Spec /\ \A r \in Requests :
        WF_vars(Analysed(r)) /\ WF_vars(Called(r)) /\ WF_vars(Streamed(r))

-----------------------------------------------------------------------------
(* Properties *)

Events == [request : Requests, action : Actions]

TypeOK ==
    /\ asked \in [Requests -> [prompt : Prompts, stream : BOOLEAN]]
    /\ stage \in [Requests -> Stages]
    /\ reply \in [Requests -> Replies]
    /\ attempts \in [Requests -> 0..MaxAttempts]
    /\ store \in [Patterns -> Matchings]
    /\ audit \subseteq Events
    /\ published \subseteq Requests \X Topics
    /\ learned \subseteq Requests /\ reached \subseteq Requests /\ failed \subseteq Requests

ActionsOf(r) == {e.action : e \in {f \in audit : f.request = r}}

\* "Every inbound request is intercepted, analysed, acted upon, and audited before
\* being forwarded" (router.py:6): a provider has no request without an audit event,
\* and that event says the request was let through.
ForwardedWasAudited ==
    \A r \in reached : ActionsOf(r) # {} /\ ActionsOf(r) \cap Holding = {}

\* The audit log tells what the client was told: one event for each request that was
\* decided, with the action that the status stands for.
ReplyMatchesAudit ==
    \A r \in Requests :
        /\ Cardinality(ActionsOf(r)) <= 1
        /\ reply[r] = "403" => ActionsOf(r) = {"block"}
        /\ reply[r] = "202" => ActionsOf(r) = {"quarantine"}
        /\ reply[r] \in {"200", "503"} => ActionsOf(r) # {} /\ ActionsOf(r) \cap Holding = {}
        /\ reply[r] = "400" => ActionsOf(r) = {}

\* A request that is turned away for what it says has been learned from, and what is
\* forwarded has not.
HeldIsLearned ==
    \A r \in Requests :
        /\ reply[r] \in {"403", "202"} => r \in learned
        /\ r \in learned => r \notin reached /\ reply[r] \in {"403", "202", "500"}

\* A prompt that matches an IOC of dominant severity at the block threshold is not
\* forwarded, also when the IOC came from another request, or from a peer, while the
\* agents were at work on this one.
KnownThreatIsNotForwarded ==
    [][\A r \in Requests :
         stage[r] = "analysing" /\ stage'[r] \in Forwarding =>
            \A k \in Matching[asked[r].prompt] :
                ~StrongBlock(Signal("ioc_matcher", 10 * store[k].severity, "benign", 90))]_vars

\* Every request that is taken up is answered, whatever fails.
EveryRequestAnswered ==
    \A r \in Requests : stage[r] = "analysing" ~> stage[r] = "done"

-----------------------------------------------------------------------------
(* The pipeline as a gate: module Gate *)

Phase == [new |-> "open", analysing |-> "open", calling |-> "passed",
          streaming |-> "passed", done |-> "closed"]

\* What the status says.
Meaning(status) ==
    CASE status = "none" -> "none"
      [] status = "200"  -> "ok"
      [] status = "202"  -> "quarantine"
      [] status = "403"  -> "block"
      [] OTHER           -> "error"

Seen(r) ==
    [phase    |-> Phase[stage[r]],
     recorded |-> ActionsOf(r),
     answer   |-> Meaning(reply[r]),
     calls    |-> attempts[r],
     received |-> r \in reached,
     learned  |-> r \in learned]

Gate == INSTANCE Gate WITH
    Verdicts <- Actions,
    MaxCalls <- MaxAttempts,
    state    <- [r \in Requests |-> Seen(r)]

\* The handler, with all that MARL, the ledger, the mesh and the retries do in it, keeps
\* the promise of the gate: each of its steps is a step of Gate for one request, or
\* changes nothing that Gate is about.
ImplementsGate == Gate!Spec

-----------------------------------------------------------------------------
(* What the documentation says, and the code does not keep *)

\* "4. A2A Bus -> broadcast threat signal" (router.py:13) for each request that is
\* blocked: the early exit comes before it.
BlockIsBroadcast ==
    \A r \in Requests : reply[r] = "403" => <<r, "threat.detected">> \in published

\* "8. If BLOCK/QUARANTINE -> return 403" (router.py:17).
QuarantineIs403 ==
    \A r \in Requests : "quarantine" \in ActionsOf(r) /\ stage[r] = "done" =>
        reply[r] \in {"403", "500"}

\* "7. If ALLOW/RATE_LIMIT -> forward" (router.py:16): escalated requests are too.
OnlyAllowedForwarded ==
    \A r \in reached : ActionsOf(r) \subseteq {"allow", "rate_limit"}

\* "503 for provider errors" (router.py:87): not for a request that asks for a stream.
ProviderErrorIs503 ==
    \A r \in Requests : stage[r] = "done" /\ r \in failed => reply[r] = "503"

\* "Finalise reports for ledger/sentinel before exit" (router.py:140): a blocked
\* request is in the ledger and known to the sentinel, also when the ledger raises.
AuditedBlockIsLearned ==
    \A r \in Requests : "block" \in ActionsOf(r) => r \in learned
=============================================================================
