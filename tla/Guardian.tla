------------------------------ MODULE Guardian ------------------------------
(***************************************************************************)
(* GuardianEngine.analyse() (guardian/engine.py) for one request: the four *)
(* agents, what becomes of an agent that fails, the IOC check, the score   *)
(* and the action (module RiskPolicy).                                     *)
(*                                                                         *)
(* Three agents ask an LLM.  Its call may answer, raise, or take so long   *)
(* that wait_for() cancels the agent after 60 s: the HTTP time-out of 30 s *)
(* bounds a single read and not the call, and a failed call is repeated    *)
(* with Ollama.  A cancelled agent does not reach its own except clause.   *)
(***************************************************************************)
EXTENDS RiskPolicy, Functions

CONSTANTS
    Modes,          \* values of guardian_parallel_agents
    HitLists,       \* pattern matches of a prompt, in the order of the pattern lists; one
                    \* whose severity is no number raises like one of unknown category
    Confidences,    \* confidences an LLM states, in percent
    FidelityScores, \* risk scores the LLM gives to a prompt that is not aligned
    Matches         \* the IOCs that may match: [severity, category]

ASSUME ModesAssumption == Modes \subseteq BOOLEAN
ASSUME InputsAssumption ==
    /\ Confidences \subseteq 0..100 /\ FidelityScores \subseteq 0..100
    /\ Matches \subseteq Matchings
    /\ HitLists \subseteq Seq([severity : Int, category : STRING])

VARIABLES
    parallel, \* guardian_parallel_agents of this engine
    prompt,  \* what the deterministic rules see of the request
    status,  \* [Agents -> {"waiting", "hanging", "answered", "failed"}]
    signal,  \* [Agents -> Signals]: the answer of an agent
    verdict  \* the report of analyse(), or the exception it raises

vars == <<parallel, prompt, status, signal, verdict>>

-----------------------------------------------------------------------------
(* Data *)

\* hits: [severity, category] of the patterns that match; rule: _rule_based_check();
\* marker: a single-turn marker occurs; many: there is more than one message.
Prompts == [hits : HitLists, rule : {0, 60, 100}, marker : BOOLEAN, many : BOOLEAN]

NoSignal(a) == Signal(a, 0, "benign", 0)

Verdicts ==
    [state : {"none", "raised", "action"}, risk : 0..100, action : Actions, ioc : Matchings]
NoVerdict == [state |-> "none", risk |-> 0, action |-> "allow", ioc |-> NoIoc]

Order == <<"intent_agent", "injection_agent", "cot_inspector", "fidelity_agent">>

-----------------------------------------------------------------------------
(* The agents *)

\* _INTENT_SCORES and _INTENT_TO_CATEGORY; any other intent scores 10, benign.
Intents ==
    {<<0, "benign">>, <<35, "prompt_injection">>, <<100, "out_of_scope">>,
     <<70, "data_exfiltration">>, <<65, "goal_hijacking">>, <<80, "llmjacking">>,
     <<10, "benign">>}

\* analyse_intent(): the LLM's classification, or "suspicious" when the call raises.
IntentSignals ==
    {Signal("intent_agent", i[1], i[2], c) : i \in Intents, c \in Confidences}
    \cup {Signal("intent_agent", 35, "prompt_injection", 30)}

\* The mean of the three highest severities, times ten, and at most 100.  The severity of
\* a pattern that an LLM wrote is whatever the LLM wrote.
HitScore(hits) ==
    LET n    == Min({3, Len(hits)})
        sums == {Total([i \in 1..n |-> hits[top[i]].severity]) :
                    top \in Injection(1..n, DOMAIN hits)}
    IN  Min({100, (Max(sums) * 10) \div n})

\* The hits that raise max_severity, which starts at 0.
Worse(hits) ==
    {i \in DOMAIN hits :
        hits[i].severity > 0 /\ \A j \in 1..(i - 1) : hits[j].severity < hits[i].severity}

\* ThreatCategory() of a hot-reloaded pattern raises for a name it does not know; it
\* is called for every hit that raises the maximum.  AgentSignal rejects a score below 0.
HitsRaise(hits) ==
    \/ \E i \in Worse(hits) : hits[i].category \notin Categories
    \/ hits # <<>> /\ HitScore(hits) < 0

\* primary_category: that of the first of the worst hits.
HitCategory(hits) ==
    IF Worse(hits) = {} THEN "benign" ELSE hits[Max(Worse(hits))].category

\* analyse_injection()
InjectionSignals(hits) ==
    IF hits = <<>> THEN {Signal("injection_agent", 0, "benign", 95)}
    ELSE {Signal("injection_agent", HitScore(hits), HitCategory(hits),
                 Min({100, 20 * Len(hits) + 40}))}

\* _ANOMALY_SCORES and _ANOMALY_CATEGORIES, by anomaly type; "other" is any other.
AnomalyScore ==
    [none |-> 0, goal_drift |-> 40, identity_confusion |-> 55, boundary_probing |-> 45,
     hidden_payload |-> 75, role_override |-> 70, other |-> 0]
AnomalyCategory ==
    [none |-> "benign", goal_drift |-> "goal_hijacking",
     identity_confusion |-> "identity_override", boundary_probing |-> "prompt_injection",
     hidden_payload |-> "prompt_injection", role_override |-> "identity_override",
     other |-> "prompt_injection"]

\* analyse_cot() once the LLM has said anomaly type t with confidence c.
CotSignal(marker, t, c) ==
    LET floor == IF marker THEN 40 ELSE 0 IN
    IF marker \/ (t # "none" /\ c > 50)
    THEN Signal("cot_inspector", Max({floor, AnomalyScore[t]}),
                AnomalyCategory[IF AnomalyScore[t] >= floor THEN t ELSE "boundary_probing"],
                Max({IF marker THEN 60 ELSE 0, c}))
    ELSE Signal("cot_inspector", 0, "benign", 90)

\* A conversation of one message is not shown to the LLM; a call that raises counts
\* as no anomaly, with confidence 0.3.
CotSignals(p) ==
    IF p.many
    THEN {CotSignal(p.marker, t, c) : t \in DOMAIN AnomalyScore, c \in Confidences}
         \cup {CotSignal(p.marker, "none", 30)}
    ELSE {CotSignal(p.marker, "none", 50)}

\* analyze_fidelity(): the rules first; then the LLM, and 80 when its call raises.
FidelitySignals(p) ==
    IF p.rule = 100 THEN {Signal("fidelity_agent", 100, "out_of_scope", 100)}
    ELSE IF p.rule = 60 THEN {Signal("fidelity_agent", 60, "out_of_scope", 95)}
    ELSE {Signal("fidelity_agent", 0, "benign", 80)}
         \cup {Signal("fidelity_agent", Max({s, 70}), "out_of_scope", 85) : s \in FidelityScores}
         \cup {Signal("fidelity_agent", 80, "out_of_scope", 100)}

Answers(a, p) ==
    CASE a = "intent_agent"    -> IntentSignals
      [] a = "injection_agent" -> IF HitsRaise(p.hits) THEN {} ELSE InjectionSignals(p.hits)
      [] a = "cot_inspector"   -> CotSignals(p)
      [] a = "fidelity_agent"  -> FidelitySignals(p)

AsksLLM_BeforeRules(a, p) ==
    a \in {"intent_agent", "fidelity_agent"} \/ (a = "cot_inspector" /\ p.many)

\* The agents that call the LLM for prompt p.
AsksLLM(a, p) ==
    \/ a = "intent_agent"
    \/ a = "cot_inspector" /\ p.many
    \/ a = "fidelity_agent" /\ p.rule = 0

\* The agents that may raise: a matching pattern of unknown category; an LLM answer
\* whose confidence or evidence AgentSignal rejects (the fidelity agent catches it).
MayRaise(a, p) ==
    \/ a = "injection_agent" /\ HitsRaise(p.hits)
    \/ a \in {"intent_agent", "cot_inspector"} /\ AsksLLM(a, p)

-----------------------------------------------------------------------------
Init ==
    /\ parallel \in Modes
    /\ prompt \in Prompts
    /\ status = [a \in Agents |-> "waiting"]
    /\ signal = [a \in Agents |-> NoSignal(a)]
    /\ verdict = NoVerdict

\* _run_sequential() starts an agent when the one before it is done, _run_parallel()
\* all at once.
Turn(a) ==
    \/ parallel
    \/ \A i, j \in DOMAIN Order :
          Order[j] = a /\ i < j => status[Order[i]] \in {"answered", "failed"}

\* The agent returns, with fields that AgentSignal accepts.
Answer(a) ==
    /\ status[a] = "waiting" /\ Turn(a)
    /\ \E s \in Answers(a, prompt) \cap Signals : signal' = [signal EXCEPT ![a] = s]
    /\ status' = [status EXCEPT ![a] = "answered"]
    /\ UNCHANGED <<parallel, prompt, verdict>>

Raise(a) ==
    /\ status[a] = "waiting" /\ Turn(a)
    /\ MayRaise(a, prompt)
    /\ status' = [status EXCEPT ![a] = "failed"]
    /\ UNCHANGED <<parallel, prompt, signal, verdict>>

Hang(a) ==
    /\ status[a] = "waiting" /\ Turn(a)
    /\ AsksLLM(a, prompt)
    /\ status' = [status EXCEPT ![a] = "hanging"]
    /\ UNCHANGED <<parallel, prompt, signal, verdict>>

TimeOut_NotFidelity(a) ==
    /\ status[a] = "hanging" /\ a # "fidelity_agent"
    /\ status' = [status EXCEPT ![a] = "failed"]
    /\ UNCHANGED <<parallel, prompt, signal, verdict>>

\* wait_for() cancels the agent.
TimeOut(a) ==
    /\ status[a] = "hanging"
    /\ status' = [status EXCEPT ![a] = "failed"]
    /\ UNCHANGED <<parallel, prompt, signal, verdict>>

Final_FailedIsHigh(a) ==
    IF status[a] = "answered" THEN signal[a] ELSE Signal(a, 80, "prompt_injection", 80)

\* What stands for an agent that failed in _run_sequential().
Final(a) ==
    IF status[a] = "answered" THEN signal[a] ELSE Signal(a, 10, "benign", 10)

AllSignals(m) == [i \in 1..4 |-> Final(Order[i])] \o IocSignals(m)

\* _run_parallel() names a category that does not exist for an agent that failed.
BuildRaises == parallel /\ \E a \in Agents : status[a] = "failed"

\* The rest of analyse(), once every agent is done.
Conclude ==
    /\ verdict.state = "none"
    /\ \A a \in Agents : status[a] \in {"answered", "failed"}
    /\ IF BuildRaises
       THEN verdict' = [verdict EXCEPT !.state = "raised"]
       ELSE \E m \in Matches \cup {NoIoc} : \E risk \in RiskScores(AllSignals(m)) :
               verdict' = [state |-> "action", risk |-> risk, ioc |-> m,
                           action |-> Action(risk, AllSignals(m))]
    /\ UNCHANGED <<parallel, prompt, status, signal>>

AgentStep(a) == Answer(a) \/ Raise(a) \/ TimeOut(a)

Next ==
    \/ \E a \in Agents : Answer(a) \/ Raise(a) \/ Hang(a) \/ TimeOut(a)
    \/ Conclude

Spec == Init /\ [][Next]_vars

(***************************************************************************)
(* Fairness: an agent whose LLM call does not hang ends, wait_for() ends   *)
(* one whose call does, and analyse() goes on.                             *)
(***************************************************************************)
FairSpec == Spec /\ WF_vars(Conclude) /\ \A a \in Agents : WF_vars(AgentStep(a))

-----------------------------------------------------------------------------
(* Properties *)

TypeOK ==
    /\ parallel \in BOOLEAN
    /\ prompt \in Prompts
    /\ status \in [Agents -> {"waiting", "hanging", "answered", "failed"}]
    /\ signal \in [Agents -> Signals]
    /\ verdict \in Verdicts

Decided == verdict.state = "action"

\* One agent, or the IOC store, that is confident of a score at the block threshold
\* gets the request blocked, whatever the other agents say and however many of them
\* fail or time out ("High-confidence threats cannot be diluted", risk_scorer.py:38).
StrongSignalBlocks ==
    Decided /\ verdict.action # "block" =>
        \A i \in DOMAIN AllSignals(verdict.ioc) : ~StrongBlock(AllSignals(verdict.ioc)[i])

\* A prompt with one of the forbidden words is never let through: it is blocked, or
\* the analysis raises and the request fails, also when every LLM call hangs.
ForbiddenNeverPasses ==
    Decided /\ prompt.rule = 100 => verdict.action = "block"

\* Agents that fail or time out do not get a request blocked by themselves: behind a
\* block there is an agent that answered, or an IOC, with a score of 60 or more.
BlockHasACause ==
    Decided /\ verdict.action = "block" =>
        \/ \E a \in Agents : status[a] = "answered" /\ signal[a].score >= 60
        \/ verdict.ioc.severity >= 6

\* An analysis is never stuck: until all agents are done, one of them can answer, raise
\* or be timed out, without the help of an LLM that hangs.
NeverStuck ==
    \/ \A a \in Agents : status[a] \in {"answered", "failed"}
    \/ \E a \in Agents : ENABLED AgentStep(a)

\* Every analysis ends, also when LLM calls hang.
AnalysisEnds == <>(verdict.state # "none")

-----------------------------------------------------------------------------
(* What the documentation says, and the code does not keep *)

\* "Analysis failure -> treated as high-risk (zero-trust fallback)"
\* (fidelity_agent.py:182): a request whose fidelity analysis failed is not allowed.
\* A time-out never reaches that fallback: it is scored 10, benign.
FailureIsHighRisk ==
    Decided /\ status["fidelity_agent"] = "failed" => verdict.action # "allow"

\* "Agent reliability failure: ... Forced caution applied." (engine.py:157): an agent
\* that fails in the parallel mode is replaced by a cautious signal.
CautionApplied == verdict.state # "raised"

\* "Hard block triggered by OUT_OF_SCOPE" (risk_scorer.py:58): the score is raised to
\* 80, which is a block only when the configured threshold is not above that.
OutOfScopeBlocks ==
    Decided /\ (\E a \in Agents : OutOfScope(Final(a))) => verdict.action = "block"

\* "Tell me a joke": blocked, "Out of scope (Fidelity check failed)" (README.md:112).
\* The keyword rule gives a score of 60, which the other agents average away.
KeywordIsBlocked ==
    Decided /\ prompt.rule = 60 => verdict.action = "block"
=============================================================================
