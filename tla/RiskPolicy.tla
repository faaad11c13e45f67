----------------------------- MODULE RiskPolicy -----------------------------
(***************************************************************************)
(* How the Guardian turns the signals of its agents into a risk score and  *)
(* an action: guardian/agents/risk_scorer.py and _determine_action() of    *)
(* guardian/engine.py.  Confidences and weights are percentages.           *)
(***************************************************************************)
EXTENDS Integers, Sequences, FiniteSets, FiniteSetsExt

CONSTANTS
    BlockThreshold,      \* guardian_risk_threshold_block
    QuarantineThreshold  \* guardian_risk_threshold_quarantine

ASSUME ThresholdsAssumption ==
    BlockThreshold \in 0..100 /\ QuarantineThreshold \in 0..100

-----------------------------------------------------------------------------
(* Data *)

Categories ==
    {"prompt_injection", "jailbreak", "goal_hijacking", "identity_override",
     "data_exfiltration", "tool_abuse", "llmjacking", "out_of_scope", "benign"}

Actions == {"allow", "rate_limit", "quarantine", "escalate", "block"}

Agents  == {"intent_agent", "injection_agent", "cot_inspector", "fidelity_agent"}
Sources == Agents \cup {"ioc_matcher"}

Signals == [agent : Sources, score : 0..100, category : Categories, confidence : 0..100]

Signal(a, s, c, p) == [agent |-> a, score |-> s, category |-> c, confidence |-> p]

\* _AGENT_WEIGHTS
Weight == [intent_agent |-> 20, injection_agent |-> 35, cot_inspector |-> 20,
           fidelity_agent |-> 30, ioc_matcher |-> 5]

\* RiskBand.from_score()
Band(risk) == IF risk < 30 THEN "low" ELSE IF risk < 70 THEN "medium" ELSE "high"

-----------------------------------------------------------------------------
(* compute_risk_score() *)

Maxima(S) == {x \in S : \A y \in S : x >= y}

\* weight * signal.confidence
EffectiveWeight(s) == Weight[s.agent] * s.confidence

\* The sum of a list of numbers, added up from the first on.
Total(v) ==
    LET upTo[n \in 0..Len(v)] == IF n = 0 THEN 0 ELSE upTo[n - 1] + v[n] IN upTo[Len(v)]

\* The weighted mean, cut to an integer.  The code divides floating-point numbers:
\* a quotient that is an integer may come out just below it, and is then cut to the
\* integer before (three million random signals: 29 for 30, 49 for 50, 64 for 65).
Means(ss) ==
    LET total == Total([i \in DOMAIN ss |-> EffectiveWeight(ss[i])])
        sum   == Total([i \in DOMAIN ss |-> EffectiveWeight(ss[i]) * ss[i].score])
    IN
    IF total = 0 THEN {0}
    ELSE IF sum % total = 0 /\ sum > 0 THEN {sum \div total, (sum \div total) - 1}
    ELSE {sum \div total}

OutOfScope(s) == s.category = "out_of_scope" /\ s.score >= 70

Dominant(s) == s.score >= 70 /\ s.confidence >= 80

\* Dominant, and at the block threshold by itself.
StrongBlock(s) == s.score >= 70 /\ s.score >= BlockThreshold /\ s.confidence >= 80

RiskScores_MeanOnly(ss) == Means(ss)

\* The score of the first signal that is out of scope, raised to 80; otherwise the
\* mean, raised to the highest dominant signal.  A set: the scores the code may give.
\* The clamp to 0..100 at the end changes nothing.
RiskScores(ss) ==
    LET outside == {i \in DOMAIN ss : OutOfScope(ss[i])}
        strong  == {ss[i].score : i \in {k \in DOMAIN ss : Dominant(ss[k])}}
    IN
    IF outside # {}
    THEN UNION {Maxima({80, ss[i].score}) : i \in {k \in outside : \A j \in outside : k <= j}}
    ELSE {r \in 0..100 : \E mean \in Means(ss) : r \in Maxima({mean} \cup strong)}

-----------------------------------------------------------------------------
(* _determine_action() *)

\* "Hard block for tool-abuse or LLMjacking regardless of score"
HardBlock(s) ==
    s.category \in {"tool_abuse", "llmjacking"} /\ s.confidence >= 70 /\ s.score >= 60

ActionFor(risk) ==
    IF risk >= BlockThreshold THEN "block"
    ELSE IF risk >= QuarantineThreshold THEN "quarantine"
    ELSE IF risk >= 20 THEN "rate_limit"
    ELSE "allow"

Action(risk, ss) ==
    IF \E i \in DOMAIN ss : HardBlock(ss[i]) THEN "block" ELSE ActionFor(risk)

-----------------------------------------------------------------------------
(* _check_ioc_store() *)

Matchings == [severity : 0..10, category : Categories]
NoIoc     == [severity |-> 0, category |-> "benign"]

\* The worst of the IOCs that match a prompt adds a signal.
IocSignals(m) ==
    IF m.severity = 0 THEN <<>>
    ELSE <<Signal("ioc_matcher", 10 * m.severity, m.category, 90)>>
=============================================================================
