--------------------------- MODULE GuardianProofs ---------------------------
(***************************************************************************)
(* Proofs about Guardian, for any thresholds, prompts and LLM answers.     *)
(*                                                                         *)
(* VerdictFits, of the signals a verdict rests on, carries the safety      *)
(* properties; the last section shows that an analysis has finitely many   *)
(* steps and that there is one as long as there is no verdict.             *)
(***************************************************************************)
EXTENDS Guardian, RiskPolicyProofs, SequenceTheorems, TLAPS

-----------------------------------------------------------------------------
(* The signals that are scored *)

LEMMA FinalType ==
    ASSUME TypeOK, NEW a \in Agents
    PROVE  Final(a) \in Signals
<1>1. signal[a] \in Signals
    BY DEF TypeOK
<1>2. Signal(a, 10, "benign", 10) \in Signals
    BY DEF Signal, Signals, Sources, Categories
<1> QED BY <1>1, <1>2 DEF Final

LEMMA AllSignalsType ==
    ASSUME TypeOK, NEW m \in Matchings
    PROVE  /\ AllSignals(m) \in Seq(Signals)
           /\ \A i \in 1..4 : i \in DOMAIN AllSignals(m) /\ AllSignals(m)[i] = Final(Order[i])
<1> DEFINE four == [i \in 1..4 |-> Final(Order[i])]
<1>1. \A i \in 1..4 : Order[i] \in Agents
    BY DEF Order, Agents
<1>2. four \in [1..4 -> Signals]
    BY <1>1, FinalType
<1>3. four \in Seq(Signals) /\ Len(four) = 4
    BY <1>2
<1>4. IocSignals(m) \in Seq(Signals)
    <2>1. m.severity \in 0..10 /\ m.category \in Categories
        BY DEF Matchings
    <2>2. 10 * m.severity \in 0..100
        BY <2>1
    <2>3. Signal("ioc_matcher", 10 * m.severity, m.category, 90) \in Signals
        BY <2>1, <2>2 DEF Signal, Signals, Sources
    <2> QED BY <2>3 DEF IocSignals
<1>5. AllSignals(m) = four \o IocSignals(m)
    BY DEF AllSignals
<1> HIDE DEF four
<1>6. four \o IocSignals(m) \in Seq(Signals)
    BY <1>3, <1>4
<1>7. ASSUME NEW i \in 1..4
      PROVE  i \in DOMAIN (four \o IocSignals(m)) /\ (four \o IocSignals(m))[i] = four[i]
    <2>1. Len(IocSignals(m)) \in Nat /\ Len(four \o IocSignals(m)) \in Nat
        BY <1>4, <1>6
    <2>2. Len(four \o IocSignals(m)) = Len(four) + Len(IocSignals(m))
        BY <1>3, <1>4, ConcatProperties, Zenon
    <2>3. \A k \in 1 .. Len(four) + Len(IocSignals(m)) : (four \o IocSignals(m))[k] =
             IF k <= Len(four) THEN four[k] ELSE IocSignals(m)[k - Len(four)]
        BY <1>3, <1>4, ConcatProperties, Zenon
    <2>4. i \in 1 .. Len(four) + Len(IocSignals(m)) /\ i <= Len(four)
        BY <1>3, <2>1
    <2>5. (four \o IocSignals(m))[i] = four[i]
        BY <2>3, <2>4, Zenon
    <2>6. DOMAIN (four \o IocSignals(m)) = 1 .. Len(four \o IocSignals(m))
        BY <1>6
    <2> QED BY <2>2, <2>4, <2>5, <2>6, Zenon
<1> QED BY <1>5, <1>6, <1>7 DEF four

-----------------------------------------------------------------------------
(* The type invariant *)

LEMMA ConcludeType ==
    ASSUME TypeOK, Conclude
    PROVE  verdict' \in Verdicts
<1>1. verdict \in Verdicts
    BY DEF TypeOK
<1>2. CASE BuildRaises
    BY <1>1, <1>2 DEF Conclude, Verdicts
<1>3. CASE ~BuildRaises
    <2>1. PICK m \in Matches \cup {NoIoc} : \E risk \in RiskScores(AllSignals(m)) :
             verdict' = [state |-> "action", risk |-> risk, ioc |-> m,
                         action |-> Action(risk, AllSignals(m))]
        BY <1>3, Zenon DEF Conclude
    <2>1a. PICK risk \in RiskScores(AllSignals(m)) :
             verdict' = [state |-> "action", risk |-> risk, ioc |-> m,
                         action |-> Action(risk, AllSignals(m))]
        BY <2>1
    <2>2. NoIoc \in Matchings
        BY DEF NoIoc, Matchings, Categories
    <2>3. m \in Matchings
        BY <2>2, InputsAssumption
    <2>4. risk \in 0..100
        BY <2>3, AllSignalsType, RiskType
    <2>5. Action(risk, AllSignals(m)) \in Actions
        BY ActionType
    <2> QED BY <2>1a, <2>3, <2>4, <2>5 DEF Verdicts
<1> QED BY <1>2, <1>3

\* Every agent has a well-formed status and answer, and the report of the analysis a
\* risk between 0 and 100 and one of the five actions, at any thresholds.
THEOREM GuardianTypeCorrect == Spec => []TypeOK
<1>1. Init => TypeOK
    <2>1. NoVerdict \in Verdicts
        BY DEF NoVerdict, Verdicts, NoIoc, Actions, Matchings, Categories
    <2>2. \A a \in Agents : NoSignal(a) \in Signals
        BY DEF NoSignal, Signal, Signals, Sources, Categories
    <2>3. Init => parallel \in BOOLEAN /\ prompt \in Prompts
        BY ModesAssumption DEF Init
    <2> QED BY <2>1, <2>2, <2>3 DEF Init, TypeOK
<1>2. TypeOK /\ [Next]_vars => TypeOK'
    <2> SUFFICES ASSUME TypeOK, [Next]_vars
                 PROVE  TypeOK'
        OBVIOUS
    <2>1. ASSUME NEW a \in Agents, Answer(a)
          PROVE  TypeOK'
        BY <2>1 DEF Answer, TypeOK
    <2>2. ASSUME NEW a \in Agents, Raise(a) \/ Hang(a) \/ TimeOut(a)
          PROVE  TypeOK'
        BY <2>2 DEF Raise, Hang, TimeOut, TypeOK
    <2>3. CASE Conclude
        BY <2>3, ConcludeType DEF Conclude, TypeOK
    <2>4. CASE UNCHANGED vars
        BY <2>4 DEF vars, TypeOK
    <2> QED BY <2>1, <2>2, <2>3, <2>4 DEF Next
<1> QED BY <1>1, <1>2, PTL DEF Spec

-----------------------------------------------------------------------------
(* What the verdict rests on *)

AllDone == \A a \in Agents : status[a] \in {"answered", "failed"}

\* Once there is a verdict no agent can move any more, and the verdict is what the
\* policy makes of the signals as they are now.
VerdictFits ==
    /\ verdict.state # "none" => AllDone
    /\ Decided =>
        /\ verdict.ioc \in Matchings
        /\ verdict.risk \in RiskScores(AllSignals(verdict.ioc))
        /\ verdict.action = Action(verdict.risk, AllSignals(verdict.ioc))

LEMMA ConcludeFits ==
    ASSUME TypeOK, VerdictFits, Conclude
    PROVE  VerdictFits'
<1>1. AllDone' /\ UNCHANGED <<prompt, status, signal>>
    BY DEF Conclude, AllDone
<1>2. CASE BuildRaises
    <2>1. verdict' = [verdict EXCEPT !.state = "raised"]
        BY <1>2 DEF Conclude
    <2>2. verdict'.state = "raised"
        BY <2>1 DEF TypeOK, Verdicts
    <2> QED BY <1>1, <2>2 DEF VerdictFits, Decided
<1>3. CASE ~BuildRaises
    <2>1. PICK m \in Matches \cup {NoIoc} : \E risk \in RiskScores(AllSignals(m)) :
             verdict' = [state |-> "action", risk |-> risk, ioc |-> m,
                         action |-> Action(risk, AllSignals(m))]
        BY <1>3, Zenon DEF Conclude
    <2>1a. PICK risk \in RiskScores(AllSignals(m)) :
             verdict' = [state |-> "action", risk |-> risk, ioc |-> m,
                         action |-> Action(risk, AllSignals(m))]
        BY <2>1
    <2>2. m \in Matchings
        BY InputsAssumption DEF NoIoc, Matchings, Categories
    <2>3. verdict'.ioc = m /\ verdict'.risk = risk /\ verdict'.action = Action(risk, AllSignals(m))
        BY <2>1a
    <2>5. AllSignals(verdict.ioc)' = AllSignals(m)
        BY <1>1, <2>3 DEF AllSignals, Final
    <2> QED BY <1>1, <2>2, <2>3, <2>5 DEF VerdictFits, Decided
<1> QED BY <1>2, <1>3

LEMMA AgentFits ==
    ASSUME VerdictFits, NEW a \in Agents, Answer(a) \/ Raise(a) \/ Hang(a) \/ TimeOut(a)
    PROVE  VerdictFits'
<1>1. status[a] \notin {"answered", "failed"} /\ verdict' = verdict
    BY DEF Answer, Raise, Hang, TimeOut
<1>2. verdict.state = "none"
    BY <1>1 DEF VerdictFits, AllDone
<1> QED BY <1>1, <1>2 DEF VerdictFits, Decided

\* Nothing an agent does after the verdict changes it, and no verdict is given early: it
\* is always what the policy makes of the four agents' signals, as they are now, and the IOC.
THEOREM GuardianVerdictFits == Spec => []VerdictFits
<1>1. Init => VerdictFits
    BY DEF Init, VerdictFits, Decided, NoVerdict
<1>2. TypeOK /\ VerdictFits /\ [Next]_vars => VerdictFits'
    <2> SUFFICES ASSUME TypeOK, VerdictFits, [Next]_vars
                 PROVE  VerdictFits'
        OBVIOUS
    <2>1. CASE UNCHANGED vars
        BY <2>1 DEF vars, VerdictFits, AllDone, Decided, AllSignals, Final
    <2> QED BY <2>1, AgentFits, ConcludeFits DEF Next
<1> QED BY <1>1, <1>2, GuardianTypeCorrect, PTL DEF Spec

\* Whatever the prompt, the other agents' answers and the agents that fail, a request
\* with a confident signal at the block threshold is blocked, provided the threshold
\* is at most the 80 that an out-of-scope signal counts for.
THEOREM GuardianStrongSignalBlocks ==
    ASSUME BlockThreshold <= 80
    PROVE  Spec => []StrongSignalBlocks
<1>1. TypeOK /\ VerdictFits => StrongSignalBlocks
    <2> SUFFICES ASSUME TypeOK, VerdictFits, Decided,
                        NEW i \in DOMAIN AllSignals(verdict.ioc),
                        StrongBlock(AllSignals(verdict.ioc)[i])
                 PROVE  verdict.action = "block"
        BY DEF StrongSignalBlocks
    <2>1. AllSignals(verdict.ioc) \in Seq(Signals)
        BY AllSignalsType DEF VerdictFits
    <2>2. verdict.risk >= BlockThreshold
        BY <2>1, StrongScore DEF VerdictFits
    <2> QED BY <2>2 DEF VerdictFits, Action, ActionFor
<1> QED BY <1>1, GuardianTypeCorrect, GuardianVerdictFits, PTL

-----------------------------------------------------------------------------
(* Forbidden words *)

\* The rules answer before any LLM is asked: the agent can neither hang nor fail.
RuleDecides ==
    prompt.rule = 100 =>
        \/ status["fidelity_agent"] = "waiting"
        \/ /\ status["fidelity_agent"] = "answered"
           /\ signal["fidelity_agent"] = Signal("fidelity_agent", 100, "out_of_scope", 100)

LEMMA RuleDecidesAlways == Spec => []RuleDecides
<1>0. "fidelity_agent" \in Agents
    BY DEF Agents
<1>1. Init => RuleDecides
    BY <1>0 DEF Init, RuleDecides
<1>2. TypeOK /\ RuleDecides /\ [Next]_vars => RuleDecides'
    <2> SUFFICES ASSUME TypeOK, RuleDecides, [Next]_vars, prompt'.rule = 100
                 PROVE  RuleDecides'
        BY DEF RuleDecides
    <2>1. CASE prompt' = prompt /\ status' = status /\ signal' = signal
        BY <2>1 DEF RuleDecides
    <2>2. ASSUME NEW a \in Agents, Answer(a)
          PROVE  RuleDecides'
        <3>1. CASE a = "fidelity_agent"
            <4>1. PICK s \in Answers(a, prompt) : signal' = [signal EXCEPT ![a] = s]
                BY <2>2 DEF Answer
            <4>2. Answers(a, prompt) = FidelitySignals(prompt)
                BY <3>1 DEF Answers
            <4>3. prompt.rule = 100
                BY <2>2 DEF Answer
            <4>4. s = Signal("fidelity_agent", 100, "out_of_scope", 100)
                BY <4>2, <4>3 DEF FidelitySignals
            <4>5. status' = [status EXCEPT ![a] = "answered"]
                BY <2>2 DEF Answer
            <4> QED BY <3>1, <4>1, <4>4, <4>5 DEF RuleDecides, TypeOK
        <3>2. CASE a # "fidelity_agent"
            BY <1>0, <2>2, <3>2 DEF Answer, RuleDecides, TypeOK
        <3> QED BY <3>1, <3>2
    <2>3. ASSUME NEW a \in Agents, Raise(a) \/ Hang(a) \/ TimeOut(a)
          PROVE  RuleDecides'
        <3>1. prompt.rule = 100
            BY <2>3 DEF Raise, Hang, TimeOut
        <3>2. a # "fidelity_agent"
            BY <2>3, <3>1 DEF Raise, Hang, TimeOut, MayRaise, AsksLLM, RuleDecides
        <3> QED BY <1>0, <2>3, <3>2 DEF Raise, Hang, TimeOut, RuleDecides, TypeOK
    <2> QED BY <2>1, <2>2, <2>3 DEF Next, Conclude, vars
<1> QED BY <1>1, <1>2, GuardianTypeCorrect, PTL DEF Spec

\* A prompt with a forbidden word is blocked, or its analysis raises, whatever the
\* other agents and the LLMs do, provided the block threshold is at most 80.
THEOREM GuardianForbiddenNeverPasses ==
    ASSUME BlockThreshold <= 80
    PROVE  Spec => []ForbiddenNeverPasses
<1>1. TypeOK /\ VerdictFits /\ RuleDecides /\ StrongSignalBlocks => ForbiddenNeverPasses
    <2> SUFFICES ASSUME TypeOK, VerdictFits, RuleDecides, StrongSignalBlocks,
                        Decided, prompt.rule = 100
                 PROVE  verdict.action = "block"
        BY DEF ForbiddenNeverPasses
    <2> DEFINE s == Signal("fidelity_agent", 100, "out_of_scope", 100)
    <2>1. Order[4] = "fidelity_agent" /\ "fidelity_agent" \in Agents
        BY DEF Order, Agents
    <2>2. status["fidelity_agent"] = "answered" /\ signal["fidelity_agent"] = s
        BY <2>1 DEF VerdictFits, AllDone, Decided, RuleDecides
    <2>3. AllSignals(verdict.ioc)[4] = s /\ 4 \in DOMAIN AllSignals(verdict.ioc)
        BY <2>1, <2>2, AllSignalsType DEF VerdictFits, Final
    <2>4. StrongBlock(s)
        BY ThresholdsAssumption DEF StrongBlock, Signal
    <2> QED BY <2>3, <2>4 DEF StrongSignalBlocks
<1> QED BY <1>1, GuardianTypeCorrect, GuardianVerdictFits, RuleDecidesAlways,
           GuardianStrongSignalBlocks, PTL

-----------------------------------------------------------------------------
(* What a block rests on *)

\* A signal behind the four of the agents is that of the IOC that matched.
LEMMA IocSignalLast ==
    ASSUME TypeOK, NEW m \in Matchings, NEW i \in DOMAIN AllSignals(m), i \notin 1..4
    PROVE  /\ m.severity # 0
           /\ AllSignals(m)[i] = Signal("ioc_matcher", 10 * m.severity, m.category, 90)
<1> DEFINE four == [k \in 1..4 |-> Final(Order[k])]
           last == IocSignals(m)
<1>1. \A k \in 1..4 : Order[k] \in Agents
    BY DEF Order, Agents
<1>2. four \in [1..4 -> Signals]
    BY <1>1, FinalType
<1>3. four \in Seq(Signals) /\ Len(four) = 4
    BY <1>2
<1>4. \/ m.severity = 0 /\ last = <<>>
      \/ m.severity # 0 /\ last = <<Signal("ioc_matcher", 10 * m.severity, m.category, 90)>>
    BY DEF IocSignals
<1>5. AllSignals(m) = four \o last
    BY DEF AllSignals
<1>6. last \in Seq(Signals)
    <2>1. m.severity \in 0..10 /\ m.category \in Categories
        BY DEF Matchings
    <2>2. 10 * m.severity \in 0..100
        BY <2>1
    <2>3. Signal("ioc_matcher", 10 * m.severity, m.category, 90) \in Signals
        BY <2>1, <2>2 DEF Signal, Signals, Sources
    <2> QED BY <2>3 DEF IocSignals
<1>7. Len(last) = 0 \/ (Len(last) = 1 /\ m.severity # 0)
    BY <1>4
<1>7a. m.severity # 0 => last[1] = Signal("ioc_matcher", 10 * m.severity, m.category, 90)
    BY <1>4
<1> HIDE DEF four, last
<1>8. /\ Len(four \o last) = Len(four) + Len(last)
      /\ \A k \in 1 .. Len(four) + Len(last) : (four \o last)[k] =
             IF k <= Len(four) THEN four[k] ELSE last[k - Len(four)]
    BY <1>3, <1>6, ConcatProperties, Zenon
<1>9. DOMAIN (four \o last) = 1 .. Len(four \o last)
    BY <1>3, <1>6
<1>10. i \in 1..(4 + Len(last))
    BY <1>3, <1>5, <1>8, <1>9
<1>11. Len(last) = 1 /\ m.severity # 0 /\ i = 5
    <2>1. Len(last) # 0
        BY <1>10
    <2>2. \A k : k \in 1..5 /\ k \notin 1..4 => k = 5
        OBVIOUS
    <2>3. i \in 1..(4 + 1)
        BY <1>7, <1>10, <2>1, Zenon
    <2>4. 4 + 1 = 5
        OBVIOUS
    <2> QED BY <1>7, <2>1, <2>2, <2>3, <2>4, Zenon
<1>12. AllSignals(m)[i] = last[1]
    <2>1. i \in 1 .. Len(four) + Len(last) /\ ~(i <= Len(four)) /\ i - Len(four) = 1
        BY <1>3, <1>11
    <2> QED BY <1>5, <1>8, <2>1, Zenon
<1> QED BY <1>7a, <1>11, <1>12, Zenon

\* A score of 60 or more is that of an agent that answered, or of an IOC.
LEMMA HighScore ==
    ASSUME TypeOK, NEW m \in Matchings, NEW i \in DOMAIN AllSignals(m),
           AllSignals(m)[i].score >= 60
    PROVE  \/ \E a \in Agents : status[a] = "answered" /\ signal[a].score >= 60
           \/ m.severity >= 6
<1>1. CASE i \in 1..4
    <2>1. AllSignals(m)[i] = Final(Order[i]) /\ Order[i] \in Agents
        BY <1>1, AllSignalsType DEF Order, Agents
    <2>2. CASE status[Order[i]] = "answered"
        BY <2>1, <2>2 DEF Final
    <2>3. CASE status[Order[i]] # "answered"
        <3>1. AllSignals(m)[i].score = 10
            BY <2>1, <2>3 DEF Final, Signal
        <3> QED BY <3>1
    <2> QED BY <2>2, <2>3
<1>2. CASE i \notin 1..4
    <2>1. AllSignals(m)[i].score = 10 * m.severity
        BY <1>2, IocSignalLast DEF Signal
    <2>2. m.severity \in 0..10
        BY DEF Matchings
    <2> QED BY <2>1, <2>2
<1> QED BY <1>1, <1>2

\* With a block threshold of at least 60 nothing but an answer of an agent or an IOC,
\* with a score of 60 or more, gets a request blocked: no number of agents that fail or
\* time out, and no sum of weaker signals.
THEOREM GuardianBlockHasACause ==
    ASSUME BlockThreshold >= 60
    PROVE  Spec => []BlockHasACause
<1>1. TypeOK /\ VerdictFits => BlockHasACause
    <2> SUFFICES ASSUME TypeOK, VerdictFits, Decided, verdict.action = "block"
                 PROVE  \/ \E a \in Agents : status[a] = "answered" /\ signal[a].score >= 60
                        \/ verdict.ioc.severity >= 6
        BY DEF BlockHasACause
    <2> DEFINE m  == verdict.ioc
               ss == AllSignals(m)
    <2>1. m \in Matchings /\ verdict.risk \in RiskScores(ss) /\ Action(verdict.risk, ss) = "block"
        BY DEF VerdictFits
    <2>2. ss \in Seq(Signals)
        BY <2>1, AllSignalsType
    <2>3. \E i \in DOMAIN ss : ss[i].score >= 60
        <3>1. CASE \E i \in DOMAIN ss : HardBlock(ss[i])
            BY <3>1 DEF HardBlock
        <3>2. CASE ~\E i \in DOMAIN ss : HardBlock(ss[i])
            <4>1. ActionFor(verdict.risk) = "block"
                BY <2>1, <3>2, Zenon DEF Action
            <4>2. verdict.risk >= BlockThreshold
                BY <4>1 DEF ActionFor
            <4>3. verdict.risk \in 0..100
                BY <2>1, <2>2, RiskType
            <4>4. verdict.risk >= 60
                BY <4>2, <4>3, ThresholdsAssumption
            <4> QED BY <2>1, <2>2, <4>4, ScoreHasACause
        <3> QED BY <3>1, <3>2
    <2> QED BY <2>1, <2>3, HighScore
<1> QED BY <1>1, GuardianTypeCorrect, GuardianVerdictFits, PTL

-----------------------------------------------------------------------------
(* Every analysis ends *)

\* The steps that are left: two for an agent whose call may still hang, one for one whose
\* call hangs, and the verdict.
Left(s) == IF s = "waiting" THEN 2 ELSE IF s = "hanging" THEN 1 ELSE 0

Work ==
    Left(status["intent_agent"]) + Left(status["injection_agent"])
    + Left(status["cot_inspector"]) + Left(status["fidelity_agent"])
    + (IF verdict.state = "none" THEN 1 ELSE 0)

StepsCount == [][Work' < Work /\ Work' \in 0..8]_vars

LEMMA LeftIs ==
    /\ \A s : Left(s) \in 0..2
    /\ Left("waiting") = 2 /\ Left("hanging") = 1 /\ Left("answered") = 0 /\ Left("failed") = 0
BY DEF Left

LEMMA Sums ==
    ASSUME NEW a \in 0..2, NEW b \in 0..2, NEW c \in 0..2, NEW d \in 0..2, NEW v \in 0..1,
           NEW p \in 0..2, NEW q \in 0..2, NEW r \in 0..2, NEW s \in 0..2, NEW w \in 0..1,
           p <= a, q <= b, r <= c, s <= d, w <= v,
           p < a \/ q < b \/ r < c \/ s < d \/ w < v
    PROVE  p + q + r + s + w < a + b + c + d + v /\ p + q + r + s + w \in 0..8
OBVIOUS

LEMMA StatusMoves ==
    ASSUME TypeOK, NEW a \in Agents, NEW x, status' = [status EXCEPT ![a] = x],
           Left(x) < Left(status[a]), verdict' = verdict
    PROVE  Work' < Work /\ Work' \in 0..8
<1>1. \A b \in Agents : Left(status'[b]) <= Left(status[b])
    <2>1. \A b \in Agents : b # a => status'[b] = status[b]
        BY DEF TypeOK
    <2>2. status'[a] = x
        BY DEF TypeOK
    <2>3. \A s : Left(s) <= Left(s)
        BY LeftIs
    <2> QED BY <2>1, <2>2, <2>3, LeftIs
<1>2. Left(status'[a]) < Left(status[a])
    BY DEF TypeOK
<1>3. /\ "intent_agent" \in Agents /\ "injection_agent" \in Agents
      /\ "cot_inspector" \in Agents /\ "fidelity_agent" \in Agents
      /\ a \in {"intent_agent", "injection_agent", "cot_inspector", "fidelity_agent"}
    BY DEF Agents
<1> DEFINE v == IF verdict.state = "none" THEN 1 ELSE 0
<1>4. v \in 0..1 /\ v <= v
    OBVIOUS
<1>5. Work = Left(status["intent_agent"]) + Left(status["injection_agent"])
             + Left(status["cot_inspector"]) + Left(status["fidelity_agent"]) + v
    BY DEF Work
<1>6. Work' = Left(status'["intent_agent"]) + Left(status'["injection_agent"])
              + Left(status'["cot_inspector"]) + Left(status'["fidelity_agent"]) + v
    BY DEF Work, Left
<1> HIDE DEF v
<1>7. \/ Left(status'["intent_agent"]) < Left(status["intent_agent"])
      \/ Left(status'["injection_agent"]) < Left(status["injection_agent"])
      \/ Left(status'["cot_inspector"]) < Left(status["cot_inspector"])
      \/ Left(status'["fidelity_agent"]) < Left(status["fidelity_agent"])
    BY <1>2, <1>3
<1>8. \A s : Left(s) \in 0..2
    BY LeftIs
<1> QED BY <1>1, <1>3, <1>4, <1>5, <1>6, <1>7, <1>8, Sums

\* Every step of an analysis brings it nearer to its end, of which it is never more than nine
\* steps away: no agent runs twice, none that was cancelled comes back, and the verdict is
\* given once.
THEOREM GuardianStepsCount == Spec => StepsCount
<1>1. TypeOK /\ [Next]_vars => [Work' < Work /\ Work' \in 0..8]_vars
    <2> SUFFICES ASSUME TypeOK, Next PROVE Work' < Work /\ Work' \in 0..8
        OBVIOUS
    <2>1. ASSUME NEW a \in Agents, Answer(a) \/ Raise(a) \/ Hang(a) \/ TimeOut(a)
          PROVE  Work' < Work /\ Work' \in 0..8
        <3>1. /\ verdict' = verdict
              /\ \E x : status' = [status EXCEPT ![a] = x] /\ Left(x) < Left(status[a])
            BY <2>1, LeftIs DEF Answer, Raise, Hang, TimeOut
        <3> QED BY <3>1, StatusMoves
    <2>2. ASSUME Conclude PROVE Work' < Work /\ Work' \in 0..8
        <3>1. status' = status /\ verdict.state = "none" /\ verdict'.state # "none"
            BY <2>2 DEF Conclude, TypeOK, Verdicts
        <3>2. /\ Left(status'["intent_agent"]) = Left(status["intent_agent"])
              /\ Left(status'["injection_agent"]) = Left(status["injection_agent"])
              /\ Left(status'["cot_inspector"]) = Left(status["cot_inspector"])
              /\ Left(status'["fidelity_agent"]) = Left(status["fidelity_agent"])
            BY <3>1
        <3>3. Work' = Left(status["intent_agent"]) + Left(status["injection_agent"])
                      + Left(status["cot_inspector"]) + Left(status["fidelity_agent"]) + 0
            BY <3>1, <3>2 DEF Work, Left
        <3>4. Work = Left(status["intent_agent"]) + Left(status["injection_agent"])
                      + Left(status["cot_inspector"]) + Left(status["fidelity_agent"]) + 1
            BY <3>1 DEF Work
        <3>5. \A s : Left(s) \in 0..2
            BY LeftIs
        <3>6. \A a, b, c, d \in 0..2 :
                 a + b + c + d + 0 < a + b + c + d + 1 /\ a + b + c + d + 0 \in 0..8
            OBVIOUS
        <3> QED BY <3>3, <3>4, <3>5, <3>6
    <2> QED BY <2>1, <2>2 DEF Next
<1> QED BY <1>1, GuardianTypeCorrect, PTL DEF Spec, StepsCount

-----------------------------------------------------------------------------
(* What the agents can answer *)

LEMMA MinIs ==
    ASSUME NEW a \in Int, NEW b \in Int
    PROVE  /\ Min({a, b}) \in {a, b} /\ Min({a, b}) <= a /\ Min({a, b}) <= b
           /\ Max({a, b}) \in {a, b} /\ Max({a, b}) >= a /\ Max({a, b}) >= b
<1>1. /\ \E x \in {a, b} : \A y \in {a, b} : x <= y
      /\ \E x \in {a, b} : \A y \in {a, b} : x >= y
    <2>1. a <= b \/ b <= a
        OBVIOUS
    <2>2. CASE a <= b
        BY <2>2
    <2>3. CASE b <= a
        BY <2>3
    <2> QED BY <2>1, <2>2, <2>3
<1> QED BY <1>1, Zenon DEF Min, Max

LEMMA ElementOf ==
    ASSUME NEW S, NEW s \in Seq(S), NEW i \in DOMAIN s
    PROVE  s[i] \in S
OBVIOUS

LEMMA ThreeAtMost ==
    ASSUME NEW l \in Nat \ {0}, NEW n \in {3, l}, n <= 3, n <= l
    PROVE  n \in 1..3
OBVIOUS

Hits == Seq([severity : Int, category : STRING])

LEMMA HitsAre ==
    ASSUME NEW hits \in Hits
    PROVE  /\ DOMAIN hits = 1..Len(hits) /\ Len(hits) \in Nat
           /\ hits # <<>> => Len(hits) \in Nat \ {0}
           /\ \A i \in DOMAIN hits : hits[i].severity \in Int
<1>1. DOMAIN hits = 1..Len(hits) /\ Len(hits) \in Nat
    BY DEF Hits
<1>2. hits # <<>> => Len(hits) # 0
    BY DEF Hits
<1>3. ASSUME NEW i \in DOMAIN hits PROVE hits[i].severity \in Int
    <2>1. hits[i] \in [severity : Int, category : STRING]
        BY ElementOf, Zenon DEF Hits
    <2> QED BY <2>1
<1> QED BY <1>1, <1>2, <1>3

\* The severities of a list of hits have an upper bound.
LEMMA SeverityBound ==
    ASSUME NEW hits \in Hits
    PROVE  \E b \in Nat : \A i \in DOMAIN hits : hits[i].severity <= b
<1> DEFINE Bound(n) == \E b \in Nat : \A i \in DOMAIN hits : i <= n => hits[i].severity <= b
           T == {n \in Nat : Bound(n)}
<1>1. /\ DOMAIN hits = 1..Len(hits) /\ Len(hits) \in Nat
      /\ \A i \in DOMAIN hits : hits[i].severity \in Int
    BY HitsAre
<1>2. 0 \in T
    <2>1. \A i \in DOMAIN hits : ~(i <= 0)
        BY <1>1
    <2> QED BY <2>1
<1>3. ASSUME NEW n \in Nat, n \in T PROVE n + 1 \in T
    <2>1. PICK b \in Nat : \A i \in DOMAIN hits : i <= n => hits[i].severity <= b
        BY <1>3
    <2>2. CASE n + 1 \in DOMAIN hits
        <3>1. PICK c \in Int : c = hits[n + 1].severity
            BY <1>1, <2>2
        <3>2. PICK d \in Nat : b <= d /\ c <= d
            <4>1. b <= c \/ c <= b
                OBVIOUS
            <4> QED BY <4>1
        <3>3. \A x \in Int : x <= b => x <= d
            BY <3>2
        <3>4. ASSUME NEW i \in DOMAIN hits, i <= n + 1 PROVE hits[i].severity <= d
            <4>1. i <= n \/ i = n + 1
                BY <1>1, <3>4
            <4>2. i <= n => hits[i].severity <= b
                BY <2>1
            <4>3. hits[i].severity \in Int
                BY <1>1
            <4> QED BY <3>1, <3>2, <3>3, <4>1, <4>2, <4>3, Zenon
        <3>5. Bound(n + 1)
            BY <3>4
        <3> HIDE DEF Bound
        <3> QED BY <3>5
    <2>3. CASE n + 1 \notin DOMAIN hits
        <3>1. \A i \in DOMAIN hits : i <= n + 1 => i <= n
            BY <1>1, <2>3
        <3>2. Bound(n + 1)
            BY <2>1, <3>1, Zenon
        <3> HIDE DEF Bound
        <3> QED BY <3>2
    <2> QED BY <2>2, <2>3
<1>4. Len(hits) \in T
    <2> HIDE DEF T
    <2> QED BY <1>1, <1>2, <1>3, NatInd
<1>5. \A i \in DOMAIN hits : i <= Len(hits)
    BY <1>1
<1> QED BY <1>4, <1>5

\* The sum of at most three numbers.
LEMMA SmallTotal ==
    ASSUME NEW n \in 1..3, NEW v, Len(v) = n, NEW b \in Nat,
           \A i \in 1..n : v[i] \in Int /\ v[i] <= b
    PROVE  Total(v) \in Int /\ Total(v) <= b + b + b
<1>1. PICK h : TotalUpTo(h, v, n) /\ Total(v) = h[n]
    BY TotalFn
<1>2. ASSUME NEW i \in 0..n PROVE h[i] = TotalNext(h, v, i)
    BY <1>1, TotalAt
<1>3. h[0] = 0
    BY <1>2 DEF TotalNext
<1>4. 1 \in 1..n /\ h[1] = v[1]
    <2>1. 1 \in 0..n /\ 1 \in 1..n /\ 1 - 1 = 0
        OBVIOUS
    <2>2. h[1] = h[1 - 1] + v[1]
        BY <1>2, <2>1 DEF TotalNext
    <2> QED BY <1>3, <2>1, <2>2
<1>5. n >= 2 => 2 \in 1..n /\ h[2] = v[1] + v[2]
    <2> SUFFICES ASSUME n >= 2 PROVE 2 \in 1..n /\ h[2] = v[1] + v[2]
        OBVIOUS
    <2>1. 2 \in 0..n /\ 2 \in 1..n /\ 2 - 1 = 1
        OBVIOUS
    <2>2. h[2] = h[2 - 1] + v[2]
        BY <1>2, <2>1 DEF TotalNext
    <2> QED BY <1>4, <2>1, <2>2
<1>6. n = 3 => 3 \in 1..n /\ h[3] = v[1] + v[2] + v[3]
    <2> SUFFICES ASSUME n = 3 PROVE 3 \in 1..n /\ h[3] = v[1] + v[2] + v[3]
        OBVIOUS
    <2>1. 3 \in 0..n /\ 3 \in 1..n /\ 3 - 1 = 2 /\ n >= 2
        OBVIOUS
    <2>2. h[3] = h[3 - 1] + v[3]
        BY <1>2, <2>1 DEF TotalNext
    <2> QED BY <1>5, <2>1, <2>2
<1>7. n = 1 \/ n = 2 \/ n = 3
    OBVIOUS
<1>8. CASE n = 1
    BY <1>1, <1>4, <1>8
<1>9. CASE n = 2
    BY <1>1, <1>4, <1>5, <1>9
<1>10. CASE n = 3
    BY <1>1, <1>4, <1>5, <1>6, <1>10
<1> QED BY <1>7, <1>8, <1>9, <1>10

\* The score of some hits is a number, 100 at most, whatever the severities are.
LEMMA HitScoreIs ==
    ASSUME NEW hits \in Hits, hits # <<>>
    PROVE  HitScore(hits) \in Int /\ HitScore(hits) <= 100
<1> DEFINE n == Min({3, Len(hits)})
           Sum(top) == Total([i \in 1..n |-> hits[top[i]].severity])
           sums == {Sum(top) : top \in Injection(1..n, DOMAIN hits)}
<1>1. /\ DOMAIN hits = 1..Len(hits) /\ Len(hits) \in Nat \ {0}
      /\ \A i \in DOMAIN hits : hits[i].severity \in Int
    BY HitsAre
<1>2. n \in 1..3 /\ n <= Len(hits)
    <2>1. 3 \in Int /\ Len(hits) \in Int
        BY <1>1
    <2>2. n \in {3, Len(hits)} /\ n <= 3 /\ n <= Len(hits)
        BY <2>1, MinIs, Zenon
    <2> HIDE DEF n
    <2> QED BY <1>1, <2>2, ThreeAtMost, Zenon
<1>3. PICK b \in Nat : \A i \in DOMAIN hits : hits[i].severity <= b
    BY SeverityBound
<1> HIDE DEF n
<1>4. ASSUME NEW top \in [1..n -> DOMAIN hits]
      PROVE  Sum(top) \in Int /\ Sum(top) <= b + b + b
    <2> DEFINE v == [i \in 1..n |-> hits[top[i]].severity]
    <2>1. \A i \in 1..n : v[i] \in Int /\ v[i] <= b
        BY <1>1, <1>3
    <2>2. Len(v) = n
        <3>1. v \in [1..n -> Int] /\ n \in Nat
            BY <1>2, <2>1
        <3> HIDE DEF v
        <3> QED BY <3>1
    <2> HIDE DEF v
    <2>3. Total(v) \in Int /\ Total(v) <= b + b + b
        BY <1>2, <2>1, <2>2, SmallTotal
    <2> QED BY <2>3 DEF v
<1>5. sums # {}
    <2> DEFINE top == [i \in 1..n |-> i]
    <2>1. top \in Injection(1..n, DOMAIN hits)
        <3>1. top \in [1..n -> DOMAIN hits]
            BY <1>1, <1>2
        <3>2. IsInjective(top)
            BY DEF IsInjective
        <3> QED BY <3>1, <3>2 DEF Injection
    <2> HIDE DEF top, Sum
    <2> QED BY <2>1
<1>6. sums \subseteq Int /\ \A x \in sums : x <= b + b + b
    <2>1. Injection(1..n, DOMAIN hits) \subseteq [1..n -> DOMAIN hits]
        BY DEF Injection
    <2> HIDE DEF Sum
    <2> QED BY <1>4, <2>1
<1>7. HitScore(hits) = Min({100, (Max(sums) * 10) \div n})
    BY DEF HitScore, n
<1> HIDE DEF sums, Sum
<1>8. Max(sums) \in Int
    <2>1. b + b + b \in Int
        OBVIOUS
    <2> QED BY <1>5, <1>6, <2>1, MaxIs
<1>9. (Max(sums) * 10) \div n \in Int
    BY <1>2, <1>8
<1>10. 100 \in Int
    OBVIOUS
<1> DEFINE x == (Max(sums) * 10) \div n
<1> HIDE DEF x
<1>11. Min({100, x}) \in {100, x} /\ Min({100, x}) <= 100
    BY <1>9, <1>10, MinIs, Zenon DEF x
<1> QED BY <1>7, <1>9, <1>10, <1>11, Zenon DEF x

LEMMA HitCategoryIs ==
    ASSUME NEW hits \in Hits, ~HitsRaise(hits)
    PROVE  HitCategory(hits) \in Categories
<1>1. CASE Worse(hits) = {}
    BY <1>1 DEF HitCategory, Categories
<1>2. CASE Worse(hits) # {}
    <2>1. /\ Worse(hits) \subseteq Int /\ Len(hits) \in Int
          /\ \A i \in Worse(hits) : i <= Len(hits)
        BY HitsAre DEF Worse
    <2>2. Max(Worse(hits)) \in Worse(hits)
        BY <1>2, <2>1, MaxIs, Zenon
    <2> QED BY <1>2, <2>2, Zenon DEF HitCategory, HitsRaise
<1> QED BY <1>1, <1>2

\* Each agent has a signal that AgentSignal accepts, or raises.
LEMMA CanAnswer ==
    ASSUME TypeOK, NEW a \in Agents
    PROVE  MayRaise(a, prompt) \/ Answers(a, prompt) \cap Signals # {}
<1>1. prompt \in Prompts
    BY DEF TypeOK
<1>2. CASE a = "intent_agent"
    <2>1. Signal("intent_agent", 35, "prompt_injection", 30) \in Answers(a, prompt)
        BY <1>2 DEF Answers, IntentSignals
    <2>2. Signal("intent_agent", 35, "prompt_injection", 30) \in Signals
        BY DEF Signal, Signals, Sources, Agents, Categories
    <2> QED BY <2>1, <2>2
<1>3. CASE a = "injection_agent"
    <2> DEFINE hits == prompt.hits
    <2>1. hits \in Hits
        BY <1>1, InputsAssumption DEF Prompts, Hits
    <2> HIDE DEF hits
    <2>2. CASE HitsRaise(hits)
        BY <1>3, <2>2 DEF MayRaise, hits
    <2>3. CASE ~HitsRaise(hits)
        <3>1. Answers(a, prompt) = InjectionSignals(hits)
            BY <1>3, <2>3 DEF Answers, hits
        <3>2. CASE hits = <<>>
            <4>1. Signal("injection_agent", 0, "benign", 95) \in Signals
                BY DEF Signal, Signals, Sources, Agents, Categories
            <4> QED BY <3>1, <3>2, <4>1 DEF InjectionSignals
        <3>3. CASE hits # <<>>
            <4> DEFINE c == Min({100, 20 * Len(hits) + 40})
            <4>1. HitScore(hits) \in 0..100
                <5>1. HitScore(hits) \in Int /\ HitScore(hits) <= 100
                    BY <2>1, <3>3, HitScoreIs
                <5>2. ~(HitScore(hits) < 0)
                    BY <2>3, <3>3 DEF HitsRaise
                <5> QED BY <5>1, <5>2
            <4>2. c \in 0..100
                <5>1. 100 \in Int /\ 20 * Len(hits) + 40 \in Nat
                    BY <2>1, HitsAre
                <5>2. c \in {100, 20 * Len(hits) + 40} /\ c <= 100
                    <6> DEFINE x == 20 * Len(hits) + 40
                    <6>1. x \in Int
                        BY <5>1
                    <6> HIDE DEF x
                    <6>2. Min({100, x}) \in {100, x} /\ Min({100, x}) <= 100
                        BY <5>1, <6>1, MinIs, Zenon
                    <6> QED BY <6>2 DEF x
                <5> HIDE DEF c
                <5> QED BY <5>1, <5>2
            <4>3. HitCategory(hits) \in Categories
                BY <2>1, <2>3, HitCategoryIs
            <4> HIDE DEF c
            <4>4. Signal("injection_agent", HitScore(hits), HitCategory(hits), c) \in Signals
                BY <4>1, <4>2, <4>3 DEF Signal, Signals, Sources, Agents
            <4>5. Signal("injection_agent", HitScore(hits), HitCategory(hits), c)
                     \in InjectionSignals(hits)
                BY <3>3 DEF InjectionSignals, c
            <4> QED BY <3>1, <4>4, <4>5
        <3> QED BY <3>2, <3>3
    <2> QED BY <2>2, <2>3
<1>4. CASE a = "cot_inspector"
    <2> DEFINE c == IF prompt.many THEN 30 ELSE 50
               s == CotSignal(prompt.marker, "none", c)
    <2>1. s \in Answers(a, prompt)
        BY <1>4 DEF Answers, CotSignals
    <2>2. c \in 30..50
        OBVIOUS
    <2> HIDE DEF c
    <2>3. s \in Signals
        <3>1. AnomalyScore["none"] = 0 /\ AnomalyCategory["none"] = "benign"
              /\ AnomalyCategory["boundary_probing"] = "prompt_injection"
            BY DEF AnomalyScore, AnomalyCategory
        <3>2. CASE prompt.marker
            <4>1. s = Signal("cot_inspector", Max({40, 0}), "prompt_injection", Max({60, c}))
                BY <3>1, <3>2 DEF CotSignal
            <4>2. Max({40, 0}) \in {40, 0} /\ Max({60, c}) \in {60, c}
                <5>1. 40 \in Int /\ 0 \in Int /\ 60 \in Int /\ c \in Int
                    BY <2>2
                <5> QED BY <5>1, MinIs, Zenon
            <4>3. Max({40, 0}) \in 0..100 /\ Max({60, c}) \in 0..100
                BY <2>2, <4>2
            <4> HIDE DEF s
            <4> QED BY <4>1, <4>3 DEF Signal, Signals, Sources, Agents, Categories
        <3>3. CASE ~prompt.marker
            <4>1. s = Signal("cot_inspector", 0, "benign", 90)
                BY <3>3 DEF CotSignal
            <4> HIDE DEF s
            <4> QED BY <4>1 DEF Signal, Signals, Sources, Agents, Categories
        <3> QED BY <3>2, <3>3
    <2> QED BY <2>1, <2>3
<1>5. CASE a = "fidelity_agent"
    <2>1. Answers(a, prompt) = FidelitySignals(prompt)
        BY <1>5 DEF Answers
    <2>2. /\ Signal("fidelity_agent", 100, "out_of_scope", 100) \in Signals
          /\ Signal("fidelity_agent", 60, "out_of_scope", 95) \in Signals
          /\ Signal("fidelity_agent", 0, "benign", 80) \in Signals
        BY DEF Signal, Signals, Sources, Agents, Categories
    <2> QED BY <2>1, <2>2 DEF FidelitySignals
<1> QED BY <1>2, <1>3, <1>4, <1>5 DEF Agents

-----------------------------------------------------------------------------
(* An analysis that has no verdict goes on *)

\* Agent a may end: its call hangs and is cancelled, or it is its turn to raise or to answer.
CanGo(a) ==
    \/ status[a] = "hanging"
    \/ /\ status[a] = "waiting" /\ Turn(a)
       /\ MayRaise(a, prompt) \/ Answers(a, prompt) \cap Signals # {}

CanConclude ==
    /\ AllDone
    /\ BuildRaises \/ \E risk \in RiskScores(AllSignals(NoIoc)) : risk \in 0..100

LEMMA SomeTurn ==
    ASSUME TypeOK, ~AllDone, \A a \in Agents : status[a] # "hanging"
    PROVE  \E a \in Agents : status[a] = "waiting" /\ Turn(a)
<1> DEFINE Done(a) == status[a] \in {"answered", "failed"}
<1>1. \A a \in Agents : status[a] = "waiting" \/ Done(a)
    BY DEF TypeOK
<1>2. /\ Order[1] = "intent_agent" /\ Order[2] = "injection_agent"
      /\ Order[3] = "cot_inspector" /\ Order[4] = "fidelity_agent"
      /\ DOMAIN Order = 1..4
    BY DEF Order
<1>3. Agents = {Order[1], Order[2], Order[3], Order[4]}
    BY <1>2 DEF Agents
<1>4. \A i, j \in 1..4 : Order[i] = Order[j] => i = j
    BY DEF Order
<1>5. \E k \in 1..4 : status[Order[k]] = "waiting" /\ \A i \in 1..4 : i < k => Done(Order[i])
    <2>1. \E k \in 1..4 : status[Order[k]] = "waiting"
        BY <1>1, <1>3 DEF AllDone
    <2>2. \A i \in 1..4 : status[Order[i]] = "waiting" \/ Done(Order[i])
        BY <1>1, <1>3
    <2> DEFINE S == {k \in 1..4 : status[Order[k]] = "waiting"}
    <2>3. S \subseteq Nat /\ S # {}
        BY <2>1
    <2>4. PICK k \in S : \A j \in S : k <= j
        <3> HIDE DEF S
        <3> QED BY <2>3, LeastNat, Zenon
    <2>5. ASSUME NEW i \in 1..4, i < k PROVE Done(Order[i])
        <3>1. ~(k <= i)
            BY <2>5
        <3> QED BY <2>2, <2>4, <3>1
    <2> QED BY <2>4, <2>5
<1>6. PICK k \in 1..4 : status[Order[k]] = "waiting" /\ \A i \in 1..4 : i < k => Done(Order[i])
    BY <1>5
<1>7. Turn(Order[k])
    <2>1. ASSUME NEW i \in DOMAIN Order, NEW j \in DOMAIN Order, Order[j] = Order[k], i < j
          PROVE  Done(Order[i])
        <3>1. j = k
            BY <1>2, <1>4, <2>1
        <3> QED BY <1>2, <1>6, <2>1, <3>1
    <2> QED BY <2>1, Zenon DEF Turn
<1>8. Order[k] \in Agents
    BY <1>3
<1> QED BY <1>6, <1>7, <1>8

\* In every state an analysis can be in, for any prompt, any patterns and any answers, one that
\* has no verdict can take a step that needs no answer of an LLM that hangs: an agent is
\* cancelled, raises or has a signal that AgentSignal accepts, or all are done and the policy
\* gives a score.  With GuardianStepsCount: it ends, if what can go on does.
THEOREM GuardianGoesOn ==
    Spec => [](verdict.state = "none" => CanConclude \/ \E a \in Agents : CanGo(a))
<1>1. TypeOK => (verdict.state = "none" => CanConclude \/ \E a \in Agents : CanGo(a))
    <2> SUFFICES ASSUME TypeOK, verdict.state = "none"
                 PROVE  CanConclude \/ \E a \in Agents : CanGo(a)
        OBVIOUS
    <2>1. CASE AllDone
        <3>1. NoIoc \in Matchings
            BY DEF NoIoc, Matchings, Categories
        <3>2. AllSignals(NoIoc) \in Seq(Signals)
            BY <3>1, AllSignalsType
        <3>3. \E risk \in RiskScores(AllSignals(NoIoc)) : risk \in 0..100
            BY <3>2, ScoreExists
        <3> QED BY <2>1, <3>3 DEF CanConclude
    <2>2. CASE \E a \in Agents : status[a] = "hanging"
        BY <2>2 DEF CanGo
    <2>3. CASE ~AllDone /\ \A a \in Agents : status[a] # "hanging"
        <3>1. PICK a \in Agents : status[a] = "waiting" /\ Turn(a)
            BY <2>3, SomeTurn
        <3>2. MayRaise(a, prompt) \/ Answers(a, prompt) \cap Signals # {}
            BY CanAnswer
        <3> QED BY <3>1, <3>2 DEF CanGo
    <2> QED BY <2>1, <2>2, <2>3
<1> QED BY <1>1, GuardianTypeCorrect, PTL
=============================================================================
