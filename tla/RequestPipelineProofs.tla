----------------------- MODULE RequestPipelineProofs -----------------------
(***************************************************************************)
(* Proofs about RequestPipeline, for any requests, prompts, patterns and   *)
(* assessments of the agents.                                              *)
(*                                                                         *)
(* Type correctness comes first; Fits then describes one request in each   *)
(* stage, what it has got and what the log has of it, and is shown to be   *)
(* kept by looking at one request at a time.  The refinement of Gate comes *)
(* last, step by step from Fits.                                           *)
(***************************************************************************)
EXTENDS RequestPipeline, RiskPolicyProofs, SequenceTheorems, FiniteSetTheorems,
        WellFoundedInduction, TLAPS

-----------------------------------------------------------------------------
(* Reports, decisions and the store *)

LEMMA MaxOfSmall ==
    ASSUME NEW S \in SUBSET (0..10), S # {}
    PROVE  Max(S) \in S /\ \A y \in S : Max(S) >= y
<1>1. \E x \in S : \A y \in S : x >= y
    <2>1. PICK s \in S : TRUE
        OBVIOUS
    <2> QED BY <2>1
<1> QED BY <1>1 DEF Max

LEMMA SmallestOf ==
    ASSUME NEW S, S \subseteq Nat, S # {}
    PROVE  Min(S) \in S
<1> DEFINE less == OpToRel(<, Nat)
<1>1. \E x \in S : \A y \in S : <<y, x>> \notin less
    <2> HIDE DEF less
    <2>1. IsWellFoundedOn(less, Nat)
        BY NatLessThanWellFounded DEF less
    <2> QED BY <2>1, WFMin, Zenon
<1>2. \A x \in S : \A y \in S : <<y, x>> \notin less => x <= y
    BY DEF OpToRel
<1>3. \E x \in S : \A y \in S : x <= y
    BY <1>1, <1>2, Zenon
<1> QED BY <1>3 DEF Min

LEMMA SeverityType ==
    ASSUME NEW s \in Signals
    PROVE  Severity(s) \in 0..10
<1>1. PICK x \in 0..100 : x = s.score
    BY DEF Signals
<1>2. x \div 10 \in 0..10
    BY <1>1
<1>3. {1, x \div 10} \in SUBSET (0..10) /\ {1, x \div 10} # {}
    BY <1>2
<1>4. Max({1, x \div 10}) \in {1, x \div 10}
    BY <1>3, MaxOfSmall, Zenon
<1> QED BY <1>1, <1>3, <1>4, Zenon DEF Severity

LEMMA NoIocType == NoIoc \in Matchings
BY DEF NoIoc, Matchings, Categories

LEMMA WorstMatchesType ==
    ASSUME TypeOK, NEW p \in Prompts, NEW m \in WorstMatches(p)
    PROVE  m \in Matchings
<1>1. CASE Known(p) = {}
    BY <1>1, NoIocType DEF WorstMatches
<1>2. CASE Known(p) # {}
    <2>1. m \in Known(p)
        BY <1>2 DEF WorstMatches
    <2>2. PICK k \in Matching[p] : m = store[k]
        BY <2>1 DEF Known
    <2>3. k \in Patterns
        BY PipelineAssumption
    <2> QED BY <2>2, <2>3 DEF TypeOK
<1> QED BY <1>1, <1>2

LEMMA IocSignalsType ==
    ASSUME NEW m \in Matchings
    PROVE  IocSignals(m) \in Seq(Signals)
<1>1. m.severity \in 0..10 /\ m.category \in Categories
    BY DEF Matchings
<1>2. 10 * m.severity \in 0..100
    BY <1>1
<1>3. Signal("ioc_matcher", 10 * m.severity, m.category, 90) \in Signals
    BY <1>1, <1>2 DEF Signal, Signals, Sources
<1> QED BY <1>3 DEF IocSignals

\* Where a report comes from.
LEMMA ReportSource ==
    ASSUME TypeOK, NEW p \in Prompts, NEW report \in Reports(p)
    PROVE  \E a \in Assessments : \E m \in WorstMatches(p) :
             /\ a \in Seq(Signals) /\ m \in Matchings /\ IocSignals(m) \in Seq(Signals)
             /\ report.signals = a \o IocSignals(m)
             /\ report.signals \in Seq(Signals)
             /\ report.risk \in RiskScores(report.signals)
<1>1. PICK a \in Assessments : \E m \in WorstMatches(p) :
         \E risk \in RiskScores(a \o IocSignals(m)) :
            report = [risk |-> risk, signals |-> a \o IocSignals(m)]
    <2> DEFINE lists == {l \o IocSignals(n) : l \in Assessments, n \in WorstMatches(p)}
    <2>1. Reports(p) = UNION {{[risk |-> risk, signals |-> ss] : risk \in RiskScores(ss)} : ss \in lists}
        BY DEF Reports
    <2>2. \A ss \in lists : \E l \in Assessments : \E n \in WorstMatches(p) : ss = l \o IocSignals(n)
        OBVIOUS
    <2> HIDE DEF lists
    <2>3. \E ss \in lists : report \in {[risk |-> risk, signals |-> ss] : risk \in RiskScores(ss)}
        BY <2>1
    <2>4. PICK ss \in lists : \E risk \in RiskScores(ss) : report = [risk |-> risk, signals |-> ss]
        BY <2>3
    <2>5. PICK l \in Assessments : \E n \in WorstMatches(p) : ss = l \o IocSignals(n)
        BY <2>2
    <2> QED BY <2>4, <2>5
<1>2. PICK m \in WorstMatches(p) : \E risk \in RiskScores(a \o IocSignals(m)) :
            report = [risk |-> risk, signals |-> a \o IocSignals(m)]
    BY <1>1
<1>3. a \in Seq(Signals)
    BY PipelineAssumption
<1>4. m \in Matchings
    BY WorstMatchesType
<1>5. IocSignals(m) \in Seq(Signals)
    BY <1>4, IocSignalsType
<1>6. a \o IocSignals(m) \in Seq(Signals)
    BY <1>3, <1>5, ConcatProperties, Zenon
<1>7. report.signals = a \o IocSignals(m) /\ report.risk \in RiskScores(a \o IocSignals(m))
    BY <1>2
<1> QED BY <1>2, <1>3, <1>4, <1>5, <1>6, <1>7, Zenon

LEMMA FinalType ==
    ASSUME NEW risk, NEW ss, NEW b \in {"low", "medium", "high"}, NEW marl \in Decisions[b]
    PROVE  Final(Action(risk, ss), marl) \in Actions
BY ActionType DEF Decisions, Final

LEMMA BandType ==
    ASSUME NEW risk
    PROVE  Band(risk) \in {"low", "medium", "high"}
BY DEF Band

LEMMA StoresType ==
    ASSUME TypeOK, NEW ss \in Seq(Signals), NEW f \in Stores(ss)
    PROVE  f \in [Patterns -> Matchings]
<1> DEFINE by(yields, k) == {i \in DOMAIN ss : k \in yields[i]}
           scores(yields, k) ==
               {store[k].severity} \cup {Severity(ss[i]) : i \in by(yields, k)}
           stored(yields, k) ==
               IF by(yields, k) = {} THEN store[k]
               ELSE [severity |-> Max(scores(yields, k)),
                     category |-> IF store[k] = NoIoc THEN ss[Min(by(yields, k))].category
                                  ELSE store[k].category]
<1>1. PICK yields \in [DOMAIN ss -> SUBSET Patterns] : f = [k \in Patterns |-> stored(yields, k)]
    BY Zenon DEF Stores
<1>2. ASSUME NEW k \in Patterns
      PROVE  stored(yields, k) \in Matchings
    <2>1. store[k] \in Matchings
        BY DEF TypeOK
    <2>2. CASE by(yields, k) = {}
        BY <2>1, <2>2
    <2>3. CASE by(yields, k) # {}
        <3>1. store[k].severity \in 0..10 /\ store[k].category \in Categories
            BY <2>1 DEF Matchings
        <3>2. \A i \in DOMAIN ss : ss[i] \in Signals
            OBVIOUS
        <3>3. scores(yields, k) \in SUBSET (0..10) /\ scores(yields, k) # {}
            BY <3>1, <3>2, SeverityType
        <3>4. Max(scores(yields, k)) \in 0..10
            BY <3>3, MaxOfSmall
        <3>5. Min(by(yields, k)) \in by(yields, k)
            <4>1. by(yields, k) \in SUBSET Nat /\ by(yields, k) # {}
                BY <2>3
            <4> QED BY <4>1, SmallestOf, Zenon
        <3>6. ss[Min(by(yields, k))].category \in Categories
            BY <3>2, <3>5 DEF Signals
        <3>7. stored(yields, k) =
                 [severity |-> Max(scores(yields, k)),
                  category |-> IF store[k] = NoIoc THEN ss[Min(by(yields, k))].category
                               ELSE store[k].category]
            BY <2>3, Zenon
        <3> HIDE DEF stored, scores, by
        <3> QED BY <3>1, <3>4, <3>6, <3>7 DEF Matchings
    <2> QED BY <2>2, <2>3
<1> HIDE DEF stored
<1> QED BY <1>1, <1>2

-----------------------------------------------------------------------------
(* The type invariant *)

LEMMA IngestType ==
    ASSUME TypeOK, NEW r \in Requests, NEW ss \in Seq(Signals), Ingest(r, ss)
    PROVE  store' \in [Patterns -> Matchings] /\ learned' \subseteq Requests
BY StoresType DEF Ingest, TypeOK

LEMMA ReplyType ==
    ASSUME TypeOK, NEW r \in Requests, NEW status \in Replies, Reply(r, status)
    PROVE  stage' \in [Requests -> Stages] /\ reply' \in [Requests -> Replies]
BY DEF Reply, TypeOK, Stages

LEMMA RespondType ==
    ASSUME TypeOK, NEW r \in Requests, NEW a \in Actions, Respond(r, a)
    PROVE  stage' \in [Requests -> Stages] /\ reply' \in [Requests -> Replies]
<1>1. CASE a = "block"
    BY <1>1, ReplyType DEF Respond, Replies
<1>2. CASE a = "quarantine"
    BY <1>2, ReplyType DEF Respond, Replies
<1>3. CASE a \notin Holding
    BY <1>3 DEF Respond, Holding, TypeOK, Stages, Replies
<1> QED BY <1>1, <1>2, <1>3 DEF Holding

LEMMA AuditType ==
    ASSUME TypeOK, NEW r \in Requests, NEW a \in Actions
    PROVE  Audit(r, a) \subseteq Events
BY DEF Audit, Events, TypeOK

\* What Override does, with the report and the decision it picks.
LEMMA OverrideParts ==
    ASSUME TypeOK, NEW r \in Requests, Override(r)
    PROVE  \E report \in Reports(asked[r].prompt), final \in Actions :
             /\ Action(report.risk, report.signals) # "block"
             /\ report.signals \in Seq(Signals)
             /\ published' = published \cup
                  ({r} \X (IF final \in Holding THEN Topics ELSE {"threat.detected"}))
             /\ IF final \in Holding THEN Ingest(r, report.signals) ELSE UNCHANGED <<store, learned>>
             /\ audit' = Audit(r, final)
             /\ Respond(r, final) \/ Reply(r, "500")
<1>1. PICK report \in Reports(asked[r].prompt) : \E marl \in Decisions[Band(report.risk)] :
        LET guardian == Action(report.risk, report.signals)
            final    == Final(guardian, marl)
        IN
        /\ guardian # "block"
        /\ published' = published \cup
             ({r} \X (IF final \in Holding THEN Topics ELSE {"threat.detected"}))
        /\ IF final \in Holding THEN Ingest(r, report.signals) ELSE UNCHANGED <<store, learned>>
        /\ audit' = Audit(r, Recorded(guardian, marl))
        /\ Respond(r, final) \/ Reply(r, "500")
    BY Zenon DEF Override
<1>2. PICK marl \in Decisions[Band(report.risk)] :
        LET guardian == Action(report.risk, report.signals)
            final    == Final(guardian, marl)
        IN
        /\ guardian # "block"
        /\ published' = published \cup
             ({r} \X (IF final \in Holding THEN Topics ELSE {"threat.detected"}))
        /\ IF final \in Holding THEN Ingest(r, report.signals) ELSE UNCHANGED <<store, learned>>
        /\ audit' = Audit(r, Recorded(guardian, marl))
        /\ Respond(r, final) \/ Reply(r, "500")
    BY <1>1, Zenon
<1> DEFINE final == Final(Action(report.risk, report.signals), marl)
<1>3. final \in Actions
    BY BandType, FinalType, Zenon
<1>4. report.signals \in Seq(Signals)
    <2>1. asked[r].prompt \in Prompts
        BY DEF TypeOK
    <2> QED BY <2>1, ReportSource, Zenon
<1>5. audit' = Audit(r, final)
    BY <1>2, Zenon DEF Recorded
<1> QED BY <1>2, <1>3, <1>4, <1>5, Zenon

LEMMA BlockEarlyParts ==
    ASSUME TypeOK, NEW r \in Requests, BlockEarly(r)
    PROVE  \E ss \in Seq(Signals) :
             /\ audit' = Audit(r, "block")
             /\ \/ Ingest(r, ss) /\ Reply(r, "403")
                \/ UNCHANGED <<store, learned>> /\ Reply(r, "500")
<1>1. PICK report \in Reports(asked[r].prompt) :
        /\ audit' = Audit(r, "block")
        /\ \/ Ingest(r, report.signals) /\ Reply(r, "403")
           \/ UNCHANGED <<store, learned>> /\ Reply(r, "500")
    BY Zenon DEF BlockEarly
<1>2. asked[r].prompt \in Prompts
    BY DEF TypeOK
<1>3. report.signals \in Seq(Signals)
    BY <1>2, ReportSource, Zenon
<1> QED BY <1>1, <1>3, Zenon

\* A call that is still to be made is one of the attempts allowed.
Counted == \A r \in Requests : stage[r] # "done" => attempts[r] < MaxAttempts

LEMMA Counting ==
    ASSUME NEW n \in Nat \ {0}, NEW i \in 0..n, i < n
    PROVE  i + 1 \in 0..n /\ (~(i + 1 >= n) => i + 1 < n)
OBVIOUS

LEMMA CalledType ==
    ASSUME TypeOK, Counted, NEW r \in Requests, Called(r)
    PROVE  TypeOK' /\ Counted'
<1> DEFINE n == attempts[r] + 1
<1>1. stage[r] = "calling" /\ attempts' = [attempts EXCEPT ![r] = n]
    BY DEF Called, CallAnswered, CallRejected, CallFails
<1>2. MaxAttempts \in Nat \ {0} /\ attempts[r] \in 0..MaxAttempts
    BY PipelineAssumption DEF TypeOK
<1>3. n \in 0..MaxAttempts /\ (~(n >= MaxAttempts) => n < MaxAttempts)
    BY <1>1, <1>2, Counting, Zenon DEF Counted
<1>4. attempts' \in [Requests -> 0..MaxAttempts] /\ attempts'[r] = n
    BY <1>1, <1>3 DEF TypeOK
<1>5. \A q \in Requests \ {r} : attempts'[q] = attempts[q]
    BY <1>1 DEF TypeOK
<1>6. /\ stage' \in [Requests -> Stages] /\ reply' \in [Requests -> Replies]
      /\ \A q \in Requests \ {r} : stage'[q] = stage[q]
      /\ stage'[r] # "done" => ~GivesUp(r)
    <2>1. CASE \E status \in Replies : Reply(r, status)
        BY <2>1 DEF Reply, TypeOK, Stages
    <2>2. CASE UNCHANGED <<stage, reply>> /\ ~GivesUp(r)
        BY <2>2 DEF TypeOK
    <2> QED BY <2>1, <2>2 DEF Called, CallAnswered, CallRejected, CallFails, Replies
<1>7. reached' \subseteq Requests /\ failed' \subseteq Requests
    BY DEF Called, CallAnswered, CallRejected, CallFails, Reaches, TypeOK
<1>8. UNCHANGED <<asked, store, audit, published, learned>>
    BY DEF Called, CallAnswered, CallRejected, CallFails
<1>9. stage'[r] # "done" => n < MaxAttempts
    BY <1>3, <1>6 DEF GivesUp
<1>10. TypeOK'
    BY <1>4, <1>6, <1>7, <1>8, Zenon DEF TypeOK, Events
<1>11. Counted'
    BY <1>4, <1>5, <1>6, <1>9, Zenon DEF Counted
<1> QED BY <1>10, <1>11

\* The other steps of a request leave its attempts, and go on only if it is not done.
LEMMA OtherType ==
    ASSUME TypeOK, Counted, NEW r \in Requests, stage[r] # "done",
           UNCHANGED <<asked, attempts>>,
           stage' \in [Requests -> Stages], reply' \in [Requests -> Replies],
           \A q \in Requests \ {r} : stage'[q] = stage[q],
           store' \in [Patterns -> Matchings], audit' \subseteq Events,
           published' \subseteq Requests \X Topics,
           learned' \subseteq Requests, reached' \subseteq Requests, failed' \subseteq Requests
    PROVE  TypeOK' /\ Counted'
<1>1. TypeOK'
    BY Zenon DEF TypeOK, Events
<1>2. Counted'
    BY Zenon DEF Counted
<1> QED BY <1>1, <1>2

LEMMA ReplyOthers ==
    ASSUME TypeOK, NEW r \in Requests, NEW status, Reply(r, status)
    PROVE  \A q \in Requests \ {r} : stage'[q] = stage[q] /\ reply'[q] = reply[q]
BY DEF Reply, TypeOK

LEMMA RespondOthers ==
    ASSUME TypeOK, NEW r \in Requests, NEW a, Respond(r, a)
    PROVE  \A q \in Requests \ {r} : stage'[q] = stage[q] /\ reply'[q] = reply[q]
<1>1. CASE a \in Holding
    BY <1>1, ReplyOthers DEF Respond, Holding
<1>2. CASE a \notin Holding
    BY <1>2 DEF Respond, Holding, TypeOK
<1> QED BY <1>1, <1>2

LEMMA StepType ==
    ASSUME TypeOK, Counted, [Next]_vars
    PROVE  TypeOK' /\ Counted'
<1>1. ASSUME NEW r \in Requests, Arrive(r)
      PROVE  TypeOK' /\ Counted'
    <2>1. stage' \in [Requests -> Stages] /\ \A q \in Requests \ {r} : stage'[q] = stage[q]
        BY <1>1 DEF Arrive, TypeOK, Stages
    <2> QED BY <1>1, <2>1, OtherType DEF Arrive, TypeOK
<1>2. ASSUME NEW r \in Requests, Reject(r) \/ AnalysisRaises(r)
      PROVE  TypeOK' /\ Counted'
    <2>1. PICK status \in Replies : Reply(r, status)
        BY <1>2 DEF Reject, AnalysisRaises, Replies
    <2>2. stage[r] # "done" /\ UNCHANGED <<asked, attempts, store, audit, published, learned, reached, failed>>
        BY <1>2 DEF Reject, AnalysisRaises
    <2> QED BY <2>1, <2>2, ReplyType, ReplyOthers, OtherType DEF TypeOK
<1>3. ASSUME NEW r \in Requests, BlockEarly(r)
      PROVE  TypeOK' /\ Counted'
    <2>1. PICK ss \in Seq(Signals) :
             /\ audit' = Audit(r, "block")
             /\ \/ Ingest(r, ss) /\ Reply(r, "403")
                \/ UNCHANGED <<store, learned>> /\ Reply(r, "500")
        BY <1>3, BlockEarlyParts
    <2>2. stage[r] # "done" /\ UNCHANGED <<asked, attempts, published, reached, failed>>
        BY <1>3, Zenon DEF BlockEarly
    <2>3. audit' \subseteq Events
        BY <2>1, AuditType DEF Actions
    <2>4. store' \in [Patterns -> Matchings] /\ learned' \subseteq Requests
        BY <2>1, IngestType DEF TypeOK
    <2>5. PICK status \in Replies : Reply(r, status)
        BY <2>1 DEF Replies
    <2>6. stage' \in [Requests -> Stages] /\ reply' \in [Requests -> Replies]
        BY <2>5, ReplyType
    <2>7. \A q \in Requests \ {r} : stage'[q] = stage[q]
        BY <2>5, ReplyOthers
    <2> QED BY <2>2, <2>3, <2>4, <2>6, <2>7, OtherType DEF TypeOK
<1>4. ASSUME NEW r \in Requests, Override(r)
      PROVE  TypeOK' /\ Counted'
    <2>1. PICK report \in Reports(asked[r].prompt), final \in Actions :
             /\ report.signals \in Seq(Signals)
             /\ published' = published \cup
                  ({r} \X (IF final \in Holding THEN Topics ELSE {"threat.detected"}))
             /\ IF final \in Holding THEN Ingest(r, report.signals) ELSE UNCHANGED <<store, learned>>
             /\ audit' = Audit(r, final)
             /\ Respond(r, final) \/ Reply(r, "500")
        BY <1>4, OverrideParts, Zenon
    <2>2. stage[r] # "done" /\ UNCHANGED <<asked, attempts, reached, failed>>
        BY <1>4, Zenon DEF Override
    <2>3. audit' \subseteq Events
        BY <2>1, AuditType
    <2>4. store' \in [Patterns -> Matchings] /\ learned' \subseteq Requests
        BY <2>1, IngestType DEF TypeOK
    <2>5. published' \subseteq Requests \X Topics
        BY <2>1 DEF TypeOK, Topics
    <2>6. stage' \in [Requests -> Stages] /\ reply' \in [Requests -> Replies]
        BY <2>1, RespondType, ReplyType DEF Replies
    <2>7. \A q \in Requests \ {r} : stage'[q] = stage[q]
        BY <2>1, RespondOthers, ReplyOthers
    <2> QED BY <2>2, <2>3, <2>4, <2>5, <2>6, <2>7, OtherType DEF TypeOK
<1>5. ASSUME NEW r \in Requests, Called(r)
      PROVE  TypeOK' /\ Counted'
    BY <1>5, CalledType
<1>6. ASSUME NEW r \in Requests, Streamed(r)
      PROVE  TypeOK' /\ Counted'
    <2>1. stage' \in [Requests -> Stages] /\ \A q \in Requests \ {r} : stage'[q] = stage[q]
        BY <1>6 DEF Streamed, StreamEnds, StreamFails, TypeOK, Stages
    <2>2. reached' \subseteq Requests /\ failed' \subseteq Requests
        BY <1>6 DEF Streamed, StreamEnds, StreamFails, Reaches, TypeOK
    <2>3. stage[r] # "done" /\ UNCHANGED <<asked, reply, attempts, store, audit, published, learned>>
        BY <1>6 DEF Streamed, StreamEnds, StreamFails
    <2> QED BY <2>1, <2>2, <2>3, OtherType DEF TypeOK
<1>7. ASSUME NEW k \in Patterns, Gossip(k) \/ Evict(k)
      PROVE  TypeOK' /\ Counted'
    <2>1. UNCHANGED <<asked, stage, reply, attempts, audit, published, learned, reached, failed>>
        BY <1>7 DEF Gossip, Evict
    <2>2. store' \in [Patterns -> Matchings]
        <3>1. CASE Gossip(k)
            <4>1. PICK i \in PeerIocs : store' = [store EXCEPT ![k] = Merged(store[k], i)]
                BY <3>1 DEF Gossip
            <4>2. i.severity \in 0..10 /\ i \in Matchings
                BY PipelineAssumption DEF Matchings
            <4>3. store[k] \in Matchings /\ store[k].severity \in 0..10
                BY DEF TypeOK, Matchings
            <4>4. Max({store[k].severity, i.severity}) \in 0..10
                <5>1. /\ {store[k].severity, i.severity} \in SUBSET (0..10)
                      /\ {store[k].severity, i.severity} # {}
                    BY <4>2, <4>3, Zenon
                <5>2. Max({store[k].severity, i.severity}) \in {store[k].severity, i.severity}
                    BY <5>1, MaxOfSmall, Zenon
                <5> QED BY <5>1, <5>2, Zenon
            <4>5. [store[k] EXCEPT !.severity = Max({store[k].severity, i.severity})] \in Matchings
                BY <4>3, <4>4 DEF Matchings
            <4>6. Merged(store[k], i) \in Matchings
                BY <4>2, <4>5 DEF Merged
            <4> QED BY <4>1, <4>6 DEF TypeOK
        <3>2. CASE Evict(k)
            BY <3>2, NoIocType DEF Evict, TypeOK
        <3> QED BY <1>7, <3>1, <3>2
    <2> QED BY <2>1, <2>2, Zenon DEF TypeOK, Counted, Events
<1>8. CASE UNCHANGED vars
    BY <1>8, Zenon DEF vars, TypeOK, Counted, Events
<1> QED BY <1>1, <1>2, <1>3, <1>4, <1>5, <1>6, <1>7, <1>8 DEF Next, Called, Streamed

LEMMA CountedAlways == Spec => [](TypeOK /\ Counted)
<1>1. Init => TypeOK /\ Counted
    <2> SUFFICES ASSUME Init
                 PROVE  TypeOK /\ Counted
        OBVIOUS
    <2>1. MaxAttempts \in Nat /\ 0 < MaxAttempts /\ 0 \in 0..MaxAttempts
        BY PipelineAssumption
    <2>2. store \in [Patterns -> Matchings]
        BY NoIocType DEF Init
    <2>3. attempts \in [Requests -> 0..MaxAttempts] /\ Counted
        BY <2>1 DEF Init, Counted
    <2> QED BY <2>2, <2>3 DEF Init, TypeOK, Stages, Replies
<1> QED BY <1>1, StepType, PTL DEF Spec

\* The state of every request, the IOC store and the records of the pipeline are well
\* formed; above all, a provider is called at most MaxAttempts times for a request.
THEOREM PipelineTypeCorrect == Spec => []TypeOK
BY CountedAlways, PTL

-----------------------------------------------------------------------------
(* The log, the replies and the providers *)

Undecided(r) == r \notin learned /\ r \notin reached

LetThrough(r) == \E a \in Actions \ Holding : ActionsOf(r) = {a}

\* What holds of a request in each stage.
Fits(r) ==
    /\ stage[r] \in {"new", "analysing"} =>
         Undecided(r) /\ reply[r] = "none" /\ ActionsOf(r) = {}
    /\ stage[r] = "calling" => reply[r] = "none" /\ LetThrough(r) /\ r \notin learned
    /\ stage[r] = "streaming" => reply[r] = "200" /\ LetThrough(r) /\ r \notin learned
    /\ stage[r] = "done" =>
         \/ reply[r] = "400" /\ Undecided(r) /\ ActionsOf(r) = {}
         \/ reply[r] = "500" /\ r \notin reached /\ (ActionsOf(r) = {} \/ \E a \in Actions : ActionsOf(r) = {a})
         \/ reply[r] = "403" /\ ActionsOf(r) = {"block"} /\ r \in learned /\ r \notin reached
         \/ reply[r] = "202" /\ ActionsOf(r) = {"quarantine"} /\ r \in learned /\ r \notin reached
         \/ reply[r] \in {"200", "503"} /\ LetThrough(r) /\ r \notin learned

AllFit == \A r \in Requests : Fits(r)

Aside(q) ==
    /\ stage'[q] = stage[q] /\ reply'[q] = reply[q] /\ ActionsOf(q)' = ActionsOf(q)
    /\ (q \in learned') <=> (q \in learned)
    /\ (q \in reached') <=> (q \in reached)

LEMMA AsideFits ==
    ASSUME NEW q \in Requests, Fits(q), Aside(q)
    PROVE  Fits(q)'
BY Zenon DEF Fits, Aside, Undecided, LetThrough

LEMMA AuditAdds ==
    ASSUME NEW r, NEW a, audit' = Audit(r, a)
    PROVE  /\ ActionsOf(r)' = ActionsOf(r) \cup {a}
           /\ \A q \in Requests \ {r} : ActionsOf(q)' = ActionsOf(q)
<1> DEFINE e == [request |-> r, action |-> a]
<1>1. audit' = audit \cup {e} /\ e.request = r /\ e.action = a
    BY DEF Audit
<1>2. \A q : ActionsOf(q)' = {f.action : f \in {g \in audit' : g.request = q}}
    BY DEF ActionsOf
<1> HIDE DEF e
<1>3. {g \in audit' : g.request = r} = {g \in audit : g.request = r} \cup {e}
    BY <1>1
<1>4. ActionsOf(r)' = {f.action : f \in {g \in audit : g.request = r} \cup {e}}
    BY <1>2, <1>3
<1>5. ActionsOf(r)' = ActionsOf(r) \cup {a}
    BY <1>1, <1>4 DEF ActionsOf
<1>6. ASSUME NEW q \in Requests \ {r}
      PROVE  ActionsOf(q)' = ActionsOf(q)
    <2>1. {g \in audit' : g.request = q} = {g \in audit : g.request = q}
        BY <1>1
    <2> QED BY <1>2, <2>1 DEF ActionsOf
<1> QED BY <1>5, <1>6

LEMMA AuditSame ==
    ASSUME audit' = audit
    PROVE  \A q : ActionsOf(q)' = ActionsOf(q)
BY DEF ActionsOf

\* The stage and the reply of a request after Reply(r, status).
LEMMA Replied ==
    ASSUME TypeOK, NEW r \in Requests, NEW status, Reply(r, status)
    PROVE  stage'[r] = "done" /\ reply'[r] = status
BY DEF Reply, TypeOK

LEMMA Responded ==
    ASSUME TypeOK, NEW r \in Requests, NEW a \in Actions \ Holding, Respond(r, a),
           reply[r] = "none"
    PROVE  \/ stage'[r] = "streaming" /\ reply'[r] = "200"
           \/ stage'[r] = "calling" /\ reply'[r] = "none"
BY DEF Respond, Holding, TypeOK

LEMMA BlockEarlyFits ==
    ASSUME TypeOK, NEW r \in Requests, Fits(r), BlockEarly(r)
    PROVE  Fits(r)' /\ \A q \in Requests \ {r} : Aside(q)
<1>1. PICK ss \in Seq(Signals) :
         /\ audit' = Audit(r, "block")
         /\ \/ Ingest(r, ss) /\ Reply(r, "403")
            \/ UNCHANGED <<store, learned>> /\ Reply(r, "500")
    BY BlockEarlyParts
<1>2. stage[r] = "analysing" /\ reached' = reached
    BY Zenon DEF BlockEarly
<1>3. Undecided(r) /\ ActionsOf(r) = {}
    BY <1>2 DEF Fits
<1>4. ActionsOf(r)' = {"block"} /\ \A q \in Requests \ {r} : ActionsOf(q)' = ActionsOf(q)
    BY <1>1, <1>3, AuditAdds
<1>5. /\ stage'[r] = "done"
      /\ \/ reply'[r] = "403" /\ learned' = learned \cup {r}
         \/ reply'[r] = "500" /\ learned' = learned
    BY <1>1, Replied DEF Ingest
<1>6. Fits(r)'
    BY <1>2, <1>3, <1>4, <1>5 DEF Fits, Undecided, Actions
<1>7. \A q \in Requests \ {r} : Aside(q)
    BY <1>1, <1>2, <1>4, <1>5, ReplyOthers DEF Aside
<1> QED BY <1>6, <1>7

LEMMA OverrideFits ==
    ASSUME TypeOK, NEW r \in Requests, Fits(r), Override(r)
    PROVE  Fits(r)' /\ \A q \in Requests \ {r} : Aside(q)
<1>1. PICK report \in Reports(asked[r].prompt), final \in Actions :
         /\ IF final \in Holding THEN Ingest(r, report.signals) ELSE UNCHANGED <<store, learned>>
         /\ audit' = Audit(r, final)
         /\ Respond(r, final) \/ Reply(r, "500")
    BY OverrideParts, Zenon
<1>2. stage[r] = "analysing" /\ reached' = reached
    BY Zenon DEF Override
<1>3. Undecided(r) /\ ActionsOf(r) = {} /\ reply[r] = "none"
    BY <1>2 DEF Fits
<1>4. ActionsOf(r)' = {final} /\ \A q \in Requests \ {r} : ActionsOf(q)' = ActionsOf(q)
    BY <1>1, <1>3, AuditAdds
<1>5. learned' = IF final \in Holding THEN learned \cup {r} ELSE learned
    BY <1>1 DEF Ingest
<1>6. CASE Reply(r, "500")
    <2>1. stage'[r] = "done" /\ reply'[r] = "500"
        BY <1>6, Replied
    <2> QED BY <1>2, <1>3, <1>4, <1>5, <1>6, <2>1, ReplyOthers DEF Fits, Undecided, Aside
<1>7. CASE Respond(r, final) /\ final \in Holding
    <2>1. /\ stage'[r] = "done"
          /\ \/ final = "block" /\ reply'[r] = "403"
             \/ final = "quarantine" /\ reply'[r] = "202"
        BY <1>7, Replied DEF Respond, Holding
    <2>2. Fits(r)'
        BY <1>2, <1>3, <1>4, <1>5, <1>7, <2>1 DEF Fits, Undecided
    <2> QED BY <1>2, <1>4, <1>5, <1>7, <2>2, RespondOthers DEF Aside
<1>8. CASE Respond(r, final) /\ final \notin Holding
    <2>1. \/ stage'[r] = "streaming" /\ reply'[r] = "200"
          \/ stage'[r] = "calling" /\ reply'[r] = "none"
        BY <1>3, <1>8, Responded
    <2>2. LetThrough(r)'
        BY <1>4, <1>8 DEF LetThrough
    <2>3. Fits(r)'
        BY <1>2, <1>3, <1>5, <1>8, <2>1, <2>2 DEF Fits, Undecided
    <2> QED BY <1>2, <1>4, <1>5, <1>8, <2>3, RespondOthers DEF Aside
<1> QED BY <1>1, <1>6, <1>7, <1>8

LEMMA ProviderFits ==
    ASSUME TypeOK, NEW r \in Requests, Fits(r), Called(r) \/ Streamed(r)
    PROVE  Fits(r)' /\ \A q \in Requests \ {r} : Aside(q)
<1>1. LetThrough(r)' /\ r \notin learned' /\ stage[r] \in Forwarding
    BY AuditSame DEF Called, CallAnswered, CallRejected, CallFails, Streamed, StreamEnds,
       StreamFails, Fits, LetThrough, Forwarding
<1>2. \/ stage'[r] = "done" /\ reply'[r] \in {"200", "503"}
      \/ stage'[r] = "calling" /\ reply'[r] = "none"
    <2>1. CASE \E status \in {"200", "503"} : Reply(r, status)
        BY <2>1, Replied
    <2>2. CASE stage[r] = "calling" /\ UNCHANGED <<stage, reply>>
        BY <2>2 DEF Fits
    <2>3. CASE Streamed(r)
        BY <2>3 DEF Streamed, StreamEnds, StreamFails, Fits, TypeOK
    <2> QED BY <2>1, <2>2, <2>3 DEF Called, CallAnswered, CallRejected, CallFails
<1>3. Fits(r)'
    BY <1>1, <1>2 DEF Fits
<1>4. /\ UNCHANGED <<audit, learned>>
      /\ reached' = reached \/ reached' = reached \cup {r}
    BY DEF Called, CallAnswered, CallRejected, CallFails, Streamed, StreamEnds, StreamFails, Reaches
<1>5. \A q \in Requests \ {r} : stage'[q] = stage[q] /\ reply'[q] = reply[q]
    <2>1. CASE \E status \in {"200", "503"} : Reply(r, status)
        BY <2>1, ReplyOthers
    <2>2. CASE UNCHANGED <<stage, reply>>
        BY <2>2
    <2>3. CASE Streamed(r)
        BY <2>3 DEF Streamed, StreamEnds, StreamFails, TypeOK
    <2> QED BY <2>1, <2>2, <2>3 DEF Called, CallAnswered, CallRejected, CallFails
<1> QED BY <1>3, <1>4, <1>5, AuditSame DEF Aside

LEMMA StepFits ==
    ASSUME TypeOK, AllFit, [Next]_vars
    PROVE  AllFit'
<1> USE DEF AllFit
<1>1. ASSUME NEW r \in Requests, Arrive(r)
      PROVE  AllFit'
    <2>1. stage[r] = "new" /\ stage' = [stage EXCEPT ![r] = "analysing"]
        BY <1>1 DEF Arrive
    <2>2. UNCHANGED <<reply, audit, learned, reached>>
        BY <1>1 DEF Arrive
    <2>3. Fits(r)'
        BY <2>1, <2>2, AuditSame DEF Fits, Undecided, TypeOK
    <2>4. \A q \in Requests \ {r} : Aside(q)
        BY <2>1, <2>2, AuditSame DEF Aside, TypeOK
    <2> QED BY <2>3, <2>4, AsideFits
<1>2. ASSUME NEW r \in Requests, Reject(r) \/ AnalysisRaises(r)
      PROVE  AllFit'
    <2>1. PICK status \in {"400", "500"} : Reply(r, status)
        BY <1>2 DEF Reject, AnalysisRaises
    <2>2. stage[r] \in {"new", "analysing"} /\ UNCHANGED <<audit, learned, reached>>
        BY <1>2 DEF Reject, AnalysisRaises
    <2>3. Fits(r)'
        BY <2>1, <2>2, Replied, AuditSame DEF Fits, Undecided
    <2>4. \A q \in Requests \ {r} : Aside(q)
        BY <2>1, <2>2, ReplyOthers, AuditSame DEF Aside
    <2> QED BY <2>3, <2>4, AsideFits
<1>3. ASSUME NEW r \in Requests, BlockEarly(r)
      PROVE  AllFit'
    BY <1>3, BlockEarlyFits, AsideFits
<1>4. ASSUME NEW r \in Requests, Override(r)
      PROVE  AllFit'
    BY <1>4, OverrideFits, AsideFits
<1>5. ASSUME NEW r \in Requests, Called(r) \/ Streamed(r)
      PROVE  AllFit'
    BY <1>5, ProviderFits, AsideFits
<1>6. CASE UNCHANGED <<stage, reply, audit, learned, reached>>
    BY <1>6, AuditSame, AsideFits DEF Aside
<1> QED BY <1>1, <1>2, <1>3, <1>4, <1>5, <1>6
           DEF Next, Called, Streamed, Gossip, Evict, vars

LEMMA AllFitAlways == Spec => []AllFit
<1>1. Init => AllFit
    BY DEF Init, AllFit, Fits, Undecided, ActionsOf
<1> QED BY <1>1, StepFits, PipelineTypeCorrect, PTL DEF Spec

\* No provider ever has a request that the audit log does not have as let through,
\* for any number of requests, whatever fails.
THEOREM PipelineForwardedWasAudited == Spec => []ForwardedWasAudited
<1>1. TypeOK /\ AllFit => ForwardedWasAudited
    <2> SUFFICES ASSUME TypeOK, AllFit, NEW r \in reached
                 PROVE  ActionsOf(r) # {} /\ ActionsOf(r) \cap Holding = {}
        BY DEF ForwardedWasAudited
    <2>1. r \in Requests /\ stage[r] \in Stages
        BY DEF TypeOK
    <2>2. LetThrough(r)
        BY <2>1 DEF AllFit, Fits, Undecided, Stages
    <2> QED BY <2>2 DEF LetThrough
<1> QED BY <1>1, AllFitAlways, PipelineTypeCorrect, PTL

\* The audit log and the status that a client gets agree, for every request.
THEOREM PipelineReplyMatchesAudit == Spec => []ReplyMatchesAudit
<1>1. TypeOK /\ AllFit => ReplyMatchesAudit
    <2> SUFFICES ASSUME TypeOK, AllFit, NEW r \in Requests
                 PROVE  /\ Cardinality(ActionsOf(r)) <= 1
                        /\ reply[r] = "403" => ActionsOf(r) = {"block"}
                        /\ reply[r] = "202" => ActionsOf(r) = {"quarantine"}
                        /\ reply[r] \in {"200", "503"} =>
                             ActionsOf(r) # {} /\ ActionsOf(r) \cap Holding = {}
                        /\ reply[r] = "400" => ActionsOf(r) = {}
        BY DEF ReplyMatchesAudit
    <2>1. stage[r] \in Stages /\ Fits(r)
        BY DEF AllFit, TypeOK
    <2>2. ActionsOf(r) = {} \/ \E a \in Actions : ActionsOf(r) = {a}
        BY <2>1 DEF Fits, LetThrough, Stages, Actions
    <2>3. Cardinality(ActionsOf(r)) <= 1
        <3>1. Cardinality(ActionsOf(r)) \in {0, 1}
            BY <2>2, FS_EmptySet, FS_Singleton, Zenon
        <3> QED BY <3>1
    <2>4. reply[r] \in {"200", "503"} => LetThrough(r)
        BY <2>1 DEF Fits, Stages
    <2>5. reply[r] \in {"200", "503"} => ActionsOf(r) # {} /\ ActionsOf(r) \cap Holding = {}
        BY <2>4 DEF LetThrough
    <2> QED BY <2>1, <2>3, <2>5 DEF Fits, Stages
<1> QED BY <1>1, AllFitAlways, PipelineTypeCorrect, PTL

\* Requests that are held back are learned from and those that are forwarded are not.
THEOREM PipelineHeldIsLearned == Spec => []HeldIsLearned
<1>1. TypeOK /\ AllFit => HeldIsLearned
    BY DEF HeldIsLearned, AllFit, Fits, Undecided, TypeOK, Stages
<1> QED BY <1>1, AllFitAlways, PipelineTypeCorrect, PTL

-----------------------------------------------------------------------------
(* Known threats *)

\* The signal of the IOC check is among those that are scored.
LEMMA KnownIsStrong ==
    ASSUME TypeOK, NEW p \in Prompts, NEW report \in Reports(p), NEW k \in Matching[p],
           StrongBlock(Signal("ioc_matcher", 10 * store[k].severity, "benign", 90))
    PROVE  \E i \in DOMAIN report.signals : StrongBlock(report.signals[i])
<1>1. PICK a \in Assessments, m \in WorstMatches(p) :
         /\ a \in Seq(Signals) /\ m \in Matchings /\ IocSignals(m) \in Seq(Signals)
         /\ report.signals = a \o IocSignals(m) /\ report.signals \in Seq(Signals)
    BY ReportSource, Zenon
<1>2. k \in Patterns /\ store[k] \in Matchings
    BY PipelineAssumption DEF TypeOK
<1>3. PICK x \in 0..10 : x = store[k].severity
    BY <1>2 DEF Matchings
<1>4. 10 * x >= 70 /\ 10 * x >= BlockThreshold
    BY <1>3 DEF StrongBlock, Signal
<1>5. store[k] # NoIoc
    BY <1>3, <1>4 DEF NoIoc
<1>6. m.severity >= x
    BY <1>3, <1>5 DEF WorstMatches, Known
<1>7. PICK y \in 0..10 : y = m.severity
    BY <1>1 DEF Matchings
<1>8. y # 0 /\ 10 * y >= 70 /\ 10 * y >= BlockThreshold
    <2>1. BlockThreshold \in 0..100
        BY ThresholdsAssumption
    <2> QED BY <1>3, <1>4, <1>6, <1>7, <2>1
<1>9. IocSignals(m) = <<Signal("ioc_matcher", 10 * y, m.category, 90)>>
    BY <1>7, <1>8 DEF IocSignals
<1> DEFINE last == Len(a) + 1
<1>10. last \in 1 .. Len(a) + Len(IocSignals(m)) /\ ~(last <= Len(a)) /\ last - Len(a) = 1
    <2>1. Len(IocSignals(m)) = 1
        BY <1>9
    <2>2. Len(a) \in Nat
        BY <1>1
    <2> QED BY <2>1, <2>2
<1>11. report.signals[last] = IocSignals(m)[1]
    <2>1. \A i \in 1 .. Len(a) + Len(IocSignals(m)) : (a \o IocSignals(m))[i] =
             IF i <= Len(a) THEN a[i] ELSE IocSignals(m)[i - Len(a)]
        BY <1>1, ConcatProperties, Zenon
    <2> QED BY <1>1, <1>10, <2>1, Zenon
<1>12. last \in DOMAIN report.signals
    <2>1. Len(report.signals) = Len(a) + Len(IocSignals(m))
        BY <1>1, ConcatProperties, Zenon
    <2>2. DOMAIN report.signals = 1 .. Len(report.signals)
        BY <1>1
    <2> QED BY <1>10, <2>1, <2>2, Zenon
<1>13. StrongBlock(report.signals[last])
    BY <1>8, <1>9, <1>11 DEF StrongBlock, Signal
<1> QED BY <1>12, <1>13

\* A request is never forwarded while an IOC of dominant severity at the block threshold
\* matches its prompt, however the IOC came into the store and however late, provided
\* the threshold is at most the 80 that an out-of-scope signal counts for.
THEOREM PipelineKnownThreat ==
    ASSUME BlockThreshold <= 80
    PROVE  Spec => KnownThreatIsNotForwarded
<1> DEFINE Safe ==
        \A r \in Requests :
            stage[r] = "analysing" /\ stage'[r] \in Forwarding =>
                \A k \in Matching[asked[r].prompt] :
                    ~StrongBlock(Signal("ioc_matcher", 10 * store[k].severity, "benign", 90))
<1>1. TypeOK /\ [Next]_vars => Safe
    <2> SUFFICES ASSUME TypeOK, [Next]_vars, NEW r \in Requests,
                        stage[r] = "analysing", stage'[r] \in Forwarding,
                        NEW k \in Matching[asked[r].prompt],
                        StrongBlock(Signal("ioc_matcher", 10 * store[k].severity, "benign", 90))
                 PROVE  FALSE
        OBVIOUS
    <2>1. Override(r)
        <3>1. ASSUME NEW q \in Requests, BlockEarly(q) \/ Reject(q) \/ AnalysisRaises(q)
              PROVE  stage'[r] \in {stage[r], "done"}
            <4>1. PICK status : Reply(q, status)
                BY <3>1 DEF BlockEarly, Reject, AnalysisRaises
            <4> QED BY <4>1, Replied, ReplyOthers
        <3>2. ASSUME NEW q \in Requests, Arrive(q)
              PROVE  stage'[r] = "analysing"
            BY <3>2 DEF Arrive, TypeOK
        <3>3. ASSUME NEW q \in Requests, Called(q) \/ Streamed(q)
              PROVE  q # r /\ stage'[r] = stage[r]
            <4>1. q # r
                BY <3>3 DEF Called, CallAnswered, CallRejected, CallFails, Streamed,
                   StreamEnds, StreamFails
            <4>2. CASE \E status : Reply(q, status)
                BY <4>1, <4>2, ReplyOthers
            <4>3. CASE UNCHANGED stage \/ stage' = [stage EXCEPT ![q] = "done"]
                BY <4>1, <4>3 DEF TypeOK
            <4> QED BY <3>3, <4>1, <4>2, <4>3 DEF Called, CallAnswered, CallRejected,
                   CallFails, Streamed, StreamEnds, StreamFails
        <3>4. ASSUME NEW q \in Requests, Override(q), q # r
              PROVE  stage'[r] = stage[r]
            BY <3>4, OverrideParts, RespondOthers, ReplyOthers
        <3>5. CASE UNCHANGED stage
            BY <3>5 DEF Forwarding
        <3> QED BY <3>1, <3>2, <3>3, <3>4, <3>5
                   DEF Next, Called, Streamed, Gossip, Evict, vars, Forwarding
    <2>2. PICK report \in Reports(asked[r].prompt) : Action(report.risk, report.signals) # "block"
        BY <2>1, OverrideParts
    <2>3. asked[r].prompt \in Prompts
        BY DEF TypeOK
    <2>4. PICK i \in DOMAIN report.signals : StrongBlock(report.signals[i])
        BY <2>3, KnownIsStrong
    <2>5. report.signals \in Seq(Signals) /\ report.risk \in RiskScores(report.signals)
        BY <2>3, ReportSource, Zenon
    <2>6. report.risk >= BlockThreshold
        BY <2>4, <2>5, StrongScore
    <2> QED BY <2>2, <2>6 DEF Action, ActionFor
<1>2. [][Safe]_vars => KnownThreatIsNotForwarded
    BY DEF KnownThreatIsNotForwarded
<1> QED BY <1>1, <1>2, PipelineTypeCorrect, PTL DEF Spec

-----------------------------------------------------------------------------
(* The promise of the gate *)

\* A step of the gate for one request, from what is seen of each.
LEMMA SeenBecomes ==
    ASSUME NEW r \in Requests, NEW s, Seen(r)' = s,
           \A q \in Requests \ {r} : Seen(q)' = Seen(q)
    PROVE  Gate!Becomes(r, s)
<1> DEFINE f == [q \in Requests |-> Seen(q)]
<1>1. f' = [q \in Requests |-> Seen(q)']
    OBVIOUS
<1>2. [q \in Requests |-> Seen(q)'] = [f EXCEPT ![r] = s]
    OBVIOUS
<1> QED BY <1>1, <1>2, Zenon DEF Gate!Becomes

\* What Gate sees of a request is as it was when all it depends on is.
LEMMA AsideSeen ==
    ASSUME NEW q \in Requests, Aside(q), attempts'[q] = attempts[q]
    PROVE  Seen(q)' = Seen(q)
<1>1. (q \in learned') = (q \in learned) /\ (q \in reached') = (q \in reached)
    BY DEF Aside
<1> QED BY <1>1, Zenon DEF Aside, Seen

LEMMA AsideGate ==
    ASSUME \A q \in Requests : Seen(q)' = Seen(q)
    PROVE  UNCHANGED Gate!vars
BY DEF Gate!vars

\* The parts of what is seen.
LEMMA SeenIs ==
    ASSUME NEW r \in Requests
    PROVE  [q \in Requests |-> Seen(q)][r] = Seen(r)
OBVIOUS

\* The record that Gate has of a request, and what its updates make of it.
Line(phase, recorded, answer, calls, received, learnt) ==
    [phase |-> phase, recorded |-> recorded, answer |-> answer, calls |-> calls,
     received |-> received, learned |-> learnt]
LEMMA SeenLine ==
    ASSUME NEW r
    PROVE  /\ Seen(r) = Line(Phase[stage[r]], ActionsOf(r), Meaning(reply[r]), attempts[r],
                             r \in reached, r \in learned)
           /\ Seen(r)' = Line(Phase[stage'[r]], ActionsOf(r)', Meaning(reply'[r]), attempts'[r],
                             r \in reached', r \in learned')
BY Zenon DEF Seen, Line, Phase, Meaning

-----------------------------------------------------------------------------
(* When a change of what is seen of one request is a step of the gate *)

\* Only r changes, from the line s to the line t.
Moves(r, s, t) ==
    /\ Seen(r) = s /\ Seen(r)' = t
    /\ \A q \in Requests \ {r} : Seen(q)' = Seen(q)

LEMMA MoveBecomes ==
    ASSUME NEW r \in Requests, NEW s, NEW t, Moves(r, s, t)
    PROVE  [q \in Requests |-> Seen(q)][r] = s /\ Gate!Becomes(r, t)
BY SeenBecomes, SeenIs, Zenon DEF Moves

LEMMA RefuseMove ==
    ASSUME NEW r \in Requests, NEW v, NEW a, NEW n, NEW x, NEW l,
           Moves(r, Line("open", v, a, n, x, l), Line("closed", v, "error", n, x, l))
    PROVE  Gate!Refuse(r)
<1> DEFINE was == [q \in Requests |-> Seen(q)][r]
           s == Line("open", v, a, n, x, l)
           t == Line("closed", v, "error", n, x, l)
<1>1. was = s /\ Gate!Becomes(r, t)
    BY MoveBecomes
<1>2. s.phase = "open"
    BY DEF Line
<1>3. t = Gate!Closed(s, "error")
    <2>1. [s EXCEPT !.phase = "closed"] = Line("closed", v, a, n, x, l)
        BY DEF Line
    <2>2. [Line("closed", v, a, n, x, l) EXCEPT !.answer = "error"] = t
        BY DEF Line
    <2> QED BY <2>1, <2>2, Zenon DEF Gate!Closed
<1> HIDE DEF s, t
<1>4. was.phase = "open" /\ Gate!Becomes(r, Gate!Closed(was, "error"))
    BY <1>1, <1>2, <1>3, Zenon
<1> QED BY <1>4, Zenon DEF Gate!Refuse

LEMMA HoldMove ==
    ASSUME NEW r \in Requests, NEW v, NEW a, NEW n, NEW x, NEW l, NEW w \in Holding \cap Actions,
           NEW learnt \in BOOLEAN, NEW b \in IF learnt THEN {w, "error"} ELSE {"error"},
           Moves(r, Line("open", v, a, n, x, l), Line("closed", {w}, b, n, x, learnt))
    PROVE  Gate!Hold(r)
<1> DEFINE was == [q \in Requests |-> Seen(q)][r]
           s == Line("open", v, a, n, x, l)
           t == Line("closed", {w}, b, n, x, learnt)
<1>1. was = s /\ Gate!Becomes(r, t)
    BY MoveBecomes
<1>2. s.phase = "open"
    BY DEF Line
<1>3. t = [Gate!Closed(s, b) EXCEPT !.recorded = {w}, !.learned = learnt]
    <2>1. [s EXCEPT !.phase = "closed"] = Line("closed", v, a, n, x, l)
        BY DEF Line
    <2>2. [Line("closed", v, a, n, x, l) EXCEPT !.answer = b] = Line("closed", v, b, n, x, l)
        BY DEF Line
    <2>3. [Line("closed", v, b, n, x, l) EXCEPT !.recorded = {w}] = Line("closed", {w}, b, n, x, l)
        BY DEF Line
    <2>4. [Line("closed", {w}, b, n, x, l) EXCEPT !.learned = learnt] = t
        BY DEF Line
    <2> QED BY <2>1, <2>2, <2>3, <2>4, Zenon DEF Gate!Closed
<1> HIDE DEF s, t
<1>4. was.phase = "open" /\ Gate!Becomes(r, [Gate!Closed(was, b) EXCEPT !.recorded = {w}, !.learned = learnt])
    BY <1>1, <1>2, <1>3, Zenon
<1> QED BY <1>4, Zenon DEF Gate!Hold

LEMMA PassMove ==
    ASSUME NEW r \in Requests, NEW v, NEW a, NEW n, NEW x, NEW l, NEW w \in Actions \ Holding,
           NEW b \in {"none", "ok"},
           Moves(r, Line("open", v, a, n, x, l), Line("passed", {w}, b, n, x, l))
    PROVE  Gate!Pass(r)
<1> DEFINE was == [q \in Requests |-> Seen(q)][r]
           s == Line("open", v, a, n, x, l)
           t == Line("passed", {w}, b, n, x, l)
<1>1. was = s /\ Gate!Becomes(r, t)
    BY MoveBecomes
<1>2. s.phase = "open"
    BY DEF Line
<1>3. t = [s EXCEPT !.phase = "passed", !.recorded = {w}, !.answer = b]
    <2>1. [s EXCEPT !.phase = "passed"] = Line("passed", v, a, n, x, l)
        BY DEF Line
    <2>2. [Line("passed", v, a, n, x, l) EXCEPT !.recorded = {w}] = Line("passed", {w}, a, n, x, l)
        BY DEF Line
    <2>3. [Line("passed", {w}, a, n, x, l) EXCEPT !.answer = b] = t
        BY DEF Line
    <2> QED BY <2>1, <2>2, <2>3, Zenon
<1> HIDE DEF s, t
<1>4. was.phase = "open" /\ Gate!Becomes(r, [was EXCEPT !.phase = "passed", !.recorded = {w}, !.answer = b])
    BY <1>1, <1>2, <1>3, Zenon
<1> QED BY <1>4, Zenon DEF Gate!Pass

LEMMA PassErrorMove ==
    ASSUME NEW r \in Requests, NEW v, NEW a, NEW n, NEW x, NEW l, NEW w \in Actions \ Holding,
           Moves(r, Line("open", v, a, n, x, l), Line("closed", {w}, "error", n, x, l))
    PROVE  Gate!Pass(r)
<1> DEFINE was == [q \in Requests |-> Seen(q)][r]
           s == Line("open", v, a, n, x, l)
           t == Line("closed", {w}, "error", n, x, l)
<1>1. was = s /\ Gate!Becomes(r, t)
    BY MoveBecomes
<1>2. s.phase = "open"
    BY DEF Line
<1>3. t = [Gate!Closed(s, "error") EXCEPT !.recorded = {w}]
    <2>1. [s EXCEPT !.phase = "closed"] = Line("closed", v, a, n, x, l)
        BY DEF Line
    <2>2. [Line("closed", v, a, n, x, l) EXCEPT !.answer = "error"] = Line("closed", v, "error", n, x, l)
        BY DEF Line
    <2>3. [Line("closed", v, "error", n, x, l) EXCEPT !.recorded = {w}] = t
        BY DEF Line
    <2> QED BY <2>1, <2>2, <2>3, Zenon DEF Gate!Closed
<1> HIDE DEF s, t
<1>4. was.phase = "open" /\ Gate!Becomes(r, [Gate!Closed(was, "error") EXCEPT !.recorded = {w}])
    BY <1>1, <1>2, <1>3, Zenon
<1> QED BY <1>4, Zenon DEF Gate!Pass

LEMMA CallMove ==
    ASSUME NEW r \in Requests, NEW v, NEW n, NEW x, NEW l, NEW y \in {TRUE, x},
           NEW b \in IF y THEN {"ok", "error"} ELSE {"error"}, n < MaxAttempts,
           Moves(r, Line("passed", v, "none", n, x, l), Line("closed", v, b, n + 1, y, l))
    PROVE  Gate!Call(r)
<1> DEFINE was == [q \in Requests |-> Seen(q)][r]
           s == Line("passed", v, "none", n, x, l)
           t == Line("closed", v, b, n + 1, y, l)
<1>1. was = s /\ Gate!Becomes(r, t)
    BY MoveBecomes
<1>2. s.phase = "passed" /\ s.answer = "none" /\ s.calls = n /\ s.received = x
    BY DEF Line
<1>3. t = [Gate!Closed(s, b) EXCEPT !.calls = @ + 1, !.received = y]
    <2>1. [s EXCEPT !.phase = "closed"] = Line("closed", v, "none", n, x, l)
        BY DEF Line
    <2>2. [Line("closed", v, "none", n, x, l) EXCEPT !.answer = b] = Line("closed", v, b, n, x, l)
        BY DEF Line
    <2>3. Line("closed", v, b, n, x, l).calls = n
        BY DEF Line
    <2>4. [Line("closed", v, b, n, x, l) EXCEPT !.calls = n + 1] = Line("closed", v, b, n + 1, x, l)
        BY DEF Line
    <2>5. [Line("closed", v, b, n + 1, x, l) EXCEPT !.received = y] = t
        BY DEF Line
    <2> QED BY <2>1, <2>2, <2>3, <2>4, <2>5, Zenon DEF Gate!Closed
<1> HIDE DEF s, t
<1>4. /\ was.phase = "passed" /\ was.answer = "none" /\ was.calls < MaxAttempts
      /\ y \in {TRUE, was.received}
      /\ Gate!Becomes(r, [Gate!Closed(was, b) EXCEPT !.calls = @ + 1, !.received = y])
    BY <1>1, <1>2, <1>3, Zenon
<1> QED BY <1>4, Zenon DEF Gate!Call

LEMMA RetryMove ==
    ASSUME NEW r \in Requests, NEW v, NEW n, NEW x, NEW l, NEW y \in {TRUE, x},
           n + 1 < MaxAttempts,
           Moves(r, Line("passed", v, "none", n, x, l), Line("passed", v, "none", n + 1, y, l))
    PROVE  Gate!Retry(r)
<1> DEFINE was == [q \in Requests |-> Seen(q)][r]
           s == Line("passed", v, "none", n, x, l)
           t == Line("passed", v, "none", n + 1, y, l)
<1>1. was = s /\ Gate!Becomes(r, t)
    BY MoveBecomes
<1>2. s.phase = "passed" /\ s.answer = "none" /\ s.calls = n /\ s.received = x
    BY DEF Line
<1>3. t = [s EXCEPT !.calls = @ + 1, !.received = y]
    <2>1. [s EXCEPT !.calls = n + 1] = Line("passed", v, "none", n + 1, x, l)
        BY DEF Line
    <2>2. [Line("passed", v, "none", n + 1, x, l) EXCEPT !.received = y] = t
        BY DEF Line
    <2> QED BY <1>2, <2>1, <2>2, Zenon
<1> HIDE DEF s, t
<1>4. /\ was.phase = "passed" /\ was.answer = "none" /\ was.calls + 1 < MaxAttempts
      /\ y \in {TRUE, was.received}
      /\ Gate!Becomes(r, [was EXCEPT !.calls = @ + 1, !.received = y])
    BY <1>1, <1>2, <1>3, Zenon
<1> QED BY <1>4, Zenon DEF Gate!Retry

LEMMA EndMove ==
    ASSUME NEW r \in Requests, NEW v, NEW n, NEW x, NEW l, NEW y \in {TRUE, x},
           Moves(r, Line("passed", v, "ok", n, x, l), Line("closed", v, "ok", n, y, l))
    PROVE  Gate!EndStream(r)
<1> DEFINE was == [q \in Requests |-> Seen(q)][r]
           s == Line("passed", v, "ok", n, x, l)
           t == Line("closed", v, "ok", n, y, l)
<1>1. was = s /\ Gate!Becomes(r, t)
    BY MoveBecomes
<1>2. s.phase = "passed" /\ s.answer = "ok" /\ s.received = x
    BY DEF Line
<1>3. t = [s EXCEPT !.phase = "closed", !.received = y]
    <2>1. [s EXCEPT !.phase = "closed"] = Line("closed", v, "ok", n, x, l)
        BY DEF Line
    <2>2. [Line("closed", v, "ok", n, x, l) EXCEPT !.received = y] = t
        BY DEF Line
    <2> QED BY <2>1, <2>2, Zenon
<1> HIDE DEF s, t
<1>4. /\ was.phase = "passed" /\ was.answer = "ok" /\ y \in {TRUE, was.received}
      /\ Gate!Becomes(r, [was EXCEPT !.phase = "closed", !.received = y])
    BY <1>1, <1>2, <1>3, Zenon
<1> QED BY <1>4, Zenon DEF Gate!EndStream
-----------------------------------------------------------------------------
(* The steps of a request *)

LEMMA RefuseStep ==
    ASSUME TypeOK, NEW r \in Requests, Reject(r) \/ AnalysisRaises(r)
    PROVE  Gate!Refuse(r)
<1> DEFINE v == ActionsOf(r)
           a == Meaning(reply[r])
           n == attempts[r]
           x == r \in reached
           l == r \in learned
<1>1. PICK status \in {"400", "500"} : Reply(r, status)
    BY DEF Reject, AnalysisRaises
<1>2. /\ stage[r] \in {"new", "analysing"}
      /\ UNCHANGED <<attempts, audit, learned, reached>>
    BY DEF Reject, AnalysisRaises
<1>3. Phase[stage'[r]] = "closed" /\ Meaning(reply'[r]) = "error" /\ Phase[stage[r]] = "open"
    BY <1>1, <1>2, Replied DEF Phase, Meaning
<1>4. \A q \in Requests \ {r} : Seen(q)' = Seen(q)
    BY <1>1, <1>2, ReplyOthers, AuditSame, AsideSeen DEF Aside
<1>5. ActionsOf(r)' = v
    BY <1>2, AuditSame
<1>6. Moves(r, Line("open", v, a, n, x, l), Line("closed", v, "error", n, x, l))
    BY <1>2, <1>3, <1>4, <1>5, SeenLine, Zenon DEF Moves
<1> QED BY <1>6, RefuseMove, Zenon

LEMMA BlockEarlyStep ==
    ASSUME TypeOK, NEW r \in Requests, Fits(r), BlockEarly(r)
    PROVE  Gate!Hold(r)
<1> DEFINE a == Meaning(reply[r])
           n == attempts[r]
           x == r \in reached
           l == r \in learned
<1>1. PICK ss \in Seq(Signals) :
         /\ audit' = Audit(r, "block")
         /\ \/ Ingest(r, ss) /\ Reply(r, "403")
            \/ UNCHANGED <<store, learned>> /\ Reply(r, "500")
    BY BlockEarlyParts
<1>2. stage[r] = "analysing" /\ UNCHANGED <<attempts, reached>>
    BY Zenon DEF BlockEarly
<1>3. ActionsOf(r) = {} /\ r \notin learned
    BY <1>2 DEF Fits, Undecided
<1>4. ActionsOf(r)' = {"block"}
    BY <1>1, <1>3, AuditAdds
<1>5. \A q \in Requests \ {r} : Seen(q)' = Seen(q)
    BY <1>2, BlockEarlyFits, AsideSeen
<1>6. "block" \in Holding \cap Actions
    BY DEF Holding, Actions
<1>7. CASE Ingest(r, ss) /\ Reply(r, "403")
    <2>1. Phase[stage'[r]] = "closed" /\ Meaning(reply'[r]) = "block" /\ Phase[stage[r]] = "open"
        BY <1>2, <1>7, Replied DEF Phase, Meaning
    <2>2. (r \in learned') = TRUE
        BY <1>7 DEF Ingest
    <2>3. Moves(r, Line("open", ActionsOf(r), a, n, x, l), Line("closed", {"block"}, "block", n, x, TRUE))
        BY <1>2, <1>4, <1>5, <2>1, <2>2, SeenLine, Zenon DEF Moves
    <2>4. "block" \in IF TRUE THEN {"block", "error"} ELSE {"error"}
        OBVIOUS
    <2> QED BY <1>6, <2>3, <2>4, HoldMove, Zenon
<1>8. CASE UNCHANGED learned /\ Reply(r, "500")
    <2>1. Phase[stage'[r]] = "closed" /\ Meaning(reply'[r]) = "error" /\ Phase[stage[r]] = "open"
        BY <1>2, <1>8, Replied DEF Phase, Meaning
    <2>2. (r \in learned') = FALSE
        BY <1>3, <1>8
    <2>3. Moves(r, Line("open", ActionsOf(r), a, n, x, l), Line("closed", {"block"}, "error", n, x, FALSE))
        BY <1>2, <1>4, <1>5, <2>1, <2>2, SeenLine, Zenon DEF Moves
    <2>4. "error" \in IF FALSE THEN {"block", "error"} ELSE {"error"}
        OBVIOUS
    <2> QED BY <1>6, <2>3, <2>4, HoldMove, Zenon
<1> QED BY <1>1, <1>7, <1>8

LEMMA OverrideStep ==
    ASSUME TypeOK, NEW r \in Requests, Fits(r), Override(r)
    PROVE  Gate!Hold(r) \/ Gate!Pass(r)
<1> DEFINE v == ActionsOf(r)
           a == Meaning(reply[r])
           n == attempts[r]
           x == r \in reached
           l == r \in learned
<1>1. PICK report \in Reports(asked[r].prompt), final \in Actions :
         /\ IF final \in Holding THEN Ingest(r, report.signals) ELSE UNCHANGED <<store, learned>>
         /\ audit' = Audit(r, final)
         /\ Respond(r, final) \/ Reply(r, "500")
    BY OverrideParts, Zenon
<1>2. stage[r] = "analysing" /\ UNCHANGED <<attempts, reached>>
    BY Zenon DEF Override
<1>3. ActionsOf(r) = {} /\ r \notin learned /\ reply[r] = "none"
    BY <1>2 DEF Fits, Undecided
<1>4. ActionsOf(r)' = {final}
    BY <1>1, <1>3, AuditAdds
<1>5. \A q \in Requests \ {r} : Seen(q)' = Seen(q)
    BY <1>2, OverrideFits, AsideSeen
<1>6. Phase[stage[r]] = "open"
    BY <1>2 DEF Phase
<1>7. CASE final \in Holding
    <2>1. final \in Holding \cap Actions
        BY <1>7
    <2>2. (r \in learned') = TRUE
        BY <1>1, <1>7 DEF Ingest
    <2>3. PICK b \in {final, "error"} : Meaning(reply'[r]) = b /\ stage'[r] = "done"
        <3>1. CASE Reply(r, "500")
            BY <3>1, Replied DEF Meaning
        <3>2. CASE Respond(r, final)
            BY <1>7, <3>2, Replied DEF Respond, Holding, Meaning
        <3> QED BY <1>1, <3>1, <3>2
    <2>4. Phase[stage'[r]] = "closed"
        BY <2>3 DEF Phase
    <2>5. Moves(r, Line("open", v, a, n, x, l), Line("closed", {final}, b, n, x, TRUE))
        BY <1>2, <1>4, <1>5, <1>6, <2>2, <2>3, <2>4, SeenLine, Zenon DEF Moves
    <2>6. b \in IF TRUE THEN {final, "error"} ELSE {"error"}
        OBVIOUS
    <2> QED BY <2>1, <2>5, <2>6, HoldMove, Zenon
<1>8. CASE final \notin Holding
    <2>1. final \in Actions \ Holding
        BY <1>8
    <2>2. learned' = learned
        BY <1>1, <1>8
    <2>3. CASE Reply(r, "500")
        <3>1. Phase[stage'[r]] = "closed" /\ Meaning(reply'[r]) = "error"
            BY <2>3, Replied DEF Phase, Meaning
        <3>2. Moves(r, Line("open", v, a, n, x, l), Line("closed", {final}, "error", n, x, l))
            BY <1>2, <1>4, <1>5, <1>6, <2>2, <3>1, SeenLine, Zenon DEF Moves
        <3> QED BY <2>1, <3>2, PassErrorMove, Zenon
    <2>4. CASE Respond(r, final)
        <3>1. \/ stage'[r] = "streaming" /\ reply'[r] = "200"
              \/ stage'[r] = "calling" /\ reply'[r] = "none"
            BY <1>3, <2>1, <2>4, Responded
        <3>2. PICK b \in {"none", "ok"} : Meaning(reply'[r]) = b /\ Phase[stage'[r]] = "passed"
            BY <3>1 DEF Meaning, Phase
        <3>3. Moves(r, Line("open", v, a, n, x, l), Line("passed", {final}, b, n, x, l))
            BY <1>2, <1>4, <1>5, <1>6, <2>2, <3>2, SeenLine, Zenon DEF Moves
        <3> QED BY <2>1, <3>3, PassMove, Zenon
    <2> QED BY <1>1, <2>3, <2>4
<1> QED BY <1>7, <1>8

LEMMA CalledStep ==
    ASSUME TypeOK, Counted, NEW r \in Requests, Fits(r), Called(r)
    PROVE  Gate!Call(r) \/ Gate!Retry(r)
<1> DEFINE v == ActionsOf(r)
           n == attempts[r]
           x == r \in reached
           l == r \in learned
           y == r \in reached'
<1>1. stage[r] = "calling" /\ attempts' = [attempts EXCEPT ![r] = n + 1]
    BY DEF Called, CallAnswered, CallRejected, CallFails
<1>2. attempts'[r] = n + 1 /\ \A q \in Requests \ {r} : attempts'[q] = attempts[q]
    BY <1>1 DEF TypeOK
<1>3. n < MaxAttempts
    BY <1>1 DEF Counted
<1>4. reply[r] = "none" /\ Phase[stage[r]] = "passed" /\ Meaning(reply[r]) = "none"
    BY <1>1 DEF Fits, Phase, Meaning
<1>5. UNCHANGED <<audit, learned>>
    BY DEF Called, CallAnswered, CallRejected, CallFails
<1>6. ActionsOf(r)' = v
    BY <1>5, AuditSame
<1>7. \A q \in Requests \ {r} : Seen(q)' = Seen(q)
    BY <1>2, ProviderFits, AsideSeen
<1>8. y \in {TRUE, x}
    BY DEF Called, CallAnswered, CallRejected, CallFails, Reaches
<1>9. ASSUME NEW b \in IF y THEN {"ok", "error"} ELSE {"error"},
             NEW status, Reply(r, status), Meaning(status) = b
      PROVE  Gate!Call(r)
    <2>1. Phase[stage'[r]] = "closed" /\ Meaning(reply'[r]) = b
        BY <1>9, Replied DEF Phase
    <2>2. Moves(r, Line("passed", v, "none", n, x, l), Line("closed", v, b, n + 1, y, l))
        BY <1>2, <1>4, <1>5, <1>6, <1>7, <2>1, SeenLine, Zenon DEF Moves
    <2> HIDE DEF v, n, x, y, l
    <2> QED BY <1>3, <1>8, <2>2, CallMove, Zenon DEF n
<1>10. CASE CallAnswered(r)
    <2>1. y = TRUE /\ Reply(r, "200") /\ Meaning("200") = "ok"
        BY <1>10 DEF CallAnswered, Reaches, Meaning
    <2>2. "ok" \in IF y THEN {"ok", "error"} ELSE {"error"}
        BY <2>1
    <2> QED BY <1>9, <2>1, <2>2, Zenon
<1>11. CASE Reply(r, "503")
    <2>1. Meaning("503") = "error"
        BY DEF Meaning
    <2>2. "error" \in IF y THEN {"ok", "error"} ELSE {"error"}
        OBVIOUS
    <2> QED BY <1>9, <1>11, <2>1, <2>2, Zenon
<1>12. CASE UNCHANGED <<stage, reply>> /\ ~GivesUp(r)
    <2>1. n + 1 < MaxAttempts
        BY <1>12, PipelineAssumption DEF GivesUp, TypeOK
    <2>2. Phase[stage'[r]] = "passed" /\ Meaning(reply'[r]) = "none"
        BY <1>4, <1>12
    <2>3. Moves(r, Line("passed", v, "none", n, x, l), Line("passed", v, "none", n + 1, y, l))
        BY <1>2, <1>4, <1>5, <1>6, <1>7, <2>2, SeenLine, Zenon DEF Moves
    <2> HIDE DEF v, n, x, y, l
    <2> QED BY <1>8, <2>1, <2>3, RetryMove, Zenon
<1> QED BY <1>10, <1>11, <1>12 DEF Called, CallRejected, CallFails

LEMMA StreamedStep ==
    ASSUME TypeOK, NEW r \in Requests, Fits(r), Streamed(r)
    PROVE  Gate!EndStream(r)
<1> DEFINE v == ActionsOf(r)
           n == attempts[r]
           x == r \in reached
           l == r \in learned
           y == r \in reached'
<1>1. /\ stage[r] = "streaming" /\ stage' = [stage EXCEPT ![r] = "done"]
      /\ UNCHANGED <<reply, attempts, audit, learned>>
    BY DEF Streamed, StreamEnds, StreamFails
<1>2. reply[r] = "200"
    BY <1>1 DEF Fits
<1>3. /\ Phase[stage[r]] = "passed" /\ Meaning(reply[r]) = "ok"
      /\ Phase[stage'[r]] = "closed" /\ Meaning(reply'[r]) = "ok"
    BY <1>1, <1>2 DEF Phase, Meaning, TypeOK
<1>4. ActionsOf(r)' = v
    BY <1>1, AuditSame
<1>5. \A q \in Requests \ {r} : Seen(q)' = Seen(q)
    BY <1>1, ProviderFits, AsideSeen
<1>6. y \in {TRUE, x}
    BY DEF Streamed, StreamEnds, StreamFails, Reaches
<1>7. Moves(r, Line("passed", v, "ok", n, x, l), Line("closed", v, "ok", n, y, l))
    BY <1>1, <1>3, <1>4, <1>5, SeenLine, Zenon DEF Moves
<1> HIDE DEF v, n, x, y, l
<1> QED BY <1>6, <1>7, EndMove, Zenon

\* What leaves the state of the requests alone, or only takes one up, the gate does not see.
LEMMA UnseenStep ==
    ASSUME TypeOK, UNCHANGED <<reply, attempts, audit, learned, reached>>,
           \A q \in Requests : stage'[q] = stage[q] \/ (stage[q] = "new" /\ stage'[q] = "analysing")
    PROVE  UNCHANGED Gate!vars
<1>1. ASSUME NEW q \in Requests
      PROVE  Seen(q)' = Seen(q)
    <2>1. Phase[stage'[q]] = Phase[stage[q]]
        BY DEF Phase
    <2>2. ActionsOf(q)' = ActionsOf(q)
        BY AuditSame
    <2>3. reply' = reply /\ attempts' = attempts /\ learned' = learned /\ reached' = reached
        OBVIOUS
    <2>4. Seen(q)' = Line(Phase[stage[q]], ActionsOf(q), Meaning(reply[q]), attempts[q],
                         q \in reached, q \in learned)
        BY <2>1, <2>2, <2>3, SeenLine, Zenon
    <2> QED BY <2>4, SeenLine, Zenon
<1> QED BY <1>1, AsideGate

LEMMA GateStep ==
    ASSUME TypeOK, Counted, AllFit, [Next]_vars
    PROVE  Gate!Next \/ UNCHANGED Gate!vars
<1>1. ASSUME NEW r \in Requests, Arrive(r)
      PROVE  UNCHANGED Gate!vars
    <2>1. \A q \in Requests : stage'[q] = stage[q] \/ (stage[q] = "new" /\ stage'[q] = "analysing")
        BY <1>1 DEF Arrive, TypeOK
    <2> QED BY <1>1, <2>1, UnseenStep DEF Arrive
<1>2. ASSUME NEW r \in Requests, Reject(r) \/ AnalysisRaises(r)
      PROVE  Gate!Next
    BY <1>2, RefuseStep, Zenon DEF Gate!Next
<1>3. ASSUME NEW r \in Requests, BlockEarly(r)
      PROVE  Gate!Next
    BY <1>3, BlockEarlyStep, Zenon DEF Gate!Next, AllFit
<1>4. ASSUME NEW r \in Requests, Override(r)
      PROVE  Gate!Next
    BY <1>4, OverrideStep, Zenon DEF Gate!Next, AllFit
<1>5. ASSUME NEW r \in Requests, Called(r)
      PROVE  Gate!Next
    BY <1>5, CalledStep, Zenon DEF Gate!Next, AllFit
<1>6. ASSUME NEW r \in Requests, Streamed(r)
      PROVE  Gate!Next
    BY <1>6, StreamedStep, Zenon DEF Gate!Next, AllFit
<1>7. ASSUME NEW k \in Patterns, Gossip(k) \/ Evict(k)
      PROVE  UNCHANGED Gate!vars
    BY <1>7, UnseenStep DEF Gossip, Evict
<1>8. CASE UNCHANGED vars
    BY <1>8, UnseenStep DEF vars
<1> QED BY <1>1, <1>2, <1>3, <1>4, <1>5, <1>6, <1>7, <1>8 DEF Next, Called, Streamed

\* The pipeline implements the gate: whatever MARL decides, the ledger raises, the
\* providers do and the mesh brings, each step of the handler is one step of Gate for
\* its request, or none.
THEOREM PipelineImplementsGate == Spec => ImplementsGate
<1>1. Init => Gate!Init
    <2> SUFFICES ASSUME Init, NEW r \in Requests
                 PROVE  Seen(r) = Gate!Fresh
        BY DEF Gate!Init
    <2>1. stage[r] = "new" /\ reply[r] = "none" /\ attempts[r] = 0
        BY DEF Init
    <2>2. Phase[stage[r]] = "open" /\ Meaning(reply[r]) = "none" /\ ActionsOf(r) = {}
        BY <2>1 DEF Init, Phase, Meaning, ActionsOf
    <2>3. (r \in reached) = FALSE /\ (r \in learned) = FALSE
        BY DEF Init
    <2>4. Seen(r) = Line("open", {}, "none", 0, FALSE, FALSE)
        BY <2>1, <2>2, <2>3, SeenLine, Zenon
    <2> QED BY <2>4 DEF Line, Gate!Fresh
<1>2. TypeOK /\ Counted /\ AllFit /\ [Next]_vars => [Gate!Next]_(Gate!vars)
    BY GateStep
<1> QED BY <1>1, <1>2, CountedAlways, AllFitAlways, PTL DEF Spec, ImplementsGate, Gate!Spec
=============================================================================
