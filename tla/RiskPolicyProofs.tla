-------------------------- MODULE RiskPolicyProofs --------------------------
(***************************************************************************)
(* Lemmas about RiskPolicy, for any thresholds and signals: a strong       *)
(* signal decides whatever the weighted mean is, and the mean is no higher *)
(* than the signals it is of.                                              *)
(***************************************************************************)
EXTENDS RiskPolicy, WellFoundedInduction, TLAPS

LEMMA Raised ==
    ASSUME NEW x \in 0..100, NEW risk, risk = 80 \/ risk = x
    PROVE  risk \in 0..100
OBVIOUS

LEMMA AtLeast ==
    ASSUME NEW x \in 0..100, NEW y \in 0..100, NEW z \in 0..100, x >= y, y >= z
    PROVE  x >= z
OBVIOUS

LEMMA RiskType ==
    ASSUME NEW ss \in Seq(Signals), NEW risk \in RiskScores(ss)
    PROVE  risk \in 0..100
<1> DEFINE outside == {i \in DOMAIN ss : OutOfScope(ss[i])}
<1>1. CASE outside # {}
    <2>1. PICK i \in DOMAIN ss : risk \in Maxima({80, ss[i].score})
        BY <1>1, Zenon DEF RiskScores
    <2>2. ss[i] \in Signals
        OBVIOUS
    <2>3. PICK x \in 0..100 : x = ss[i].score
        BY <2>2 DEF Signals
    <2>4. risk = 80 \/ risk = x
        BY <2>1, <2>3, Zenon DEF Maxima
    <2> QED BY <2>3, <2>4, Raised, ZenonT(20)
<1>2. CASE outside = {}
    BY <1>2 DEF RiskScores
<1> QED BY <1>1, <1>2

\* A signal that is dominant and at the block threshold gives a score at the threshold.
LEMMA StrongScore ==
    ASSUME BlockThreshold <= 80,
           NEW ss \in Seq(Signals), NEW i \in DOMAIN ss, StrongBlock(ss[i]),
           NEW risk \in RiskScores(ss)
    PROVE  risk >= BlockThreshold
<1> DEFINE outside == {k \in DOMAIN ss : OutOfScope(ss[k])}
           strong  == {ss[k].score : k \in {j \in DOMAIN ss : Dominant(ss[j])}}
<1>1. BlockThreshold \in Int
    BY ThresholdsAssumption
<1>2. risk \in 0..100
    BY RiskType
<1>3. CASE outside # {}
    <2>1. PICK k \in DOMAIN ss : risk \in Maxima({80, ss[k].score})
        BY <1>3 DEF RiskScores
    <2>2. risk >= 80
        BY <2>1 DEF Maxima
    <2> QED BY <1>1, <1>2, <2>2
<1>4. CASE outside = {}
    <2>1. PICK mean \in Means(ss) : risk \in Maxima({mean} \cup strong)
        BY <1>4 DEF RiskScores
    <2>2. ss[i].score \in strong
        BY DEF StrongBlock, Dominant
    <2>3. risk >= ss[i].score
        BY <2>1, <2>2 DEF Maxima
    <2>4. ss[i] \in Signals
        OBVIOUS
    <2>5. PICK x \in 0..100 : x = ss[i].score
        BY <2>4 DEF Signals
    <2>6. x >= BlockThreshold /\ risk >= x
        BY <2>3, <2>5 DEF StrongBlock
    <2> QED BY <1>2, <2>5, <2>6, ThresholdsAssumption, AtLeast, Zenon
<1> QED BY <1>3, <1>4

LEMMA ActionType ==
    ASSUME NEW risk, NEW ss
    PROVE  Action(risk, ss) \in Actions
<1>1. ActionFor(risk) \in Actions
    BY Zenon DEF ActionFor, Actions
<1> QED BY <1>1, Zenon DEF Action, Actions

-----------------------------------------------------------------------------
(* Natural numbers *)

LEMMA LeastNat ==
    ASSUME NEW S, S \subseteq Nat, S # {}
    PROVE  \E n \in S : \A m \in S : n <= m
<1> DEFINE R == OpToRel(<, Nat)
<1>1. IsWellFoundedOn(R, Nat)
    BY NatLessThanWellFounded, Zenon
<1>2. \A i, j \in Nat : <<i, j>> \in R <=> i < j
    BY DEF OpToRel
<1> HIDE DEF R
<1>3. PICK n \in S : \A m \in S : <<m, n>> \notin R
    BY <1>1, WFMin, Zenon
<1>4. ASSUME NEW m \in S PROVE n <= m
    <2>1. m \in Nat /\ n \in Nat /\ <<m, n>> \notin R
        BY <1>3
    <2>2. ~(m < n)
        BY <1>2, <2>1
    <2> QED BY <2>1, <2>2
<1> QED BY <1>4

\* Induction over a set of numbers, from the least number not in it.
LEMMA NatInd ==
    ASSUME NEW S, 0 \in S, \A n \in Nat : n \in S => n + 1 \in S
    PROVE  \A n \in Nat : n \in S
<1> SUFFICES ASSUME {n \in Nat : n \notin S} # {} PROVE FALSE
    OBVIOUS
<1>1. PICK n \in {k \in Nat : k \notin S} : \A m \in {k \in Nat : k \notin S} : n <= m
    BY LeastNat
<1> QED BY <1>1

-----------------------------------------------------------------------------
(* The sum of a list *)

\* The function Total(v) is computed with, up to the n-th element.
TotalNext(h, v, i) == IF i = 0 THEN 0 ELSE h[i - 1] + v[i]

TotalUpTo(h, v, n) == h = [i \in 0..n |-> TotalNext(h, v, i)]

LEMMA TotalAt ==
    ASSUME NEW h, NEW v, NEW n \in Nat, TotalUpTo(h, v, n), NEW i \in 0..n
    PROVE  h[i] = TotalNext(h, v, i)
BY DEF TotalUpTo

LEMMA TotalExists ==
    ASSUME NEW v, NEW n \in Nat
    PROVE  \E h : TotalUpTo(h, v, n)
<1> DEFINE S == {m \in Nat : \E h : TotalUpTo(h, v, m)}
<1>1. 0 \in S
    <2> DEFINE h == [i \in 0..0 |-> 0]
    <2>1. \A i \in 0..0 : TotalNext(h, v, i) = 0
        BY DEF TotalNext
    <2>2. \A f : (\A i \in 0..0 : TotalNext(f, v, i) = 0) => h = [i \in 0..0 |-> TotalNext(f, v, i)]
        OBVIOUS
    <2>3. TotalUpTo(h, v, 0)
        <3> HIDE DEF h
        <3> QED BY <2>1, <2>2 DEF TotalUpTo
    <2> QED BY <2>3
<1>2. ASSUME NEW m \in Nat, m \in S PROVE m + 1 \in S
    <2>1. PICK h : TotalUpTo(h, v, m)
        BY <1>2
    <2> DEFINE g == [i \in 0..(m + 1) |-> TotalNext(h, v, i)]
    <2>2. ASSUME NEW i \in 0..m PROVE g[i] = h[i]
        BY <2>1, TotalAt
    <2>3. ASSUME NEW i \in 0..(m + 1) PROVE TotalNext(g, v, i) = TotalNext(h, v, i)
        <3>1. i # 0 => i - 1 \in 0..m
            OBVIOUS
        <3>2. i # 0 => g[i - 1] = h[i - 1]
            BY <2>2, <3>1
        <3> HIDE DEF g
        <3> QED BY <3>2 DEF TotalNext
    <2>4. \A f : (\A i \in 0..(m + 1) : TotalNext(f, v, i) = TotalNext(h, v, i)) =>
                    g = [i \in 0..(m + 1) |-> TotalNext(f, v, i)]
        OBVIOUS
    <2>5. TotalUpTo(g, v, m + 1)
        <3> HIDE DEF g
        <3> QED BY <2>3, <2>4 DEF TotalUpTo
    <2> QED BY <2>5
<1>3. n \in S
    <2> HIDE DEF S
    <2> QED BY <1>1, <1>2, NatInd
<1> QED BY <1>3

LEMMA TotalFn ==
    ASSUME NEW v, Len(v) \in Nat
    PROVE  \E h : TotalUpTo(h, v, Len(v)) /\ Total(v) = h[Len(v)]
<1> DEFINE f == CHOOSE h : TotalUpTo(h, v, Len(v))
<1>1. TotalUpTo(f, v, Len(v))
    <2>1. \E h : TotalUpTo(h, v, Len(v))
        BY TotalExists
    <2> QED BY <2>1, Zenon
<1>2. Total(v) = f[Len(v)]
    BY DEF Total, TotalUpTo, TotalNext
<1> QED BY <1>1, <1>2

LEMMA SumOfBounds ==
    ASSUME NEW m \in Nat, NEW a \in Nat, NEW b \in Nat, NEW x \in Nat, NEW y \in Nat,
           a <= m * b, x <= m * y
    PROVE  a + x \in Nat /\ b + y \in Nat /\ a + x <= m * (b + y)
<1>1. m * b \in Nat /\ m * y \in Nat /\ m * (b + y) = m * b + m * y
    OBVIOUS
<1> QED BY <1>1

\* Elements that are at most m times as large have a sum at most m times as large.
LEMMA TotalBound ==
    ASSUME NEW m \in Nat, NEW v \in Seq(Nat), NEW w \in Seq(Nat), Len(v) = Len(w),
           \A i \in 1..Len(v) : v[i] <= m * w[i]
    PROVE  Total(v) \in Nat /\ Total(w) \in Nat /\ Total(v) <= m * Total(w)
<1> DEFINE n == Len(v)
<1>1. n \in Nat /\ \A i \in 1..n : v[i] \in Nat /\ w[i] \in Nat /\ v[i] <= m * w[i]
    OBVIOUS
<1>2. PICK g : TotalUpTo(g, v, n) /\ Total(v) = g[n]
    BY <1>1, TotalFn
<1>3. PICK h : TotalUpTo(h, w, n) /\ Total(w) = h[n]
    BY <1>1, TotalFn
<1> HIDE DEF n
<1> DEFINE Fine(k) == g[k] \in Nat /\ h[k] \in Nat /\ g[k] <= m * h[k]
           T == {k \in Nat : k <= n => Fine(k)}
<1>4. 0 \in T
    <2>1. 0 \in 0..n
        BY <1>1
    <2>2. g[0] = TotalNext(g, v, 0) /\ h[0] = TotalNext(h, w, 0)
        BY <1>1, <1>2, <1>3, <2>1, TotalAt
    <2> QED BY <2>2 DEF TotalNext
<1>5. ASSUME NEW k \in Nat, k \in T PROVE k + 1 \in T
    <2> SUFFICES ASSUME k + 1 <= n PROVE Fine(k + 1)
        OBVIOUS
    <2>1. k + 1 \in 0..n /\ k + 1 \in 1..n /\ k + 1 # 0 /\ (k + 1) - 1 = k /\ Fine(k)
        BY <1>1, <1>5
    <2>2. g[k + 1] = TotalNext(g, v, k + 1) /\ h[k + 1] = TotalNext(h, w, k + 1)
        BY <1>1, <1>2, <1>3, <2>1, TotalAt
    <2>3. g[k + 1] = g[k] + v[k + 1] /\ h[k + 1] = h[k] + w[k + 1]
        BY <2>1, <2>2 DEF TotalNext
    <2>4. v[k + 1] \in Nat /\ w[k + 1] \in Nat /\ v[k + 1] <= m * w[k + 1]
        BY <1>1, <2>1
    <2>5. \A a, b, x, y \in Nat : a <= m * b /\ x <= m * y =>
                /\ a + x \in Nat /\ b + y \in Nat /\ a + x <= m * (b + y)
        BY SumOfBounds
    <2>6. PICK a \in Nat, b \in Nat, x \in Nat, y \in Nat :
             a = g[k] /\ b = h[k] /\ x = v[k + 1] /\ y = w[k + 1]
        BY <2>1, <2>4, Zenon
    <2>7. a <= m * b /\ x <= m * y
        BY <2>1, <2>4, <2>6, Zenon
    <2>8. g[k + 1] = a + x /\ h[k + 1] = b + y
        BY <2>3, <2>6, Zenon
    <2>9. /\ a + x \in Nat /\ b + y \in Nat
          /\ a + x <= m * (b + y)
        BY <2>5, <2>7, Zenon
    <2> QED BY <2>8, <2>9, Zenon
<1>6. n \in T
    <2> HIDE DEF T
    <2> QED BY <1>1, <1>4, <1>5, NatInd
<1> QED BY <1>1, <1>2, <1>3, <1>6

-----------------------------------------------------------------------------
(* A high score has a cause *)

LEMMA SignalFields ==
    ASSUME NEW s \in Signals
    PROVE  s.agent \in Sources /\ s.score \in 0..100 /\ s.confidence \in Nat
BY DEF Signals

LEMMA Low ==
    ASSUME NEW x \in 0..100
    PROVE  (x >= 60 \/ x < 60) /\ ~(x < 60 /\ x >= 70) /\ (x < 60 => x <= 59)
OBVIOUS

LEMMA UpTo ==
    ASSUME NEW x \in 0..100, NEW m \in Nat, x <= m
    PROVE  x \in 0..m
OBVIOUS

LEMMA QuotientBound ==
    ASSUME NEW m \in Nat, NEW x \in Nat, NEW y \in Nat \ {0}, x <= m * y
    PROVE  x \div y \in Nat /\ x \div y <= m
<1> DEFINE q == x \div y
<1>1. q \in Int /\ y * q <= x /\ x < y * (q + 1)
    OBVIOUS
<1> HIDE DEF q
<1>2. q >= 0
    <2> SUFFICES ASSUME q + 1 <= 0 PROVE FALSE
        BY <1>1
    <2>1. y * (q + 1) <= 0
        BY <1>1
    <2> QED BY <1>1, <2>1
<1>3. q <= m
    <2> SUFFICES ASSUME q >= m + 1 PROVE FALSE
        BY <1>1
    <2>1. y * q >= y * (m + 1) /\ y * (m + 1) = m * y + y
        BY <1>1
    <2> QED BY <1>1, <2>1
<1> QED BY <1>1, <1>2, <1>3 DEF q

\* The mean of scores of at most m is at most m, and one of the means the code may give
\* is no negative number.
LEMMA MeansBound ==
    ASSUME NEW ss \in Seq(Signals), NEW m \in Nat, \A i \in DOMAIN ss : ss[i].score <= m
    PROVE  /\ \A mean \in Means(ss) : mean \in Int /\ mean <= m
           /\ \E mean \in Means(ss) : mean \in Nat
<1> DEFINE w == [i \in DOMAIN ss |-> EffectiveWeight(ss[i])]
           v == [i \in DOMAIN ss |-> EffectiveWeight(ss[i]) * ss[i].score]
<1>1. ASSUME NEW i \in DOMAIN ss
      PROVE  /\ EffectiveWeight(ss[i]) \in Nat
             /\ EffectiveWeight(ss[i]) * ss[i].score \in Nat
             /\ EffectiveWeight(ss[i]) * ss[i].score <= m * EffectiveWeight(ss[i])
    <2>1. ss[i] \in Signals
        OBVIOUS
    <2>2. ss[i].agent \in Sources /\ ss[i].confidence \in Nat /\ ss[i].score \in 0..m
        <3>1. ss[i].agent \in Sources /\ ss[i].confidence \in Nat /\ ss[i].score \in 0..100
            BY <2>1, SignalFields
        <3>2. ss[i].score \in 0..m
            BY <3>1, UpTo, Zenon
        <3> QED BY <3>1, <3>2
    <2>3. Weight[ss[i].agent] \in Nat
        BY <2>2 DEF Sources, Agents, Weight
    <2>4. \A x, y \in Nat : x * y \in Nat
        OBVIOUS
    <2>5. \A x \in Nat, y \in 0..m : x * y \in Nat /\ x * y <= m * x
        <3> SUFFICES ASSUME NEW x \in Nat, NEW y \in 0..m
                     PROVE  x * y \in Nat /\ x * y <= m * x
            OBVIOUS
        <3>1. x * (m - y) \in Nat /\ x * (m - y) = m * x - x * y
            BY <2>4
        <3> QED BY <2>4, <3>1
    <2> QED BY <2>2, <2>3, <2>4, <2>5 DEF EffectiveWeight
<1>2. /\ DOMAIN ss = 1..Len(ss) /\ Len(ss) \in Nat
    OBVIOUS
<1>3. v \in Seq(Nat) /\ w \in Seq(Nat) /\ Len(v) = Len(ss) /\ Len(w) = Len(ss)
    BY <1>1, <1>2
<1>4. \A i \in 1..Len(v) : v[i] <= m * w[i]
    BY <1>1, <1>2, <1>3
<1>5. Means(ss) = IF Total(w) = 0 THEN {0}
                  ELSE IF Total(v) % Total(w) = 0 /\ Total(v) > 0
                       THEN {Total(v) \div Total(w), (Total(v) \div Total(w)) - 1}
                       ELSE {Total(v) \div Total(w)}
    BY DEF Means
<1> HIDE DEF v, w
<1>6. Total(v) \in Nat /\ Total(w) \in Nat /\ Total(v) <= m * Total(w)
    BY <1>3, <1>4, TotalBound
<1>7. \A x \in Nat, y \in Nat \ {0} : x <= m * y => x \div y \in Nat /\ x \div y <= m
    BY QuotientBound
<1> DEFINE x == Total(v)
           y == Total(w)
           q == x \div y
<1>8. CASE y = 0
    BY <1>5, <1>8
<1>9. CASE y # 0
    <2>1. q \in Nat /\ q <= m
        BY <1>6, <1>7, <1>9
    <2>2. Means(ss) = {q, q - 1} \/ Means(ss) = {q}
        BY <1>5, <1>9
    <2> HIDE DEF q
    <2> QED BY <2>1, <2>2
<1> QED BY <1>8, <1>9

\* A score of 60 or more has a signal of 60 or more behind it.
LEMMA ScoreHasACause ==
    ASSUME NEW ss \in Seq(Signals), NEW risk \in RiskScores(ss), risk >= 60
    PROVE  \E i \in DOMAIN ss : ss[i].score >= 60
<1>1. \A i \in DOMAIN ss : ss[i] \in Signals
    OBVIOUS
<1>2. \A i \in DOMAIN ss : ss[i].score \in 0..100
    BY <1>1, SignalFields
<1> SUFFICES ASSUME \A i \in DOMAIN ss : ss[i].score < 60 PROVE FALSE
    BY <1>2, Low, Zenon
<1> DEFINE outside == {i \in DOMAIN ss : OutOfScope(ss[i])}
           strong  == {ss[i].score : i \in {k \in DOMAIN ss : Dominant(ss[k])}}
<1>3. outside = {} /\ strong = {}
    <2>1. \A i \in DOMAIN ss : ~(ss[i].score >= 70)
        BY <1>2, Low, Zenon
    <2> QED BY <2>1, Zenon DEF OutOfScope, Dominant
<1>4. PICK mean \in Means(ss) : risk \in Maxima({mean} \cup strong)
    BY <1>3 DEF RiskScores
<1>5. risk = mean
    BY <1>3, <1>4 DEF Maxima
<1>6. \A m \in Means(ss) : m \in Int /\ m <= 59
    <2>1. \A i \in DOMAIN ss : ss[i].score <= 59
        BY <1>2, Low, Zenon
    <2> QED BY <2>1, MeansBound
<1>7. mean \in Int /\ mean <= 59 /\ mean >= 60
    BY <1>4, <1>5, <1>6, Zenon
<1>8. \A x \in Int : ~(x <= 59 /\ x >= 60)
    OBVIOUS
<1> QED BY <1>7, <1>8, Zenon

-----------------------------------------------------------------------------
(* There is always a score *)

LEMMA HasMaximum ==
    ASSUME NEW S, S \subseteq Int, S # {}, NEW b \in Int, \A x \in S : x <= b
    PROVE  \E x \in S : \A y \in S : x >= y
<1> DEFINE T == {b - x : x \in S}
<1>1. T \subseteq Nat /\ T # {}
    <2>1. \A x \in S : b - x \in Nat
        OBVIOUS
    <2> QED BY <2>1
<1>2. PICK n \in T : \A k \in T : n <= k
    <2> HIDE DEF T
    <2> QED BY <1>1, LeastNat, Zenon
<1>3. PICK x \in S : n = b - x
    BY <1>2
<1>4. ASSUME NEW y \in S PROVE x >= y
    <2>1. b - x <= b - y
        BY <1>2, <1>3
    <2>2. x \in Int /\ y \in Int
        OBVIOUS
    <2> QED BY <2>1, <2>2
<1> QED BY <1>4

LEMMA MaxIs ==
    ASSUME NEW S, S \subseteq Int, S # {}, NEW b \in Int, \A x \in S : x <= b
    PROVE  Max(S) \in S /\ \A y \in S : Max(S) >= y
<1> DEFINE Is(x) == \A y \in S : x >= y
<1>1. \E x \in S : Is(x)
    BY HasMaximum
<1>2. Max(S) = CHOOSE x \in S : Is(x)
    BY DEF Max
<1> HIDE DEF Is
<1>3. Max(S) \in S /\ Is(Max(S))
    BY <1>1, <1>2, Zenon
<1> QED BY <1>3 DEF Is

\* Whatever the signals are, and however few, the policy gives a score between 0 and 100.
LEMMA ScoreExists ==
    ASSUME NEW ss \in Seq(Signals)
    PROVE  \E risk \in RiskScores(ss) : risk \in 0..100
<1> DEFINE outside == {i \in DOMAIN ss : OutOfScope(ss[i])}
           strong  == {ss[i].score : i \in {k \in DOMAIN ss : Dominant(ss[k])}}
<1>1. \A i \in DOMAIN ss : ss[i].score \in 0..100
    <2>1. \A i \in DOMAIN ss : ss[i] \in Signals
        OBVIOUS
    <2> QED BY <2>1, SignalFields
<1>2. CASE outside # {}
    <2>1. outside \subseteq Nat
        OBVIOUS
    <2>2. PICK i \in outside : \A j \in outside : i <= j
        <3> HIDE DEF outside
        <3> QED BY <1>2, <2>1, LeastNat, Zenon
    <2>3. ss[i].score \in 0..100
        BY <1>1
    <2>4. Maxima({80, ss[i].score}) # {}
        <3>1. {80, ss[i].score} \subseteq Int /\ \A x \in {80, ss[i].score} : x <= 100
            <4>1. PICK s \in 0..100 : s = ss[i].score
                BY <2>3
            <4>2. {80, s} \subseteq Int /\ \A x \in {80, s} : x <= 100
                OBVIOUS
            <4> QED BY <4>1, <4>2, Zenon
        <3>2. \E x \in {80, ss[i].score} : \A y \in {80, ss[i].score} : x >= y
            BY <3>1, HasMaximum
        <3> QED BY <3>2, Zenon DEF Maxima
    <2>5. Maxima({80, ss[i].score}) \subseteq RiskScores(ss)
        BY <2>2 DEF RiskScores
    <2> QED BY <2>4, <2>5, RiskType
<1>3. CASE outside = {}
    <2>1. RiskScores(ss) = {r \in 0..100 : \E mean \in Means(ss) : r \in Maxima({mean} \cup strong)}
        BY <1>3, Zenon DEF RiskScores
    <2>2. \A i \in DOMAIN ss : ss[i].score <= 100
        <3>1. \A x \in 0..100 : x <= 100
            OBVIOUS
        <3> QED BY <1>1, <3>1, Zenon
    <2>3. PICK mean \in Means(ss) : mean \in Nat /\ mean <= 100
        BY <2>2, MeansBound
    <2>4. strong \subseteq 0..100
        BY <1>1
    <2> DEFINE S == {mean} \cup strong
    <2> HIDE DEF strong
    <2>5. S \subseteq 0..100 /\ S # {}
        BY <2>3, <2>4
    <2> HIDE DEF S
    <2>6. PICK x \in S : \A y \in S : x >= y
        <3>1. S \subseteq Int /\ 100 \in Int /\ \A y \in S : y <= 100
            BY <2>5
        <3> QED BY <2>5, <3>1, HasMaximum, Zenon
    <2>7. x \in Maxima(S) /\ x \in 0..100
        BY <2>5, <2>6 DEF Maxima
    <2> QED BY <2>1, <2>3, <2>7 DEF S
<1> QED BY <1>2, <1>3
=============================================================================
