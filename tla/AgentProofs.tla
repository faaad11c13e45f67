----------------------------- MODULE AgentProofs -----------------------------
(***************************************************************************)
(* Proofs about the two components the agents of the wall act through: the *)
(* consensus rounds they vote in (Consensus), for any rounds, voters,       *)
(* subscribers and actions, and the broker that runs their tools (Broker),  *)
(* for any calls, names, tools, levels and risks.                           *)
(***************************************************************************)
EXTENDS Consensus, Broker, FiniteSetTheorems, WellFoundedInduction, TLAPS

-----------------------------------------------------------------------------
(* Counting votes *)

LEMMA LeastNat ==
    ASSUME NEW S, S \subseteq Nat, S # {}
    PROVE  \E n \in S : \A m \in S : n <= m
<1> DEFINE R == OpToRel(<, Nat)
<1>1. IsWellFoundedOn(R, Nat)
    BY NatLessThanWellFounded, Zenon
<1>2. \A i, j \in Nat : <<i, j>> \in R <=> i < j
    BY DEF OpToRel
<1> HIDE DEF R
<1>3. PICK n \in S : \A m \in S : <<m, n>> \notin R
    BY <1>1, WFMin, Zenon
<1>4. ASSUME NEW m \in S PROVE n <= m
    <2>1. m \in Nat /\ n \in Nat /\ <<m, n>> \notin R
        BY <1>3
    <2>2. ~(m < n)
        BY <1>2, <2>1
    <2> QED BY <2>1, <2>2
<1> QED BY <1>4

LEMMA CountType ==
    ASSUME NEW l \in Seq(Vote), NEW a
    PROVE  /\ IsFiniteSet({i \in DOMAIN l : l[i].act = a})
           /\ Count(l, a) \in 0..Len(l)
<1> DEFINE S == {i \in DOMAIN l : l[i].act = a}
<1>1. Len(l) \in Nat /\ DOMAIN l = 1..Len(l) /\ S \subseteq 1..Len(l)
    OBVIOUS
<1>2. IsFiniteSet(1..Len(l)) /\ Cardinality(1..Len(l)) = Len(l)
    BY <1>1, FS_Interval
<1>3. IsFiniteSet(S) /\ Cardinality(S) <= Len(l)
    BY <1>1, <1>2, FS_Subset
<1>4. Cardinality(S) \in Nat
    BY <1>3, FS_CardinalityType
<1> QED BY <1>1, <1>3, <1>4 DEF Count

LEMMA CountEmpty == \A a : Count(<<>>, a) = 0
<1>1. ASSUME NEW a PROVE Count(<<>>, a) = 0
    <2>1. {i \in DOMAIN <<>> : <<>>[i].act = a} = {}
        OBVIOUS
    <2> QED BY <2>1, FS_EmptySet DEF Count
<1> QED BY <1>1

LEMMA CountAppend ==
    ASSUME NEW l \in Seq(Vote), NEW vote \in Vote, NEW a
    PROVE  Count(Append(l, vote), a) = Count(l, a) + (IF vote.act = a THEN 1 ELSE 0)
<1> DEFINE S == {i \in DOMAIN l : l[i].act = a}
           T == {i \in DOMAIN Append(l, vote) : Append(l, vote)[i].act = a}
           n == Len(l) + 1
<1>1. Count(l, a) = Cardinality(S) /\ Count(Append(l, vote), a) = Cardinality(T)
    BY DEF Count
<1>2. IsFiniteSet(S)
    BY CountType, Zenon
<1>3. /\ DOMAIN Append(l, vote) = DOMAIN l \cup {n} /\ n \notin DOMAIN l
      /\ \A i \in DOMAIN l : Append(l, vote)[i] = l[i]
      /\ Append(l, vote)[n] = vote
    OBVIOUS
<1>4. vote.act = a => T = S \cup {n} /\ n \notin S
    BY <1>3
<1>5. vote.act # a => T = S
    BY <1>3
<1> HIDE DEF S, T, n
<1>6. n \notin S => Cardinality(S \cup {n}) = Cardinality(S) + 1
    BY <1>2, FS_AddElement
<1>7. Cardinality(S) \in Nat
    BY <1>2, FS_CardinalityType
<1>8. CASE vote.act = a
    <2>1. Cardinality(T) = Cardinality(S) + 1
        BY <1>4, <1>6, <1>8
    <2> QED BY <1>1, <1>8, <2>1
<1>9. CASE vote.act # a
    <2>1. Cardinality(T) = Cardinality(S) + 0
        BY <1>5, <1>7, <1>9
    <2> QED BY <1>1, <1>9, <2>1
<1> QED BY <1>8, <1>9

\* Counter.most_common(1) names an action that was voted for, and none has more votes.
LEMMA WinnerLeads ==
    ASSUME NEW l \in Seq(Vote), l # <<>>
    PROVE  /\ \E i \in DOMAIN l : Winner(l) = l[i].act
           /\ \A a \in Actions : Count(l, Winner(l)) >= Count(l, a)
<1> DEFINE n == Len(l)
           Behind == {n - Count(l, l[i].act) : i \in DOMAIN l}
           leads(i) == \A a \in Actions : Count(l, l[i].act) >= Count(l, a)
           First(i) == leads(i) /\ \A j \in 1..(i - 1) : ~leads(j)
<1>1. n \in Nat /\ DOMAIN l = 1..n /\ 1 \in DOMAIN l
    OBVIOUS
<1>2. \A a : Count(l, a) \in 0..n
    BY CountType
<1>3. \E i \in DOMAIN l : leads(i)
    <2>1. Behind \subseteq Nat /\ Behind # {}
        BY <1>1, <1>2
    <2>2. PICK k \in Behind : \A m \in Behind : k <= m
        BY <2>1, LeastNat
    <2>3. PICK i \in DOMAIN l : k = n - Count(l, l[i].act)
        BY <2>2
    <2>4. ASSUME NEW a \in Actions PROVE Count(l, l[i].act) >= Count(l, a)
        <3>1. CASE \E j \in DOMAIN l : l[j].act = a
            <4>1. PICK j \in DOMAIN l : l[j].act = a
                BY <3>1
            <4>2. n - Count(l, l[i].act) <= n - Count(l, a)
                BY <2>2, <2>3, <4>1
            <4> QED BY <1>1, <1>2, <4>2
        <3>2. CASE ~ \E j \in DOMAIN l : l[j].act = a
            <4>1. {j \in DOMAIN l : l[j].act = a} = {}
                BY <3>2
            <4>2. Count(l, a) = 0
                BY <4>1, FS_EmptySet DEF Count
            <4> QED BY <1>2, <4>2
        <3> QED BY <3>1, <3>2
    <2> QED BY <2>4
<1>4. \E i \in DOMAIN l : First(i)
    <2> DEFINE Leaders == {i \in DOMAIN l : leads(i)}
    <2>1. Leaders \subseteq Nat /\ Leaders # {}
        BY <1>1, <1>3
    <2> HIDE DEF leads
    <2>2. PICK i \in Leaders : \A j \in Leaders : i <= j
        BY <2>1, LeastNat
    <2>3. \A j \in 1..(i - 1) : ~leads(j)
        BY <1>1, <2>2
    <2> QED BY <2>2, <2>3
<1>5. PICK i \in DOMAIN l : i = (CHOOSE j \in DOMAIN l : First(j)) /\ First(i)
    <2> HIDE DEF First
    <2> QED BY <1>4
<1>6. Winner(l) = l[i].act
    BY <1>5 DEF Winner
<1> QED BY <1>5, <1>6

LEMMA TallyVeto ==
    ASSUME NEW l \in Seq(Vote), NEW i \in DOMAIN l, IsVeto(l[i])
    PROVE  Tally(l) = "block"
<1>1. l # <<>>
    OBVIOUS
<1> QED BY <1>1, Zenon DEF Tally

LEMMA WinnerType ==
    ASSUME NEW l \in Seq(Vote), l # <<>>
    PROVE  Winner(l) \in Actions
<1>1. PICK i \in DOMAIN l : Winner(l) = l[i].act
    BY WinnerLeads
<1>2. l[i] \in Vote
    OBVIOUS
<1> QED BY <1>1, <1>2 DEF Vote

LEMMA TallyType ==
    ASSUME NEW l \in Seq(Vote)
    PROVE  Tally(l) \in Actions
BY WinnerType, ActionsAssumption DEF Tally

LEMMA TallyClear ==
    ASSUME NEW l \in Seq(Vote), NEW a \in Actions,
           Count(l, a) >= MinMajority,
           \A b \in Actions \ {a} : Count(l, a) > Count(l, b),
           \A i \in DOMAIN l : ~IsVeto(l[i])
    PROVE  Tally(l) = a
<1>1. \A b : Count(l, b) \in 0..Len(l)
    BY CountType
<1>2. l # <<>>
    <2>1. PICK b \in Actions : b # a
        BY ActionsAssumption
    <2>2. Count(l, a) > Count(l, b)
        BY <2>1
    <2> QED BY <1>1, <2>2, CountEmpty
<1>3. Winner(l) \in Actions /\ Count(l, Winner(l)) >= Count(l, a)
    BY <1>2, WinnerType, WinnerLeads
<1>4. Winner(l) = a
    <2>1. Winner(l) # a => Count(l, a) > Count(l, Winner(l))
        BY <1>3
    <2> QED BY <1>1, <1>3, <2>1
<1> QED BY <1>2, <1>4 DEF Tally

LEMMA TallyBacked ==
    ASSUME NEW l \in Seq(Vote), Tally(l) # "quarantine"
    PROVE  \/ Tally(l) = "block" /\ \E i \in DOMAIN l : IsVeto(l[i])
           \/ Count(l, Tally(l)) >= MinMajority
BY DEF Tally

-----------------------------------------------------------------------------
(* Consensus: type correctness, and where a round can be *)

\* A voter is asked at most once in a round, after the request was published, and it
\* has no vote before; publications are waited for only in the stage they belong to;
\* nobody is asked any more once gather() has returned.
RoundShape(r) ==
    /\ stage[r] \in {"idle", "request"} => \A v \in Voters : asked[r][v] = "no"
    /\ stage[r] \in {"wait", "done"} => AllEnded(r)
    /\ waiting[r]["engine"] # {} => stage[r] = "request"
    /\ \A v \in Voters : waiting[r][v] # {} => asked[r][v] = "publishing"
    /\ \A v \in Voters : asked[r][v] \in {"no", "asked"} => cast[r][v] = NoVote

\* The log of a round is the votes of its voters and no more foreign votes than arrived.
VotesCounted(r) ==
    /\ \A v \in Voters :
          cast[r][v] # NoVote => \E i \in DOMAIN log[r] : log[r][i] = cast[r][v]
    /\ \A a \in Actions :
          For(r, a) <= Count(log[r], a) /\ Count(log[r], a) <= For(r, a) + foreign
    /\ foreign = 0 =>
          \A i \in DOMAIN log[r] : \E v \in Voters : cast[r][v] = log[r][i]

\* VetoBlocks and VotersDecide of one round.
VetoWins(r) ==
    stage[r] = "done" /\ (\E v \in Voters : IsVeto(cast[r][v])) => result[r] = "block"

LeadsClearly(r, a) ==
    /\ For(r, a) >= MinMajority
    /\ \A b \in Actions \ {a} : For(r, a) > For(r, b) + foreign
    /\ \A i \in DOMAIN log[r] : ~IsVeto(log[r][i])

Backed(r) ==
    \/ For(r, result[r]) >= MinMajority
    \/ result[r] = "block" /\ \E v \in Voters : IsVeto(cast[r][v])

LeaderWins(r) ==
    stage[r] = "done" =>
        /\ \A a \in Actions : LeadsClearly(r, a) => result[r] = a
        /\ foreign = 0 /\ result[r] # "quarantine" => Backed(r)

RoundInv(r) == RoundShape(r) /\ VotesCounted(r) /\ VetoWins(r) /\ LeaderWins(r)

ConsensusInv == TypeOK /\ \A r \in Rounds : RoundInv(r)

LEMMA ForType ==
    ASSUME NEW r \in Rounds, NEW a
    PROVE  IsFiniteSet({v \in Voters : cast[r][v].act = a}) /\ For(r, a) \in Nat
<1> DEFINE S == {v \in Voters : cast[r][v].act = a}
<1>1. S \subseteq Voters
    OBVIOUS
<1> HIDE DEF S
<1>2. IsFiniteSet(S) /\ Cardinality(S) \in Nat
    BY <1>1, VotersAssumption, FS_Subset, FS_CardinalityType
<1> QED BY <1>2, Zenon DEF For, S

\* One more voter has cast a vote.
LEMMA ForAnswer ==
    ASSUME TypeOK, NEW r \in Rounds, NEW v \in Voters, NEW vote \in Vote,
           cast[r][v] = NoVote, cast' = [cast EXCEPT ![r][v] = vote],
           NEW a \in Actions
    PROVE  For(r, a)' = For(r, a) + (IF vote.act = a THEN 1 ELSE 0)
<1> DEFINE S == {x \in Voters : cast[r][x].act = a}
           T == {x \in Voters : cast'[r][x].act = a}
<1>1. For(r, a) = Cardinality(S) /\ For(r, a)' = Cardinality(T)
    BY DEF For
<1>2. IsFiniteSet(S)
    BY ForType, Zenon
<1>3. /\ cast[r][v].act # a /\ cast'[r][v] = vote
      /\ \A x \in Voters \ {v} : cast'[r][x] = cast[r][x]
    BY ActionsAssumption DEF TypeOK, NoVote
<1>4. vote.act = a => T = S \cup {v} /\ v \notin S
    BY <1>3
<1>5. vote.act # a => T = S
    BY <1>3
<1> HIDE DEF S, T
<1>6. v \notin S => Cardinality(S \cup {v}) = Cardinality(S) + 1
    BY <1>2, FS_AddElement
<1>7. Cardinality(S) \in Nat
    BY <1>2, FS_CardinalityType
<1>8. CASE vote.act = a
    <2>1. Cardinality(T) = Cardinality(S) + 1
        BY <1>4, <1>6, <1>8
    <2> QED BY <1>1, <1>8, <2>1
<1>9. CASE vote.act # a
    <2>1. Cardinality(T) = Cardinality(S) + 0
        BY <1>5, <1>7, <1>9
    <2> QED BY <1>1, <1>9, <2>1
<1> QED BY <1>8, <1>9

-----------------------------------------------------------------------------
(* What a step does to one round *)

SameRound(r) ==
    /\ stage'[r] = stage[r] /\ asked'[r] = asked[r] /\ waiting'[r] = waiting[r]
    /\ log'[r] = log[r] /\ result'[r] = result[r] /\ cast'[r] = cast[r]

\* Foreign votes for other rounds only weaken what is said of this one.
LEMMA SameRoundKeeps ==
    ASSUME foreign \in Nat, foreign' \in Nat, foreign' >= foreign,
           TypeOK, NEW r \in Rounds, SameRound(r), RoundInv(r)
    PROVE  RoundInv(r)'
<1>1. /\ \A a : For(r, a)' = For(r, a) /\ For(r, a) \in Nat
      /\ \A a : Count(log[r], a)' = Count(log[r], a) /\ Count(log[r], a) \in Int
    <2>1. \A a : For(r, a) \in Nat
        BY ForType
    <2>2. log[r] \in Seq(Vote)
        BY DEF TypeOK
    <2>3. \A a : Count(log[r], a) \in 0..Len(log[r])
        BY <2>2, CountType
    <2>4. \A a : For(r, a)' = For(r, a)
        BY DEF SameRound, For
    <2>5. \A a : Count(log[r], a)' = Count(log[r], a)
        BY DEF SameRound, Count
    <2> QED BY <2>1, <2>3, <2>4, <2>5
<1>2. RoundShape(r)'
    BY DEF SameRound, RoundInv, RoundShape, AllEnded
<1>3. VotesCounted(r)'
    <2>1. \A a \in Actions :
            For(r, a)' <= Count(log[r], a)' /\ Count(log[r], a)' <= For(r, a)' + foreign'
        BY <1>1 DEF RoundInv, VotesCounted
    <2>2. foreign' = 0 => foreign = 0
        OBVIOUS
    <2> QED BY <2>1, <2>2 DEF SameRound, RoundInv, VotesCounted
<1>4. VetoWins(r)'
    BY DEF SameRound, RoundInv, VetoWins
<1>5. LeaderWins(r)'
    <2>1. ASSUME NEW a \in Actions, LeadsClearly(r, a)' PROVE LeadsClearly(r, a)
        BY <1>1, <2>1 DEF SameRound, LeadsClearly
    <2>2. foreign' = 0 => foreign = 0
        OBVIOUS
    <2>3. Backed(r) => Backed(r)'
        BY <1>1 DEF SameRound, Backed
    <2> QED BY <2>1, <2>2, <2>3 DEF SameRound, RoundInv, LeaderWins
<1> QED BY <1>2, <1>3, <1>4, <1>5 DEF RoundInv

\* What is asked of the step of an action on round r.
Keeps(r) ==
    /\ TypeOK' /\ foreign' \in {foreign, foreign + 1}
    /\ RoundInv(r)'
    /\ \A q \in Rounds \ {r} : SameRound(q)

\* Votes and results do not change: only where the round is has to be looked at.
LEMMA ShapeOnly ==
    ASSUME TypeOK, NEW r \in Rounds, RoundInv(r), RoundShape(r)',
           UNCHANGED <<log, result, foreign, cast>>, stage'[r] = "done" => stage[r] = "done"
    PROVE  RoundInv(r)'
<1>1. \A a : For(r, a)' = For(r, a)
    BY DEF For
<1>2. VotesCounted(r)'
    BY <1>1 DEF RoundInv, VotesCounted
<1>3. VetoWins(r)'
    BY DEF RoundInv, VetoWins
<1>4. LeaderWins(r)'
    BY <1>1 DEF RoundInv, LeaderWins, LeadsClearly, Backed
<1> QED BY <1>2, <1>3, <1>4 DEF RoundInv

LEMMA SolicitType ==
    ASSUME TypeOK, NEW r \in Rounds, Solicit(r)
    PROVE  /\ stage' \in [Rounds -> Stages] /\ stage'[r] = "solicit"
           /\ asked' \in [Rounds -> [Voters -> Answers]]
           /\ \A v \in Voters : asked'[r][v] \in {"no", "asked"}
           /\ \A q \in Rounds \ {r} : stage'[q] = stage[q] /\ asked'[q] = asked[q]
<1> DEFINE fresh == [v \in Voters |-> IF v \in voters THEN "asked" ELSE "no"]
<1>1. fresh \in [Voters -> Answers] /\ \A v \in Voters : fresh[v] \in {"no", "asked"}
    BY DEF Answers
<1>2. asked' = [asked EXCEPT ![r] = fresh] /\ stage' = [stage EXCEPT ![r] = "solicit"]
    BY DEF Solicit
<1> HIDE DEF fresh
<1> QED BY <1>1, <1>2 DEF TypeOK, Stages

LEMMA StartRoundKeeps ==
    ASSUME TypeOK, NEW r \in Rounds, RoundInv(r), StartRound(r)
    PROVE  Keeps(r)
<1>1. \A v \in Voters : asked[r][v] = "no" /\ cast[r][v] = NoVote /\ waiting[r][v] = {}
    BY DEF StartRound, RoundInv, RoundShape
<1>2. waiting[r]["engine"] = {}
    BY DEF StartRound, RoundInv, RoundShape
<1>3. CASE subs["request"] = {}
    <2>1. /\ Solicit(r)
          /\ UNCHANGED <<voters, subs, waiting, log, resolved, result, foreign, cast>>
        BY <1>3 DEF StartRound
    <2>2. TypeOK' /\ \A q \in Rounds \ {r} : SameRound(q)
        BY <2>1, SolicitType DEF TypeOK, SameRound
    <2>3. RoundShape(r)'
        BY <1>1, <1>2, <2>1, SolicitType DEF RoundShape
    <2>4. RoundInv(r)'
        BY <2>1, <2>3, SolicitType, ShapeOnly
    <2> QED BY <2>1, <2>2, <2>4 DEF Keeps
<1>4. CASE subs["request"] # {}
    <2>1. /\ stage' = [stage EXCEPT ![r] = "request"]
          /\ waiting' = [waiting EXCEPT ![r]["engine"] = subs["request"]]
          /\ UNCHANGED <<voters, subs, asked, log, resolved, result, foreign, cast>>
        BY <1>4 DEF StartRound
    <2>2. stage' \in [Rounds -> Stages] /\ stage'[r] = "request"
        BY <2>1 DEF TypeOK, Stages
    <2>3. waiting' \in [Rounds -> [Voters \cup {"engine"} -> SUBSET Subscribers]]
        BY <2>1 DEF TypeOK, Topics
    <2>4. TypeOK'
        BY <2>1, <2>2, <2>3 DEF TypeOK
    <2>5. \A q \in Rounds \ {r} : SameRound(q)
        BY <2>1 DEF TypeOK, SameRound
    <2>6. \A v \in Voters : waiting'[r][v] = {}
        BY <1>1, <2>1, VotersAssumption DEF TypeOK
    <2>7. RoundShape(r)'
        BY <1>1, <2>1, <2>2, <2>6 DEF RoundShape
    <2>8. RoundInv(r)'
        BY <2>1, <2>2, <2>7, ShapeOnly
    <2> QED BY <2>1, <2>4, <2>5, <2>8 DEF Keeps
<1> QED BY <1>3, <1>4

LEMMA HandledKeeps ==
    ASSUME TypeOK, NEW r \in Rounds, RoundInv(r),
           NEW x \in Voters \cup {"engine"}, NEW h \in Subscribers, Handled(r, x, h)
    PROVE  Keeps(r)
<1>1. /\ h \in waiting[r][x]
      /\ waiting' = [waiting EXCEPT ![r][x] = @ \ {h}]
      /\ UNCHANGED <<voters, subs, log, resolved, result, foreign, cast>>
    BY DEF Handled
<1>2. /\ waiting' \in [Rounds -> [Voters \cup {"engine"} -> SUBSET Subscribers]]
      /\ \A q \in Rounds \ {r} : waiting'[q] = waiting[q]
      /\ \A y \in (Voters \cup {"engine"}) \ {x} : waiting'[r][y] = waiting[r][y]
      /\ waiting'[r][x] = waiting[r][x] \ {h}
    BY <1>1 DEF TypeOK
<1>3. x = "engine" => stage[r] = "request" /\ \A v \in Voters : waiting[r][v] = {}
    BY <1>1 DEF RoundInv, RoundShape
<1>4. x \in Voters => stage[r] \notin {"idle", "request"} /\ asked[r][x] = "publishing"
    BY <1>1 DEF RoundInv, RoundShape
<1>5. CASE waiting[r][x] # {h}
    <2>1. UNCHANGED <<stage, asked>>
        BY <1>5 DEF Handled
    <2>2. TypeOK' /\ \A q \in Rounds \ {r} : SameRound(q)
        BY <1>1, <1>2, <2>1 DEF TypeOK, SameRound
    <2>3. RoundShape(r)'
        BY <1>1, <1>2, <2>1 DEF RoundInv, RoundShape, AllEnded
    <2>4. RoundInv(r)'
        BY <1>1, <2>1, <2>3, ShapeOnly
    <2> QED BY <1>1, <2>2, <2>4 DEF Keeps
<1>6. CASE waiting[r][x] = {h} /\ x = "engine"
    <2>1. Solicit(r)
        BY <1>6 DEF Handled
    <2>2. TypeOK' /\ \A q \in Rounds \ {r} : SameRound(q)
        BY <1>1, <1>2, <2>1, SolicitType DEF TypeOK, SameRound
    <2>3. waiting'[r]["engine"] = {} /\ \A v \in Voters : waiting'[r][v] = {}
        BY <1>2, <1>3, <1>6, VotersAssumption
    <2>4. \A v \in Voters : cast[r][v] = NoVote
        BY <1>3, <1>6 DEF RoundInv, RoundShape
    <2>5. RoundShape(r)'
        BY <1>1, <2>1, <2>3, <2>4, SolicitType DEF RoundShape
    <2>6. RoundInv(r)'
        BY <1>1, <2>1, <2>5, SolicitType, ShapeOnly
    <2> QED BY <1>1, <2>2, <2>6 DEF Keeps
<1>7. CASE waiting[r][x] = {h} /\ x # "engine"
    <2>1. asked' = [asked EXCEPT ![r][x] = "ended"] /\ UNCHANGED stage /\ x \in Voters
        BY <1>7 DEF Handled
    <2>2. /\ asked' \in [Rounds -> [Voters -> Answers]]
          /\ asked'[r][x] = "ended"
          /\ \A v \in Voters \ {x} : asked'[r][v] = asked[r][v]
          /\ \A q \in Rounds \ {r} : asked'[q] = asked[q]
        BY <2>1 DEF TypeOK, Answers
    <2>3. TypeOK' /\ \A q \in Rounds \ {r} : SameRound(q)
        BY <1>1, <1>2, <2>1, <2>2 DEF TypeOK, SameRound
    <2>4. waiting'[r][x] = {}
        BY <1>2, <1>7
    <2>5. RoundShape(r)'
        BY <1>1, <1>2, <1>4, <1>7, <2>1, <2>2, <2>4
        DEF RoundInv, RoundShape, AllEnded
    <2>6. RoundInv(r)'
        BY <1>1, <2>1, <2>5, ShapeOnly
    <2> QED BY <1>1, <2>3, <2>6 DEF Keeps
<1> QED BY <1>5, <1>6, <1>7

LEMMA FailKeeps ==
    ASSUME TypeOK, NEW r \in Rounds, RoundInv(r), NEW v \in Voters, Fail(r, v)
    PROVE  Keeps(r)
<1>1. /\ asked' = [asked EXCEPT ![r][v] = "ended"] /\ asked[r][v] = "asked"
      /\ UNCHANGED <<voters, subs, stage, waiting, log, resolved, result, foreign, cast>>
    BY DEF Fail
<1>2. /\ asked' \in [Rounds -> [Voters -> Answers]]
      /\ asked'[r][v] = "ended"
      /\ \A x \in Voters \ {v} : asked'[r][x] = asked[r][x]
      /\ \A q \in Rounds \ {r} : asked'[q] = asked[q]
    BY <1>1 DEF TypeOK, Answers
<1>3. TypeOK' /\ \A q \in Rounds \ {r} : SameRound(q)
    BY <1>1, <1>2 DEF TypeOK, SameRound
<1>4. RoundShape(r)'
    BY <1>1, <1>2 DEF RoundInv, RoundShape, AllEnded
<1>5. RoundInv(r)'
    BY <1>1, <1>4, ShapeOnly
<1> QED BY <1>1, <1>3, <1>5 DEF Keeps

LEMMA HandleVoteType ==
    ASSUME TypeOK, NEW r \in Rounds, NEW vote \in Vote, HandleVote(r, vote)
    PROVE  /\ log' \in [Rounds -> Seq(Vote)] /\ resolved' \subseteq Rounds
           /\ log'[r] = Append(log[r], vote)
           /\ \A q \in Rounds \ {r} : log'[q] = log[q]
           /\ DOMAIN log'[r] = DOMAIN log[r] \cup {Len(log[r]) + 1}
           /\ \A i \in DOMAIN log[r] : log'[r][i] = log[r][i]
           /\ log'[r][Len(log[r]) + 1] = vote
<1>1. log' = [log EXCEPT ![r] = Append(log[r], vote)] /\ resolved' \subseteq Rounds
    BY DEF HandleVote, TypeOK
<1>2. log[r] \in Seq(Vote)
    BY DEF TypeOK
<1>3. /\ Append(log[r], vote) \in Seq(Vote)
      /\ DOMAIN Append(log[r], vote) = DOMAIN log[r] \cup {Len(log[r]) + 1}
      /\ \A i \in DOMAIN log[r] : Append(log[r], vote)[i] = log[r][i]
      /\ Append(log[r], vote)[Len(log[r]) + 1] = vote
    BY <1>2
<1>4. log'[r] = Append(log[r], vote) /\ \A q \in Rounds \ {r} : log'[q] = log[q]
    BY <1>1 DEF TypeOK
<1>5. log' \in [Rounds -> Seq(Vote)]
    BY <1>1, <1>3 DEF TypeOK
<1> QED BY <1>1, <1>3, <1>4, <1>5

LEMMA HandleVoteCount ==
    ASSUME TypeOK, NEW r \in Rounds, NEW vote \in Vote, HandleVote(r, vote), NEW a
    PROVE  /\ Count(log'[r], a) = Count(log[r], a) + (IF vote.act = a THEN 1 ELSE 0)
           /\ Count(log[r], a) \in Int
<1>1. log[r] \in Seq(Vote)
    BY DEF TypeOK
<1>2. Count(log[r], a) \in 0..Len(log[r])
    BY <1>1, CountType
<1>3. log'[r] = Append(log[r], vote)
    BY HandleVoteType
<1> QED BY <1>1, <1>2, <1>3, CountAppend

LEMMA AnswerKeeps ==
    ASSUME TypeOK, NEW r \in Rounds, RoundInv(r),
           NEW v \in Voters, NEW vote \in Vote, Answer(r, v, vote)
    PROVE  Keeps(r)
<1> DEFINE next == IF subs["vote"] = {} THEN "ended" ELSE "publishing"
<1>1. /\ asked[r][v] = "asked"
      /\ cast' = [cast EXCEPT ![r][v] = vote]
      /\ HandleVote(r, vote)
      /\ waiting' = [waiting EXCEPT ![r][v] = subs["vote"]]
      /\ asked' = [asked EXCEPT ![r][v] = next]
      /\ UNCHANGED <<voters, subs, stage, result, foreign>>
    BY DEF Answer
<1>2. /\ waiting' \in [Rounds -> [Voters \cup {"engine"} -> SUBSET Subscribers]]
      /\ waiting'[r][v] = subs["vote"]
      /\ \A x \in (Voters \cup {"engine"}) \ {v} : waiting'[r][x] = waiting[r][x]
      /\ \A q \in Rounds \ {r} : waiting'[q] = waiting[q]
    BY <1>1 DEF TypeOK, Topics
<1>3. /\ asked' \in [Rounds -> [Voters -> Answers]]
      /\ asked'[r][v] = next
      /\ \A x \in Voters \ {v} : asked'[r][x] = asked[r][x]
      /\ \A q \in Rounds \ {r} : asked'[q] = asked[q]
    BY <1>1 DEF TypeOK, Answers
<1>4. /\ cast' \in [Rounds -> [Voters -> Vote \cup {NoVote}]]
      /\ cast'[r][v] = vote
      /\ \A x \in Voters \ {v} : cast'[r][x] = cast[r][x]
      /\ \A q \in Rounds \ {r} : cast'[q] = cast[q]
    BY <1>1 DEF TypeOK
<1>5. cast[r][v] = NoVote
    BY <1>1 DEF RoundInv, RoundShape
<1>6. stage[r] \notin {"idle", "request", "wait", "done"}
    BY <1>1 DEF RoundInv, RoundShape, AllEnded
<1>7. TypeOK'
    BY <1>1, <1>2, <1>3, <1>4, HandleVoteType DEF TypeOK
<1>8. \A q \in Rounds \ {r} : SameRound(q)
    BY <1>1, <1>2, <1>3, <1>4, HandleVoteType DEF SameRound
<1>9. RoundShape(r)'
    <2>1. v # "engine" /\ waiting'[r]["engine"] = waiting[r]["engine"]
        BY <1>2, VotersAssumption
    <2> QED BY <1>1, <1>2, <1>3, <1>4, <1>6, <2>1 DEF RoundInv, RoundShape
<1>10. VotesCounted(r)'
    <2>1. ASSUME NEW x \in Voters, cast'[r][x] # NoVote
          PROVE  \E i \in DOMAIN log'[r] : log'[r][i] = cast'[r][x]
        <3>1. CASE x = v
            BY <1>1, <1>4, <3>1, HandleVoteType
        <3>2. CASE x # v
            <4>1. PICK i \in DOMAIN log[r] : log[r][i] = cast[r][x]
                BY <1>4, <2>1, <3>2 DEF RoundInv, VotesCounted
            <4> QED BY <1>1, <1>4, <3>2, <4>1, HandleVoteType
        <3> QED BY <3>1, <3>2
    <2>2. ASSUME NEW a \in Actions
          PROVE  For(r, a)' <= Count(log'[r], a) /\ Count(log'[r], a) <= For(r, a)' + foreign'
        <3>1. For(r, a)' = For(r, a) + (IF vote.act = a THEN 1 ELSE 0)
            BY <1>1, <1>5, ForAnswer
        <3>2. Count(log'[r], a) = Count(log[r], a) + (IF vote.act = a THEN 1 ELSE 0)
            BY <1>1, HandleVoteCount
        <3>3. For(r, a) <= Count(log[r], a) /\ Count(log[r], a) <= For(r, a) + foreign
            BY DEF RoundInv, VotesCounted
        <3>4. For(r, a) \in Nat /\ Count(log[r], a) \in Int /\ foreign \in Nat
            BY <1>1, ForType, HandleVoteCount DEF TypeOK
        <3> QED BY <1>1, <3>1, <3>2, <3>3, <3>4
    <2>3. ASSUME foreign' = 0, NEW i \in DOMAIN log'[r]
          PROVE  \E x \in Voters : cast'[r][x] = log'[r][i]
        <3>1. CASE i \in DOMAIN log[r]
            <4>1. PICK x \in Voters : cast[r][x] = log[r][i]
                BY <1>1, <2>3, <3>1 DEF RoundInv, VotesCounted
            <4>2. log[r][i] \in Vote
                BY <3>1 DEF TypeOK
            <4>3. x # v
                BY <1>5, <4>1, <4>2, ActionsAssumption DEF Vote, NoVote
            <4> QED BY <1>1, <1>4, <3>1, <4>1, <4>3, HandleVoteType
        <3>2. CASE i = Len(log[r]) + 1
            BY <1>1, <1>4, <3>2, HandleVoteType
        <3> QED BY <1>1, <2>3, <3>1, <3>2, HandleVoteType
    <2> QED BY <2>1, <2>2, <2>3 DEF VotesCounted
<1>11. VetoWins(r)' /\ LeaderWins(r)'
    BY <1>1, <1>6 DEF VetoWins, LeaderWins
<1> QED BY <1>1, <1>7, <1>8, <1>9, <1>10, <1>11 DEF Keeps, RoundInv

LEMMA ForeignKeeps ==
    ASSUME TypeOK, NEW r \in Rounds, RoundInv(r), NEW vote \in Vote, Foreign(r, vote)
    PROVE  Keeps(r)
<1>1. /\ foreign' = foreign + 1 /\ foreign \in Nat
      /\ HandleVote(r, vote)
      /\ UNCHANGED <<voters, subs, stage, asked, waiting, result, cast>>
    BY DEF Foreign, TypeOK
<1>2. TypeOK'
    <2>1. log' \in [Rounds -> Seq(Vote)] /\ resolved' \subseteq Rounds
        BY <1>1, HandleVoteType
    <2>2. foreign' \in Nat
        BY <1>1
    <2> QED BY <1>1, <2>1, <2>2 DEF TypeOK
<1>3. \A q \in Rounds \ {r} : SameRound(q)
    BY <1>1, HandleVoteType DEF SameRound
<1>4. RoundShape(r)'
    BY <1>1 DEF RoundInv, RoundShape, AllEnded
<1>5. \A a : For(r, a)' = For(r, a)
    BY <1>1 DEF For
<1>6. VotesCounted(r)'
    <2>1. ASSUME NEW x \in Voters, cast'[r][x] # NoVote
          PROVE  \E i \in DOMAIN log'[r] : log'[r][i] = cast'[r][x]
        <3>1. PICK i \in DOMAIN log[r] : log[r][i] = cast[r][x]
            BY <1>1, <2>1 DEF RoundInv, VotesCounted
        <3> QED BY <1>1, <3>1, HandleVoteType
    <2>2. ASSUME NEW a \in Actions
          PROVE  For(r, a)' <= Count(log'[r], a) /\ Count(log'[r], a) <= For(r, a)' + foreign'
        <3>1. Count(log'[r], a) = Count(log[r], a) + (IF vote.act = a THEN 1 ELSE 0)
            BY <1>1, HandleVoteCount
        <3>2. For(r, a) <= Count(log[r], a) /\ Count(log[r], a) <= For(r, a) + foreign
            BY DEF RoundInv, VotesCounted
        <3>3. For(r, a) \in Nat /\ Count(log[r], a) \in Int
            BY <1>1, ForType, HandleVoteCount
        <3> QED BY <1>1, <1>5, <3>1, <3>2, <3>3
    <2> QED BY <1>1, <2>1, <2>2 DEF VotesCounted
<1>7. VetoWins(r)'
    BY <1>1 DEF RoundInv, VetoWins
<1>8. LeaderWins(r)'
    <2>1. ASSUME NEW a \in Actions, LeadsClearly(r, a)' PROVE LeadsClearly(r, a)
        <3>1. \A i \in DOMAIN log[r] : ~IsVeto(log[r][i])
            BY <1>1, <2>1, HandleVoteType DEF LeadsClearly
        <3>2. \A b : For(r, b) \in Nat
            BY ForType
        <3>3. \A b \in Actions \ {a} : For(r, a) > For(r, b) + foreign
            BY <1>1, <1>5, <2>1, <3>2 DEF LeadsClearly
        <3> QED BY <1>5, <2>1, <3>1, <3>3 DEF LeadsClearly
    <2> QED BY <1>1, <2>1 DEF RoundInv, LeaderWins
<1> QED BY <1>1, <1>2, <1>3, <1>4, <1>6, <1>7, <1>8 DEF Keeps, RoundInv

LEMMA DecideKeeps ==
    ASSUME TypeOK, NEW r \in Rounds, RoundInv(r), Decide(r), AllEnded(r),
           stage[r] \notin {"idle", "request"},
           UNCHANGED <<voters, subs, asked, waiting, log, resolved, foreign, cast>>
    PROVE  Keeps(r)
<1>1. /\ log[r] \in Seq(Vote)
      /\ stage' = [stage EXCEPT ![r] = "done"]
      /\ result' = [result EXCEPT ![r] = Tally(log[r])]
      /\ Tally(log[r]) \in Actions
    BY TallyType DEF Decide, TypeOK
<1>2. /\ stage'[r] = "done" /\ result'[r] = Tally(log[r])
      /\ stage' \in [Rounds -> Stages] /\ result' \in [Rounds -> Actions]
      /\ \A q \in Rounds \ {r} : stage'[q] = stage[q] /\ result'[q] = result[q]
    BY <1>1 DEF TypeOK, Stages
<1>3. TypeOK' /\ \A q \in Rounds \ {r} : SameRound(q)
    BY <1>2 DEF TypeOK, SameRound
<1>4. RoundShape(r)'
    BY <1>2 DEF RoundInv, RoundShape, AllEnded
<1>5. VotesCounted(r)'
    <2>1. \A a : For(r, a)' = For(r, a)
        BY DEF For
    <2> QED BY <2>1 DEF RoundInv, VotesCounted
<1>6. VetoWins(r)'
    <2>1. ASSUME NEW v \in Voters, IsVeto(cast[r][v]) PROVE Tally(log[r]) = "block"
        <3>1. cast[r][v] # NoVote
            BY <2>1 DEF IsVeto, NoVote
        <3>2. PICK i \in DOMAIN log[r] : log[r][i] = cast[r][v]
            BY <3>1 DEF RoundInv, VotesCounted
        <3> QED BY <1>1, <2>1, <3>2, TallyVeto
    <2> QED BY <1>2, <2>1 DEF VetoWins
<1>7. LeaderWins(r)'
    <2>1. \A a \in Actions :
            /\ For(r, a)' = For(r, a) /\ For(r, a) \in Nat
            /\ For(r, a) <= Count(log[r], a) /\ Count(log[r], a) <= For(r, a) + foreign
        <3>1. \A a : For(r, a)' = For(r, a)
            BY DEF For
        <3>2. \A a : For(r, a) \in Nat
            BY ForType
        <3> QED BY <3>1, <3>2 DEF RoundInv, VotesCounted
    <2>2. \A a : Count(log[r], a) \in 0..Len(log[r])
        BY <1>1, CountType
    <2>3. foreign \in Nat /\ MinMajority \in Nat
        BY MajorityAssumption DEF TypeOK
    <2>4. ASSUME NEW a \in Actions, LeadsClearly(r, a)' PROVE result'[r] = a
        <3>1. For(r, a) >= MinMajority /\ \A b \in Actions \ {a} : For(r, a) > For(r, b) + foreign
            BY <2>1, <2>4 DEF LeadsClearly
        <3>2. Count(log[r], a) >= MinMajority
            BY <2>1, <2>2, <2>3, <3>1
        <3>3. \A b \in Actions \ {a} : Count(log[r], a) > Count(log[r], b)
            BY <2>1, <2>2, <2>3, <3>1
        <3>4. \A i \in DOMAIN log[r] : ~IsVeto(log[r][i])
            BY <2>4 DEF LeadsClearly
        <3> QED BY <1>1, <1>2, <3>2, <3>3, <3>4, TallyClear
    <2>5. ASSUME foreign' = 0, result'[r] # "quarantine" PROVE Backed(r)'
        <3>1. CASE Tally(log[r]) = "block" /\ \E i \in DOMAIN log[r] : IsVeto(log[r][i])
            <4>1. PICK i \in DOMAIN log[r] : IsVeto(log[r][i])
                BY <3>1
            <4>2. PICK v \in Voters : cast[r][v] = log[r][i]
                BY <2>5 DEF RoundInv, VotesCounted
            <4> QED BY <1>2, <3>1, <4>1, <4>2 DEF Backed
        <3>2. CASE Count(log[r], Tally(log[r])) >= MinMajority
            <4>1. For(r, Tally(log[r]))' >= MinMajority
                BY <1>1, <2>1, <2>2, <2>3, <2>5, <3>2
            <4> QED BY <1>2, <4>1 DEF Backed
        <3> QED BY <1>1, <1>2, <2>5, <3>1, <3>2, TallyBacked
    <2> QED BY <2>4, <2>5 DEF LeaderWins
<1> QED BY <1>3, <1>4, <1>5, <1>6, <1>7 DEF Keeps, RoundInv

LEMMA GatheredKeeps ==
    ASSUME TypeOK, NEW r \in Rounds, RoundInv(r), Gathered(r)
    PROVE  Keeps(r)
<1>1. /\ stage[r] = "solicit" /\ AllEnded(r)
      /\ UNCHANGED <<voters, subs, asked, waiting, log, resolved, foreign, cast>>
    BY DEF Gathered
<1>2. CASE r \in resolved
    BY <1>1, <1>2, DecideKeeps DEF Gathered
<1>3. CASE r \notin resolved
    <2>1. stage' = [stage EXCEPT ![r] = "wait"] /\ UNCHANGED result
        BY <1>3 DEF Gathered
    <2>2. /\ stage'[r] = "wait" /\ stage' \in [Rounds -> Stages]
          /\ \A q \in Rounds \ {r} : stage'[q] = stage[q]
        BY <2>1 DEF TypeOK, Stages
    <2>3. TypeOK' /\ \A q \in Rounds \ {r} : SameRound(q)
        BY <1>1, <2>1, <2>2 DEF TypeOK, SameRound
    <2>4. RoundShape(r)'
        BY <1>1, <2>2 DEF RoundInv, RoundShape, AllEnded
    <2>5. RoundInv(r)'
        BY <1>1, <2>1, <2>2, <2>4, ShapeOnly
    <2> QED BY <1>1, <2>3, <2>5 DEF Keeps
<1> QED BY <1>2, <1>3

LEMMA WaitOverKeeps ==
    ASSUME TypeOK, NEW r \in Rounds, RoundInv(r), WaitOver(r)
    PROVE  Keeps(r)
BY DecideKeeps DEF WaitOver, RoundInv, RoundShape

-----------------------------------------------------------------------------
(* Consensus: theorems *)

LEMMA ConsensusInit == Init => ConsensusInv
<1> SUFFICES ASSUME Init PROVE ConsensusInv
    OBVIOUS
<1>1. TypeOK
    <2>1. result \in [Rounds -> Actions]
        BY ActionsAssumption DEF Init
    <2>2. log \in [Rounds -> Seq(Vote)]
        BY DEF Init
    <2> QED BY <2>1, <2>2 DEF Init, TypeOK, Topics, Stages, Answers
<1>2. ASSUME NEW r \in Rounds PROVE RoundInv(r)
    <2>1. RoundShape(r) /\ VetoWins(r) /\ LeaderWins(r)
        BY <1>2 DEF Init, RoundShape, VetoWins, LeaderWins
    <2>2. ASSUME NEW a \in Actions
          PROVE  For(r, a) <= Count(log[r], a) /\ Count(log[r], a) <= For(r, a) + foreign
        <3>1. {v \in Voters : cast[r][v].act = a} = {}
            BY <1>2, ActionsAssumption DEF Init, NoVote
        <3>2. For(r, a) = 0
            BY <3>1, FS_EmptySet DEF For
        <3>3. log[r] = <<>> /\ foreign = 0
            BY <1>2 DEF Init
        <3> QED BY <3>2, <3>3, CountEmpty
    <2>3. VotesCounted(r)
        BY <1>2, <2>2 DEF Init, VotesCounted
    <2> QED BY <2>1, <2>3 DEF RoundInv
<1> QED BY <1>1, <1>2 DEF ConsensusInv

LEMMA ConsensusStep == ConsensusInv /\ [Next]_vars => ConsensusInv'
<1> SUFFICES ASSUME ConsensusInv, [Next]_vars PROVE ConsensusInv'
    OBVIOUS
<1>1. TypeOK /\ foreign \in Nat /\ \A r \in Rounds : RoundInv(r)
    BY DEF ConsensusInv, TypeOK
<1>2. ASSUME TypeOK', UNCHANGED foreign, \A r \in Rounds : SameRound(r)
      PROVE  ConsensusInv'
    BY <1>1, <1>2, SameRoundKeeps DEF ConsensusInv
<1>3. ASSUME NEW r \in Rounds, Keeps(r)
      PROVE  ConsensusInv'
    <2>1. foreign' \in Nat /\ foreign' >= foreign
        BY <1>1, <1>3 DEF Keeps
    <2>2. \A q \in Rounds \ {r} : RoundInv(q)'
        BY <1>1, <1>3, <2>1, SameRoundKeeps DEF Keeps
    <2> QED BY <1>3, <2>2 DEF Keeps, ConsensusInv
<1>4. CASE BusStep
    <2>1. UNCHANGED <<stage, asked, waiting, log, resolved, result, foreign, cast>>
        BY <1>4 DEF BusStep, Register, Subscribe, Unsubscribe
    <2>2. voters' \subseteq Voters
        BY <1>1, <1>4 DEF BusStep, Register, Subscribe, Unsubscribe, TypeOK
    <2>3. subs' \in [Topics -> SUBSET Subscribers]
        <3>1. subs \in [Topics -> SUBSET Subscribers]
            BY <1>1 DEF TypeOK
        <3>2. CASE \E v \in Voters : Register(v)
            BY <3>1, <3>2 DEF Register
        <3>3. ASSUME NEW t \in Topics, NEW h \in Subscribers, Subscribe(t, h) \/ Unsubscribe(t, h)
              PROVE  subs' \in [Topics -> SUBSET Subscribers]
            BY <3>1, <3>3 DEF Subscribe, Unsubscribe
        <3> QED BY <1>4, <3>2, <3>3 DEF BusStep
    <2>4. TypeOK'
        BY <1>1, <2>1, <2>2, <2>3 DEF TypeOK
    <2> QED BY <1>2, <2>1, <2>4 DEF SameRound
<1>5. CASE UNCHANGED vars
    <2>1. TypeOK'
        BY <1>1, <1>5 DEF vars, TypeOK
    <2> QED BY <1>2, <1>5, <2>1 DEF vars, SameRound
<1>6. ASSUME NEW r \in Rounds,
             \/ StartRound(r)
             \/ \E x \in Voters \cup {"engine"}, h \in Subscribers : Handled(r, x, h)
             \/ \E v \in Voters, vote \in Vote : Answer(r, v, vote)
             \/ \E v \in Voters : Fail(r, v)
             \/ Gathered(r)
             \/ WaitOver(r)
             \/ \E vote \in Vote : Foreign(r, vote)
      PROVE  Keeps(r)
    BY <1>1, <1>6, StartRoundKeeps, HandledKeeps, AnswerKeeps, FailKeeps, GatheredKeeps,
       WaitOverKeeps, ForeignKeeps
<1> QED BY <1>3, <1>4, <1>5, <1>6 DEF Next

LEMMA ConsensusAlways == Spec => []ConsensusInv
BY ConsensusInit, ConsensusStep, PTL DEF Spec

\* Type correctness of the rounds, for any rounds, voters, subscribers and actions.
THEOREM ConsensusTypeCorrect == Spec => []TypeOK
<1>1. ConsensusInv => TypeOK
    BY DEF ConsensusInv
<1> QED BY <1>1, ConsensusAlways, PTL

\* One voter's timely, sure vote to block decides its round, whatever other voters,
\* subscribers and strangers do and in whatever order the tasks of the bus run.
THEOREM ConsensusVetoBlocks == Spec => []VetoBlocks
<1>1. ConsensusInv => VetoBlocks
    BY DEF ConsensusInv, RoundInv, VetoWins, VetoBlocks
<1> QED BY <1>1, ConsensusAlways, PTL

\* A clear lead among the voters survives as many foreign votes as it is larger than;
\* without foreign votes no round does more than quarantine without MinMajority voters
\* or a veto, for any number of voters and rounds.
THEOREM ConsensusVotersDecide == Spec => []VotersDecide
<1>1. ConsensusInv => VotersDecide
    BY DEF ConsensusInv, RoundInv, LeaderWins, LeadsClearly, Backed, VotersDecide
<1> QED BY <1>1, ConsensusAlways, PTL

-----------------------------------------------------------------------------
(* The broker *)

\* A call that was made was refused, or an implementation ran for it.
CallShape(c) ==
    /\ state[c] = "new" => ran[c] = {} /\ toolResult[c] = "none"
    /\ state[c] # "new" => (toolResult[c] = "refused" <=> ran[c] = {})
    /\ state[c] = "running" => toolResult[c] = "none"

CallAsDeclared(c) ==
    \A t \in ran[c] : \E e \in due[c] : e.tool = t /\ Evaluate(e.level, risk[c]) = "allow"

Made    == {c \in Calls : state[c] # "new"}
Refused == {c \in Calls : toolResult[c] = "refused"}

BrokerInv ==
    /\ BrokerTypeOK
    /\ registry = declared
    /\ invocationCount = Cardinality(Made)
    /\ blockCount = Cardinality(Refused)
    /\ \A c \in Calls : CallShape(c) /\ CallAsDeclared(c)

SameCall(c) ==
    /\ state'[c] = state[c] /\ toolResult'[c] = toolResult[c] /\ ran'[c] = ran[c]
    /\ due'[c] = due[c] /\ risk'[c] = risk[c]

LEMMA SameCallKeeps ==
    ASSUME NEW c \in Calls, SameCall(c), CallShape(c), CallAsDeclared(c)
    PROVE  CallShape(c)' /\ CallAsDeclared(c)'
BY DEF SameCall, CallShape, CallAsDeclared

LEMMA BrokerInvInit == BrokerInit => BrokerInv
<1> SUFFICES ASSUME BrokerInit PROVE BrokerInv
    OBVIOUS
<1>1. BrokerTypeOK
    BY DEF BrokerInit, BrokerTypeOK, States, Results
<1>2. Made = {} /\ Refused = {}
    BY DEF BrokerInit, Made, Refused
<1>3. \A c \in Calls : CallShape(c) /\ CallAsDeclared(c)
    BY DEF BrokerInit, CallShape, CallAsDeclared
<1> QED BY <1>1, <1>2, <1>3, FS_EmptySet DEF BrokerInv, BrokerInit

\* What the beginning of invoke() does, which leaves the call in state s.
Begun(c, n, score, s) ==
    /\ state[c] = "new" /\ ran[c] = {} /\ toolResult[c] = "none"
    /\ risk' \in [Calls -> Risks \cup {0}] /\ risk'[c] = score
    /\ due' \in [Calls -> SUBSET Entry] /\ due'[c] = {d \in declared : d.name = n}
    /\ state' \in [Calls -> States] /\ state'[c] = s
    /\ invocationCount' \in Nat
    /\ invocationCount' = Cardinality(Made')
    /\ \A d \in Calls \ {c} :
          state'[d] = state[d] /\ due'[d] = due[d] /\ risk'[d] = risk[d]

LEMMA BeginStep ==
    ASSUME BrokerInv, NEW c \in Calls, NEW n \in Names, NEW score \in Risks,
           Begin(c, n, score),
           NEW s \in States \ {"new"}, state' = [state EXCEPT ![c] = s]
    PROVE  Begun(c, n, score, s)
<1>1. /\ state[c] = "new" /\ invocationCount' = invocationCount + 1
      /\ risk' = [risk EXCEPT ![c] = score]
      /\ due' = [due EXCEPT ![c] = {d \in declared : d.name = n}]
    BY DEF Begin
<1>2. ran[c] = {} /\ toolResult[c] = "none"
    BY <1>1 DEF BrokerInv, CallShape
<1>3. /\ risk' \in [Calls -> Risks \cup {0}] /\ risk'[c] = score
      /\ \A d \in Calls \ {c} : risk'[d] = risk[d]
    BY <1>1 DEF BrokerInv, BrokerTypeOK
<1>4. /\ due' \in [Calls -> SUBSET Entry] /\ due'[c] = {d \in declared : d.name = n}
      /\ \A d \in Calls \ {c} : due'[d] = due[d]
    BY <1>1 DEF BrokerInv, BrokerTypeOK
<1>5. /\ state' \in [Calls -> States] /\ state'[c] = s
      /\ \A d \in Calls \ {c} : state'[d] = state[d]
    BY DEF BrokerInv, BrokerTypeOK
<1>6. Made' = Made \cup {c} /\ c \notin Made
    BY <1>1, <1>5 DEF Made
<1>7. IsFiniteSet(Made)
    <2>1. Made \subseteq Calls
        BY DEF Made
    <2> QED BY <2>1, CallsAssumption, FS_Subset
<1>8. Cardinality(Made') = Cardinality(Made) + 1
    BY <1>6, <1>7, FS_AddElement
<1>9. invocationCount \in Nat /\ invocationCount = Cardinality(Made)
    BY DEF BrokerInv, BrokerTypeOK
<1>10. invocationCount' \in Nat /\ invocationCount' = Cardinality(Made')
    BY <1>1, <1>8, <1>9
<1> QED BY <1>1, <1>2, <1>3, <1>4, <1>5, <1>10 DEF Begun

LEMMA RefuseStep ==
    ASSUME BrokerInv, NEW c \in Calls, NEW n \in Names, NEW score \in Risks,
           Refuse(c, n, score)
    PROVE  BrokerInv'
<1>1. /\ blockCount' = blockCount + 1
      /\ toolResult' = [toolResult EXCEPT ![c] = "refused"]
      /\ UNCHANGED <<registry, ran, declared>>
    BY DEF Refuse
<1>2. Begun(c, n, score, "done")
    BY BeginStep DEF Refuse, States
<1>3. /\ toolResult' \in [Calls -> Results] /\ toolResult'[c] = "refused"
      /\ \A d \in Calls \ {c} : toolResult'[d] = toolResult[d]
    BY <1>1 DEF BrokerInv, BrokerTypeOK, Results
<1>4. Refused' = Refused \cup {c} /\ c \notin Refused
    BY <1>2, <1>3 DEF Begun, Refused
<1>5. IsFiniteSet(Refused)
    <2>1. Refused \subseteq Calls
        BY DEF Refused
    <2> QED BY <2>1, CallsAssumption, FS_Subset
<1>6. Cardinality(Refused') = Cardinality(Refused) + 1
    BY <1>4, <1>5, FS_AddElement
<1>7. blockCount' = Cardinality(Refused') /\ blockCount' \in Nat
    BY <1>1, <1>6 DEF BrokerInv, BrokerTypeOK
<1>8. BrokerTypeOK'
    BY <1>1, <1>2, <1>3, <1>7 DEF Begun, BrokerInv, BrokerTypeOK
<1>9. CallShape(c)' /\ CallAsDeclared(c)'
    BY <1>1, <1>2, <1>3 DEF Begun, CallShape, CallAsDeclared
<1>10. \A d \in Calls \ {c} : SameCall(d)
    BY <1>1, <1>2, <1>3 DEF Begun, SameCall
<1>11. \A d \in Calls \ {c} : CallShape(d)' /\ CallAsDeclared(d)'
    BY <1>10, SameCallKeeps DEF BrokerInv
<1> QED BY <1>1, <1>2, <1>7, <1>8, <1>9, <1>11 DEF Begun, BrokerInv

\* An implementation ran, to its end or to its first await.
LEMMA RunStep ==
    ASSUME BrokerInv, NEW c \in Calls, NEW n \in Names, NEW score \in Risks,
           Begin(c, n, score),
           NEW s \in {"done", "running"}, state' = [state EXCEPT ![c] = s],
           NEW e \in Registered(n), Evaluate(e.level, score) = "allow",
           ran' = [ran EXCEPT ![c] = {e.tool}],
           NEW x \in {"none", "ok", "error"}, toolResult' = [toolResult EXCEPT ![c] = x],
           s = "running" => x = "none",
           UNCHANGED <<registry, blockCount, declared>>
    PROVE  BrokerInv'
<1>1. Begun(c, n, score, s)
    BY BeginStep DEF States
<1>2. /\ toolResult' \in [Calls -> Results] /\ toolResult'[c] = x
      /\ \A d \in Calls \ {c} : toolResult'[d] = toolResult[d]
    BY DEF BrokerInv, BrokerTypeOK, Results
<1>3. e \in declared /\ e.name = n /\ e \in Entry
    BY DEF BrokerInv, BrokerTypeOK, Registered
<1>4. /\ ran' \in [Calls -> SUBSET Tools] /\ ran'[c] = {e.tool}
      /\ \A d \in Calls \ {c} : ran'[d] = ran[d]
    <2>1. e.tool \in Tools
        BY <1>3 DEF Entry
    <2> QED BY <2>1 DEF BrokerInv, BrokerTypeOK
<1>5. Refused' = Refused
    BY <1>1, <1>2 DEF Begun, Refused
<1>6. BrokerTypeOK'
    BY <1>1, <1>2, <1>4 DEF Begun, BrokerInv, BrokerTypeOK
<1>7. CallShape(c)' /\ CallAsDeclared(c)'
    BY <1>1, <1>2, <1>3, <1>4 DEF Begun, CallShape, CallAsDeclared
<1>8. \A d \in Calls \ {c} : SameCall(d)
    BY <1>1, <1>2, <1>4 DEF Begun, SameCall
<1>9. \A d \in Calls \ {c} : CallShape(d)' /\ CallAsDeclared(d)'
    BY <1>8, SameCallKeeps DEF BrokerInv
<1> QED BY <1>1, <1>5, <1>6, <1>7, <1>9 DEF Begun, BrokerInv

LEMMA RunSyncStep ==
    ASSUME BrokerInv, NEW c \in Calls, NEW n \in Names, NEW score \in Risks,
           RunSync(c, n, score)
    PROVE  BrokerInv'
<1>1. /\ Begin(c, n, score) /\ state' = [state EXCEPT ![c] = "done"]
      /\ UNCHANGED <<registry, blockCount, declared>>
    BY DEF RunSync
<1>2. PICK e \in Registered(n) :
        Evaluate(e.level, score) = "allow" /\ ran' = [ran EXCEPT ![c] = {e.tool}]
    BY DEF RunSync
<1>3. PICK x \in {"ok", "error"} : toolResult' = [toolResult EXCEPT ![c] = x]
    BY DEF RunSync
<1> QED BY <1>1, <1>2, <1>3, RunStep

LEMMA RunAsyncStep ==
    ASSUME BrokerInv, NEW c \in Calls, NEW n \in Names, NEW score \in Risks,
           RunAsync(c, n, score)
    PROVE  BrokerInv'
<1>1. /\ Begin(c, n, score) /\ state' = [state EXCEPT ![c] = "running"]
      /\ UNCHANGED <<registry, blockCount, toolResult, declared>>
    BY DEF RunAsync
<1>2. PICK e \in Registered(n) :
        Evaluate(e.level, score) = "allow" /\ ran' = [ran EXCEPT ![c] = {e.tool}]
    BY DEF RunAsync
<1>3. toolResult' = [toolResult EXCEPT ![c] = "none"]
    <2>1. toolResult[c] = "none"
        BY <1>1 DEF BrokerInv, CallShape, Begin
    <2> QED BY <1>1, <2>1 DEF BrokerInv, BrokerTypeOK
<1> QED BY <1>1, <1>2, <1>3, RunStep

\* The tool a call runs ends, or the call is cancelled.
LEMMA EndStep ==
    ASSUME BrokerInv, NEW c \in Calls, Finish(c) \/ Cancel(c)
    PROVE  BrokerInv'
<1>1. /\ state[c] = "running"
      /\ UNCHANGED <<registry, invocationCount, blockCount, risk, ran, declared, due>>
    BY DEF Finish, Cancel
<1>2. PICK s \in {"done", "cancelled"} : state' = [state EXCEPT ![c] = s]
    BY DEF Finish, Cancel
<1>3. toolResult[c] = "none" /\ ran[c] # {}
    BY <1>1 DEF BrokerInv, CallShape
<1>4. PICK x \in {"none", "ok", "error"} : toolResult' = [toolResult EXCEPT ![c] = x]
    BY <1>3 DEF Finish, Cancel, BrokerInv, BrokerTypeOK
<1>5. /\ state' \in [Calls -> States] /\ state'[c] = s
      /\ toolResult' \in [Calls -> Results] /\ toolResult'[c] = x
      /\ \A d \in Calls \ {c} : state'[d] = state[d] /\ toolResult'[d] = toolResult[d]
    BY <1>2, <1>4 DEF BrokerInv, BrokerTypeOK, States, Results
<1>6. Made' = Made /\ Refused' = Refused
    BY <1>1, <1>3, <1>5 DEF Made, Refused
<1>7. BrokerTypeOK'
    BY <1>1, <1>5 DEF BrokerInv, BrokerTypeOK
<1>8. CallShape(c)' /\ CallAsDeclared(c)'
    BY <1>1, <1>3, <1>5 DEF BrokerInv, CallShape, CallAsDeclared
<1>9. \A d \in Calls \ {c} : SameCall(d)
    BY <1>1, <1>5 DEF SameCall
<1>10. \A d \in Calls \ {c} : CallShape(d)' /\ CallAsDeclared(d)'
    BY <1>9, SameCallKeeps DEF BrokerInv
<1> QED BY <1>1, <1>6, <1>7, <1>8, <1>10 DEF BrokerInv

LEMMA BrokerInvStep == BrokerInv /\ [BrokerNext]_brokerVars => BrokerInv'
<1> SUFFICES ASSUME BrokerInv, [BrokerNext]_brokerVars PROVE BrokerInv'
    OBVIOUS
<1>1. ASSUME UNCHANGED <<invocationCount, blockCount, state, risk, toolResult, ran, due>>,
             registry' = declared', registry' \subseteq Entry
      PROVE  BrokerInv'
    <2>1. BrokerTypeOK' /\ Made' = Made /\ Refused' = Refused
        BY <1>1 DEF BrokerInv, BrokerTypeOK, Made, Refused
    <2>2. \A c \in Calls : SameCall(c)
        BY <1>1 DEF SameCall
    <2>3. \A c \in Calls : CallShape(c)' /\ CallAsDeclared(c)'
        BY <2>2, SameCallKeeps DEF BrokerInv
    <2> QED BY <1>1, <2>1, <2>3 DEF BrokerInv
<1>2. CASE UNCHANGED brokerVars
    BY <1>1, <1>2 DEF brokerVars, BrokerInv, BrokerTypeOK
<1>3. ASSUME NEW e \in Entry, RegisterTool(e) PROVE BrokerInv'
    BY <1>1, <1>3 DEF RegisterTool, Registered, Declare, BrokerInv, BrokerTypeOK
<1>4. ASSUME NEW c \in Calls, NEW n \in Names, NEW score \in Risks,
             Refuse(c, n, score) \/ RunSync(c, n, score) \/ RunAsync(c, n, score)
      PROVE  BrokerInv'
    BY <1>4, RefuseStep, RunSyncStep, RunAsyncStep
<1>5. ASSUME NEW c \in Calls, Finish(c) \/ Cancel(c) PROVE BrokerInv'
    BY <1>5, EndStep
<1> QED BY <1>2, <1>3, <1>4, <1>5 DEF BrokerNext

LEMMA BrokerAlways == BrokerSpec => []BrokerInv
BY BrokerInvInit, BrokerInvStep, PTL DEF BrokerSpec

LEMMA BrokerInvCounts == BrokerInv => CountersAgree
<1> SUFFICES ASSUME BrokerInv PROVE CountersAgree
    OBVIOUS
<1> DEFINE Ran == {c \in Calls : ran[c] # {}}
<1>1. /\ Made \subseteq Calls /\ Refused \subseteq Made
      /\ Ran = Made \ Refused /\ Made \cap Refused = Refused
    <2>1. \A c \in Calls : CallShape(c)
        BY DEF BrokerInv
    <2> QED BY <2>1 DEF Made, Refused, CallShape
<1>2. IsFiniteSet(Made) /\ IsFiniteSet(Refused)
    BY <1>1, CallsAssumption, FS_Subset
<1>3. Cardinality(Made \ Refused) = Cardinality(Made) - Cardinality(Made \cap Refused)
    BY <1>2, FS_Difference
<1> HIDE DEF Ran
<1>4. invocationCount - blockCount = Cardinality(Ran)
    BY <1>1, <1>3 DEF BrokerInv
<1>5. Cardinality(Ran) = Cardinality({c \in Calls : ran[c] # {}})
    BY DEF Ran
<1> QED BY <1>4, <1>5 DEF CountersAgree, BrokerInv, Made, Refused

\* The broker's numbers account for every call, for any finite number of calls, tools and
\* levels.
THEOREM BrokerCountersAgree == BrokerSpec => []CountersAgree
BY BrokerInvCounts, BrokerAlways, PTL

\* No implementation ever runs that register_tool() was not last given for the name, or
\* whose policy does not let the risk of the call pass.
THEOREM BrokerRanAsDeclared == BrokerSpec => []RanAsDeclared
<1>1. BrokerInv => RanAsDeclared
    BY DEF BrokerInv, CallAsDeclared, RanAsDeclared
<1> QED BY <1>1, BrokerAlways, PTL
=============================================================================
