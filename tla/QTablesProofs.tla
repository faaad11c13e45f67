---------------------------- MODULE QTablesProofs ---------------------------
(***************************************************************************)
(* Proofs about QTables, for any number of agents, vectors and bounds.     *)
(***************************************************************************)
EXTENDS QTables, TLAPS

-----------------------------------------------------------------------------
(* Type correctness *)

LEMMA RowType ==
    ASSUME NEW a0 \in Values, NEW a1 \in Values, NEW a2 \in Values,
           NEW a3 \in Values, NEW a4 \in Values
    PROVE  Row(a0, a1, a2, a3, a4) \in [ActionIds -> Values]
BY DEF Row, ActionIds

LEMMA SeededType == Seeded \in Table /\ Seeded.seen = 0
<1>1. Row(-5000, 2000, 4000, 3000, 8000) \in [ActionIds -> Values]
    BY DEF Row, ActionIds, Values
<1>2. Row(-3000, 1000, 3000, 2000, 6000) \in [ActionIds -> Values]
    BY DEF Row, ActionIds, Values
<1>3. Row(2000, 3000, 4000, 3500, 1000) \in [ActionIds -> Values]
    BY DEF Row, ActionIds, Values
<1>4. Row(5000, 1000, -1000, -2000, -5000) \in [ActionIds -> Values]
    BY DEF Row, ActionIds, Values
<1>5. Row(0, 0, 0, 0, 0) \in [ActionIds -> Values]
    BY DEF Row, ActionIds, Values
<1>6. ASSUME NEW v \in Vectors PROVE Seed(v) \in [ActionIds -> Values]
    <2> HIDE DEF ActionIds, Values
    <2> QED BY <1>1, <1>2, <1>3, <1>4, <1>5 DEF Seed
<1> QED BY <1>6 DEF Seeded, Table

LEMMA RewardType ==
    ASSUME NEW a \in ActionIds, NEW threat \in BOOLEAN
    PROVE  Reward(a, threat) \in Values
<1>1. a = 0 \/ a = 1 \/ a = 2 \/ a = 3 \/ a = 4
    BY DEF ActionIds
<1> QED BY <1>1, SMTT(20) DEF Reward, Values

\* A learnt value lies between the old value and the reward.
LEMMA LearnedType ==
    ASSUME NEW q \in Values, NEW r \in Values
    PROVE  Learned(q, r) \in Values
BY SMTT(20) DEF Learned, Values

LEMMA UpdatedType ==
    ASSUME NEW t \in Table, NEW v \in Vectors, NEW a \in ActionIds, NEW threat \in BOOLEAN
    PROVE  /\ Updated(t, v, a, threat) \in Table
           /\ Updated(t, v, a, threat).seen = t.seen + 1
<1>1. t.q[v][a] \in Values /\ t.q \in [Vectors -> [ActionIds -> Values]] /\ t.seen \in Nat
    BY DEF Table
<1>2. Learned(t.q[v][a], Reward(a, threat)) \in Values
    BY <1>1, RewardType, LearnedType
<1>3. [t.q EXCEPT ![v][a] = Learned(@, Reward(a, threat))]
          \in [Vectors -> [ActionIds -> Values]]
    BY <1>1, <1>2
<1> QED BY <1>1, <1>3 DEF Updated, Table

LEMMA LoadedType ==
    ASSUME TypeOK, NEW a \in Agents
    PROVE  Loaded(a) \in Table
BY SeededType DEF TypeOK, Files, Loaded

LEMMA TypeInit == Init => TypeOK
<1> SUFFICES ASSUME Init PROVE TypeOK
    OBVIOUS
<1>1. 1 \in Agents
    BY AgentsAssumption DEF Agents
<1>2. file \in [Agents -> Files]
    BY SeededType DEF Init, Files
<1> QED BY <1>1, <1>2, SeededType DEF Init, TypeOK, Phases

LEMMA TypeStep == TypeOK /\ [Next]_vars => TypeOK'
<1> SUFFICES ASSUME TypeOK, [Next]_vars PROVE TypeOK'
    OBVIOUS
<1>0. 1 \in Agents
    BY AgentsAssumption DEF Agents
<1>1. CASE UNCHANGED vars
    BY <1>1 DEF vars, TypeOK
<1>2. CASE Start
    BY <1>2, LoadedType DEF Start, TypeOK, Phases
<1>3. CASE StartFails
    BY <1>3 DEF StartFails, TypeOK
<1>4. CASE \E v \in Vectors, a \in ActionIds, threat \in BOOLEAN : RecordOutcome(v, a, threat)
    <2>1. PICK v \in Vectors, a \in ActionIds, threat \in BOOLEAN : RecordOutcome(v, a, threat)
        BY <1>4
    <2>2. \A g \in Agents : Updated(table[g], v, a, threat) \in Table
        BY UpdatedType DEF TypeOK
    <2> QED BY <2>1, <2>2 DEF RecordOutcome, TypeOK
<1>5. CASE BeginPersist
    BY <1>0, <1>5 DEF BeginPersist, TypeOK, Phases
<1>6. CASE OpenFile
    <2>1. [file[turn] EXCEPT !.state = "torn"] \in Files
        BY DEF TypeOK, Files
    <2> QED BY <1>6, <2>1 DEF OpenFile, TypeOK, Phases
<1>7. CASE WriteDone
    <2>1. [state |-> "whole", table |-> table[turn]] \in Files /\ table[turn].seen \in Nat
        BY DEF TypeOK, Files, Table
    <2>2. turn < NumAgents => turn + 1 \in Agents
        BY AgentsAssumption DEF TypeOK, Agents
    <2>3. /\ file' \in [Agents -> Files] /\ committed' \in [Agents -> Nat]
          /\ phase' \in Phases /\ turn' \in Agents
        BY <1>0, <1>7, <2>1, <2>2 DEF WriteDone, TypeOK, Phases
    <2> QED BY <1>7, <2>3 DEF WriteDone, TypeOK
<1>8. CASE WriteFails
    BY <1>0, <1>8 DEF WriteFails, TypeOK, Phases
<1>9. CASE Crash
    BY <1>0, <1>9, SeededType DEF Crash, TypeOK, Phases
<1> QED BY <1>1, <1>2, <1>3, <1>4, <1>5, <1>6, <1>7, <1>8, <1>9 DEF Next

\* Every value stays in the range of the rewards, whatever is learnt in which order.
THEOREM QTablesTypeCorrect == Spec => []TypeOK
BY TypeInit, TypeStep, PTL DEF Spec

-----------------------------------------------------------------------------
(* What was written is not forgotten *)

\* Until an agent's file is first written nothing was committed.
KeptInv ==
    /\ LearningIsKept
    /\ \A a \in Agents : file[a].state = "absent" => committed[a] = 0

LEMMA KeptStep == TypeOK /\ KeptInv /\ [Next]_vars => KeptInv'
<1> SUFFICES ASSUME TypeOK, KeptInv, [Next]_vars PROVE KeptInv'
    OBVIOUS
<1>0. \A a \in Agents : table[a].seen \in Nat /\ committed[a] \in Nat /\ file[a] \in Files
    BY DEF TypeOK, Table
<1>1. CASE UNCHANGED vars
    BY <1>1 DEF vars, KeptInv, LearningIsKept, Running
<1>2. CASE Start
    <2>1. ASSUME NEW a \in Agents PROVE Loaded(a).seen >= committed[a]
        <3>1. file[a].state \in {"absent", "whole"}
            BY <1>0, <1>2 DEF Start, Files
        <3> QED BY <3>1, SeededType DEF KeptInv, LearningIsKept, Loaded
    <2> QED BY <1>2, <2>1 DEF Start, KeptInv, LearningIsKept
<1>3. CASE StartFails
    BY <1>3 DEF StartFails, KeptInv, LearningIsKept, Running
<1>4. CASE \E v \in Vectors, a \in ActionIds, threat \in BOOLEAN : RecordOutcome(v, a, threat)
    <2>1. PICK v \in Vectors, a \in ActionIds, threat \in BOOLEAN : RecordOutcome(v, a, threat)
        BY <1>4
    <2>2. ASSUME NEW g \in Agents PROVE table'[g].seen >= committed[g]
        <3>1. table'[g].seen = table[g].seen + 1
            BY <2>1, UpdatedType DEF RecordOutcome, TypeOK
        <3>2. table[g].seen >= committed[g]
            BY <2>1 DEF RecordOutcome, KeptInv, LearningIsKept, Running
        <3> QED BY <1>0, <3>1, <3>2
    <2> QED BY <2>1, <2>2 DEF RecordOutcome, KeptInv, LearningIsKept
<1>5. CASE BeginPersist
    BY <1>5 DEF BeginPersist, KeptInv, LearningIsKept, Running
<1>6. CASE OpenFile
    <2>1. \A a \in Agents : file'[a] = file[a] \/ file'[a].state = "torn"
        BY <1>6 DEF OpenFile, TypeOK, Files
    <2> QED BY <1>6, <2>1 DEF OpenFile, KeptInv, LearningIsKept, Running
<1>7. CASE WriteDone
    <2>1. \A a \in Agents :
             \/ file'[a] = file[a] /\ committed'[a] = committed[a]
             \/ /\ a = turn /\ committed'[a] = table[a].seen
                /\ file'[a] = [state |-> "whole", table |-> table[a]]
        BY <1>7 DEF WriteDone, TypeOK
    <2>2. Running /\ table' = table
        BY <1>7 DEF WriteDone, Running
    <2>3. ASSUME NEW a \in Agents
          PROVE  /\ table'[a].seen >= committed'[a]
                 /\ file'[a].state = "whole" => file'[a].table.seen >= committed'[a]
                 /\ file'[a].state = "absent" => committed'[a] = 0
        <3>1. CASE file'[a] = file[a] /\ committed'[a] = committed[a]
            BY <2>2, <3>1 DEF KeptInv, LearningIsKept
        <3>2. CASE committed'[a] = table[a].seen /\ file'[a] = [state |-> "whole", table |-> table[a]]
            BY <1>0, <2>2, <3>2
        <3> QED BY <2>1, <3>1, <3>2
    <2> QED BY <2>3 DEF KeptInv, LearningIsKept
<1>8. CASE WriteFails
    BY <1>8 DEF WriteFails, KeptInv, LearningIsKept, Running
<1>9. CASE Crash
    BY <1>9 DEF Crash, KeptInv, LearningIsKept, Running
<1> QED BY <1>1, <1>2, <1>3, <1>4, <1>5, <1>6, <1>7, <1>8, <1>9 DEF Next

\* Over crashes, failed writes and restarts, a running engine has seen at least what any
\* of its files ever held: a write that fails makes a file unreadable, never older.
THEOREM QTablesLearningIsKept == Spec => []LearningIsKept
<1>1. Init => KeptInv
    BY DEF Init, KeptInv, LearningIsKept, Running
<1>2. KeptInv => LearningIsKept
    BY DEF KeptInv
<1> QED BY <1>1, <1>2, TypeInit, TypeStep, KeptStep, PTL DEF Spec

-----------------------------------------------------------------------------
(* The tables of the agents *)

Readable(a) == file[a].state # "torn"

\* Two tables, of an earlier and of a later agent: the later one is not ahead, and equal
\* when it is not behind.
Follows(s, t) == s.seen >= t.seen /\ (s.seen = t.seen => s = t)

\* Files are written in the order of the agents by one persist_all() after the other, so
\* what can be read of them, and the tables in memory before them, are in order too;
\* the files persist_all() has written already are the tables in memory.
AgreeInv ==
    /\ \A a, b \in Agents :
          a < b /\ Readable(a) /\ Readable(b) => Follows(Loaded(a), Loaded(b))
    /\ Running =>
          /\ \A a \in Agents : Readable(a) => Follows(table[a], Loaded(a))
          /\ \A a, b \in Agents : a < b => Follows(table[a], table[b])
          /\ ~mixed => \A a, b \in Agents : table[a] = table[b]
    /\ phase \in {"saving", "writing"} =>
          \A a \in Agents : a < turn => Loaded(a) = table[a]

LEMMA SeenNat ==
    ASSUME TypeOK, NEW a \in Agents
    PROVE  table[a].seen \in Nat /\ Loaded(a).seen \in Nat /\ table[a] \in Table
BY LoadedType DEF TypeOK, Table

LEMMA AgentOrder == \A a, b \in Agents : a \in Int /\ (a < b \/ b < a \/ a = b)
BY DEF Agents

LEMMA FollowsTwice ==
    ASSUME NEW r, NEW s, NEW t, r.seen \in Nat, s.seen \in Nat, t.seen \in Nat,
           Follows(r, s), Follows(s, t)
    PROVE  Follows(r, t)
BY DEF Follows

LEMMA AgreeInit == Init => AgreeInv
<1> SUFFICES ASSUME Init PROVE AgreeInv
    OBVIOUS
<1>1. \A a \in Agents : Loaded(a) = Seeded
    BY DEF Init, Loaded
<1>2. Follows(Seeded, Seeded)
    BY SeededType DEF Follows
<1> QED BY <1>1, <1>2 DEF Init, AgreeInv, Running

LEMMA AgreeStep == TypeOK /\ AgreeInv /\ [Next]_vars => AgreeInv'
<1> SUFFICES ASSUME TypeOK, AgreeInv, [Next]_vars PROVE AgreeInv'
    OBVIOUS
<1>1. CASE UNCHANGED vars
    BY <1>1 DEF vars, AgreeInv, Running, Readable, Loaded
<1>2. CASE Start
    <2>1. /\ \A a \in Agents : Readable(a) /\ table'[a] = Loaded(a)
          /\ file' = file /\ phase' = "up"
          /\ mixed' = \E a, b \in Agents : Loaded(a).seen # Loaded(b).seen
        BY <1>2 DEF Start, Readable
    <2>2. \A a \in Agents : Readable(a)' /\ Loaded(a)' = Loaded(a)
        BY <2>1 DEF Readable, Loaded
    <2>3. \A a \in Agents : Follows(Loaded(a), Loaded(a))
        BY SeenNat DEF Follows
    <2>4. \A a, b \in Agents : a < b => Follows(Loaded(a), Loaded(b))
        BY <2>1 DEF AgreeInv
    <2>5. ~mixed' => \A a, b \in Agents : Loaded(a) = Loaded(b)
        BY <2>1, <2>4, AgentOrder DEF Follows
    <2> QED BY <2>1, <2>2, <2>3, <2>4, <2>5 DEF AgreeInv
<1>3. CASE StartFails
    BY <1>3 DEF StartFails, AgreeInv, Running, Readable, Loaded
<1>4. CASE \E v \in Vectors, a \in ActionIds, threat \in BOOLEAN : RecordOutcome(v, a, threat)
    <2>1. PICK v \in Vectors, a \in ActionIds, threat \in BOOLEAN : RecordOutcome(v, a, threat)
        BY <1>4
    <2>2. /\ \A g \in Agents : table'[g] = Updated(table[g], v, a, threat)
          /\ UNCHANGED <<phase, turn, file, mixed>> /\ phase = "up" /\ Running
        BY <2>1 DEF RecordOutcome, Running
    <2>3. \A g \in Agents : table'[g].seen = table[g].seen + 1
        BY <2>2, SeenNat, UpdatedType
    <2>4. \A g \in Agents : Readable(g)' = Readable(g) /\ Loaded(g)' = Loaded(g)
        BY <2>2 DEF Readable, Loaded
    <2>5. ASSUME NEW g \in Agents, NEW h \in Agents, Follows(table[g], table[h])
          PROVE  Follows(table'[g], table'[h])
        BY <2>2, <2>3, <2>5, SeenNat DEF Follows
    <2>6. ASSUME NEW g \in Agents, Readable(g) PROVE Follows(table'[g], Loaded(g))
        BY <2>2, <2>3, <2>6, SeenNat DEF Follows, AgreeInv
    <2> QED BY <2>2, <2>4, <2>5, <2>6 DEF AgreeInv
<1>5. CASE BeginPersist
    <2>1. /\ phase' = "saving" /\ turn' = 1 /\ UNCHANGED <<table, file, mixed>> /\ Running
        BY <1>5 DEF BeginPersist, Running
    <2>2. \A a \in Agents : ~(a < turn')
        BY <2>1 DEF Agents
    <2> QED BY <2>1, <2>2 DEF AgreeInv, Readable, Loaded
<1>6. CASE OpenFile
    <2>1. /\ phase = "saving" /\ phase' = "writing" /\ Running
          /\ UNCHANGED <<turn, table, mixed>> /\ turn \in Agents
          /\ \A a \in Agents : a # turn => file'[a] = file[a]
          /\ file'[turn].state = "torn"
        BY <1>6 DEF OpenFile, TypeOK, Files, Running
    <2>2. \A a \in Agents :
             /\ a # turn => Loaded(a)' = Loaded(a) /\ Readable(a)' = Readable(a)
             /\ Readable(a)' => a # turn
        BY <2>1 DEF Readable, Loaded
    <2>3. \A a \in Agents : a < turn => a # turn
        BY <2>1, AgentOrder
    <2> QED BY <2>1, <2>2, <2>3 DEF AgreeInv
<1>7. CASE WriteDone
    <2>1. /\ phase = "writing" /\ Running /\ UNCHANGED <<table, mixed>> /\ turn \in Agents
          /\ \A a \in Agents : a # turn => file'[a] = file[a]
          /\ file'[turn] = [state |-> "whole", table |-> table[turn]]
          /\ \/ phase' = "saving" /\ turn' = turn + 1
             \/ phase' = "up" /\ turn' = 1
        BY <1>7 DEF WriteDone, TypeOK, Running
    <2>2. /\ \A a \in Agents : a # turn =>
                Loaded(a)' = Loaded(a) /\ Readable(a)' = Readable(a)
          /\ \A a \in Agents : a = turn => Loaded(a)' = table[a]
        BY <2>1 DEF Readable, Loaded
    <2>3. /\ \A a \in Agents : Readable(a) => Follows(table[a], Loaded(a))
          /\ \A a, b \in Agents : a < b => Follows(table[a], table[b])
          /\ \A a \in Agents : a < turn => Loaded(a) = table[a]
          /\ \A a \in Agents : Follows(table[a], table[a])
        BY <2>1, SeenNat DEF AgreeInv, Follows
    <2>4. ASSUME NEW a \in Agents, NEW b \in Agents, a < b, Readable(a)', Readable(b)'
          PROVE  Follows(Loaded(a)', Loaded(b)')
        <3>1. CASE a = turn
            <4>1. b # turn /\ Readable(b) /\ Loaded(b)' = Loaded(b)
                BY <2>2, <2>4, <3>1, AgentOrder
            <4>2. Follows(table[a], table[b]) /\ Follows(table[b], Loaded(b))
                BY <2>3, <2>4, <4>1
            <4> QED BY <2>2, <3>1, <4>1, <4>2, FollowsTwice, SeenNat
        <3>2. CASE b = turn
            <4>1. a # turn /\ Loaded(a)' = table[a]
                BY <2>1, <2>2, <2>3, <2>4, <3>2, AgentOrder
            <4> QED BY <2>2, <2>3, <2>4, <3>2, <4>1
        <3>3. CASE a # turn /\ b # turn
            BY <2>2, <2>4, <3>3 DEF AgreeInv
        <3> QED BY <3>1, <3>2, <3>3
    <2>5. ASSUME NEW a \in Agents, Readable(a)' PROVE Follows(table[a], Loaded(a)')
        BY <2>2, <2>3, <2>5
    <2>6. \A a \in Agents : a < turn + 1 => Loaded(a)' = table[a]
        <3>1. \A a \in Agents : a < turn + 1 => a < turn \/ a = turn
            BY <2>1 DEF Agents
        <3> QED BY <2>1, <2>2, <2>3, <3>1, AgentOrder
    <2> QED BY <2>1, <2>3, <2>4, <2>5, <2>6 DEF AgreeInv
<1>8. CASE WriteFails
    <2>1. phase' = "up" /\ UNCHANGED <<table, file, mixed>> /\ Running
        BY <1>8 DEF WriteFails, Running
    <2> QED BY <2>1 DEF AgreeInv, Readable, Loaded
<1>9. CASE Crash
    BY <1>9 DEF Crash, AgreeInv, Running, Readable, Loaded
<1> QED BY <1>1, <1>2, <1>3, <1>4, <1>5, <1>6, <1>7, <1>8, <1>9 DEF Next

\* For any number of agents: four greedy votes are one unless the tables were loaded from
\* a persist_all() that was cut short, and then the agents differ only in how much of the
\* same experience they have seen, the earlier ones more.
THEOREM QTablesAgree == Spec => []TablesAgree
<1>1. TypeOK /\ AgreeInv => TablesAgree
    <2> SUFFICES ASSUME TypeOK, AgreeInv, Running PROVE TablesAgree
        BY DEF TablesAgree
    <2>1. \A a, b \in Agents : a < b => Follows(table[a], table[b])
        BY DEF AgreeInv
    <2>2. ~mixed => \A a, b \in Agents : table[a] = table[b]
        BY DEF AgreeInv
    <2>3. \A a, b \in Agents : table[a].seen = table[b].seen => table[a] = table[b]
        BY <2>1, AgentOrder DEF Follows
    <2> QED BY <2>1, <2>2, <2>3 DEF TablesAgree, Follows
<1> QED BY <1>1, TypeInit, TypeStep, AgreeInit, AgreeStep, PTL DEF Spec
=============================================================================
