------------------------------ MODULE QTables ------------------------------
(***************************************************************************)
(* The Q-tables of the MARL engine (marl/engine.py, marl/q_table.py,        *)
(* marl/environment.py): one table and one file for each agent, filled by   *)
(* record_outcome() and written by persist_all().                          *)
(*                                                                         *)
(* The engine belongs to one process and runs on its event loop; only       *)
(* persist_all() is split, at the points where a crash or the operating     *)
(* system can leave some of the files old, cut short or new.  A value is a  *)
(* whole number of thousandths.                                            *)
(***************************************************************************)
EXTENDS Integers

CONSTANTS
    NumAgents,    \* NUM_AGENTS; agents are written and loaded in this order
    Vectors,      \* the state vectors considered
    MaxOutcomes,  \* bound: calls of record_outcome()
    MaxStarts,    \* bound: process starts
    MaxFaults,    \* bound: writes the operating system fails
    MaxCrashes    \* bound: crashes

\* A vector is <<risk band, injection hit, jailbreak hit, chain-of-thought anomaly>>;
\* provider and hour are in every entry of the tables alike.
VectorType == (0..2) \X (0..1) \X (0..1) \X (0..1)

ASSUME AgentsAssumption == NumAgents \in Nat \ {0}
ASSUME VectorsAssumption == Vectors \subseteq VectorType
ASSUME BoundsAssumption ==
    MaxOutcomes \in Nat /\ MaxStarts \in Nat /\ MaxFaults \in Nat /\ MaxCrashes \in Nat

VARIABLES
    phase,      \* where the process is
    turn,       \* the agent whose file persist_all() writes next
    table,      \* [Agents -> Table]: QTable._table, with the outcomes it has seen
    file,       \* [Agents -> Files]: the agents' JSON files
    outcomes, starts, faults, crashes,  \* bounded environment counters
    committed,  \* history: [Agents -> Nat], outcomes seen by what was last written
    mixed       \* history: whether the tables were loaded from files of different age

vars == <<phase, turn, table, file, outcomes, starts, faults, crashes, committed, mixed>>

-----------------------------------------------------------------------------
Agents    == 1..NumAgents
Phases    == {"down", "up", "saving", "writing"}
ActionIds == 0..4  \* allow, rate_limit, quarantine, escalate, block
Values    == -10000..10000

Table == [q : [Vectors -> [ActionIds -> Values]], seen : Nat]
Files == [state : {"absent", "torn", "whole"}, table : Table]

Row(a0, a1, a2, a3, a4) ==
    [a \in ActionIds |->
        CASE a = 0 -> a0 [] a = 1 -> a1 [] a = 2 -> a2 [] a = 3 -> a3 [] a = 4 -> a4]

\* _seed_heuristic(); a vector it leaves out has the default of the table, zero.
Seed(v) ==
    CASE v = <<2, 1, 1, 1>> -> Row(-5000, 2000, 4000, 3000, 8000)
      [] v = <<2, 1, 0, 0>> -> Row(-3000, 1000, 3000, 2000, 6000)
      [] v = <<1, 0, 0, 0>> -> Row(2000, 3000, 4000, 3500, 1000)
      [] v = <<0, 0, 0, 0>> -> Row(5000, 1000, -1000, -2000, -5000)
      [] OTHER              -> Row(0, 0, 0, 0, 0)

Seeded == [q |-> [v \in Vectors |-> Seed(v)], seen |-> 0]

\* np.argmax: the first of the best.
BestAction(row) ==
    CHOOSE a \in ActionIds :
        /\ \A b \in ActionIds : row[b] <= row[a]
        /\ \A b \in ActionIds : b < a => row[b] < row[a]

\* compute_reward()
Reward(a, threat) ==
    IF threat
    THEN CASE a = 4 -> 10000 [] a \in {2, 3} -> 5000 [] a = 1 -> 3000 [] a = 0 -> -10000
    ELSE CASE a = 4 -> -5000 [] a = 2 -> -3000 [] a = 3 -> -2000 [] a = 1 -> -1000
           [] a = 0 -> 1000

\* update() of a terminal state, with the default learning rate of 0.1.
Learned(q, r) == q + (r - q) \div 10

-----------------------------------------------------------------------------
Init ==
    /\ phase = "down"
    /\ turn = 1
    /\ table = [a \in Agents |-> Seeded]
    /\ file = [a \in Agents |-> [state |-> "absent", table |-> Seeded]]
    /\ outcomes = 0 /\ starts = 0 /\ faults = 0 /\ crashes = 0
    /\ committed = [a \in Agents |-> 0]
    /\ mixed = FALSE

Loaded_SeedsAll(a) == Seeded

\* QTable.__init__: what the file holds, or the seed if there is none.
Loaded(a) == IF file[a].state = "absent" THEN Seeded ELSE file[a].table

\* get_marl_engine(): the tables of all agents.
Start ==
    /\ phase = "down"
    /\ \A a \in Agents : file[a].state # "torn"
    /\ starts < MaxStarts
    /\ starts' = starts + 1
    /\ phase' = "up"
    /\ table' = [a \in Agents |-> Loaded(a)]
    /\ mixed' = \E a, b \in Agents : Loaded(a).seen # Loaded(b).seen
    /\ UNCHANGED <<turn, file, outcomes, faults, crashes, committed>>

\* json.load raises; the next request that needs the engine tries again.
StartFails ==
    /\ phase = "down"
    /\ \E a \in Agents : file[a].state = "torn"
    /\ starts < MaxStarts
    /\ starts' = starts + 1
    /\ UNCHANGED <<phase, turn, table, file, outcomes, faults, crashes, committed, mixed>>

Updated(t, v, a, threat) ==
    [q |-> [t.q EXCEPT ![v][a] = Learned(@, Reward(a, threat))], seen |-> t.seen + 1]

RecordOutcome_GatewayOnly(v, a, threat) ==
    /\ phase = "up"
    /\ outcomes < MaxOutcomes
    /\ outcomes' = outcomes + 1
    /\ table' = [table EXCEPT ![1] = Updated(@, v, a, threat)]
    /\ UNCHANGED <<phase, turn, file, starts, faults, crashes, committed, mixed>>

\* record_outcome(): every agent learns the same.
RecordOutcome(v, a, threat) ==
    /\ phase = "up"
    /\ outcomes < MaxOutcomes
    /\ outcomes' = outcomes + 1
    /\ table' = [g \in Agents |-> Updated(table[g], v, a, threat)]
    /\ UNCHANGED <<phase, turn, file, starts, faults, crashes, committed, mixed>>

\* persist_all() begins with the first agent.
BeginPersist ==
    /\ phase = "up"
    /\ phase' = "saving"
    /\ turn' = 1
    /\ UNCHANGED <<table, file, outcomes, starts, faults, crashes, committed, mixed>>

\* persist() of one agent: open("w") truncates its file.
OpenFile ==
    /\ phase = "saving"
    /\ phase' = "writing"
    /\ file' = [file EXCEPT ![turn].state = "torn"]
    /\ UNCHANGED <<turn, table, outcomes, starts, faults, crashes, committed, mixed>>

\* json.dump is done; the next agent's turn, or the end.
WriteDone ==
    /\ phase = "writing"
    /\ file' = [file EXCEPT ![turn] = [state |-> "whole", table |-> table[turn]]]
    /\ committed' = [committed EXCEPT ![turn] = table[turn].seen]
    /\ IF turn < NumAgents
       THEN phase' = "saving" /\ turn' = turn + 1
       ELSE phase' = "up" /\ turn' = 1
    /\ UNCHANGED <<table, outcomes, starts, faults, crashes, mixed>>

\* open() or json.dump raises, and with it persist_all(): the agents that follow are
\* not written, and the file that was open is cut short.
WriteFails ==
    /\ phase \in {"saving", "writing"}
    /\ faults < MaxFaults
    /\ faults' = faults + 1
    /\ phase' = "up"
    /\ turn' = 1
    /\ UNCHANGED <<table, file, outcomes, starts, crashes, committed, mixed>>

\* A crash, or an orderly end: nothing is persisted at shutdown.
Crash ==
    /\ phase # "down"
    /\ crashes < MaxCrashes
    /\ crashes' = crashes + 1
    /\ phase' = "down"
    /\ turn' = 1
    /\ table' = [a \in Agents |-> Seeded]
    /\ UNCHANGED <<file, outcomes, starts, faults, committed, mixed>>

Next ==
    \/ Start \/ StartFails
    \/ \E v \in Vectors, a \in ActionIds, threat \in BOOLEAN : RecordOutcome(v, a, threat)
    \/ BeginPersist \/ OpenFile \/ WriteDone \/ WriteFails
    \/ Crash

Spec == Init /\ [][Next]_vars

-----------------------------------------------------------------------------
(* Properties *)

Running == phase # "down"

\* The values stay between the least and the greatest reward, seeds included.
TypeOK ==
    /\ phase \in Phases
    /\ turn \in Agents
    /\ table \in [Agents -> Table]
    /\ file \in [Agents -> Files]
    /\ outcomes \in Nat /\ starts \in Nat /\ faults \in Nat /\ crashes \in Nat
    /\ committed \in [Agents -> Nat]
    /\ mixed \in BOOLEAN

\* The four agents hold the same table (so four greedy votes are one) unless they were
\* loaded from files of different age, as a persist_all() leaves them that was cut
\* short; then an agent that comes earlier has seen more, and agents that have seen as much
\* hold the same, however often it is cut short again.
TablesAgree ==
    Running =>
        /\ ~mixed => \A a, b \in Agents : table[a] = table[b]
        /\ \A a, b \in Agents : a < b => table[a].seen >= table[b].seen
        /\ \A a, b \in Agents : table[a].seen = table[b].seen => table[a] = table[b]

\* "Persists to JSON on demand" (q_table.py:35): a running engine has learnt whatever
\* any agent's file held once it was written, over crashes, failed writes of any of the
\* files and restarts.
LearningIsKept ==
    /\ Running => \A a \in Agents : table[a].seen >= committed[a]
    /\ \A a \in Agents : file[a].state = "whole" => file[a].table.seen >= committed[a]

-----------------------------------------------------------------------------
(* What the documentation says, and the code does not keep *)

\* "For HIGH risk (band=2): strongly prefer BLOCK" (q_table.py:206): before any learning
\* every agent's best action on a high risk is to block.
HighRiskPrefersBlock ==
    Running /\ outcomes = 0 =>
        \A a \in Agents, v \in Vectors : v[1] = 2 => BestAction(table[a].q[v]) = 4
=============================================================================
