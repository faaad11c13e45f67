----------------------------- MODULE PatternDB ------------------------------
(***************************************************************************)
(* The evolved-pattern database: evolved_patterns.json, the operations     *)
(* that rewrite it (guardian/pattern_updater.py, api/patterns_router.py)   *)
(* and the compiled pattern lists of the injection agent they reload.      *)
(*                                                                         *)
(* One process, one event loop.  Every operation is a read-modify-write of *)
(* the whole file.  Those of the router run without an await; an update    *)
(* cycle reads the file, awaits feeds and the LLM, and writes at its end   *)
(* what it read then plus what it found.  Cycles run side by side: one in  *)
(* the background loop, one per POST /api/patterns/update.                 *)
(*                                                                         *)
(* A pattern is its hash, the key of every deduplication.                  *)
(***************************************************************************)
EXTENDS Integers, Sequences, FiniteSets

CONSTANTS
    Patterns,    \* pattern hashes
    Cycles,      \* update cycles that may be in flight at a time
    MaxFaults,   \* bound: saves the operating system fails
    MaxHalts     \* bound: crashes and shutdowns

ASSUME PatternsAssumption == IsFiniteSet(Patterns)
ASSUME BoundsAssumption == MaxFaults \in Nat /\ MaxHalts \in Nat

VARIABLES
    up,       \* is the process up
    file,     \* evolved_patterns.json
    active,   \* [Patterns -> 0..2]: entries in the agent's lists (2: two or more)
    hot,      \* patterns of live IOCs with hit_count >= min_hits
    cycle,    \* [Cycles -> [running, data, newly]]: the locals of _update_cycle()
    save,     \* the save that holds the event loop, or NoSave
    faults, halts,  \* bounded environment counters
    stored,   \* history: patterns an operation reported stored, not deleted since
    exposed,  \* history: those reported while a cycle held an older copy
    deleted   \* history: patterns deleted, not added again since

history == <<stored, exposed, deleted>>
vars == <<up, file, active, hot, cycle, save, faults, halts, history>>

-----------------------------------------------------------------------------
(* Data *)

Entry == [hash : Patterns, promoted : BOOLEAN]
Files == [state : {"absent", "torn", "whole"}, patterns : Seq(Entry)]

Torn     == [state |-> "torn", patterns |-> <<>>]
Whole(d) == [state |-> "whole", patterns |-> d]

Ops    == {"none", "custom", "delete", "promote", "cyclePromote", "cycleSave"}
Saves  == [op : Ops, open : BOOLEAN, data : Seq(Entry), subject : SUBSET Patterns,
           cycles : SUBSET Cycles]
NoSave == [op |-> "none", open |-> FALSE, data |-> <<>>, subject |-> {}, cycles |-> {}]

NoCycle == [running |-> FALSE, data |-> <<>>, newly |-> <<>>]

Hashes(d) == {d[i].hash : i \in DOMAIN d}

\* The sequences that enumerate a finite set, in any order; entries of patterns s.
Orders(S) ==
    UNION {{s \in [1..n -> S] :
               /\ \A i, j \in 1..n : i # j => s[i] # s[j]
               /\ \A p \in S : \E i \in 1..n : s[i] = p} : n \in 0..Cardinality(S)}
Entries(s, p) == [i \in DOMAIN s |-> [hash |-> s[i], promoted |-> p]]

\* Nothing holds the event loop.
Idle == up /\ save = NoSave

Running == {c \in Cycles : cycle[c].running}

\* The entries of d with another hash than p, in their order: the list
\* comprehension of delete_evolved_pattern(), as the one element of a set.
Without(d, p) ==
    {[j \in DOMAIN f |-> d[f[j]]] :
        f \in {g \in Orders({i \in DOMAIN d : d[i].hash # p}) :
                  \A i, j \in DOMAIN g : i < j => g[i] < g[j]}}

-----------------------------------------------------------------------------
Init ==
    /\ up = FALSE
    /\ file = [state |-> "absent", patterns |-> <<>>]
    /\ active = [p \in Patterns |-> 0]
    /\ hot = {}
    /\ cycle = [c \in Cycles |-> NoCycle]
    /\ save = NoSave
    /\ faults = 0 /\ halts = 0
    /\ stored = {} /\ exposed = {} /\ deleted = {}

\* _hot_reload() appends to the compiled lists without looking for duplicates.
Reloaded(S) ==
    [p \in Patterns |-> IF p \in S /\ active[p] < 2 THEN active[p] + 1 ELSE active[p]]

\* PatternUpdater.start(): load the file, which raises when it is cut short, and
\* reload all of it into the agent's (still empty) lists.
Start ==
    /\ ~up
    /\ file.state # "torn"
    /\ up' = TRUE
    /\ active' = Reloaded(Hashes(file.patterns))
    /\ UNCHANGED <<file, hot, cycle, save, faults, halts, history>>

-----------------------------------------------------------------------------
(* The operations, up to the save they make *)

BeginSave(op, d, S, C) ==
    save' = [op |-> op, open |-> FALSE, data |-> d, subject |-> S, cycles |-> C]

AddAllowed_NoCheck(p) == TRUE

\* 409 "Pattern already exists in evolved DB."
AddAllowed(p) == p \notin Hashes(file.patterns)

\* POST /api/patterns/custom
AddCustom(p) ==
    /\ Idle
    /\ file.state # "torn"
    /\ AddAllowed(p)
    /\ BeginSave("custom", Append(file.patterns, [hash |-> p, promoted |-> FALSE]), {p}, {})
    /\ UNCHANGED <<up, file, active, hot, cycle, faults, halts, history>>

\* DELETE /api/patterns/evolved/{hash}: 404 unless the file has it.
Delete(p) ==
    /\ Idle
    /\ p \in Hashes(file.patterns)
    /\ \E d \in Without(file.patterns, p) : BeginSave("delete", d, {p}, {})
    /\ UNCHANGED <<up, file, active, hot, cycle, faults, halts, history>>

\* promote_ioc_patterns(): the hot IOC patterns the file does not have.
Promotable == hot \ Hashes(file.patterns)

BeginPromote_NothingAdded(op, C) == BeginSave(op, file.patterns, Promotable, C)

BeginPromote(op, C) ==
    \E s \in Orders(Promotable) :
        BeginSave(op, file.patterns \o Entries(s, TRUE), Promotable, C)

\* POST /api/patterns/promote-iocs; with nothing to promote nothing is saved.
Promote ==
    /\ Idle
    /\ file.state # "torn"
    /\ Promotable # {}
    /\ BeginPromote("promote", {})
    /\ UNCHANGED <<up, file, active, hot, cycle, faults, halts, history>>

\* _update_cycle() up to its first await: the file is read.  A cut-short file
\* raises, and the cycle does not begin.
BeginCycle(c) ==
    /\ Idle
    /\ c \notin Running
    /\ file.state # "torn"
    /\ cycle' = [cycle EXCEPT ![c] = [running |-> TRUE, data |-> file.patterns, newly |-> <<>>]]
    /\ UNCHANGED <<up, file, active, hot, save, faults, halts, history>>

\* existing_hashes: what the cycle read, and what it has found since.
Known(c) == Hashes(cycle[c].data) \cup Hashes(cycle[c].newly)

\* The LLM returned pattern p for some feed; known ones are skipped.
Synthesise(c, p) ==
    /\ Idle
    /\ c \in Running
    /\ p \notin Known(c)
    /\ cycle' = [cycle EXCEPT ![c].newly = Append(@, [hash |-> p, promoted |-> FALSE])]
    /\ UNCHANGED <<up, file, active, hot, save, faults, halts, history>>

CycleData_NewOnly(c) == cycle[c].newly

\* data["patterns"].extend(newly_added): what the cycle read when it began, and
\* what it found.  What others wrote in between is not looked at again.
CycleData(c) == cycle[c].data \o cycle[c].newly

BeginCycleSave(c) ==
    BeginSave("cycleSave", CycleData(c), Hashes(cycle[c].newly), {c})

CanFinish_NoLoad == TRUE

\* promote_ioc_patterns() reads the file again, which raises when it is cut short.
CanFinish == file.state # "torn"

\* The end of _update_cycle(), from the last await on: promote, then save.
FinishCycle(c) ==
    /\ Idle
    /\ c \in Running
    /\ \/ /\ CanFinish
          /\ Promotable # {}
          /\ BeginPromote("cyclePromote", {c})
          /\ UNCHANGED cycle
       \/ /\ CanFinish
          /\ Promotable = {}
          /\ cycle[c].newly # <<>>
          /\ BeginCycleSave(c)
          /\ UNCHANGED cycle
       \/ /\ \/ ~CanFinish
             \/ Promotable = {} /\ cycle[c].newly = <<>>
          /\ cycle' = [cycle EXCEPT ![c] = NoCycle]
          /\ UNCHANGED save
    /\ UNCHANGED <<up, file, active, hot, faults, halts, history>>

-----------------------------------------------------------------------------
(* _save_evolved_patterns(): open("w") truncates, json.dump fills *)

OpenFile ==
    /\ save # NoSave /\ ~save.open
    /\ save' = [save EXCEPT !.open = TRUE]
    /\ file' = Torn
    /\ UNCHANGED <<up, active, hot, cycle, faults, halts, history>>

\* The cycles that still hold a copy older than the write that just completed.
Holders == Running \ (IF save.op = "cycleSave" THEN save.cycles ELSE {})

\* History: S was reported stored.
Report(S) ==
    /\ stored' = stored \cup S
    /\ deleted' = deleted \ S
    /\ exposed' = IF Holders # {} THEN exposed \cup S ELSE exposed \ S

\* After cyclePromote the same cycle goes on to its own save, without an await.
GoOn(c) ==
    IF save.op = "cyclePromote" /\ cycle[c].newly # <<>>
    THEN BeginCycleSave(c) /\ UNCHANGED cycle
    ELSE save' = NoSave /\ cycle' = [cycle EXCEPT ![c] = NoCycle]

ReloadAfterSave_CustomOnly == save.op = "custom"

\* The operations that call _hot_reload() after their save.
ReloadAfterSave == save.op \in {"custom", "cycleSave"}

WriteDone ==
    /\ save.open
    /\ file' = Whole(save.data)
    /\ active' = IF ReloadAfterSave THEN Reloaded(save.subject) ELSE active
    /\ IF save.op = "delete"
       THEN /\ stored' = stored \ save.subject
            /\ deleted' = deleted \cup save.subject
            /\ UNCHANGED exposed
       ELSE Report(save.subject)
    /\ IF save.cycles = {}
       THEN save' = NoSave /\ UNCHANGED cycle
       ELSE \E c \in save.cycles : GoOn(c)
    /\ UNCHANGED <<up, hot, faults, halts>>

\* The save raises: open() leaves the old file, json.dump a file cut short.  A
\* request is answered 500, the background loop logs; a cycle ends either way.
SaveFails ==
    /\ save # NoSave
    /\ faults < MaxFaults
    /\ faults' = faults + 1
    /\ save' = NoSave
    /\ cycle' = [c \in Cycles |-> IF c \in save.cycles THEN NoCycle ELSE cycle[c]]
    /\ UNCHANGED <<up, file, active, hot, halts, history>>

\* A crash at any point, or a shutdown, which cancels the cycles at their await.
Halt ==
    /\ up
    /\ halts < MaxHalts
    /\ halts' = halts + 1
    /\ up' = FALSE
    /\ active' = [p \in Patterns |-> 0]
    /\ hot' = {}
    /\ cycle' = [c \in Cycles |-> NoCycle]
    /\ save' = NoSave
    /\ UNCHANGED <<file, faults, history>>

-----------------------------------------------------------------------------
(* The IOC store, an input here (module IOCMesh models it) *)

IocHot(p) ==
    /\ up
    /\ p \notin hot
    /\ hot' = hot \cup {p}
    /\ UNCHANGED <<up, file, active, cycle, save, faults, halts, history>>

IocGone(p) ==
    /\ up
    /\ p \in hot
    /\ hot' = hot \ {p}
    /\ UNCHANGED <<up, file, active, cycle, save, faults, halts, history>>

CycleStep(c) == BeginCycle(c) \/ FinishCycle(c)

Next ==
    \/ Start \/ Halt
    \/ \E p \in Patterns : AddCustom(p) \/ Delete(p)
    \/ Promote
    \/ \E c \in Cycles :
          \/ BeginCycle(c) \/ FinishCycle(c)
          \/ \E p \in Patterns : Synthesise(c, p)
    \/ OpenFile \/ WriteDone \/ SaveFails
    \/ \E p \in Patterns : IocHot(p) \/ IocGone(p)

Spec == Init /\ [][Next]_vars

(***************************************************************************)
(* Fairness: the background loop never ends while the process is up, each  *)
(* of its cycles is bounded by HTTP and LLM time-outs, and a write that    *)
(* has begun goes on.  The loop competes with router requests only for the *)
(* event loop, which is never held for ever: strong fairness.              *)
(***************************************************************************)
FairSpec ==
    /\ Spec
    /\ WF_vars(Start)
    /\ WF_vars(OpenFile \/ WriteDone)
    /\ \A c \in Cycles : SF_vars(CycleStep(c))

-----------------------------------------------------------------------------
(* Properties *)

TypeOK ==
    /\ up \in BOOLEAN
    /\ file \in Files
    /\ active \in [Patterns -> 0..2]
    /\ hot \subseteq Patterns
    /\ cycle \in [Cycles -> [running : BOOLEAN, data : Seq(Entry), newly : Seq(Entry)]]
    /\ save \in Saves
    /\ faults \in Nat /\ halts \in Nat
    /\ stored \subseteq Patterns /\ exposed \subseteq Patterns /\ deleted \subseteq Patterns

Unique(d) == \A i, j \in DOMAIN d : i # j => d[i].hash # d[j].hash

\* The file never lists a hash twice, although every writer checks for duplicates
\* against a different copy: a cycle against what it read hours of awaits ago, its
\* promotion against the current file, the router against its own read.
HashesUnique == Unique(file.patterns) /\ Unique(save.data)

StoredActive(d) == \A i \in DOMAIN d : ~d[i].promoted => active[d[i].hash] > 0

\* Whenever the event loop is free, every stored pattern that is not a promoted IOC
\* is compiled into the running agent: custom and synthesised patterns take effect
\* without a restart (pattern_updater.py:6-8), also those a stale copy brings back.
StoredAreActive == Idle => StoredActive(file.patterns)

\* A pattern reported stored while no cycle held an older copy stays in the file
\* until it is deleted: the only way to lose one is to overlap with a cycle.
LossNeedsOverlap ==
    file.state = "whole" => stored \ exposed \subseteq Hashes(file.patterns)

\* Once a failed save has left the file cut short, no operation gets as far as a save
\* of its own, so nothing repairs or replaces the file: each one reads it first and
\* raises (_load_evolved_patterns()), also a cycle that read it before it was cut.
TornIsTerminal ==
    [][file.state = "torn" /\ save = NoSave => save' = NoSave /\ file' = file]_vars

\* An IOC pattern that stays hot is in the file at some time: the background loop
\* promotes it (pattern_updater.py:370), unless the file is unreadable.
HotGetsPromoted ==
    \A p \in Patterns :
        p \in hot ~> \/ p \notin hot
                     \/ p \in Hashes(file.patterns)
                     \/ file.state = "torn" /\ save = NoSave

-----------------------------------------------------------------------------
(* What the documentation says, and the code does not keep *)

\* "Adds a manually specified custom pattern to the evolved DB."
\* (patterns_router.py:128): a pattern an operation reported stored is in the file
\* until it is deleted.  A cycle that began before overwrites it.
ReportedIsStored ==
    Idle /\ file.state = "whole" => stored \subseteq Hashes(file.patterns)

\* "Removes an evolved pattern from the database by its hash."
\* (patterns_router.py:178): a deleted pattern stays out of the file until some
\* operation adds it.  A cycle that began before writes it back.
DeletedStaysDeleted ==
    Idle => deleted \cap Hashes(file.patterns) = {}

\* "fetch -> validate_regex -> score -> deduplicate -> persist -> hot_reload"
\* (pattern_updater.py:18): a pattern is compiled into the agent once.  Two cycles
\* find the same pattern, and neither looks at the agent's lists.
ActiveOnce == \A p \in Patterns : active[p] <= 1

\* "Hot-reloads them into the injection agent without restart."
\* (pattern_updater.py:372): every stored pattern is active in the running agent.
\* A promoted IOC pattern is not, until the next restart.
AllStoredAreActive ==
    Idle => \A p \in Hashes(file.patterns) : active[p] > 0
=============================================================================
