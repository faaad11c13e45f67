------------------------------- MODULE Ledger -------------------------------
(***************************************************************************)
(* The audit ledger of LLM Wall: Blockchain (ledger/blockchain.py) behind  *)
(* LedgerNode (ledger/node.py), in every worker process that uvicorn       *)
(* starts (core/app.py, app_workers).  All workers persist to one file.    *)
(*                                                                         *)
(* A worker is one asyncio event loop and every ledger operation is        *)
(* synchronous, so an operation of one worker is interleaved only with the *)
(* other workers, with the operating system (a write that fails) and with  *)
(* a crash.  The points where that matters are the steps of _persist():    *)
(* open("w"), which truncates the file, and the end of json.dump.          *)
(*                                                                         *)
(* A block's hash stands for SHA-256 over its time-stamped header: a       *)
(* number no other block has.  Timestamps, nonces, difficulty and the      *)
(* Merkle root add nothing to what is checked here.                        *)
(***************************************************************************)
EXTENDS Integers, Sequences

CONSTANTS
    Workers,     \* the uvicorn worker processes
    Events,      \* audit events, one per request (a fresh event_id each)
    MaxPending,  \* _MAX_PENDING_EVENTS
    MaxStarts,   \* bound: process starts in a behaviour
    MaxFaults,   \* bound: persist attempts the operating system fails
    MaxCrashes   \* bound: crashes (kill -9, power loss) in a behaviour

ASSUME MaxPendingAssumption == MaxPending \in Nat \ {0}
ASSUME BoundsAssumption == MaxStarts \in Nat /\ MaxFaults \in Nat /\ MaxCrashes \in Nat

VARIABLES
    phase,       \* [Workers -> Phases]: where the worker is in its operation
    call,        \* [Workers -> Calls]: the operation that is persisting
    chain,       \* [Workers -> Seq(Block)]: Blockchain.chain
    pending,     \* [Workers -> Seq(Events)]: Blockchain._pending_events
    recordCount, \* [Workers -> Nat]: LedgerNode._record_count
    file,        \* the ledger.json all workers share
    mined,       \* number of blocks mined so far: the source of fresh hashes
    starts, faults, crashes,  \* bounded environment counters
    recorded,    \* history: events handed to record()
    kept,        \* history: per worker, the events it loaded or was handed
    acked,       \* history: events whose record() returned
    unsaved,     \* history: workers whose last persist raised
    everSaved    \* history: events that were once in a completely written file

mem     == <<phase, call, chain, pending, recordCount, mined>>
env     == <<starts, faults, crashes>>
history == <<recorded, kept, acked, unsaved, everSaved>>
vars    == <<mem, file, env, history>>

-----------------------------------------------------------------------------
(* Data *)

Phases == {"down", "stopped", "up", "mined", "writing", "contended"}
Calls  == {"none", "init", "record", "flush", "stop"}

Block == [index : Nat, prev : Nat, hash : Nat, events : Seq(Events)]
Files == [state : {"absent", "torn", "whole"}, blocks : Seq(Block)]

Absent   == [state |-> "absent", blocks |-> <<>>]
Torn     == [state |-> "torn", blocks |-> <<>>]
Whole(c) == [state |-> "whole", blocks |-> c]

Elems(s) == {s[i] : i \in DOMAIN s}

\* The events in the blocks of a chain.
EventsIn(c) == UNION {Elems(c[i].events) : i \in DOMAIN c}

Running(w) == phase[w] \notin {"down", "stopped"}
Writing(w) == phase[w] \in {"writing", "contended"}

NewBlock_WrongPrev(c, es) ==
    [index |-> Len(c), prev |-> c[1].hash, hash |-> mined + 1, events |-> es]

NewBlock_WrongIndex(c, es) ==
    [index |-> Len(c) - 2, prev |-> c[Len(c)].hash, hash |-> mined + 1, events |-> es]

\* Block(index=len(chain), previous_hash=chain[-1].hash, ...), mined on the spot.
NewBlock(c, es) ==
    [index |-> Len(c), prev |-> c[Len(c)].hash, hash |-> mined + 1, events |-> es]

\* The genesis block: '0' * 64 as previous hash, no events.
Genesis == [index |-> 0, prev |-> 0, hash |-> mined + 1, events |-> <<>>]

FlushDue_Late(p) == Len(p) > MaxPending

\* add_event() mines a block as soon as the buffer is full.
FlushDue(p) == Len(p) >= MaxPending

-----------------------------------------------------------------------------
Init ==
    /\ phase = [w \in Workers |-> "down"]
    /\ call = [w \in Workers |-> "none"]
    /\ chain = [w \in Workers |-> <<>>]
    /\ pending = [w \in Workers |-> <<>>]
    /\ recordCount = [w \in Workers |-> 0]
    /\ file = Absent
    /\ mined = 0
    /\ starts = 0 /\ faults = 0 /\ crashes = 0
    /\ recorded = {} /\ acked = {} /\ unsaved = {} /\ everSaved = {}
    /\ kept = [w \in Workers |-> {}]

-----------------------------------------------------------------------------
(* Process start: Blockchain.__init__ *)

StartWith(w, c, p) ==
    /\ chain' = [chain EXCEPT ![w] = c]
    /\ pending' = [pending EXCEPT ![w] = <<>>]
    /\ recordCount' = [recordCount EXCEPT ![w] = 0]
    /\ kept' = [kept EXCEPT ![w] = EventsIn(c)]
    /\ phase' = [phase EXCEPT ![w] = p]
    /\ unsaved' = unsaved \ {w}

CountStart == starts < MaxStarts /\ starts' = starts + 1

NeedsGenesis_IfUnreadable == file.state # "whole"

NeedsGenesis == file.state = "absent"

\* The file does not exist: mine a genesis block and persist it.
StartFresh(w) ==
    /\ ~Running(w)
    /\ NeedsGenesis
    /\ CountStart
    /\ StartWith(w, <<Genesis>>, "mined")
    /\ call' = [call EXCEPT ![w] = "init"]
    /\ mined' = mined + 1
    /\ UNCHANGED <<file, faults, crashes, recorded, acked, everSaved>>

\* The file exists and parses: the chain is what it holds.
StartLoad(w) ==
    /\ ~Running(w)
    /\ file.state = "whole"
    /\ CountStart
    /\ StartWith(w, file.blocks, "up")
    /\ UNCHANGED <<call, mined, file, faults, crashes, recorded, acked, everSaved>>

\* The file exists and is cut short, or two workers are writing over each other:
\* json.load raises and the process exits.
StartFails(w) ==
    /\ ~Running(w)
    /\ \/ file.state = "torn"
       \/ file.state = "whole" /\ \E v \in Workers : phase[v] = "contended"
    /\ CountStart
    /\ phase' = [phase EXCEPT ![w] = "down"]
    /\ UNCHANGED <<call, chain, pending, recordCount, mined, file, faults, crashes, history>>

-----------------------------------------------------------------------------
(* Recording and mining *)

Mine_KeepsPending(w, es, op) ==
    /\ chain' = [chain EXCEPT ![w] = Append(@, NewBlock(@, es))]
    /\ pending' = [pending EXCEPT ![w] = es]
    /\ mined' = mined + 1
    /\ phase' = [phase EXCEPT ![w] = "mined"]
    /\ call' = [call EXCEPT ![w] = op]

Mine_DropsFirst(w, es, op) ==
    /\ chain' = [chain EXCEPT ![w] = Append(@, NewBlock(@, Tail(es)))]
    /\ pending' = [pending EXCEPT ![w] = <<>>]
    /\ mined' = mined + 1
    /\ phase' = [phase EXCEPT ![w] = "mined"]
    /\ call' = [call EXCEPT ![w] = op]

\* flush() up to the call of _persist(): es, the buffered events, become a block
\* and the buffer is cleared before anything reaches the disk.
Mine(w, es, op) ==
    /\ chain' = [chain EXCEPT ![w] = Append(@, NewBlock(@, es))]
    /\ pending' = [pending EXCEPT ![w] = <<>>]
    /\ mined' = mined + 1
    /\ phase' = [phase EXCEPT ![w] = "mined"]
    /\ call' = [call EXCEPT ![w] = op]

\* record(): add_event() buffers the event and mines when the buffer is full.
Record(w, e) ==
    /\ phase[w] = "up"
    /\ e \notin recorded
    /\ recorded' = recorded \cup {e}
    /\ kept' = [kept EXCEPT ![w] = @ \cup {e}]
    /\ LET buffer == Append(pending[w], e) IN
       IF FlushDue(buffer)
       THEN /\ Mine(w, buffer, "record")
            /\ UNCHANGED <<recordCount, acked>>
       ELSE /\ pending' = [pending EXCEPT ![w] = buffer]
            /\ recordCount' = [recordCount EXCEPT ![w] = @ + 1]
            /\ acked' = acked \cup {e}
            /\ UNCHANGED <<phase, call, chain, mined>>
    /\ UNCHANGED <<file, env, unsaved, everSaved>>

Flush_NeedsTwo(w) ==
    /\ phase[w] = "up"
    /\ Len(pending[w]) > 1
    /\ Mine(w, pending[w], "flush")
    /\ UNCHANGED <<recordCount, file, env, history>>

\* flush() from the 60 s loop or from POST /api/ledger/flush; with an empty
\* buffer it returns None and changes nothing.
Flush(w) ==
    /\ phase[w] = "up"
    /\ pending[w] # <<>>
    /\ Mine(w, pending[w], "flush")
    /\ UNCHANGED <<recordCount, file, env, history>>

Halt(w, p) ==
    /\ phase' = [phase EXCEPT ![w] = p]
    /\ call' = [call EXCEPT ![w] = "none"]
    /\ chain' = [chain EXCEPT ![w] = <<>>]
    /\ pending' = [pending EXCEPT ![w] = <<>>]
    /\ recordCount' = [recordCount EXCEPT ![w] = 0]
    /\ kept' = [kept EXCEPT ![w] = {}]

StopFlush_Skipped(w) ==
    /\ Halt(w, "stopped")
    /\ UNCHANGED <<mined, file, env, recorded, acked, unsaved, everSaved>>

\* The final flush() of stop(): nothing to do when the buffer is empty.
StopFlush(w) ==
    IF pending[w] = <<>>
    THEN /\ Halt(w, "stopped")
         /\ UNCHANGED <<mined, file, env, recorded, acked, unsaved, everSaved>>
    ELSE /\ Mine(w, pending[w], "stop")
         /\ UNCHANGED <<recordCount, file, env, history>>

\* LedgerNode.stop(), from the shutdown half of the application lifespan.
Stop(w) == phase[w] = "up" /\ StopFlush(w)

-----------------------------------------------------------------------------
(* _persist(): open("w") truncates, json.dump fills, close completes *)

\* The workers whose file position in ledger.json is no longer their own once
\* worker w has truncated it.
Contend(w) ==
    LET others == {v \in Workers \ {w} : Writing(v)} IN
    [v \in Workers |->
        IF v \in others \/ (v = w /\ others # {}) THEN "contended"
        ELSE IF v = w THEN "writing"
        ELSE phase[v]]

OpenFile(w) ==
    /\ phase[w] = "mined"
    /\ phase' = Contend(w)
    /\ file' = Torn
    /\ UNCHANGED <<call, chain, pending, recordCount, mined, env, history>>

\* What the caller of _persist() does once the file is written.  record() then
\* counts the event; its event is the last of the block just mined.
Return(w) ==
    IF call[w] = "stop"
    THEN Halt(w, "stopped") /\ UNCHANGED acked
    ELSE /\ phase' = [phase EXCEPT ![w] = "up"]
         /\ call' = [call EXCEPT ![w] = "none"]
         /\ IF call[w] = "record"
            THEN LET es == chain[w][Len(chain[w])].events IN
                 /\ recordCount' = [recordCount EXCEPT ![w] = @ + 1]
                 /\ acked' = acked \cup {es[Len(es)]}
            ELSE UNCHANGED <<recordCount, acked>>
         /\ UNCHANGED <<chain, pending, kept>>

\* What the caller of _persist() does when it raises: the flush loop logs and
\* goes on, a request is answered 500, start-up and shutdown end the process.
Raise(w) ==
    /\ faults < MaxFaults
    /\ faults' = faults + 1
    /\ unsaved' = unsaved \cup {w}
    /\ IF call[w] \in {"init", "stop"}
       THEN Halt(w, "down")
       ELSE /\ phase' = [phase EXCEPT ![w] = "up"]
            /\ call' = [call EXCEPT ![w] = "none"]
            /\ UNCHANGED <<chain, pending, recordCount, kept>>
    /\ UNCHANGED <<mined, starts, crashes, recorded, acked, everSaved>>

\* The bytes a worker writes at its own position of a file another worker has
\* truncated or written since: either its chain, or no JSON at all.
Written_Stale(w) == {Whole(SubSeq(chain[w], 1, Len(chain[w]) - 1))}

Written(w) ==
    IF phase[w] = "writing" THEN {Whole(chain[w])} ELSE {Whole(chain[w]), Torn}

WriteDone(w) ==
    /\ Writing(w)
    /\ file' \in Written(w)
    /\ everSaved' = everSaved \cup EventsIn(file'.blocks)
    /\ unsaved' = unsaved \ {w}
    /\ Return(w)
    /\ UNCHANGED <<mined, env, recorded>>

\* open() fails (no permission, no descriptor): the old file is intact.
OpenFails(w) ==
    /\ phase[w] = "mined"
    /\ Raise(w)
    /\ UNCHANGED file

\* json.dump or close fails (disk full): what is on disk is cut short, unless
\* another worker had already written its own chain after the truncation.
WriteFails(w) ==
    /\ Writing(w)
    /\ Raise(w)
    /\ file' \in IF phase[w] = "writing" THEN {Torn} ELSE {file, Torn}

\* A crash loses the memory of the worker, and tears the file it was writing.
Crash(w) ==
    /\ Running(w)
    /\ crashes < MaxCrashes
    /\ crashes' = crashes + 1
    /\ Halt(w, "down")
    /\ file' \in IF phase[w] = "contended" THEN {file, Torn} ELSE {file}
    /\ UNCHANGED <<mined, starts, faults, recorded, acked, unsaved, everSaved>>

Persist(w) == OpenFile(w) \/ WriteDone(w)

Next ==
    \E w \in Workers :
        \/ StartFresh(w) \/ StartLoad(w) \/ StartFails(w)
        \/ \E e \in Events : Record(w, e)
        \/ Flush(w) \/ Stop(w)
        \/ OpenFile(w) \/ WriteDone(w)
        \/ OpenFails(w) \/ WriteFails(w)
        \/ Crash(w)

Spec == Init /\ [][Next]_vars

(***************************************************************************)
(* Fairness: _flush_loop() runs until stop() and survives any exception,   *)
(* so a flush that stays possible is made; a synchronous write that has    *)
(* begun goes on.  Nothing is assumed of requests, stops, starts, faults   *)
(* and crashes.                                                            *)
(***************************************************************************)
FairSpec == Spec /\ \A w \in Workers : WF_vars(Flush(w)) /\ WF_vars(Persist(w))

-----------------------------------------------------------------------------
(* Properties *)

TypeOK ==
    /\ phase \in [Workers -> Phases]
    /\ call \in [Workers -> Calls]
    /\ chain \in [Workers -> Seq(Block)]
    /\ pending \in [Workers -> Seq(Events)]
    /\ recordCount \in [Workers -> Nat]
    /\ file \in Files
    /\ mined \in Nat /\ starts \in Nat /\ faults \in Nat /\ crashes \in Nat
    /\ recorded \subseteq Events /\ acked \subseteq recorded
    /\ everSaved \subseteq recorded
    /\ kept \in [Workers -> SUBSET recorded]
    /\ unsaved \subseteq Workers

\* A chain is_valid() accepts, and more: block 0 is a genesis block, the index of
\* a block is its position, and later blocks were mined later, the last one as the
\* m-th block or before.
Linked(c, m) ==
    /\ c # <<>>
    /\ c[1].prev = 0 /\ c[1].events = <<>>
    /\ \A i \in DOMAIN c : c[i].index = i - 1 /\ c[i].hash \in 1..m
    /\ \A i \in DOMAIN c : i > 1 => c[i].prev = c[i - 1].hash
    /\ \A i, j \in DOMAIN c : i < j => c[i].hash < c[j].hash

\* The chain in the memory of a running worker and the chain in a readable file are
\* hash-linked from the genesis block on, whatever crashes, faults and other
\* workers do (blockchain.py:12, is_valid()).
ChainsLinked ==
    /\ \A w \in Workers : Running(w) => Linked(chain[w], mined)
    /\ file.state = "whole" => Linked(file.blocks, mined)

WithinLimit(c) ==
    \A i \in DOMAIN c : Len(c[i].events) <= MaxPending /\ (i > 1 => c[i].events # <<>>)

\* "Each block stores a list of AuditEvents (<=50 events per block)"
\* (blockchain.py:10), and no block but the genesis block is empty; the buffer
\* stays below the limit even when persisting the full buffer failed.
BlocksWithinLimit ==
    \A w \in Workers : WithinLimit(chain[w]) /\ Len(pending[w]) < MaxPending

Distinct(s) == \A i, j \in DOMAIN s : i # j => s[i] # s[j]

OnceEach(c) ==
    /\ \A i \in DOMAIN c : Distinct(c[i].events)
    /\ \A i, j \in DOMAIN c : i # j => Elems(c[i].events) \cap Elems(c[j].events) = {}

\* An event is in one place at most: one position of one block or of the buffer,
\* so a flush that failed, was retried or was interrupted records nothing twice.
NoEventTwice ==
    \A w \in Workers :
        /\ OnceEach(chain[w])
        /\ Distinct(pending[w])
        /\ EventsIn(chain[w]) \cap Elems(pending[w]) = {}

\* While a worker runs, its chain and its buffer together hold the events it
\* loaded and the events it was handed, no more and no fewer, also after a
\* persist that raised.
Accounted ==
    \A w \in Workers :
        Running(w) => kept[w] = EventsIn(chain[w]) \cup Elems(pending[w])

StartsWith(t, s) == \A i \in DOMAIN s : i \in DOMAIN t /\ t[i] = s[i]

\* The chain is left and the buffer is only added to, or the buffer, and what was
\* added to it, becomes one new last block.
Grows(w) ==
    \/ chain'[w] = chain[w] /\ StartsWith(pending'[w], pending[w])
    \/ /\ Len(chain'[w]) = Len(chain[w]) + 1
       /\ StartsWith(chain'[w], chain[w])
       /\ StartsWith(chain'[w][Len(chain'[w])].events, pending[w])
       /\ pending'[w] = <<>>

\* "Immutable blockchain audit ledger" (blockchain.py:4), of the memory of a process:
\* while a worker runs, no step of it or of any other worker changes, drops or reorders
\* a block it has or an event it was handed; events only go from the buffer, in their
\* order, to the end of the chain, whatever fails or is done to the shared file.
AppendOnly == [][\A w \in Workers : Running(w) /\ Running(w)' => Grows(w)]_vars

SoleWorker == \A v, w \in Workers : v = w

\* One worker: an idle worker whose last persist did not raise has its whole chain
\* on disk.  What a crash can then cost is the buffer.
SavedWhenIdle ==
    SoleWorker =>
        \A w \in Workers :
            phase[w] = "up" /\ w \notin unsaved => file = Whole(chain[w])

\* One worker: a file that can be read holds every event any earlier file held,
\* across crashes, failed writes and restarts.
ReadableFileIsComplete ==
    SoleWorker =>
        (file.state = "whole" => everSaved \subseteq EventsIn(file.blocks))

\* One worker: after an orderly stop() every event whose record() returned is in the
\* file, the events that were only buffered included, if no persist ever raised.
StopSavesAll ==
    SoleWorker /\ crashes = 0 /\ faults = 0 =>
        \A w \in Workers : phase[w] = "stopped" => acked \subseteq EventsIn(file.blocks)

\* A buffered event reaches the file, unless its worker stops, crashes or has a
\* persist raise: the flush loop bounds how long an event is only in memory.
BufferReachesFile ==
    \A w \in Workers, e \in Events :
        e \in Elems(pending[w]) ~>
            \/ e \in EventsIn(file.blocks)
            \/ ~Running(w)
            \/ w \in unsaved

-----------------------------------------------------------------------------
(* What the documentation says, and the code does not keep *)

\* "Immutable blockchain audit ledger" with "JSON persistence" (blockchain.py:4,7):
\* an event that was in the file is in the file whenever nobody is writing it.
SavedStaysSaved ==
    (\A w \in Workers : ~Writing(w)) => everSaved \subseteq EventsIn(file.blocks)

\* "LedgerNode stopped; final flush complete." (node.py:72): once stop() has
\* returned, every event whose record() returned is in the file.
StoppedMeansSaved ==
    \A w \in Workers :
        phase[w] = "stopped" /\ crashes = 0 => acked \subseteq EventsIn(file.blocks)
=============================================================================
