---------------------------- MODULE LedgerProofs ----------------------------
(***************************************************************************)
(* Proofs about Ledger, the checks of its chains (ChainCheck), the         *)
(* abstract log it implements (LedgerRefinesLog) and the tree of a block   *)
(* (Merkle), for any workers, events, limit and bounds and for lists of    *)
(* any length.                                                             *)
(*                                                                         *)
(* The first lemmas reduce the eleven actions to what they do to one       *)
(* worker's blocks and buffer (DataSteps) and to the file (FileSteps);     *)
(* the invariants are then proved by cases of those.  What Merkle          *)
(* computes by recursion is proved with the principle of the least         *)
(* number: the levels of a tree, the indices on the way up and the rows    *)
(* of the balanced tree each depend on the one below.                      *)
(***************************************************************************)
EXTENDS ChainCheck, LedgerRefinesLog, WellFoundedInduction, TLAPS

-----------------------------------------------------------------------------
(* Sequences of blocks *)

LEMMA ElemsAppend ==
    ASSUME NEW S, NEW s \in Seq(S), NEW e \in S
    PROVE  Elems(Append(s, e)) = Elems(s) \cup {e}
<1>1. DOMAIN Append(s, e) = DOMAIN s \cup {Len(s) + 1}
    OBVIOUS
<1>2. \A i \in DOMAIN s : Append(s, e)[i] = s[i]
    OBVIOUS
<1>3. Append(s, e)[Len(s) + 1] = e
    OBVIOUS
<1> QED BY <1>1, <1>2, <1>3, Zenon DEF Elems

LEMMA AppendType ==
    ASSUME NEW S, NEW s \in Seq(S), NEW e \in S
    PROVE  /\ Append(s, e) \in Seq(S)
           /\ Len(Append(s, e)) = Len(s) + 1
           /\ Append(s, e) # <<>>
<1>1. Append(s, e) \in Seq(S) /\ Len(Append(s, e)) = Len(s) + 1 /\ Len(s) \in Nat
    OBVIOUS
<1>2. Len(<<>>) = 0
    OBVIOUS
<1> QED BY <1>1, <1>2

LEMMA EventsInAppend ==
    ASSUME NEW c \in Seq(Block), NEW b \in Block
    PROVE  EventsIn(Append(c, b)) = EventsIn(c) \cup Elems(b.events)
<1>1. DOMAIN Append(c, b) = DOMAIN c \cup {Len(c) + 1}
    OBVIOUS
<1>2. \A i \in DOMAIN c : Append(c, b)[i] = c[i]
    OBVIOUS
<1>3. Append(c, b)[Len(c) + 1] = b
    OBVIOUS
<1> QED BY <1>1, <1>2, <1>3, Zenon DEF EventsIn

LEMMA EventsInBlock ==
    ASSUME NEW c \in Seq(Block), NEW i \in DOMAIN c
    PROVE  Elems(c[i].events) \subseteq EventsIn(c)
BY DEF EventsIn

LEMMA EventsInEmpty == EventsIn(<<>>) = {} /\ Elems(<<>>) = {}
BY DEF EventsIn, Elems

LEMMA EventsInGenesis == EventsIn(<<Genesis>>) = {}
<1>1. DOMAIN <<Genesis>> = {1} /\ <<Genesis>>[1].events = <<>>
    BY DEF Genesis
<1> QED BY <1>1, EventsInEmpty, Zenon DEF EventsIn

LEMMA NewBlockType ==
    ASSUME mined \in Nat, NEW c \in Seq(Block), c # <<>>, NEW es \in Seq(Events)
    PROVE  NewBlock(c, es) \in Block
<1>1. Len(c) \in DOMAIN c /\ Len(c) \in Nat
    OBVIOUS
<1>2. c[Len(c)] \in Block
    BY <1>1
<1> QED BY <1>1, <1>2 DEF NewBlock, Block

-----------------------------------------------------------------------------
(* What a step does to the data of one worker *)

Same(w) ==
    /\ chain'[w] = chain[w] /\ pending'[w] = pending[w] /\ kept'[w] = kept[w]
    /\ Running(w)' <=> Running(w)

SameCounts == recorded' = recorded /\ mined' = mined

Stays(w) == Same(w) /\ SameCounts

Halts(w) ==
    /\ chain'[w] = <<>> /\ pending'[w] = <<>> /\ kept'[w] = {}
    /\ ~Running(w)' /\ SameCounts

Loads(w) ==
    /\ ~Running(w)
    /\ \/ chain'[w] = <<Genesis>> /\ mined' = mined + 1
       \/ file.state = "whole" /\ chain'[w] = file.blocks /\ mined' = mined
    /\ pending'[w] = <<>> /\ kept'[w] = EventsIn(chain'[w])
    /\ Running(w)' /\ recorded' = recorded

Buffers(w) ==
    /\ Running(w)
    /\ \E e \in Events \ recorded :
        /\ pending'[w] = Append(pending[w], e)
        /\ Len(pending'[w]) < MaxPending
        /\ chain'[w] = chain[w]
        /\ kept'[w] = kept[w] \cup {e}
        /\ recorded' = recorded \cup {e}
    /\ Running(w)' /\ mined' = mined

\* es becomes a block: the buffer, or the buffer and a new event.
Mines(w, es) ==
    /\ Running(w)
    /\ chain'[w] = Append(chain[w], NewBlock(chain[w], es))
    /\ pending'[w] = <<>>
    /\ es # <<>>
    /\ \/ es = pending[w] /\ kept'[w] = kept[w] /\ recorded' = recorded
       \/ \E e \in Events \ recorded :
            /\ es = Append(pending[w], e)
            /\ kept'[w] = kept[w] \cup {e}
            /\ recorded' = recorded \cup {e}
    /\ Running(w)' /\ mined' = mined + 1

DataStep(w) ==
    \/ Stays(w) \/ Halts(w) \/ Loads(w) \/ Buffers(w)
    \/ \E es \in Seq(Events) : Mines(w, es)

Functions ==
    /\ phase \in [Workers -> Phases]
    /\ call \in [Workers -> Calls]
    /\ chain \in [Workers -> Seq(Block)]
    /\ pending \in [Workers -> Seq(Events)]
    /\ recordCount \in [Workers -> Nat]
    /\ kept \in [Workers -> SUBSET recorded]

LEMMA DataSteps ==
    ASSUME Functions, NEW w \in Workers,
           \/ StartFresh(w) \/ StartLoad(w) \/ StartFails(w)
           \/ \E e \in Events : Record(w, e)
           \/ Flush(w) \/ Stop(w)
           \/ OpenFile(w) \/ WriteDone(w)
           \/ OpenFails(w) \/ WriteFails(w)
           \/ Crash(w)
    PROVE  DataStep(w) /\ \A v \in Workers \ {w} : Same(v)
<1> USE DEF Functions, Same, SameCounts
<1>1. CASE StartFresh(w)
    <2>1. Loads(w)
        BY <1>1 DEF StartFresh, StartWith, Loads, Running
    <2> QED BY <1>1, <2>1 DEF StartFresh, StartWith, DataStep, Running
<1>2. CASE StartLoad(w)
    <2>1. Loads(w)
        BY <1>2 DEF StartLoad, StartWith, Loads, Running
    <2> QED BY <1>2, <2>1 DEF StartLoad, StartWith, DataStep, Running
<1>3. CASE StartFails(w)
    BY <1>3 DEF StartFails, history, DataStep, Stays, Running
<1>4. CASE \E e \in Events : Record(w, e)
    <2>1. PICK e \in Events : Record(w, e)
        BY <1>4
    <2> DEFINE buffer == Append(pending[w], e)
    <2>2. CASE FlushDue(buffer)
        <3>1. Mine(w, buffer, "record") /\ e \notin recorded
            BY <2>1, <2>2 DEF Record
        <3>2. buffer \in Seq(Events) /\ buffer # <<>>
            <4>1. pending[w] \in Seq(Events)
                OBVIOUS
            <4> QED BY <4>1, AppendType
        <3>3. Mines(w, buffer)
            BY <2>1, <3>1, <3>2 DEF Record, Mine, Mines, Running
        <3> QED BY <2>1, <3>1, <3>2, <3>3 DEF Record, Mine, DataStep, Running
    <2>3. CASE ~FlushDue(buffer)
        <3>1. Buffers(w)
            BY <2>1, <2>3, MaxPendingAssumption DEF Record, FlushDue, Buffers, Running
        <3> QED BY <2>1, <2>3, <3>1 DEF Record, DataStep, Running
    <2> QED BY <2>2, <2>3
<1>5. CASE Flush(w)
    <2>1. Mines(w, pending[w]) /\ pending[w] \in Seq(Events)
        BY <1>5 DEF Flush, Mine, Mines, Running, history
    <2> QED BY <1>5, <2>1 DEF Flush, Mine, DataStep, Running, history
<1>6. CASE Stop(w)
    <2>1. CASE pending[w] = <<>>
        <3>1. Halts(w)
            BY <1>6, <2>1 DEF Stop, StopFlush, Halt, Halts, Running
        <3> QED BY <1>6, <2>1, <3>1 DEF Stop, StopFlush, Halt, DataStep, Running
    <2>2. CASE pending[w] # <<>>
        <3>1. Mines(w, pending[w]) /\ pending[w] \in Seq(Events)
            BY <1>6, <2>2 DEF Stop, StopFlush, Mine, Mines, Running, history
        <3> QED BY <1>6, <2>2, <3>1 DEF Stop, StopFlush, Mine, DataStep, Running, history
    <2> QED BY <2>1, <2>2
<1>7. CASE OpenFile(w)
    <2>1. \A v \in Workers : Running(v)' <=> Running(v)
        BY <1>7 DEF OpenFile, Contend, Writing, Running
    <2> QED BY <1>7, <2>1 DEF OpenFile, history, DataStep, Stays
<1>8. CASE WriteDone(w)
    <2>1. CASE call[w] = "stop"
        <3>1. Halts(w)
            BY <1>8, <2>1 DEF WriteDone, Return, Halt, Halts, Running
        <3> QED BY <1>8, <2>1, <3>1 DEF WriteDone, Return, Halt, DataStep, Running
    <2>2. CASE call[w] # "stop"
        BY <1>8, <2>2 DEF WriteDone, Return, Writing, DataStep, Stays, Running
    <2> QED BY <2>1, <2>2
<1>9. ASSUME Raise(w), phase[w] \in {"mined", "writing", "contended"}
      PROVE  DataStep(w) /\ \A v \in Workers \ {w} : Same(v)
    <2>1. CASE call[w] \in {"init", "stop"}
        <3>1. Halts(w)
            BY <1>9, <2>1 DEF Raise, Halt, Halts, Running
        <3> QED BY <1>9, <2>1, <3>1 DEF Raise, Halt, DataStep, Running
    <2>2. CASE call[w] \notin {"init", "stop"}
        BY <1>9, <2>2 DEF Raise, DataStep, Stays, Running
    <2> QED BY <2>1, <2>2
<1>10. CASE OpenFails(w)
    BY <1>9, <1>10 DEF OpenFails
<1>11. CASE WriteFails(w)
    BY <1>9, <1>11 DEF WriteFails, Writing
<1>12. CASE Crash(w)
    <2>1. Halts(w)
        BY <1>12 DEF Crash, Halt, Halts, Running
    <2> QED BY <1>12, <2>1 DEF Crash, Halt, DataStep, Running
<1> QED BY <1>1, <1>2, <1>3, <1>4, <1>5, <1>6, <1>7, <1>8, <1>10, <1>11, <1>12

\* A step leaves the file, tears it, or writes the chain of a running worker.
LEMMA FileSteps ==
    ASSUME Functions, Next
    PROVE  \/ file' = file
           \/ file' = Torn
           \/ \E w \in Workers : Running(w) /\ file' = Whole(chain[w])
<1>1. PICK w \in Workers :
        \/ StartFresh(w) \/ StartLoad(w) \/ StartFails(w)
        \/ \E e \in Events : Record(w, e)
        \/ Flush(w) \/ Stop(w)
        \/ OpenFile(w) \/ WriteDone(w)
        \/ OpenFails(w) \/ WriteFails(w)
        \/ Crash(w)
    BY DEF Next
<1>2. CASE WriteDone(w)
    BY <1>2 DEF WriteDone, Written, Writing, Running
<1>3. CASE WriteFails(w) \/ Crash(w) \/ OpenFile(w) \/ OpenFails(w)
    BY <1>3 DEF WriteFails, Crash, OpenFile, OpenFails
<1>4. CASE Stop(w)
    BY <1>4 DEF Stop, StopFlush
<1>5. CASE StartFresh(w) \/ StartLoad(w) \/ StartFails(w) \/ Flush(w)
    BY <1>5 DEF StartFresh, StartLoad, StartFails, Flush
<1>6. CASE \E e \in Events : Record(w, e)
    BY <1>6 DEF Record
<1> QED BY <1>1, <1>2, <1>3, <1>4, <1>5, <1>6

-----------------------------------------------------------------------------
(* Type correctness *)

LastEvents(w) == chain[w][Len(chain[w])].events

\* What type correctness needs beside TypeOK to be inductive: a running worker
\* and a readable file have a block to link to, every stored event was recorded,
\* and record() persists a block that holds its event.
Shape ==
    /\ \A w \in Workers : Running(w) => chain[w] # <<>>
    /\ \A w \in Workers : phase[w] \in {"down", "stopped", "up"} => call[w] = "none"
    /\ \A w \in Workers : call[w] = "record" => chain[w] # <<>> /\ LastEvents(w) # <<>>
    /\ file.state = "whole" => file.blocks # <<>>
    /\ EventsIn(file.blocks) \subseteq recorded
    /\ \A w \in Workers : EventsIn(chain[w]) \subseteq recorded
    /\ \A w \in Workers : Elems(pending[w]) \subseteq recorded

Base == TypeOK /\ Shape

LEMMA BaseInit == Init => Base
<1> SUFFICES ASSUME Init PROVE Base
    OBVIOUS
<1>1. TypeOK
    BY DEF Init, TypeOK, Phases, Calls, Files, Absent
<1>2. Shape
    BY EventsInEmpty DEF Init, Shape, Running, Absent
<1> QED BY <1>1, <1>2 DEF Base

LEMMA BaseFunctions == Base => Functions
BY DEF Base, TypeOK, Functions

LEMMA GenesisType ==
    ASSUME mined \in Nat
    PROVE  <<Genesis>> \in Seq(Block) /\ <<Genesis>> # <<>>
<1>1. Genesis \in Block
    BY DEF Genesis, Block
<1> QED BY <1>1

\* Mine, called with a non-empty buffer es of a running worker.
LEMMA MineType ==
    ASSUME Base, NEW w \in Workers, Running(w), NEW es \in Seq(Events), es # <<>>,
           NEW op \in Calls \ {"none"}, Mine(w, es, op)
    PROVE  /\ phase' \in [Workers -> Phases]
           /\ call' \in [Workers -> Calls]
           /\ chain' \in [Workers -> Seq(Block)]
           /\ pending' \in [Workers -> Seq(Events)]
           /\ mined' \in Nat
           /\ LastEvents(w)' = es
           /\ chain'[w] # <<>>
<1>1. chain[w] # <<>> /\ chain[w] \in Seq(Block) /\ mined \in Nat
    BY DEF Base, Shape, TypeOK
<1>2. NewBlock(chain[w], es) \in Block
    BY <1>1, NewBlockType
<1>3. /\ chain'[w] = Append(chain[w], NewBlock(chain[w], es))
      /\ chain' = [chain EXCEPT ![w] = chain'[w]]
    BY DEF Mine, Base, TypeOK
<1>4. chain'[w] \in Seq(Block) /\ chain'[w] # <<>>
    BY <1>1, <1>2, <1>3, AppendType
<1>5. chain'[w][Len(chain'[w])] = NewBlock(chain[w], es)
    BY <1>1, <1>2, <1>3
<1>6. LastEvents(w)' = es
    BY <1>5 DEF LastEvents, NewBlock
<1>7. chain' \in [Workers -> Seq(Block)]
    BY <1>3, <1>4 DEF Base, TypeOK
<1> QED BY <1>1, <1>4, <1>6, <1>7 DEF Mine, Base, TypeOK, Phases, Calls

LEMMA HaltType ==
    ASSUME Base, NEW w \in Workers, NEW p \in {"down", "stopped"}, Halt(w, p)
    PROVE  /\ phase' \in [Workers -> Phases]
           /\ call' \in [Workers -> Calls]
           /\ chain' \in [Workers -> Seq(Block)]
           /\ pending' \in [Workers -> Seq(Events)]
           /\ recordCount' \in [Workers -> Nat]
           /\ kept' \in [Workers -> SUBSET recorded]
           /\ phase'[w] = p /\ call'[w] = "none"
BY DEF Halt, Base, TypeOK, Phases, Calls

LEMMA TypeStep == Base /\ [Next]_vars => TypeOK'
<1> SUFFICES ASSUME Base, [Next]_vars PROVE TypeOK'
    OBVIOUS
<1> USE DEF Base
<1>1. CASE UNCHANGED vars
    BY <1>1 DEF vars, mem, env, history, TypeOK
<1>2. CASE Next
    <2>1. PICK w \in Workers :
            \/ StartFresh(w) \/ StartLoad(w) \/ StartFails(w)
            \/ \E e \in Events : Record(w, e)
            \/ Flush(w) \/ Stop(w)
            \/ OpenFile(w) \/ WriteDone(w)
            \/ OpenFails(w) \/ WriteFails(w)
            \/ Crash(w)
        BY <1>2 DEF Next
    <2>2. CASE StartFresh(w)
        <3>1. <<Genesis>> \in Seq(Block)
            BY GenesisType DEF TypeOK
        <3>2. chain' \in [Workers -> Seq(Block)]
            BY <2>2, <3>1 DEF StartFresh, StartWith, TypeOK
        <3>3. kept' = [kept EXCEPT ![w] = {}]
            BY <2>2, EventsInGenesis DEF StartFresh, StartWith
        <3>4. /\ phase' \in [Workers -> Phases] /\ call' \in [Workers -> Calls]
              /\ pending' \in [Workers -> Seq(Events)]
              /\ recordCount' \in [Workers -> Nat]
            BY <2>2 DEF StartFresh, StartWith, TypeOK, Phases, Calls
        <3>5. /\ file' = file /\ faults' = faults /\ crashes' = crashes
              /\ recorded' = recorded /\ acked' = acked /\ everSaved' = everSaved
              /\ unsaved' = unsaved \ {w} /\ mined' = mined + 1 /\ starts' = starts + 1
            BY <2>2 DEF StartFresh, StartWith, CountStart
        <3> HIDE DEF Base
        <3>6. TypeOK
            BY DEF Base
        <3> QED BY <3>2, <3>3, <3>4, <3>5, <3>6 DEF TypeOK
    <2>3. CASE StartLoad(w)
        <3>1. file.blocks \in Seq(Block) /\ EventsIn(file.blocks) \subseteq recorded
            BY DEF TypeOK, Files, Shape
        <3> QED
            BY <2>3, <3>1 DEF StartLoad, StartWith, CountStart, TypeOK, Phases
    <2>4. CASE StartFails(w)
        BY <2>4 DEF StartFails, CountStart, history, TypeOK, Phases
    <2>5. CASE \E e \in Events : Record(w, e)
        <3>1. PICK e \in Events : Record(w, e)
            BY <2>5
        <3> DEFINE buffer == Append(pending[w], e)
        <3>2. pending[w] \in Seq(Events)
            BY DEF TypeOK
        <3>3. buffer \in Seq(Events) /\ buffer # <<>>
            BY <3>2, AppendType
        <3>4. /\ kept' \in [Workers -> SUBSET recorded'] /\ recorded' \subseteq Events
              /\ recorded' = recorded \cup {e}
              /\ file' = file /\ unsaved' = unsaved /\ everSaved' = everSaved
              /\ starts' = starts /\ faults' = faults /\ crashes' = crashes
              /\ phase[w] = "up"
            BY <3>1 DEF Record, TypeOK, env
        <3>5. CASE FlushDue(buffer)
            <4>1. Mine(w, buffer, "record") /\ recordCount' = recordCount /\ acked' = acked
                BY <3>1, <3>5 DEF Record
            <4> QED BY <3>3, <3>4, <4>1, MineType DEF TypeOK, Running, Calls
        <3>6. CASE ~FlushDue(buffer)
            <4>1. /\ pending' = [pending EXCEPT ![w] = buffer]
                  /\ recordCount' = [recordCount EXCEPT ![w] = @ + 1]
                  /\ acked' = acked \cup {e}
                  /\ phase' = phase /\ call' = call /\ chain' = chain /\ mined' = mined
                BY <3>1, <3>6 DEF Record
            <4>2. pending' \in [Workers -> Seq(Events)]
                BY <3>3, <4>1 DEF TypeOK
            <4> QED BY <3>4, <4>1, <4>2 DEF TypeOK
        <3> QED BY <3>5, <3>6
    <2>6. CASE Flush(w)
        <3>1. pending[w] \in Seq(Events)
            BY DEF TypeOK
        <3> QED BY <2>6, <3>1, MineType DEF Flush, TypeOK, Running, Calls, env, history
    <2>7. CASE Stop(w)
        <3>1. pending[w] \in Seq(Events)
            BY DEF TypeOK
        <3>2. CASE pending[w] = <<>>
            BY <2>7, <3>2, HaltType DEF Stop, StopFlush, TypeOK, env
        <3>3. CASE pending[w] # <<>>
            BY <2>7, <3>1, <3>3, MineType
            DEF Stop, StopFlush, TypeOK, Running, Calls, env, history
        <3> QED BY <3>2, <3>3
    <2>8. CASE OpenFile(w)
        <3>1. phase' \in [Workers -> Phases]
            BY <2>8 DEF OpenFile, Contend, TypeOK, Phases
        <3>2. Torn \in Files
            BY DEF Torn, Files
        <3> QED BY <2>8, <3>1, <3>2 DEF OpenFile, env, history, TypeOK
    <2>9. CASE WriteDone(w)
        <3>1. file' \in Files /\ EventsIn(file'.blocks) \subseteq recorded
            <4>1. Whole(chain[w]) \in Files /\ Torn \in Files
                BY DEF Whole, Torn, Files, TypeOK
            <4>2. file' = Whole(chain[w]) \/ file' = Torn
                BY <2>9 DEF WriteDone, Written
            <4>3. file'.blocks = chain[w] \/ file'.blocks = <<>>
                BY <4>2 DEF Whole, Torn
            <4> QED BY <4>1, <4>2, <4>3, EventsInEmpty DEF Shape
        <3>2. CASE call[w] = "stop"
            BY <2>9, <3>1, <3>2, HaltType DEF WriteDone, Return, TypeOK, env
        <3>3. CASE call[w] = "record"
            <4> DEFINE es == chain[w][Len(chain[w])].events
            <4>1. es \in Seq(Events) /\ es # <<>> /\ Len(chain[w]) \in DOMAIN chain[w]
                <5>1. chain[w] \in Seq(Block) /\ chain[w] # <<>>
                    BY <3>3 DEF TypeOK, Shape
                <5>2. Len(chain[w]) \in DOMAIN chain[w]
                    BY <5>1
                <5>3. chain[w][Len(chain[w])] \in Block
                    BY <5>1, <5>2
                <5> QED BY <3>3, <5>2, <5>3 DEF Block, Shape, LastEvents
            <4>2. es[Len(es)] \in Elems(es)
                BY <4>1 DEF Elems
            <4>3. es[Len(es)] \in recorded
                BY <4>1, <4>2, EventsInBlock DEF Shape, TypeOK
            <4>4. /\ acked' = acked \cup {es[Len(es)]}
                  /\ recordCount' = [recordCount EXCEPT ![w] = @ + 1]
                BY <2>9, <3>3 DEF WriteDone, Return
            <4>5. /\ phase' = [phase EXCEPT ![w] = "up"] /\ call' = [call EXCEPT ![w] = "none"]
                  /\ chain' = chain /\ pending' = pending /\ kept' = kept
                BY <2>9, <3>3 DEF WriteDone, Return
            <4>6. /\ mined' = mined /\ recorded' = recorded
                  /\ starts' = starts /\ faults' = faults /\ crashes' = crashes
                  /\ unsaved' = unsaved \ {w}
                  /\ everSaved' = everSaved \cup EventsIn(file'.blocks)
                BY <2>9 DEF WriteDone, env
            <4> HIDE DEF es
            <4> QED BY <3>1, <4>3, <4>4, <4>5, <4>6 DEF TypeOK, Phases, Calls
        <3>4. CASE call[w] \notin {"stop", "record"}
            BY <2>9, <3>1, <3>4 DEF WriteDone, Return, TypeOK, env, Phases, Calls
        <3> QED BY <3>2, <3>3, <3>4
    <2>10. ASSUME Raise(w), file' \in {file, Torn}
           PROVE  TypeOK'
        <3>1. Torn \in Files
            BY DEF Torn, Files
        <3>2. CASE call[w] \in {"init", "stop"}
            BY <2>10, <3>1, <3>2, HaltType DEF Raise, TypeOK
        <3>3. CASE call[w] \notin {"init", "stop"}
            <4>1. /\ phase' = [phase EXCEPT ![w] = "up"] /\ call' = [call EXCEPT ![w] = "none"]
                  /\ chain' = chain /\ pending' = pending /\ recordCount' = recordCount
                  /\ kept' = kept /\ unsaved' = unsaved \cup {w} /\ faults' = faults + 1
                  /\ mined' = mined /\ starts' = starts /\ crashes' = crashes
                  /\ recorded' = recorded /\ acked' = acked /\ everSaved' = everSaved
                BY <2>10, <3>3 DEF Raise
            <4> QED BY <2>10, <3>1, <4>1 DEF TypeOK, Phases, Calls
        <3> QED BY <3>2, <3>3
    <2>11. CASE OpenFails(w)
        BY <2>10, <2>11 DEF OpenFails
    <2>12. CASE WriteFails(w)
        BY <2>10, <2>12 DEF WriteFails
    <2>13. CASE Crash(w)
        <3>1. Torn \in Files
            BY DEF Torn, Files
        <3> QED BY <2>13, <3>1, HaltType DEF Crash, TypeOK
    <2> QED BY <2>1, <2>2, <2>3, <2>4, <2>5, <2>6, <2>7, <2>8, <2>9, <2>11, <2>12, <2>13
<1> QED BY <1>1, <1>2

Action(w) ==
    \/ StartFresh(w) \/ StartLoad(w) \/ StartFails(w)
    \/ \E e \in Events : Record(w, e)
    \/ Flush(w) \/ Stop(w)
    \/ OpenFile(w) \/ WriteDone(w)
    \/ OpenFails(w) \/ WriteFails(w)
    \/ Crash(w)

\* DataSteps and FileSteps, as they are used below.
LEMMA StepCases ==
    ASSUME Base, Next
    PROVE  /\ \E w \in Workers :
                Action(w) /\ DataStep(w) /\ \A v \in Workers \ {w} : Same(v)
           /\ \/ file' = file
              \/ file' = Torn
              \/ \E w \in Workers : Running(w) /\ file' = Whole(chain[w])
<1>1. Functions
    BY BaseFunctions
<1>2. PICK w \in Workers : Action(w)
    BY DEF Next, Action
<1>3. DataStep(w) /\ \A v \in Workers \ {w} : Same(v)
    BY <1>1, <1>2, DataSteps DEF Action
<1> QED BY <1>1, <1>2, <1>3, FileSteps

\* Every worker holds only recorded events, and a running one a non-empty chain.
Holds(v) ==
    /\ Running(v) => chain[v] # <<>>
    /\ EventsIn(chain[v]) \subseteq recorded
    /\ Elems(pending[v]) \subseteq recorded

LEMMA HoldsStep ==
    ASSUME Base, Next, TypeOK'
    PROVE  \A v \in Workers : Holds(v)'
<1>1. PICK w \in Workers : DataStep(w) /\ \A v \in Workers \ {w} : Same(v)
    BY StepCases
<1>2. recorded \subseteq recorded'
    BY <1>1 DEF DataStep, Stays, Halts, Loads, Buffers, Mines, SameCounts
<1> TAKE v \in Workers
<1>3. ASSUME Same(v) PROVE Holds(v)'
    BY <1>2, <1>3 DEF Same, Base, Shape, Holds
<1>4. CASE Halts(v)
    BY <1>4, EventsInEmpty DEF Halts, Holds
<1>5. CASE Loads(v)
    <2>1. CASE chain'[v] = <<Genesis>> /\ mined' = mined + 1
        BY <1>5, <2>1, EventsInEmpty, EventsInGenesis DEF Loads, Holds
    <2>2. CASE file.state = "whole" /\ chain'[v] = file.blocks
        BY <1>2, <1>5, <2>2, EventsInEmpty DEF Loads, Base, Shape, Holds
    <2> QED BY <1>5, <2>1, <2>2 DEF Loads
<1>6. CASE Buffers(v)
    <2>1. PICK e \in Events \ recorded :
            /\ pending'[v] = Append(pending[v], e)
            /\ chain'[v] = chain[v]
            /\ recorded' = recorded \cup {e}
        BY <1>6 DEF Buffers, Holds
    <2>2. Elems(pending'[v]) = Elems(pending[v]) \cup {e}
        BY <2>1, ElemsAppend DEF Base, TypeOK, Holds
    <2> QED BY <1>6, <2>1, <2>2 DEF Buffers, Base, Shape, Holds
<1>7. ASSUME NEW es \in Seq(Events), Mines(v, es) PROVE Holds(v)'
    <2>1. chain[v] \in Seq(Block) /\ chain[v] # <<>> /\ mined \in Nat
        BY <1>7 DEF Mines, Base, Shape, TypeOK, Holds
    <2>2. NewBlock(chain[v], es) \in Block
        BY <2>1, NewBlockType
    <2>3. EventsIn(chain'[v]) = EventsIn(chain[v]) \cup Elems(es)
        BY <1>7, <2>1, <2>2, EventsInAppend DEF Mines, NewBlock, Holds
    <2>4. Elems(es) \subseteq recorded'
        <3>1. CASE es = pending[v] /\ recorded' = recorded
            BY <3>1 DEF Base, Shape, Holds
        <3>2. ASSUME NEW e \in Events, es = Append(pending[v], e),
                     recorded' = recorded \cup {e}
              PROVE  Elems(es) \subseteq recorded'
            BY <3>2, ElemsAppend DEF Base, Shape, TypeOK, Holds
        <3> QED BY <1>7, <3>1, <3>2 DEF Mines, Holds
    <2>5. chain'[v] # <<>>
        BY <1>7, <2>1, <2>2, AppendType DEF Mines, Holds
    <2> QED BY <1>2, <1>7, <2>3, <2>4, <2>5, EventsInEmpty DEF Mines, Base, Shape, Holds
<1>8. CASE v = w
    BY <1>1, <1>3, <1>4, <1>5, <1>6, <1>7, <1>8 DEF DataStep, Stays
<1>9. CASE v # w
    BY <1>1, <1>3, <1>9
<1> QED BY <1>8, <1>9

\* The file holds only recorded events, and a block when it can be read.
LEMMA FileShapeStep ==
    ASSUME Base, Next
    PROVE  /\ file'.state = "whole" => file'.blocks # <<>>
           /\ EventsIn(file'.blocks) \subseteq recorded'
<1>1. recorded \subseteq recorded'
    BY StepCases DEF DataStep, Stays, Halts, Loads, Buffers, Mines, SameCounts
<1>2. CASE file' = file
    BY <1>1, <1>2 DEF Base, Shape
<1>3. CASE file' = Torn
    BY <1>3, EventsInEmpty DEF Torn
<1>4. ASSUME NEW w \in Workers, Running(w), file' = Whole(chain[w])
      PROVE  /\ file'.state = "whole" => file'.blocks # <<>>
             /\ EventsIn(file'.blocks) \subseteq recorded'
    BY <1>1, <1>4 DEF Whole, Base, Shape
<1> QED BY <1>2, <1>3, <1>4, StepCases

\* call[w] names an operation only while w persists, and record() persists a
\* block that is not empty.
LEMMA CallStep ==
    ASSUME Base, Next, TypeOK'
    PROVE  \A v \in Workers :
              /\ phase'[v] \in {"down", "stopped", "up"} => call'[v] = "none"
              /\ call'[v] = "record" => chain'[v] # <<>> /\ LastEvents(v)' # <<>>
<1>1. PICK w \in Workers : Action(w) /\ DataStep(w) /\ \A v \in Workers \ {w} : Same(v)
    BY StepCases
<1> DEFINE CallOK(v) ==
        /\ phase[v] \in {"down", "stopped", "up"} => call[v] = "none"
        /\ call[v] = "record" => chain[v] # <<>> /\ LastEvents(v) # <<>>
<1>2. \A v \in Workers : CallOK(v)
    BY DEF Base, Shape
<1>3. \A v \in Workers \ {w} :
         /\ call'[v] = call[v]
         /\ \/ phase'[v] = phase[v]
            \/ Writing(v) /\ phase'[v] = "contended"
         /\ chain'[v] = chain[v]
    <2>1. CASE OpenFile(w)
        BY <2>1 DEF OpenFile, Contend, Base, TypeOK
    <2>2. CASE StartFresh(w) \/ StartLoad(w) \/ StartFails(w)
        BY <2>2 DEF StartFresh, StartLoad, StartFails, StartWith, Base, TypeOK
    <2>3. CASE Flush(w) \/ Stop(w) \/ \E e \in Events : Record(w, e)
        <3>1. \/ \E es, op : Mine(w, es, op)
              \/ Halt(w, "stopped")
              \/ UNCHANGED <<phase, call, chain>>
            BY <2>3, Zenon DEF Flush, Stop, StopFlush, Record
        <3>2. ASSUME NEW es, NEW op, Mine(w, es, op)
              PROVE  \A v \in Workers \ {w} :
                        call'[v] = call[v] /\ phase'[v] = phase[v] /\ chain'[v] = chain[v]
            BY <3>2 DEF Mine, Base, TypeOK
        <3>3. CASE Halt(w, "stopped")
            BY <3>3 DEF Halt, Base, TypeOK
        <3> QED BY <3>1, <3>2, <3>3
    <2>4. CASE WriteDone(w)
        BY <2>4, SMTT(20) DEF WriteDone, Return, Halt, Base, TypeOK
    <2>6. CASE Crash(w)
        BY <2>6 DEF Crash, Halt, Base, TypeOK
    <2>5. CASE OpenFails(w) \/ WriteFails(w)
        BY <2>5 DEF OpenFails, WriteFails, Raise, Halt, Base, TypeOK
    <2> QED BY <1>1, <2>1, <2>2, <2>3, <2>4, <2>5, <2>6 DEF Action
<1>4. \A v \in Workers \ {w} : CallOK(v)'
    BY <1>2, <1>3 DEF LastEvents, Writing
<1>5. CallOK(w)'
    <2>1. CASE StartFresh(w)
        BY <2>1 DEF StartFresh, StartWith, Base, TypeOK
    <2>2. CASE StartLoad(w) \/ StartFails(w)
        BY <1>2, <2>2 DEF StartLoad, StartFails, StartWith, Running, Base, TypeOK
    <2>3. CASE \E e \in Events : Record(w, e)
        <3>1. PICK e \in Events : Record(w, e)
            BY <2>3
        <3> DEFINE buffer == Append(pending[w], e)
        <3>2. buffer \in Seq(Events) /\ buffer # <<>>
            BY AppendType DEF Base, TypeOK
        <3>3. CASE FlushDue(buffer)
            <4>1. Mine(w, buffer, "record") /\ Running(w)
                BY <3>1, <3>3 DEF Record, Running
            <4>2. LastEvents(w)' = buffer /\ chain'[w] # <<>>
                BY <3>2, <4>1, MineType DEF Calls
            <4> QED BY <3>2, <4>1, <4>2 DEF Mine, Base, TypeOK
        <3>4. CASE ~FlushDue(buffer)
            BY <1>2, <3>1, <3>4 DEF Record, LastEvents
        <3> QED BY <3>3, <3>4
    <2>4. CASE Flush(w)
        BY <2>4 DEF Flush, Mine, Base, TypeOK
    <2>5. CASE Stop(w)
        BY <2>5, SMTT(20) DEF Stop, StopFlush, Mine, Halt, Base, TypeOK
    <2>6. CASE OpenFile(w)
        BY <1>2, <2>6 DEF OpenFile, Contend, LastEvents, Base, TypeOK
    <2>7. CASE WriteDone(w)
        <3>1. call[w] = "stop" => Halt(w, "stopped")
            BY <2>7 DEF WriteDone, Return
        <3>2. call[w] # "stop" => /\ phase' = [phase EXCEPT ![w] = "up"]
                                  /\ call' = [call EXCEPT ![w] = "none"]
            BY <2>7 DEF WriteDone, Return
        <3> QED BY <3>1, <3>2 DEF Halt, Base, TypeOK
    <2>8. CASE OpenFails(w) \/ WriteFails(w)
        BY <2>8 DEF OpenFails, WriteFails, Raise, Halt, Base, TypeOK
    <2>9. CASE Crash(w)
        BY <2>9 DEF Crash, Halt, Base, TypeOK
    <2> QED BY <1>1, <2>1, <2>2, <2>3, <2>4, <2>5, <2>6, <2>7, <2>8, <2>9 DEF Action
<1> QED BY <1>4, <1>5

LEMMA BaseStep == Base /\ [Next]_vars => Base'
<1> SUFFICES ASSUME Base, [Next]_vars PROVE Base'
    OBVIOUS
<1>1. TypeOK'
    BY TypeStep
<1>2. CASE UNCHANGED vars
    <2>1. Shape'
        BY <1>2 DEF vars, mem, env, history, Base, Shape, Running, LastEvents
    <2> QED BY <1>1, <2>1 DEF Base
<1>3. CASE Next
    <2>1. Shape'
        BY <1>1, <1>3, HoldsStep, FileShapeStep, CallStep DEF Shape, Holds
    <2> QED BY <1>1, <2>1 DEF Base
<1> QED BY <1>2, <1>3

LEMMA BaseAlways == Spec => []Base
BY BaseInit, BaseStep, PTL DEF Spec

\* Every variable keeps its type in every behaviour, for any number of workers and
\* any limit, however persisting fails and processes crash.
THEOREM LedgerTypeCorrect == Spec => []TypeOK
<1>1. Base => TypeOK
    BY DEF Base
<1> QED BY <1>1, BaseAlways, PTL

-----------------------------------------------------------------------------
(* What is recorded is kept *)

\* The data of the worker that takes the step, and the fact that no other worker's
\* data changes, in the form the invariants below use.
LEMMA WorkerStep ==
    ASSUME Base, Next, NEW v \in Workers
    PROVE  Same(v) \/ Halts(v) \/ Loads(v) \/ Buffers(v) \/ \E es \in Seq(Events) : Mines(v, es)
BY StepCases DEF DataStep, Stays

\* A block appended to the chain of a running worker is a block.
LEMMA MinesBlock ==
    ASSUME Base, NEW v \in Workers, NEW es \in Seq(Events), Mines(v, es)
    PROVE  /\ chain[v] \in Seq(Block) /\ chain[v] # <<>> /\ pending[v] \in Seq(Events)
           /\ NewBlock(chain[v], es) \in Block
           /\ NewBlock(chain[v], es).events = es
           /\ EventsIn(chain'[v]) = EventsIn(chain[v]) \cup Elems(es)
<1>1. chain[v] \in Seq(Block) /\ chain[v] # <<>> /\ mined \in Nat /\ pending[v] \in Seq(Events)
    BY DEF Mines, Base, Shape, TypeOK
<1>2. NewBlock(chain[v], es) \in Block /\ NewBlock(chain[v], es).events = es
    BY <1>1, NewBlockType DEF NewBlock
<1> QED BY <1>1, <1>2, EventsInAppend DEF Mines

LEMMA AccountedStep == Base /\ Accounted /\ [Next]_vars => Accounted'
<1> SUFFICES ASSUME Base, Accounted, [Next]_vars PROVE Accounted'
    OBVIOUS
<1>1. CASE UNCHANGED vars
    BY <1>1 DEF vars, mem, env, history, Accounted, Running
<1>2. CASE Next
    <2> SUFFICES ASSUME NEW v \in Workers, Running(v)'
                 PROVE  kept'[v] = EventsIn(chain'[v]) \cup Elems(pending'[v])
        BY DEF Accounted
    <2>1. CASE Same(v)
        BY <2>1 DEF Same, Accounted
    <2>2. CASE Halts(v)
        BY <2>2 DEF Halts
    <2>3. CASE Loads(v)
        BY <2>3, EventsInEmpty DEF Loads
    <2>4. CASE Buffers(v)
        <3>1. PICK e \in Events : /\ pending'[v] = Append(pending[v], e)
                                  /\ chain'[v] = chain[v]
                                  /\ kept'[v] = kept[v] \cup {e}
            BY <2>4 DEF Buffers
        <3>2. Elems(pending'[v]) = Elems(pending[v]) \cup {e}
            BY <3>1, ElemsAppend DEF Base, TypeOK
        <3> QED BY <2>4, <3>1, <3>2 DEF Buffers, Accounted
    <2>5. ASSUME NEW es \in Seq(Events), Mines(v, es)
          PROVE  kept'[v] = EventsIn(chain'[v]) \cup Elems(pending'[v])
        <3>1. EventsIn(chain'[v]) = EventsIn(chain[v]) \cup Elems(es)
            BY <2>5, MinesBlock
        <3>2. kept'[v] = EventsIn(chain[v]) \cup Elems(es)
            <4>1. kept[v] = EventsIn(chain[v]) \cup Elems(pending[v])
                BY <2>5 DEF Mines, Accounted
            <4>2. ASSUME NEW e \in Events, es = Append(pending[v], e), kept'[v] = kept[v] \cup {e}
                  PROVE  kept'[v] = EventsIn(chain[v]) \cup Elems(es)
                BY <4>1, <4>2, ElemsAppend DEF Base, TypeOK
            <4> QED BY <2>5, <4>1, <4>2 DEF Mines
        <3> QED BY <2>5, <3>1, <3>2, EventsInEmpty DEF Mines
    <2> QED BY <1>2, <2>1, <2>2, <2>3, <2>4, <2>5, WorkerStep
<1> QED BY <1>1, <1>2

\* No worker loses or invents an event while it runs, whichever persists fail:
\* flush() clears the buffer only into the chain.
THEOREM LedgerKeepsRecords == Spec => []Accounted
<1>1. Init => Accounted
    BY DEF Init, Accounted, Running
<1> QED BY <1>1, AccountedStep, BaseAlways, PTL DEF Spec

-----------------------------------------------------------------------------
(* The size of blocks *)

LimitInv == BlocksWithinLimit /\ WithinLimit(file.blocks)

LEMMA WithinLimitAppend ==
    ASSUME NEW c \in Seq(Block), WithinLimit(c), NEW b \in Block,
           b.events # <<>>, Len(b.events) <= MaxPending
    PROVE  WithinLimit(Append(c, b))
<1>1. /\ DOMAIN Append(c, b) = DOMAIN c \cup {Len(c) + 1}
      /\ \A i \in DOMAIN c : Append(c, b)[i] = c[i]
      /\ Append(c, b)[Len(c) + 1] = b
    OBVIOUS
<1> QED BY <1>1, Zenon DEF WithinLimit

LEMMA WithinLimitSmall == WithinLimit(<<>>) /\ WithinLimit(<<Genesis>>)
<1>1. DOMAIN <<Genesis>> = {1} /\ <<Genesis>>[1].events = <<>> /\ DOMAIN <<>> = {}
    BY DEF Genesis
<1>2. Len(<<>>) = 0 /\ ~(1 > 1) /\ 0 <= MaxPending
    BY MaxPendingAssumption
<1> QED BY <1>1, <1>2, Zenon DEF WithinLimit

LEMMA LimitStep == Base /\ LimitInv /\ [Next]_vars => LimitInv'
<1> SUFFICES ASSUME Base, LimitInv, [Next]_vars PROVE LimitInv'
    OBVIOUS
<1>1. CASE UNCHANGED vars
    BY <1>1 DEF vars, mem, env, history, LimitInv, BlocksWithinLimit, WithinLimit
<1>2. CASE Next
    <2>1. WithinLimit(file'.blocks)
        <3>1. CASE file' = file
            BY <3>1 DEF LimitInv
        <3>2. CASE file' = Torn
            BY <3>2, WithinLimitSmall DEF Torn
        <3>3. ASSUME NEW w \in Workers, file' = Whole(chain[w])
              PROVE  WithinLimit(file'.blocks)
            BY <3>3 DEF Whole, LimitInv, BlocksWithinLimit
        <3> QED BY <1>2, <3>1, <3>2, <3>3, StepCases
    <2>2. ASSUME NEW v \in Workers
          PROVE  WithinLimit(chain'[v]) /\ Len(pending'[v]) < MaxPending
        <3>0. Len(<<>>) < MaxPending
            BY MaxPendingAssumption
        <3>1. CASE Same(v)
            BY <3>1 DEF Same, LimitInv, BlocksWithinLimit
        <3>2. CASE Halts(v)
            BY <3>0, <3>2, WithinLimitSmall DEF Halts
        <3>3. CASE Loads(v)
            BY <3>0, <3>3, WithinLimitSmall DEF Loads, LimitInv
        <3>4. CASE Buffers(v)
            BY <3>4 DEF Buffers, LimitInv, BlocksWithinLimit
        <3>5. ASSUME NEW es \in Seq(Events), Mines(v, es)
              PROVE  WithinLimit(chain'[v]) /\ Len(pending'[v]) < MaxPending
            <4>1. Len(es) <= MaxPending
                <5>1. Len(pending[v]) < MaxPending /\ pending[v] \in Seq(Events)
                    BY DEF LimitInv, BlocksWithinLimit, Base, TypeOK
                <5>2. ASSUME NEW e \in Events, es = Append(pending[v], e)
                      PROVE  Len(es) <= MaxPending
                    BY <5>1, <5>2, AppendType, MaxPendingAssumption
                <5>3. Len(pending[v]) <= MaxPending
                    BY <5>1, MaxPendingAssumption
                <5> QED BY <3>5, <5>2, <5>3 DEF Mines
            <4>2. WithinLimit(chain[v])
                BY DEF LimitInv, BlocksWithinLimit
            <4> QED BY <3>0, <3>5, <4>1, <4>2, MinesBlock, WithinLimitAppend DEF Mines
        <3> QED BY <1>2, <3>1, <3>2, <3>3, <3>4, <3>5, WorkerStep
    <2> QED BY <2>1, <2>2 DEF LimitInv, BlocksWithinLimit, WithinLimit
<1> QED BY <1>1, <1>2

\* No block is larger than the limit and none but the first is empty, whatever
\* fails: the documented bound on a block, for every limit.
THEOREM LedgerBlocksBounded == Spec => []BlocksWithinLimit
<1>1. Init => LimitInv
    BY WithinLimitSmall, MaxPendingAssumption DEF Init, LimitInv, BlocksWithinLimit, Absent
<1>2. LimitInv => BlocksWithinLimit
    BY DEF LimitInv
<1> QED BY <1>1, <1>2, LimitStep, BaseAlways, PTL DEF Spec

-----------------------------------------------------------------------------
(* Hash-linking *)

LEMMA LinkedLater ==
    ASSUME NEW c \in Seq(Block), NEW m \in Nat, NEW n \in Nat, m <= n, Linked(c, m)
    PROVE  Linked(c, n)
BY DEF Linked

LEMMA LinkedAppend ==
    ASSUME mined \in Nat, NEW c \in Seq(Block), Linked(c, mined), NEW es \in Seq(Events)
    PROVE  Linked(Append(c, NewBlock(c, es)), mined + 1)
<1> DEFINE b == NewBlock(c, es)
<1> DEFINE d == Append(c, b)
<1>1. c # <<>> /\ Len(c) \in Nat /\ Len(c) \in DOMAIN c /\ 1 \in DOMAIN c
    BY DEF Linked
<1>2. /\ b.index = Len(c) /\ b.prev = c[Len(c)].hash /\ b.hash = mined + 1
      /\ b \in Block
    BY <1>1, NewBlockType DEF NewBlock
<1> HIDE DEF b
<1>3. /\ DOMAIN d = 1..(Len(c) + 1) /\ DOMAIN c = 1..Len(c)
      /\ \A i \in DOMAIN c : d[i] = c[i]
      /\ d[Len(c) + 1] = b
    BY <1>2
<1>4. \A i \in DOMAIN c : c[i].hash \in 1..mined /\ c[i].index = i - 1
    BY DEF Linked
<1> HIDE DEF d
<1>5. d[1].prev = 0 /\ d[1].events = <<>> /\ d # <<>>
    <2>1. c[1].prev = 0 /\ c[1].events = <<>>
        BY DEF Linked
    <2>2. d # <<>>
        BY <1>2, <1>1, AppendType DEF d
    <2> QED BY <1>1, <1>3, <2>1, <2>2
<1>6. \A i \in DOMAIN d : d[i].index = i - 1 /\ d[i].hash \in 1..(mined + 1)
    <2> SUFFICES ASSUME NEW i \in DOMAIN d
                 PROVE  d[i].index = i - 1 /\ d[i].hash \in 1..(mined + 1)
        OBVIOUS
    <2>1. CASE i \in DOMAIN c
        <3>1. d[i] = c[i]
            BY <1>3, <2>1
        <3> QED BY <1>4, <2>1, <3>1
    <2>2. CASE i = Len(c) + 1
        BY <1>1, <1>2, <1>3, <2>2
    <2> QED BY <1>1, <1>3, <2>1, <2>2
<1>7. \A i \in DOMAIN d : i > 1 => d[i].prev = d[i - 1].hash
    <2> SUFFICES ASSUME NEW i \in DOMAIN d, i > 1 PROVE d[i].prev = d[i - 1].hash
        OBVIOUS
    <2>1. CASE i \in DOMAIN c
        <3>1. i - 1 \in DOMAIN c
            BY <1>1, <1>3, <2>1
        <3>2. c[i].prev = c[i - 1].hash
            BY <2>1 DEF Linked
        <3> QED BY <1>3, <2>1, <3>1, <3>2
    <2>2. CASE i = Len(c) + 1
        BY <1>1, <1>2, <1>3, <2>2
    <2> QED BY <1>1, <1>3, <2>1, <2>2
<1>8. \A i, j \in DOMAIN d : i < j => d[i].hash < d[j].hash
    <2> SUFFICES ASSUME NEW i \in DOMAIN d, NEW j \in DOMAIN d, i < j
                 PROVE  d[i].hash < d[j].hash
        OBVIOUS
    <2>1. i \in DOMAIN c
        BY <1>1, <1>3
    <2>2. CASE j \in DOMAIN c
        BY <1>3, <2>1, <2>2 DEF Linked
    <2>3. CASE j = Len(c) + 1
        BY <1>2, <1>3, <1>4, <2>1, <2>3
    <2> QED BY <1>1, <1>3, <2>2, <2>3
<1> QED BY <1>5, <1>6, <1>7, <1>8 DEF Linked, d, b

LEMMA LinkedGenesis ==
    ASSUME mined \in Nat
    PROVE  Linked(<<Genesis>>, mined + 1)
BY DEF Linked, Genesis

LEMMA LinkedStep == Base /\ ChainsLinked /\ [Next]_vars => ChainsLinked'
<1> SUFFICES ASSUME Base, ChainsLinked, [Next]_vars PROVE ChainsLinked'
    OBVIOUS
<1>1. CASE UNCHANGED vars
    BY <1>1 DEF vars, mem, env, history, ChainsLinked, Running
<1>2. CASE Next
    <2>1. /\ mined \in Nat /\ mined' \in Nat /\ mined <= mined'
          /\ file.blocks \in Seq(Block)
          /\ \A v \in Workers : chain[v] \in Seq(Block)
        <3>1. mined' = mined \/ mined' = mined + 1
            BY <1>2, StepCases DEF DataStep, Stays, Halts, Loads, Buffers, Mines, SameCounts
        <3> QED BY <3>1 DEF Base, TypeOK, Files
    <2>2. file'.state = "whole" => Linked(file'.blocks, mined')
        <3>1. CASE file' = file
            BY <2>1, <3>1, LinkedLater DEF ChainsLinked
        <3>2. CASE file' = Torn
            BY <3>2 DEF Torn
        <3>3. ASSUME NEW w \in Workers, Running(w), file' = Whole(chain[w])
              PROVE  Linked(file'.blocks, mined')
            BY <2>1, <3>3, LinkedLater DEF Whole, ChainsLinked
        <3> QED BY <1>2, <3>1, <3>2, <3>3, StepCases
    <2>3. ASSUME NEW v \in Workers, Running(v)'
          PROVE  Linked(chain'[v], mined')
        <3>1. CASE Same(v)
            BY <2>1, <2>3, <3>1, LinkedLater DEF Same, ChainsLinked
        <3>2. CASE Halts(v)
            BY <2>3, <3>2 DEF Halts
        <3>3. CASE Loads(v)
            BY <2>1, <3>3, LinkedGenesis, LinkedLater DEF Loads, ChainsLinked
        <3>4. CASE Buffers(v)
            BY <2>1, <3>4, LinkedLater DEF Buffers, ChainsLinked
        <3>5. ASSUME NEW es \in Seq(Events), Mines(v, es)
              PROVE  Linked(chain'[v], mined')
            BY <2>1, <3>5, LinkedAppend DEF Mines, ChainsLinked
        <3> QED BY <1>2, <3>1, <3>2, <3>3, <3>4, <3>5, WorkerStep
    <2> QED BY <2>2, <2>3 DEF ChainsLinked
<1> QED BY <1>1, <1>2

\* Every chain in memory and every file that can be read is hash-linked, for any
\* number of workers writing the one file: what they can do to each other is lose
\* blocks, not break a chain.
THEOREM LedgerChainsLinked == Spec => []ChainsLinked
<1>1. Init => ChainsLinked
    BY DEF Init, ChainsLinked, Running, Absent
<1> QED BY <1>1, LinkedStep, BaseAlways, PTL DEF Spec

-----------------------------------------------------------------------------
(* No event twice *)

OnceInv == NoEventTwice /\ OnceEach(file.blocks)

LEMMA DistinctAppend ==
    ASSUME NEW S, NEW s \in Seq(S), NEW e \in S, Distinct(s), e \notin Elems(s)
    PROVE  Distinct(Append(s, e))
<1>1. /\ DOMAIN Append(s, e) = DOMAIN s \cup {Len(s) + 1}
      /\ \A i \in DOMAIN s : Append(s, e)[i] = s[i]
      /\ Append(s, e)[Len(s) + 1] = e
    OBVIOUS
<1> QED BY <1>1, Zenon DEF Distinct, Elems

LEMMA OnceEachAppend ==
    ASSUME NEW c \in Seq(Block), NEW b \in Block, OnceEach(c), Distinct(b.events),
           EventsIn(c) \cap Elems(b.events) = {}
    PROVE  OnceEach(Append(c, b))
<1> DEFINE d == Append(c, b)
<1>1. /\ DOMAIN d = DOMAIN c \cup {Len(c) + 1}
      /\ \A i \in DOMAIN c : d[i] = c[i]
      /\ d[Len(c) + 1] = b
    OBVIOUS
<1>2. \A i \in DOMAIN c : Elems(c[i].events) \cap Elems(b.events) = {}
    BY EventsInBlock
<1> HIDE DEF d
<1>3. \A i \in DOMAIN d : Distinct(d[i].events)
    BY <1>1, Zenon DEF OnceEach
<1>4. ASSUME NEW i \in DOMAIN d, NEW j \in DOMAIN d, i # j
      PROVE  Elems(d[i].events) \cap Elems(d[j].events) = {}
    <2>1. CASE i \in DOMAIN c /\ j \in DOMAIN c
        BY <1>1, <1>4, <2>1 DEF OnceEach
    <2>2. CASE i \in DOMAIN c /\ j = Len(c) + 1
        BY <1>1, <1>2, <2>2
    <2>3. CASE i = Len(c) + 1 /\ j \in DOMAIN c
        BY <1>1, <1>2, <2>3
    <2> QED BY <1>1, <1>4, <2>1, <2>2, <2>3
<1> QED BY <1>3, <1>4 DEF OnceEach, d

LEMMA OnceSmall == OnceEach(<<>>) /\ OnceEach(<<Genesis>>) /\ Distinct(<<>>)
<1>1. DOMAIN <<Genesis>> = {1} /\ <<Genesis>>[1].events = <<>> /\ DOMAIN <<>> = {}
    BY DEF Genesis
<1> QED BY <1>1, Zenon DEF OnceEach, Distinct

LEMMA OnceStep == Base /\ OnceInv /\ [Next]_vars => OnceInv'
<1> SUFFICES ASSUME Base, OnceInv, [Next]_vars PROVE OnceInv'
    OBVIOUS
<1>1. CASE UNCHANGED vars
    BY <1>1 DEF vars, mem, env, history, OnceInv, NoEventTwice
<1>2. CASE Next
    <2>1. OnceEach(file'.blocks)
        <3>1. CASE file' = file
            BY <3>1 DEF OnceInv
        <3>2. CASE file' = Torn
            BY <3>2, OnceSmall DEF Torn
        <3>3. ASSUME NEW w \in Workers, file' = Whole(chain[w])
              PROVE  OnceEach(file'.blocks)
            BY <3>3 DEF Whole, OnceInv, NoEventTwice
        <3> QED BY <1>2, <3>1, <3>2, <3>3, StepCases
    <2>2. ASSUME NEW v \in Workers
          PROVE  /\ OnceEach(chain'[v]) /\ Distinct(pending'[v])
                 /\ EventsIn(chain'[v]) \cap Elems(pending'[v]) = {}
        <3>0. /\ OnceEach(chain[v]) /\ Distinct(pending[v])
              /\ EventsIn(chain[v]) \cap Elems(pending[v]) = {}
              /\ EventsIn(chain[v]) \subseteq recorded /\ Elems(pending[v]) \subseteq recorded
              /\ pending[v] \in Seq(Events)
            BY DEF OnceInv, NoEventTwice, Base, Shape, TypeOK
        <3>1. CASE Same(v)
            BY <3>0, <3>1 DEF Same
        <3>2. CASE Halts(v)
            BY <3>2, OnceSmall, EventsInEmpty DEF Halts
        <3>3. CASE Loads(v)
            BY <3>3, OnceSmall, EventsInEmpty DEF Loads, OnceInv
        <3>4. CASE Buffers(v)
            BY <3>0, <3>4, DistinctAppend, ElemsAppend DEF Buffers
        <3>5. ASSUME NEW es \in Seq(Events), Mines(v, es)
              PROVE  /\ OnceEach(chain'[v]) /\ Distinct(pending'[v])
                     /\ EventsIn(chain'[v]) \cap Elems(pending'[v]) = {}
            <4>1. Distinct(es) /\ EventsIn(chain[v]) \cap Elems(es) = {}
                <5>1. ASSUME NEW e \in Events \ recorded, es = Append(pending[v], e)
                      PROVE  Distinct(es) /\ EventsIn(chain[v]) \cap Elems(es) = {}
                    BY <3>0, <5>1, DistinctAppend, ElemsAppend
                <5> QED BY <3>0, <3>5, <5>1 DEF Mines
            <4> QED BY <3>0, <3>5, <4>1, MinesBlock, OnceEachAppend, OnceSmall, EventsInEmpty DEF Mines
        <3> QED BY <1>2, <3>1, <3>2, <3>3, <3>4, <3>5, WorkerStep
    <2> QED BY <2>1, <2>2 DEF OnceInv, NoEventTwice
<1> QED BY <1>1, <1>2

\* No event is in two places of a worker's ledger, whichever flushes fail, for any
\* number of workers that load each other's files.
THEOREM LedgerNoEventTwice == Spec => []NoEventTwice
<1>1. Init => OnceInv
    BY OnceSmall, EventsInEmpty DEF Init, OnceInv, NoEventTwice, Absent
<1>2. OnceInv => NoEventTwice
    BY DEF OnceInv
<1> QED BY <1>1, <1>2, OnceStep, BaseAlways, PTL DEF Spec

-----------------------------------------------------------------------------
(* One worker: the file *)

\* What makes ReadableFileIsComplete inductive: the running worker still holds in
\* its chain whatever was ever saved, and with no file nothing ever was.
SavedInv ==
    SoleWorker =>
        /\ file.state = "whole" => everSaved \subseteq EventsIn(file.blocks)
        /\ file.state = "absent" => everSaved = {}
        /\ \A w \in Workers : Running(w) => everSaved \subseteq EventsIn(chain[w])

LEMMA SavedStep == Base /\ SavedInv /\ [Next]_vars => SavedInv'
<1> SUFFICES ASSUME Base, SavedInv, [Next]_vars, SoleWorker PROVE SavedInv'
    BY DEF SavedInv, SoleWorker
<1>1. CASE UNCHANGED vars
    BY <1>1 DEF vars, mem, env, history, SavedInv, Running
<1>2. CASE Next
    <2>1. PICK w \in Workers : Action(w) /\ DataStep(w)
        BY <1>2, StepCases
    <2>2. \A v \in Workers : v = w
        BY DEF SoleWorker
    <2>3. /\ file.state = "whole" => everSaved \subseteq EventsIn(file.blocks)
          /\ file.state = "absent" => everSaved = {}
          /\ Running(w) => everSaved \subseteq EventsIn(chain[w])
        BY DEF SavedInv
    <2>4. /\ \/ everSaved' = everSaved
             \/ Running(w) /\ everSaved' \subseteq everSaved \cup EventsIn(chain[w])
          /\ \/ file' = file
             \/ file' = Torn
             \/ Running(w) /\ file' = Whole(chain[w])
        <3>1. CASE WriteDone(w)
            <4>1. file' = Whole(chain[w]) \/ file' = Torn
                BY <3>1 DEF WriteDone, Written
            <4>2. file'.blocks = chain[w] \/ file'.blocks = <<>>
                BY <4>1 DEF Whole, Torn
            <4> QED BY <3>1, <4>1, <4>2, EventsInEmpty DEF WriteDone, Writing, Running
        <3>2. CASE StartFresh(w) \/ StartLoad(w) \/ StartFails(w)
            BY <3>2 DEF StartFresh, StartLoad, StartFails, history
        <3>3. CASE \E e \in Events : Record(w, e)
            BY <3>3 DEF Record
        <3>4. CASE Flush(w) \/ Stop(w)
            BY <3>4 DEF Flush, Stop, StopFlush, history
        <3>5. CASE OpenFile(w) \/ OpenFails(w) \/ WriteFails(w) \/ Crash(w)
            BY <3>5 DEF OpenFile, OpenFails, WriteFails, Raise, Crash, history
        <3> QED BY <2>1, <3>1, <3>2, <3>3, <3>4, <3>5 DEF Action
    <2>5. Running(w)' => everSaved' \subseteq EventsIn(chain'[w])
        <3>1. CASE Stays(w)
            BY <2>3, <2>4, <3>1 DEF Stays, Same
        <3>2. CASE Halts(w)
            BY <3>2 DEF Halts
        <3>3. CASE Loads(w)
            <4>1. everSaved' = everSaved
                BY <2>4, <3>3 DEF Loads
            <4>2. CASE file.state = "whole" /\ chain'[w] = file.blocks
                BY <2>3, <4>1, <4>2
            <4>3. CASE ~(file.state = "whole" /\ chain'[w] = file.blocks)
                <5>1. StartFresh(w)
                    BY <2>1, <3>3, <4>3
                    DEF Action, Loads, StartLoad, StartWith, StartFails, Record, Flush, Stop,
                        OpenFile, WriteDone, OpenFails, WriteFails, Crash, Writing, Running,
                        Base, TypeOK
                <5> QED BY <2>3, <4>1, <5>1 DEF StartFresh, NeedsGenesis
            <4> QED BY <4>2, <4>3
        <3>4. CASE Buffers(w)
            BY <2>3, <2>4, <3>4 DEF Buffers
        <3>5. ASSUME NEW es \in Seq(Events), Mines(w, es)
              PROVE  everSaved' \subseteq EventsIn(chain'[w])
            <4>1. EventsIn(chain'[w]) = EventsIn(chain[w]) \cup Elems(es)
                BY <3>5, MinesBlock
            <4>2. Running(w)
                BY <3>5 DEF Mines
            <4> QED BY <2>3, <2>4, <4>1, <4>2
        <3> QED BY <2>1, <3>1, <3>2, <3>3, <3>4, <3>5 DEF DataStep
    <2>6. file'.state = "whole" => everSaved' \subseteq EventsIn(file'.blocks)
        <3>1. CASE file' = Torn
            BY <3>1 DEF Torn
        <3>2. CASE Running(w) /\ file' = Whole(chain[w])
            BY <2>3, <2>4, <3>2 DEF Whole
        <3>3. CASE file' = file
            <4>1. CASE everSaved' = everSaved
                BY <2>3, <3>3, <4>1
            <4>2. CASE WriteDone(w)
                <5>1. everSaved' = everSaved \cup EventsIn(file'.blocks)
                    BY <4>2 DEF WriteDone
                <5> QED BY <2>3, <3>3, <5>1
            <4>3. CASE ~WriteDone(w)
                BY <2>1, <4>1, <4>3
                DEF Action, StartFresh, StartLoad, StartFails, Record, Flush, Stop, StopFlush,
                    OpenFile, OpenFails, WriteFails, Raise, Crash, history
            <4> QED BY <4>2, <4>3
        <3> QED BY <2>4, <3>1, <3>2, <3>3
    <2>7. file'.state = "absent" => everSaved' = {}
        <3>1. CASE file' = Torn \/ file' = Whole(chain[w])
            BY <3>1 DEF Torn, Whole
        <3>2. CASE file' = file
            <4>1. CASE WriteDone(w)
                BY <4>1, <3>1 DEF WriteDone, Written
            <4>2. CASE ~WriteDone(w)
                BY <2>1, <2>3, <3>2, <4>2
                DEF Action, StartFresh, StartLoad, StartFails, Record, Flush, Stop, StopFlush,
                    OpenFile, OpenFails, WriteFails, Raise, Crash, history
            <4> QED BY <4>1, <4>2
        <3> QED BY <2>4, <3>1, <3>2
    <2> QED BY <2>2, <2>5, <2>6, <2>7 DEF SavedInv
<1> QED BY <1>1, <1>2

\* With one worker a file that can be read is never missing an event an earlier file
\* had: a crash or a failed write can make the file unreadable, not shorter.
THEOREM LedgerReadableFileComplete == Spec => []ReadableFileIsComplete
<1>1. Init => SavedInv
    BY DEF Init, SavedInv, Absent, Running
<1>2. SavedInv => ReadableFileIsComplete
    BY DEF SavedInv, ReadableFileIsComplete
<1> QED BY <1>1, <1>2, SavedStep, BaseAlways, PTL DEF Spec

\* With one worker nobody else has the file open, and an idle worker whose last
\* persist did not raise has written the chain it holds.
IdleInv ==
    SoleWorker =>
        \A w \in Workers :
            /\ phase[w] # "contended"
            /\ phase[w] = "up" /\ w \notin unsaved => file = Whole(chain[w])

LEMMA WholeFile ==
    ASSUME TypeOK, file.state = "whole"
    PROVE  file = Whole(file.blocks)
BY DEF TypeOK, Files, Whole

\* A sole worker that opens the file finds nobody to contend with.
LEMMA SoleOpen ==
    ASSUME TypeOK, NEW w \in Workers, \A v \in Workers : v = w, OpenFile(w)
    PROVE  phase'[w] = "writing"
<1>1. {v \in Workers \ {w} : Writing(v)} = {}
    OBVIOUS
<1> QED BY <1>1 DEF OpenFile, Contend

LEMMA IdleStep == Base /\ IdleInv /\ [Next]_vars => IdleInv'
<1> SUFFICES ASSUME Base, IdleInv, [Next]_vars, SoleWorker PROVE IdleInv'
    BY DEF IdleInv, SoleWorker
<1>1. CASE UNCHANGED vars
    BY <1>1 DEF vars, mem, env, history, IdleInv
<1>2. CASE Next
    <2>1. PICK w \in Workers : Action(w)
        BY <1>2, StepCases
    <2>2. \A v \in Workers : v = w
        BY DEF SoleWorker
    <2>3. /\ phase[w] # "contended"
          /\ phase[w] = "up" /\ w \notin unsaved => file = Whole(chain[w])
        BY DEF IdleInv
    <2>4. TypeOK
        BY DEF Base
    <2> SUFFICES /\ phase'[w] # "contended"
                 /\ phase'[w] = "up" /\ w \notin unsaved' => file' = Whole(chain'[w])
        BY <2>2 DEF IdleInv
    <2>5. CASE StartFresh(w) \/ StartFails(w)
        BY <2>4, <2>5 DEF StartFresh, StartFails, StartWith, TypeOK
    <2>6. CASE StartLoad(w)
        BY <2>4, <2>6, WholeFile DEF StartLoad, StartWith, TypeOK
    <2>7. CASE \E e \in Events : Record(w, e)
        BY <2>3, <2>4, <2>7 DEF Record, Mine, TypeOK
    <2>8. CASE Flush(w) \/ Stop(w)
        BY <2>4, <2>8 DEF Flush, Stop, StopFlush, Mine, Halt, TypeOK
    <2>9. CASE OpenFile(w)
        BY <2>2, <2>4, <2>9, SoleOpen
    <2>10. CASE WriteDone(w)
        BY <2>3, <2>4, <2>10 DEF WriteDone, Writing, Written, Return, Halt, TypeOK
    <2>11. CASE OpenFails(w) \/ WriteFails(w)
        BY <2>4, <2>11 DEF OpenFails, WriteFails, Raise, Halt, TypeOK
    <2>12. CASE Crash(w)
        BY <2>4, <2>12 DEF Crash, Halt, TypeOK
    <2> QED BY <2>1, <2>5, <2>6, <2>7, <2>8, <2>9, <2>10, <2>11, <2>12 DEF Action
<1> QED BY <1>1, <1>2

\* With one worker whose last persist went well, what a crash can cost is the buffer
\* of at most MaxPending - 1 events: the chain it holds is the file.
THEOREM LedgerSavedWhenIdle == Spec => []SavedWhenIdle
<1>1. Init => IdleInv
    BY DEF Init, IdleInv
<1>2. IdleInv => SavedWhenIdle
    BY DEF IdleInv, SavedWhenIdle
<1> QED BY <1>1, <1>2, IdleStep, BaseAlways, PTL DEF Spec

-----------------------------------------------------------------------------
(* One worker: the orderly stop *)

\* What is acknowledged is in the worker while it runs, and in the file when it does
\* not, as long as nothing went wrong; the buffer is empty while a block is on its way.
StopInv ==
    /\ file.state = "absent" => file = Absent
    /\ SoleWorker /\ crashes = 0 /\ faults = 0 =>
        \A w \in Workers :
            /\ phase[w] # "contended"
            /\ phase[w] = "up" => file = Whole(chain[w])
            /\ phase[w] \in {"mined", "writing"} => pending[w] = <<>>
            /\ Running(w) => acked \subseteq kept[w]
            /\ ~Running(w) => acked \subseteq EventsIn(file.blocks)

\* The event record() acknowledges when its block is written is in that block.
LEMMA LastRecorded ==
    ASSUME Base, NEW w \in Workers, call[w] = "record"
    PROVE  LET es == chain[w][Len(chain[w])].events IN es[Len(es)] \in EventsIn(chain[w])
<1> DEFINE es == chain[w][Len(chain[w])].events
<1>1. chain[w] \in Seq(Block) /\ chain[w] # <<>>
    BY DEF Base, Shape, TypeOK
<1>2. Len(chain[w]) \in DOMAIN chain[w]
    BY <1>1
<1>3. chain[w][Len(chain[w])] \in Block
    BY <1>1, <1>2
<1>4. es \in Seq(Events) /\ es # <<>>
    BY <1>3 DEF Base, Block, Shape, LastEvents
<1>5. es[Len(es)] \in Elems(es)
    BY <1>4 DEF Elems
<1> QED BY <1>1, <1>2, <1>5, EventsInBlock

LEMMA StopStep == Base /\ Accounted /\ StopInv /\ [Next]_vars => StopInv'
<1> SUFFICES ASSUME Base, Accounted, StopInv, [Next]_vars PROVE StopInv'
    OBVIOUS
<1>1. CASE UNCHANGED vars
    BY <1>1 DEF vars, mem, env, history, StopInv, Running
<1>2. CASE Next
    <2>1. file'.state = "absent" => file' = Absent
        BY <1>2, StepCases DEF StopInv, Torn, Whole
    <2> SUFFICES ASSUME SoleWorker, crashes' = 0, faults' = 0, NEW w \in Workers
                 PROVE  /\ phase'[w] # "contended"
                        /\ phase'[w] = "up" => file' = Whole(chain'[w])
                        /\ phase'[w] \in {"mined", "writing"} => pending'[w] = <<>>
                        /\ Running(w)' => acked' \subseteq kept'[w]
                        /\ ~Running(w)' => acked' \subseteq EventsIn(file'.blocks)
        BY <2>1 DEF StopInv, SoleWorker
    <2>2. TypeOK /\ (\A v \in Workers : v = w) /\ Action(w)
        BY <1>2, StepCases DEF Base, SoleWorker
    <2>3. ~OpenFails(w) /\ ~WriteFails(w) /\ ~Crash(w)
        BY <2>2 DEF OpenFails, WriteFails, Raise, Crash, TypeOK
    <2>4. crashes = 0 /\ faults = 0
        BY <2>2, <2>3
        DEF Action, StartFresh, StartLoad, StartFails, Record, Flush, Stop, StopFlush,
            OpenFile, WriteDone, env
    <2>5. /\ phase[w] # "contended"
          /\ phase[w] = "up" => file = Whole(chain[w])
          /\ phase[w] \in {"mined", "writing"} => pending[w] = <<>>
          /\ Running(w) => acked \subseteq kept[w]
          /\ ~Running(w) => acked \subseteq EventsIn(file.blocks)
        BY <2>4 DEF StopInv
    <2>6. CASE StartFresh(w)
        <3>1. acked = {}
            BY <2>5, <2>6, EventsInEmpty DEF StopInv, StartFresh, NeedsGenesis, Absent
        <3> QED BY <2>2, <2>6, <3>1 DEF StartFresh, StartWith, TypeOK, Running
    <2>7. CASE StartLoad(w)
        BY <2>2, <2>5, <2>7, WholeFile DEF StartLoad, StartWith, TypeOK, Running
    <2>8. CASE StartFails(w)
        BY <2>2, <2>5, <2>8 DEF StartFails, TypeOK, history, Running
    <2>9. CASE \E e \in Events : Record(w, e)
        BY <2>2, <2>5, <2>9 DEF Record, Mine, TypeOK, Running
    <2>10. CASE Flush(w)
        BY <2>2, <2>5, <2>10 DEF Flush, Mine, TypeOK, history, Running
    <2>11. CASE Stop(w)
        <3>1. CASE pending[w] = <<>>
            <4>1. phase[w] = "up" /\ kept[w] = EventsIn(chain[w])
                BY <2>11, <3>1, EventsInEmpty DEF Stop, Accounted, Running
            <4>2. file.blocks = chain[w] /\ acked \subseteq EventsIn(chain[w])
                BY <2>5, <4>1 DEF Whole, Running
            <4> QED BY <2>2, <2>11, <3>1, <4>2 DEF Stop, StopFlush, Halt, TypeOK, Running
        <3>2. CASE pending[w] # <<>>
            BY <2>2, <2>5, <2>11, <3>2 DEF Stop, StopFlush, Mine, TypeOK, history, Running
        <3> QED BY <3>1, <3>2
    <2>12. CASE OpenFile(w)
        <3>1. phase'[w] = "writing"
            BY <2>2, <2>12, SoleOpen
        <3> QED BY <2>5, <2>12, <3>1 DEF OpenFile, history, Running
    <2>13. CASE WriteDone(w)
        <3>1. phase[w] = "writing" /\ file' = Whole(chain[w])
            BY <2>5, <2>13 DEF WriteDone, Writing, Written
        <3>2. acked \subseteq EventsIn(chain[w]) /\ kept[w] = EventsIn(chain[w])
            BY <2>5, <3>1, EventsInEmpty DEF Accounted, Running
        <3>3. CASE call[w] = "stop"
            BY <2>2, <2>13, <3>1, <3>2, <3>3 DEF WriteDone, Return, Halt, Whole, TypeOK, Running
        <3>4. CASE call[w] # "stop"
            <4>1. /\ phase'[w] = "up" /\ chain' = chain /\ kept' = kept
                BY <2>2, <2>13, <3>4 DEF WriteDone, Return, TypeOK
            <4>2. acked' \subseteq EventsIn(chain[w])
                BY <2>13, <3>2, <3>4, LastRecorded DEF WriteDone, Return
            <4> QED BY <3>1, <3>2, <4>1, <4>2 DEF Running
        <3> QED BY <3>3, <3>4
    <2> QED BY <2>2, <2>3, <2>6, <2>7, <2>8, <2>9, <2>10, <2>11, <2>12, <2>13 DEF Action
<1> QED BY <1>1, <1>2

\* With one worker, no crash and no persist that raised, an orderly stop() leaves every
\* acknowledged event in the file, however the flushes fell before it.
THEOREM LedgerStopSavesAll == Spec => []StopSavesAll
<1>1. Init => StopInv
    BY EventsInEmpty DEF Init, StopInv, Running, Absent
<1>2. StopInv => StopSavesAll
    BY DEF StopInv, StopSavesAll, Running
<1> QED BY <1>1, <1>2, StopStep, LedgerKeepsRecords, BaseAlways, PTL DEF Spec

-----------------------------------------------------------------------------
(* Natural numbers *)

LEMMA LeastNat ==
    ASSUME NEW S, S \subseteq Nat, S # {}
    PROVE  \E n \in S : \A m \in S : n <= m
<1> DEFINE R == OpToRel(<, Nat)
<1>1. IsWellFoundedOn(R, Nat)
    BY NatLessThanWellFounded, Zenon
<1>2. \A i, j \in Nat : <<i, j>> \in R <=> i < j
    BY DEF OpToRel
<1> HIDE DEF R
<1>3. PICK n \in S : \A m \in S : <<m, n>> \notin R
    BY <1>1, WFMin, Zenon
<1>4. ASSUME NEW m \in S PROVE n <= m
    <2>1. m \in Nat /\ n \in Nat /\ <<m, n>> \notin R
        BY <1>3
    <2>2. ~(m < n)
        BY <1>2, <2>1
    <2> QED BY <2>1, <2>2
<1> QED BY <1>4

\* Induction over a set of numbers, from the least number not in it.
LEMMA NatInd ==
    ASSUME NEW S, 0 \in S, \A n \in Nat : n \in S => n + 1 \in S
    PROVE  \A n \in Nat : n \in S
<1> SUFFICES ASSUME {n \in Nat : n \notin S} # {} PROVE FALSE
    OBVIOUS
<1>1. PICK n \in {k \in Nat : k \notin S} : \A m \in {k \in Nat : k \notin S} : n <= m
    BY LeastNat
<1> QED BY <1>1

-----------------------------------------------------------------------------
(* What FlattenSeq computes *)

\* The function that FlattenSeq(ss) is computed with, on the first n elements of ss.
FlattenNext(h, ss, i) == IF i = 1 THEN ss[i] ELSE h[i - 1] \o ss[i]

FlattenUpTo(h, ss, n) == h = [i \in 1..n |-> FlattenNext(h, ss, i)]

LEMMA FlattenAt ==
    ASSUME NEW h, NEW ss, NEW n \in Nat, FlattenUpTo(h, ss, n), NEW i \in 1..n
    PROVE  h[i] = FlattenNext(h, ss, i)
BY DEF FlattenUpTo

LEMMA FlattenExists ==
    ASSUME NEW ss, NEW n \in Nat
    PROVE  \E h : FlattenUpTo(h, ss, n)
<1> DEFINE S == {m \in Nat : \E h : FlattenUpTo(h, ss, m)}
<1>1. 0 \in S
    <2>1. FlattenUpTo([i \in 1..0 |-> <<>>], ss, 0)
        BY DEF FlattenUpTo
    <2> QED BY <2>1
<1>2. ASSUME NEW m \in Nat, m \in S PROVE m + 1 \in S
    <2>1. PICK h : FlattenUpTo(h, ss, m)
        BY <1>2
    <2> DEFINE g == [i \in 1..(m + 1) |-> FlattenNext(h, ss, i)]
    <2>2. ASSUME NEW i \in 1..m PROVE g[i] = h[i]
        BY <2>1, FlattenAt
    <2>3. ASSUME NEW i \in 1..(m + 1) PROVE FlattenNext(g, ss, i) = FlattenNext(h, ss, i)
        <3>1. i # 1 => i - 1 \in 1..m
            OBVIOUS
        <3>2. i # 1 => g[i - 1] = h[i - 1]
            BY <2>2, <3>1
        <3> HIDE DEF g
        <3> QED BY <3>2 DEF FlattenNext
    <2>4. \A f : (\A i \in 1..(m + 1) : FlattenNext(f, ss, i) = FlattenNext(h, ss, i)) =>
                    g = [i \in 1..(m + 1) |-> FlattenNext(f, ss, i)]
        OBVIOUS
    <2>5. FlattenUpTo(g, ss, m + 1)
        <3> HIDE DEF g
        <3> QED BY <2>3, <2>4 DEF FlattenUpTo
    <2> QED BY <2>5
<1>3. n \in S
    <2> HIDE DEF S
    <2> QED BY <1>1, <1>2, NatInd
<1> QED BY <1>3

LEMMA FlattenFn ==
    ASSUME NEW S, NEW ss \in Seq(Seq(S)), Len(ss) # 0
    PROVE  \E h : FlattenUpTo(h, ss, Len(ss)) /\ Seqs!FlattenSeq(ss) = h[Len(ss)]
<1> DEFINE f == CHOOSE h : FlattenUpTo(h, ss, Len(ss))
<1>1. FlattenUpTo(f, ss, Len(ss))
    <2>1. Len(ss) \in Nat
        OBVIOUS
    <2>2. \E h : FlattenUpTo(h, ss, Len(ss))
        BY <2>1, FlattenExists, Zenon
    <2> QED BY <2>2, Zenon
<1>2. Seqs!FlattenSeq(ss) = f[Len(ss)]
   BY DEF Seqs!FlattenSeq, FlattenUpTo, FlattenNext
<1> QED BY <1>1, <1>2

SameUpTo(s, t, n) == \A i \in 1..n : s[i] = t[i]

\* the function is the same for every sequence that begins in the same way
LEMMA FlattenSame ==
    ASSUME NEW ss, NEW tt, NEW n \in Nat, NEW m \in Nat, NEW g, NEW h,
           FlattenUpTo(g, ss, n), FlattenUpTo(h, tt, m), n <= m,
           SameUpTo(ss, tt, n)
    PROVE  SameUpTo(g, h, n)
<1> DEFINE T == {k \in Nat : k + 1 <= n => g[k + 1] = h[k + 1]}
<1>1. 0 \in T
    <2> SUFFICES ASSUME 1 \in 1..n, 1 \in 1..m PROVE g[1] = h[1]
        OBVIOUS
    <2>1. g[1] = FlattenNext(g, ss, 1) /\ h[1] = FlattenNext(h, tt, 1)
        BY FlattenAt
    <2> QED BY <2>1 DEF FlattenNext, SameUpTo
<1>2. ASSUME NEW k \in Nat, k \in T PROVE k + 1 \in T
    <2> SUFFICES ASSUME NEW j \in 2..n, g[j - 1] = h[j - 1] PROVE g[j] = h[j]
        <3>1. k + 2 <= n => k + 2 \in 2..n /\ (k + 2) - 1 = k + 1 /\ g[k + 1] = h[k + 1]
            BY <1>2
        <3> QED BY <3>1
    <2>1. j \in 1..n /\ j \in 1..m /\ j # 1
        OBVIOUS
    <2>2. g[j] = FlattenNext(g, ss, j) /\ h[j] = FlattenNext(h, tt, j)
        BY <2>1, FlattenAt
    <2> QED BY <2>1, <2>2 DEF FlattenNext, SameUpTo
<1>3. \A k \in Nat : k \in T
    <2> HIDE DEF T
    <2> QED BY <1>1, <1>2, NatInd
<1>4. ASSUME NEW i \in 1..n PROVE g[i] = h[i]
    <2>1. i - 1 \in Nat /\ (i - 1) + 1 = i /\ i <= n
        OBVIOUS
    <2>2. i - 1 \in T
        BY <1>3, <2>1
    <2> QED BY <2>1, <2>2
<1> QED BY <1>4 DEF SameUpTo

LEMMA FlattenType ==
    ASSUME NEW S, NEW ss \in Seq(Seq(S)), NEW h, FlattenUpTo(h, ss, Len(ss))
    PROVE  \A i \in 1..Len(ss) : h[i] \in Seq(S)
<1> DEFINE T == {k \in Nat : k + 1 <= Len(ss) => h[k + 1] \in Seq(S)}
<1>1. Len(ss) \in Nat /\ \A i \in 1..Len(ss) : ss[i] \in Seq(S)
    OBVIOUS
<1>2. 0 \in T
    <2> SUFFICES ASSUME 1 \in 1..Len(ss) PROVE h[1] \in Seq(S)
        BY <1>1
    <2>1. h[1] = FlattenNext(h, ss, 1)
        BY <1>1, FlattenAt
    <2> QED BY <1>1, <2>1 DEF FlattenNext
<1>3. ASSUME NEW k \in Nat, k \in T PROVE k + 1 \in T
    <2> SUFFICES ASSUME NEW j \in 2..Len(ss), h[j - 1] \in Seq(S) PROVE h[j] \in Seq(S)
        <3>1. k + 2 <= Len(ss) =>
                k + 2 \in 2..Len(ss) /\ (k + 2) - 1 = k + 1 /\ h[k + 1] \in Seq(S)
            BY <1>1, <1>3
        <3> QED BY <3>1
    <2>1. j \in 1..Len(ss) /\ j # 1
        BY <1>1
    <2>2. h[j] = FlattenNext(h, ss, j)
        BY <1>1, <2>1, FlattenAt
    <2>3. ss[j] \in Seq(S)
        BY <1>1, <2>1
    <2> QED BY <2>1, <2>2, <2>3 DEF FlattenNext
<1>4. \A k \in Nat : k \in T
    <2> HIDE DEF T
    <2> QED BY <1>2, <1>3, NatInd
<1>5. ASSUME NEW i \in 1..Len(ss) PROVE h[i] \in Seq(S)
    <2>1. i - 1 \in Nat /\ (i - 1) + 1 = i /\ i <= Len(ss)
        BY <1>1
    <2>2. i - 1 \in T
        BY <1>4, <2>1
    <2> QED BY <2>1, <2>2
<1> QED BY <1>5

\* What a sequence of sequences holds, one after the other.
LEMMA FlattenAppend ==
    ASSUME NEW S, NEW ss \in Seq(Seq(S)), NEW s \in Seq(S)
    PROVE  /\ Seqs!FlattenSeq(ss) \in Seq(S)
           /\ Seqs!FlattenSeq(Append(ss, s)) = Seqs!FlattenSeq(ss) \o s
<1> DEFINE n == Len(ss)
           tt == Append(ss, s)
<1>1. /\ n \in Nat /\ tt \in Seq(Seq(S)) /\ Len(tt) = n + 1 /\ Len(tt) # 0
      /\ tt[n + 1] = s /\ \A i \in 1..n : ss[i] = tt[i]
    OBVIOUS
<1>2. PICK h : FlattenUpTo(h, tt, n + 1) /\ Seqs!FlattenSeq(tt) = h[n + 1]
    BY <1>1, FlattenFn
<1>3. h[n + 1] = IF n = 0 THEN s ELSE h[n] \o s
    <2>1. h[n + 1] = FlattenNext(h, tt, n + 1)
        BY <1>1, <1>2, FlattenAt
    <2>2. (n + 1 = 1 <=> n = 0) /\ (n + 1) - 1 = n
        BY <1>1
    <2> QED BY <1>1, <2>1, <2>2 DEF FlattenNext
<1>4. CASE n = 0
    <2>1. Seqs!FlattenSeq(ss) = <<>>
        BY <1>4 DEF Seqs!FlattenSeq
    <2>2. Seqs!FlattenSeq(tt) = s
        BY <1>1, <1>2, <1>3, <1>4
    <2> QED BY <2>1, <2>2
<1>5. CASE n # 0
    <2>1. PICK g : FlattenUpTo(g, ss, n) /\ Seqs!FlattenSeq(ss) = g[n]
        BY <1>5, FlattenFn
    <2>2. g[n] = h[n]
        <3>1. n \in 1..n /\ n <= n + 1 /\ n + 1 \in Nat
            BY <1>1, <1>5
        <3>2. n \in Nat /\ FlattenUpTo(g, ss, n) /\ FlattenUpTo(h, tt, n + 1)
              /\ \A i \in 1..n : ss[i] = tt[i]
            BY <1>1, <1>2, <2>1
        <3>3. \A i \in 1..n : g[i] = h[i]
            <4>1. SameUpTo(ss, tt, n)
                BY <3>2 DEF SameUpTo
            <4>2. SameUpTo(g, h, n)
                <5> HIDE DEF n, tt
                <5> QED BY <3>1, <3>2, <4>1, FlattenSame
            <4> QED BY <4>2 DEF SameUpTo
        <3> QED BY <3>1, <3>3
    <2>3. g[n] \in Seq(S)
        BY <1>1, <1>5, <2>1, FlattenType
    <2>4. h[n + 1] = h[n] \o s
        BY <1>1, <1>3, <1>5
    <2> QED BY <1>2, <2>1, <2>2, <2>3, <2>4
<1> QED BY <1>4, <1>5

-----------------------------------------------------------------------------
(* The events of a chain, one after the other *)

LEMMA EventLogAppend ==
    ASSUME NEW c \in Seq(Block), NEW b \in Block
    PROVE  /\ EventLog(c) \in Seq(Events)
           /\ EventLog(Append(c, b)) = EventLog(c) \o b.events
<1> DEFINE ss == [i \in DOMAIN c |-> c[i].events]
           tt == [i \in DOMAIN Append(c, b) |-> Append(c, b)[i].events]
<1>1. ss \in Seq(Seq(Events)) /\ Len(ss) = Len(c) /\ b.events \in Seq(Events)
    <2>1. \A i \in DOMAIN c : c[i] \in Block
        OBVIOUS
    <2>2. \A i \in DOMAIN c : c[i].events \in Seq(Events)
        BY <2>1 DEF Block
    <2>3. DOMAIN c = 1..Len(c) /\ Len(c) \in Nat
        OBVIOUS
    <2>4. b.events \in Seq(Events)
        BY DEF Block
    <2> QED BY <2>2, <2>3, <2>4
<1>2. tt = Append(ss, b.events)
    <2>1. /\ Append(c, b) \in Seq(Block) /\ Len(c) \in Nat
          /\ DOMAIN Append(c, b) = 1..(Len(c) + 1)
          /\ \A i \in 1..Len(c) : Append(c, b)[i] = c[i]
          /\ Append(c, b)[Len(c) + 1] = b
        OBVIOUS
    <2> QED BY <1>1, <2>1
<1>3. EventLog(c) = Seqs!FlattenSeq(ss) /\ EventLog(Append(c, b)) = Seqs!FlattenSeq(tt)
    BY DEF EventLog
<1> HIDE DEF ss, tt
<1> QED BY <1>1, <1>2, <1>3, FlattenAppend

LEMMA EventLogEmpty == EventLog(<<>>) = <<>>
<1>1. [i \in DOMAIN <<>> |-> <<>>[i].events] = <<>>
    OBVIOUS
<1> QED BY <1>1 DEF EventLog, Seqs!FlattenSeq

LEMMA EventLogGenesis ==
    ASSUME mined \in Nat
    PROVE  EventLog(<<Genesis>>) = <<>>
<1>1. <<>> \in Seq(Block) /\ Genesis \in Block /\ Genesis.events = <<>>
    BY DEF Genesis, Block
<1>2. Append(<<>>, Genesis) = <<Genesis>>
    OBVIOUS
<1>3. EventLog(<<Genesis>>) = <<>> \o <<>>
    BY <1>1, <1>2, EventLogAppend, EventLogEmpty
<1> QED BY <1>3

LEMMA ElemsConcat ==
    ASSUME NEW S, NEW s \in Seq(S), NEW t \in Seq(S)
    PROVE  Elems(s \o t) = Elems(s) \cup Elems(t)
<1>1. /\ Len(s) \in Nat /\ Len(t) \in Nat /\ s \o t \in Seq(S)
      /\ Len(s \o t) = Len(s) + Len(t)
    OBVIOUS
<1>2. \A i \in DOMAIN s : i \in DOMAIN (s \o t) /\ (s \o t)[i] = s[i]
    OBVIOUS
<1>3. \A i \in DOMAIN t : Len(s) + i \in DOMAIN (s \o t) /\ (s \o t)[Len(s) + i] = t[i]
    OBVIOUS
<1>4. ASSUME NEW i \in DOMAIN (s \o t)
      PROVE  i \in DOMAIN s \/ \E j \in DOMAIN t : i = Len(s) + j
    <2>1. /\ DOMAIN s = 1..Len(s) /\ DOMAIN t = 1..Len(t)
          /\ i \in 1..(Len(s) + Len(t))
        BY <1>1
    <2>2. i \notin DOMAIN s => i - Len(s) \in DOMAIN t /\ i = Len(s) + (i - Len(s))
        BY <1>1, <2>1
    <2> QED BY <2>2
<1>5. ASSUME NEW x PROVE x \in Elems(s \o t) <=> x \in Elems(s) \cup Elems(t)
    <2>1. x \in Elems(s) => x \in Elems(s \o t)
        BY <1>2, Zenon DEF Elems
    <2>2. x \in Elems(t) => x \in Elems(s \o t)
        <3> SUFFICES ASSUME NEW j \in DOMAIN t, x = t[j] PROVE x \in Elems(s \o t)
            BY Zenon DEF Elems
        <3> DEFINE i == Len(s) + j
        <3>1. i \in DOMAIN (s \o t) /\ (s \o t)[i] = t[j]
            BY <1>3
        <3> HIDE DEF i
        <3> QED BY <3>1, Zenon DEF Elems
    <2>3. x \in Elems(s \o t) => x \in Elems(s) \cup Elems(t)
        <3> SUFFICES ASSUME NEW i \in DOMAIN (s \o t), x = (s \o t)[i]
                     PROVE  x \in Elems(s) \cup Elems(t)
            BY Zenon DEF Elems
        <3>1. CASE i \in DOMAIN s
            BY <1>2, <3>1, Zenon DEF Elems
        <3>2. CASE i \notin DOMAIN s
            <4>1. PICK j \in DOMAIN t : i = Len(s) + j
                BY <1>4, <3>2
            <4>2. x = t[j]
                BY <1>3, <4>1
            <4> QED BY <4>2, Zenon DEF Elems
        <3> QED BY <3>1, <3>2
    <2> QED BY <2>1, <2>2, <2>3
<1> QED BY <1>5

LEMMA ConcatAppend ==
    ASSUME NEW S, NEW s \in Seq(S), NEW t \in Seq(S), NEW e \in S
    PROVE  s \o Append(t, e) = Append(s \o t, e)
OBVIOUS

\* The last block of a chain apart.
LEMMA ChainSplit ==
    ASSUME NEW c \in Seq(Block), NEW n \in Nat, Len(c) = n + 1
    PROVE  \E d \in Seq(Block), b \in Block : c = Append(d, b) /\ Len(d) = n
<1> DEFINE d == SubSeq(c, 1, n)
<1>1. d \in Seq(Block) /\ Len(d) = n /\ c[n + 1] \in Block
    OBVIOUS
<1>2. c = Append(d, c[n + 1])
    OBVIOUS
<1> QED BY <1>1, <1>2

LEMMA EventLogElems ==
    ASSUME NEW c \in Seq(Block)
    PROVE  Elems(EventLog(c)) = EventsIn(c)
<1> DEFINE Fine(n) == \A d \in Seq(Block) : Len(d) = n => Elems(EventLog(d)) = EventsIn(d)
           T == {n \in Nat : Fine(n)}
<1>1. 0 \in T
    <2>1. \A d \in Seq(Block) : Len(d) = 0 => d = <<>>
        OBVIOUS
    <2> QED BY <2>1, EventLogEmpty, EventsInEmpty
<1>2. ASSUME NEW n \in Nat, n \in T PROVE n + 1 \in T
    <2> SUFFICES ASSUME NEW d \in Seq(Block), Len(d) = n + 1
                 PROVE  Elems(EventLog(d)) = EventsIn(d)
        OBVIOUS
    <2>1. PICK h \in Seq(Block), b \in Block : d = Append(h, b) /\ Len(h) = n
        BY ChainSplit
    <2>2. Elems(EventLog(h)) = EventsIn(h)
        BY <1>2, <2>1
    <2>3. EventLog(h) \in Seq(Events) /\ b.events \in Seq(Events)
          /\ EventLog(d) = EventLog(h) \o b.events
        BY <2>1, EventLogAppend DEF Block
    <2>4. Elems(EventLog(d)) = Elems(EventLog(h)) \cup Elems(b.events)
        BY <2>3, ElemsConcat
    <2>5. EventsIn(d) = EventsIn(h) \cup Elems(b.events)
        BY <2>1, EventsInAppend
    <2> QED BY <2>2, <2>4, <2>5
<1>3. Len(c) \in T
    <2>1. Len(c) \in Nat
        OBVIOUS
    <2> HIDE DEF T
    <2> QED BY <1>1, <1>2, <2>1, NatInd
<1> QED BY <1>3

-----------------------------------------------------------------------------
(* One worker: the ledger implements AuditLog *)

\* A file that is not whole holds nothing, and while the one worker writes the file
\* it is torn.
FileInv ==
    SoleWorker =>
        /\ file.state # "whole" => file.blocks = <<>>
        /\ \A w \in Workers :
            /\ phase[w] # "contended"
            /\ phase[w] = "writing" => file = Torn

LEMMA FileInvStep == Base /\ FileInv /\ [Next]_vars => FileInv'
<1> SUFFICES ASSUME Base, FileInv, [Next]_vars, SoleWorker PROVE FileInv'
    BY DEF FileInv, SoleWorker
<1>1. CASE UNCHANGED vars
    BY <1>1 DEF vars, mem, FileInv
<1>2. CASE Next
    <2>1. PICK w \in Workers : Action(w)
        BY <1>2, StepCases
    <2>2. (\A v \in Workers : v = w) /\ TypeOK
        BY DEF SoleWorker, Base
    <2>3. /\ phase[w] # "contended"
          /\ phase[w] = "writing" => file = Torn
          /\ file.state # "whole" => file.blocks = <<>>
        BY DEF FileInv
    <2>4. file'.state # "whole" => file'.blocks = <<>>
        BY <1>2, <2>3, StepCases DEF Torn, Whole
    <2> SUFFICES phase'[w] # "contended" /\ (phase'[w] = "writing" => file' = Torn)
        BY <2>2, <2>4 DEF FileInv
    <2>5. CASE StartFresh(w) \/ StartLoad(w) \/ StartFails(w)
        BY <2>2, <2>5 DEF StartFresh, StartLoad, StartFails, StartWith, TypeOK
    <2>6. CASE \E e \in Events : Record(w, e)
        BY <2>2, <2>3, <2>6 DEF Record, Mine, TypeOK
    <2>7. CASE Flush(w) \/ Stop(w)
        BY <2>2, <2>7 DEF Flush, Stop, StopFlush, Mine, Halt, TypeOK
    <2>8. CASE OpenFile(w)
        BY <2>2, <2>8, SoleOpen DEF OpenFile
    <2>9. CASE WriteDone(w)
        BY <2>2, <2>9 DEF WriteDone, Return, Halt, TypeOK
    <2>10. CASE OpenFails(w) \/ WriteFails(w) \/ Crash(w)
        BY <2>2, <2>10 DEF OpenFails, WriteFails, Raise, Crash, Halt, TypeOK
    <2> QED BY <2>1, <2>5, <2>6, <2>7, <2>8, <2>9, <2>10 DEF Action
<1> QED BY <1>1, <1>2

\* What the abstract log is made of.
LEMMA LogOf ==
    ASSUME Base, NEW w \in Workers
    PROVE  /\ EventLog(chain[w]) \in Seq(Events)
           /\ pending[w] \in Seq(Events)
           /\ EventLog(chain[w]) \o pending[w] \in Seq(Events)
           /\ \A i \in DOMAIN (EventLog(chain[w]) \o pending[w]) :
                (EventLog(chain[w]) \o pending[w])[i] \in recorded
<1>1. chain[w] \in Seq(Block) /\ pending[w] \in Seq(Events)
    BY DEF Base, TypeOK
<1>2. EventLog(chain[w]) \in Seq(Events)
    <2>1. CASE chain[w] = <<>>
        <3>1. <<>> \in Seq(Events)
            OBVIOUS
        <3> QED BY <2>1, <3>1, EventLogEmpty
    <2>2. ASSUME chain[w] # <<>> PROVE EventLog(chain[w]) \in Seq(Events)
        <3>1. chain[w][1] \in Block
            BY <1>1, <2>2
        <3> QED BY <1>1, <3>1, EventLogAppend
    <2> QED BY <2>1, <2>2
<1>3. Elems(EventLog(chain[w]) \o pending[w]) \subseteq recorded
    <2>1. Elems(EventLog(chain[w]) \o pending[w]) = Elems(EventLog(chain[w])) \cup Elems(pending[w])
        BY <1>1, <1>2, ElemsConcat
    <2> QED BY <1>1, <2>1, EventLogElems DEF Base, Shape
<1>4. EventLog(chain[w]) \o pending[w] \in Seq(Events)
    BY <1>1, <1>2
<1> QED BY <1>1, <1>2, <1>3, <1>4, Zenon DEF Elems

\* The worker's log, how much of it is in blocks, and the disk, for which the abstract
\* variables stand.
HeldLog == EventLog(chain[TheWorker]) \o pending[TheWorker]
InBlocks == Len(EventLog(chain[TheWorker]))
Disk == [state |-> file.state, log |-> EventLog(file.blocks)]

LogHalted == Running(TheWorker)' = FALSE /\ HeldLog' = <<>> /\ InBlocks' = 0

LEMMA HaltsLog ==
    ASSUME NEW w \in Workers, w = TheWorker, Halts(w)
    PROVE  LogHalted
<1>1. chain'[w] = <<>> /\ pending'[w] = <<>> /\ ~Running(w)'
    BY DEF Halts
<1>2. EventLog(<<>>) = <<>> /\ <<>> \o <<>> = <<>> /\ Len(<<>>) = 0
    BY EventLogEmpty
<1> QED BY <1>1, <1>2 DEF LogHalted, HeldLog, InBlocks, Running

LEMMA RefinesInit == Init /\ Workers # {} => Log!Init
<1> SUFFICES ASSUME Init, Workers # {} PROVE Log!Init
    OBVIOUS
<1>1. TheWorker \in Workers
    BY DEF TheWorker
<1>2. chain[TheWorker] = <<>> /\ pending[TheWorker] = <<>> /\ ~Running(TheWorker)
    BY <1>1 DEF Init, Running
<1>3. file = Absent
    BY DEF Init
<1>4. EventLog(<<>>) = <<>> /\ <<>> \o <<>> = <<>> /\ Len(<<>>) = 0
    BY EventLogEmpty
<1> QED BY <1>2, <1>3, <1>4 DEF Log!Init, Absent

\* A block that is mined moves the commit point over the whole log.
LEMMA MinesLog ==
    ASSUME Base, NEW w \in Workers, w = TheWorker, NEW es \in Seq(Events), Mines(w, es)
    PROVE  /\ HeldLog' = EventLog(chain[w]) \o es
           /\ InBlocks' = Len(HeldLog')
<1>1. /\ chain'[w] = Append(chain[w], NewBlock(chain[w], es)) /\ pending'[w] = <<>>
      /\ chain[w] \in Seq(Block) /\ NewBlock(chain[w], es) \in Block
      /\ NewBlock(chain[w], es).events = es
    BY MinesBlock DEF Mines
<1>2. EventLog(chain[w]) \in Seq(Events)
      /\ EventLog(chain'[w]) = EventLog(chain[w]) \o es
    BY <1>1, EventLogAppend
<1>3. EventLog(chain'[w]) \in Seq(Events)
    BY <1>2
<1>4. EventLog(chain'[w]) \o <<>> = EventLog(chain'[w])
    BY <1>3
<1> QED BY <1>1, <1>2, <1>4 DEF HeldLog, InBlocks

\* A process that starts holds what the disk holds.
LEMMA LoadsLog ==
    ASSUME Base, FileInv, SoleWorker, NEW w \in Workers, w = TheWorker,
           StartFresh(w) \/ StartLoad(w)
    PROVE  Log!Start
<1>1. /\ chain'[w] = <<Genesis>> \/ chain'[w] = file.blocks
      /\ chain'[w] = <<Genesis>> => file.blocks = <<>> \/ chain'[w] = file.blocks
      /\ pending'[w] = <<>> /\ Running(w)' /\ ~Running(w)
      /\ file' = file /\ file.state # "torn"
    BY DEF StartFresh, StartLoad, StartWith, NeedsGenesis, FileInv, Base, TypeOK, Running
<1>2. EventLog(chain'[w]) = EventLog(file.blocks)
    BY <1>1, EventLogEmpty, EventLogGenesis DEF Base, TypeOK
<1>3. EventLog(chain'[w]) \in Seq(Events)
    <2>1. file.blocks \in Seq(Block)
        BY DEF Base, TypeOK, Files
    <2>2. CASE file.blocks = <<>>
        <3>1. <<>> \in Seq(Events)
            OBVIOUS
        <3> QED BY <1>2, <2>2, <3>1, EventLogEmpty
    <2>3. CASE file.blocks # <<>>
        <3>1. file.blocks[1] \in Block
            BY <2>1, <2>3
        <3> QED BY <1>2, <2>1, <3>1, EventLogAppend
    <2> QED BY <2>2, <2>3
<1>4. EventLog(chain'[w]) \o <<>> = EventLog(chain'[w])
    BY <1>3
<1> QED BY <1>1, <1>2, <1>4 DEF Log!Start

\* record(): the event, which nobody was handed before, goes to the end of the log.
LEMMA RecordAdds ==
    ASSUME Base, NEW w \in Workers, w = TheWorker, NEW e \in Events, Record(w, e)
    PROVE  Log!Add
<1> DEFINE l == EventLog(chain[w])
           buffer == Append(pending[w], e)
<1>1. /\ Running(w) /\ Running(w)' /\ file' = file /\ e \notin recorded
    BY DEF Record, Mine, Base, TypeOK, Running
<1>2. /\ l \in Seq(Events) /\ pending[w] \in Seq(Events) /\ l \o pending[w] \in Seq(Events)
      /\ \A i \in DOMAIN (l \o pending[w]) : (l \o pending[w])[i] # e
    BY <1>1, LogOf
<1>3. l \o buffer = Append(l \o pending[w], e) /\ buffer \in Seq(Events) /\ buffer # <<>>
    <2>1. buffer \in Seq(Events) /\ buffer # <<>>
        BY <1>2, AppendType
    <2>2. l \o buffer = Append(l \o pending[w], e)
        <3> HIDE DEF l
        <3> QED BY <1>2, ConcatAppend
    <2> QED BY <2>1, <2>2
<1>4. /\ HeldLog' = l \o buffer
      /\ InBlocks' = InBlocks \/ InBlocks' = Len(HeldLog')
    <2>1. CASE FlushDue(buffer)
        <3>1. Mines(w, buffer)
            BY <1>1, <1>3, <2>1 DEF Record, Mine, Mines, Base, TypeOK
        <3> QED BY <1>3, <3>1, MinesLog
    <2>2. CASE ~FlushDue(buffer)
        BY <2>2 DEF Record, HeldLog, InBlocks, Base, TypeOK
    <2> QED BY <2>1, <2>2
<1>5. /\ HeldLog = l \o pending[w] /\ InBlocks = Len(l)
    BY DEF HeldLog, InBlocks
<1> HIDE DEF l, buffer
<1>6. /\ HeldLog' = Append(HeldLog, e)
      /\ \A i \in DOMAIN HeldLog : HeldLog[i] # e
    BY <1>2, <1>3, <1>4, <1>5
<1>7. InBlocks' \in {InBlocks, Len(HeldLog')}
    BY <1>4
<1>8. Running(TheWorker) /\ Running(TheWorker)' /\ Disk' = Disk
    BY <1>1 DEF Disk
<1> QED BY <1>6, <1>7, <1>8 DEF Log!Add, HeldLog, InBlocks, Disk

\* flush() and the final flush of stop() that has something to write.
LEMMA FlushCommits ==
    ASSUME Base, NEW w \in Workers, w = TheWorker,
           Flush(w) \/ (Stop(w) /\ pending[w] # <<>>)
    PROVE  Log!Commit
<1>1. Mines(w, pending[w]) /\ pending[w] \in Seq(Events) /\ file' = file
    BY DEF Flush, Stop, StopFlush, Mine, Mines, Running, history, Base, TypeOK
<1>2. HeldLog' = HeldLog /\ InBlocks' = Len(HeldLog)
    BY <1>1, MinesLog DEF HeldLog
<1>3. Running(TheWorker) /\ Running(TheWorker)' /\ Disk' = Disk
    BY <1>1 DEF Mines, Disk
<1> QED BY <1>2, <1>3 DEF Log!Commit, HeldLog, InBlocks, Disk

\* A write that completes puts the events of the blocks on the disk, and no more.
LEMMA WriteSaves ==
    ASSUME Base, FileInv, SoleWorker, NEW w \in Workers, w = TheWorker, WriteDone(w)
    PROVE  Log!Save
<1>1. /\ phase[w] = "writing" /\ file' = Whole(chain[w]) /\ Running(w)
    BY DEF FileInv, WriteDone, Writing, Written, Running
<1>2. /\ EventLog(chain[w]) \in Seq(Events) /\ pending[w] \in Seq(Events)
    BY LogOf
<1>3. SubSeq(EventLog(chain[w]) \o pending[w], 1, Len(EventLog(chain[w])))
        = EventLog(chain[w])
    BY <1>2
<1>4. Disk' = [state |-> "whole", log |-> SubSeq(HeldLog, 1, InBlocks)]
    BY <1>1, <1>3 DEF Disk, HeldLog, InBlocks, Whole
<1>5. CASE call[w] = "stop"
    <2>1. Halts(w)
        BY <1>5 DEF WriteDone, Return, Halt, Halts, Running, Base, TypeOK, SameCounts
    <2>2. LogHalted
        BY <2>1, HaltsLog
    <2> QED BY <1>1, <1>4, <2>2
            DEF Log!Save, Log!Halted, LogHalted, HeldLog, InBlocks, Disk
<1>6. CASE call[w] # "stop"
    <2>1. /\ chain' = chain /\ pending' = pending /\ Running(w)'
        BY <1>6 DEF WriteDone, Return, Base, TypeOK, Running
    <2> QED BY <1>1, <1>4, <2>1 DEF Log!Save, HeldLog, InBlocks, Disk
<1> QED BY <1>5, <1>6

\* What the worker does between that, and does not change the log, and what ends it.
LEMMA RestRefines ==
    ASSUME Base, FileInv, SoleWorker, NEW w \in Workers, w = TheWorker,
           \/ StartFails(w) \/ (Stop(w) /\ pending[w] = <<>>) \/ OpenFile(w)
           \/ OpenFails(w) \/ WriteFails(w) \/ Crash(w)
    PROVE  Log!BeginSave \/ Log!Halt \/ UNCHANGED Log!vars
<1>1. /\ TypeOK /\ EventLog(<<>>) = <<>>
      /\ phase[w] # "contended" /\ (phase[w] = "writing" => file = Torn)
    BY EventLogEmpty DEF Base, FileInv
<1>2. ASSUME Running(w), file' = file, Halts(w) PROVE Log!Halt
    <2>1. LogHalted
        BY <1>2, HaltsLog
    <2> QED BY <1>2, <2>1 DEF Log!Halt, Log!Halted, LogHalted, HeldLog, InBlocks, Disk
<1>3. ASSUME Running(w)' = Running(w), chain' = chain, pending' = pending, file' = file
      PROVE  UNCHANGED Log!vars
    BY <1>3 DEF Log!vars, HeldLog, InBlocks, Disk
<1>4. CASE StartFails(w)
    <2>1. Running(w)' = Running(w) /\ chain' = chain /\ pending' = pending /\ file' = file
        BY <1>1, <1>4 DEF StartFails, Running, TypeOK
    <2> QED BY <1>3, <2>1
<1>5. CASE Stop(w) /\ pending[w] = <<>>
    <2>1. Running(w) /\ file' = file /\ Halts(w)
        BY <1>1, <1>5 DEF Stop, StopFlush, Halt, Halts, SameCounts, Running, TypeOK
    <2> QED BY <1>2, <2>1
<1>6. CASE OpenFile(w)
    <2>1. /\ Running(w) /\ Running(w)' /\ chain' = chain /\ pending' = pending /\ file' = Torn
        BY <1>1, <1>6, SoleOpen DEF OpenFile, SoleWorker, Running
    <2>2. Disk' = [state |-> "torn", log |-> <<>>]
        BY <1>1, <2>1 DEF Disk, Torn
    <2> QED BY <2>1, <2>2 DEF Log!BeginSave, HeldLog, InBlocks, Disk, Running
<1>7. CASE OpenFails(w) \/ WriteFails(w)
    <2>1. Running(w) /\ file' = file /\ Raise(w)
        BY <1>1, <1>7 DEF OpenFails, WriteFails, Writing, Running
    <2>2. CASE call[w] \in {"init", "stop"}
        <3>1. Halts(w)
            BY <1>1, <2>1, <2>2 DEF Raise, Halt, Halts, SameCounts, Running, TypeOK
        <3> QED BY <1>2, <2>1, <3>1
    <2>3. CASE call[w] \notin {"init", "stop"}
        <3>1. Running(w)' = Running(w) /\ chain' = chain /\ pending' = pending
            BY <1>1, <2>1, <2>3 DEF Raise, Running, TypeOK
        <3> QED BY <1>3, <2>1, <3>1
    <2> QED BY <2>2, <2>3
<1>8. CASE Crash(w)
    <2>1. Running(w) /\ file' = file /\ Halts(w)
        BY <1>1, <1>8 DEF Crash, Halt, Halts, SameCounts, Running, TypeOK
    <2> QED BY <1>2, <2>1
<1> QED BY <1>4, <1>5, <1>6, <1>7, <1>8

LEMMA RefinesStep ==
    Base /\ FileInv /\ SoleWorker /\ Workers # {} /\ [Next]_vars => [Log!Next]_(Log!vars)
<1> SUFFICES ASSUME Base, FileInv, SoleWorker, Workers # {}, [Next]_vars
             PROVE  [Log!Next]_(Log!vars)
    OBVIOUS
<1>1. CASE UNCHANGED vars
    BY <1>1 DEF vars, mem, Log!vars, HeldLog, Running
<1>2. CASE Next
    <2>1. PICK w \in Workers : Action(w)
        BY <1>2, StepCases
    <2>2. w = TheWorker
        BY DEF TheWorker, SoleWorker
    <2>3. CASE StartFresh(w) \/ StartLoad(w)
        BY <2>2, <2>3, LoadsLog DEF Log!Next
    <2>4. CASE \E e \in Events : Record(w, e)
        BY <2>2, <2>4, RecordAdds DEF Log!Next
    <2>5. CASE Flush(w) \/ (Stop(w) /\ pending[w] # <<>>)
        BY <2>2, <2>5, FlushCommits DEF Log!Next
    <2>6. CASE WriteDone(w)
        BY <2>2, <2>6, WriteSaves DEF Log!Next
    <2>7. CASE \/ StartFails(w) \/ (Stop(w) /\ pending[w] = <<>>) \/ OpenFile(w)
               \/ OpenFails(w) \/ WriteFails(w) \/ Crash(w)
        BY <2>2, <2>7, RestRefines DEF Log!Next
    <2> QED BY <2>1, <2>3, <2>4, <2>5, <2>6, <2>7 DEF Action
<1> QED BY <1>1, <1>2

\* With one worker the ledger is an append-only log with a commit point, whatever it is
\* made of: each step of it is a step of AuditLog or leaves the log as it was.
THEOREM LedgerImplementsAuditLog ==
    SoleWorker /\ Workers # {} => (Spec => ImplementsAuditLog)
<1> SUFFICES ASSUME SoleWorker, Workers # {} PROVE Spec => ImplementsAuditLog
    OBVIOUS
<1>1. Init => FileInv /\ Log!Init
    BY RefinesInit DEF Init, FileInv, Absent
<1>2. Base /\ FileInv /\ [Next]_vars => [Log!Next]_(Log!vars)
    BY RefinesStep
<1> QED
    BY <1>1, <1>2, FileInvStep, BaseAlways, PTL
    DEF Spec, ImplementsAuditLog, Log!Spec

-----------------------------------------------------------------------------
(* Verification of the chain.  As long as nobody altered the file a step of      *)
(* ChainCheck is a step of Ledger, so what was shown of its steps can be used.   *)

\* Every block of the chain c is as it was mined.
Mint(c, ms) == \A i \in DOMAIN c : c[i] \in ms

Minted ==
    /\ \A w \in Workers : Running(w) => Mint(chain[w], minted)
    /\ file.state = "whole" => Mint(file.blocks, minted)

CheckInv ==
    /\ alterations \in Nat
    /\ alterations = 0 => Base /\ ChainsLinked /\ Minted

LEMMA MintAppend ==
    ASSUME NEW c \in Seq(Block), NEW b \in Block, NEW ms, Mint(c, ms), b \in ms
    PROVE  Mint(Append(c, b), ms)
<1>1. /\ DOMAIN Append(c, b) = DOMAIN c \cup {Len(c) + 1}
      /\ \A i \in DOMAIN c : Append(c, b)[i] = c[i]
      /\ Append(c, b)[Len(c) + 1] = b
    OBVIOUS
<1> QED BY <1>1, Zenon DEF Mint

\* A worker whose chain a step makes longer has just mined its last block.
LEMMA MinesLast ==
    ASSUME Base, Next, NEW w \in Workers, NEW es \in Seq(Events), Mines(w, es)
    PROVE  phase'[w] = "mined" /\ chain'[w][Len(chain'[w])] = NewBlock(chain[w], es)
<1>1. PICK v \in Workers : Action(v) /\ \A u \in Workers \ {v} : Same(u)
    BY StepCases
<1>2. TypeOK /\ chain[w] \in Seq(Block) /\ NewBlock(chain[w], es) \in Block
    BY MinesBlock DEF Base
<1>3. chain'[w] = Append(chain[w], NewBlock(chain[w], es)) /\ chain'[w] # chain[w]
    <2>1. Len(chain'[w]) = Len(chain[w]) + 1 /\ Len(chain[w]) \in Nat
        BY <1>2, AppendType DEF Mines
    <2> QED BY <2>1 DEF Mines
<1>4. v = w
    BY <1>1, <1>3 DEF Same
<1>5. phase'[w] = "mined"
    <2>1. CASE StartFresh(w) \/ StartLoad(w) \/ StartFails(w)
        BY <2>1 DEF StartFresh, StartLoad, StartFails, Mines
    <2>2. CASE \E e \in Events : Record(w, e)
        BY <1>2, <1>3, <2>2 DEF Record, Mine, TypeOK
    <2>3. CASE Flush(w)
        BY <1>2, <2>3 DEF Flush, Mine, TypeOK
    <2>4. CASE Stop(w)
        BY <1>2, <1>3, <2>4 DEF Stop, StopFlush, Mine, Halt, TypeOK, Mines, Running
    <2>5. CASE OpenFile(w)
        BY <1>3, <2>5 DEF OpenFile
    <2>6. CASE WriteDone(w) \/ OpenFails(w) \/ WriteFails(w) \/ Crash(w)
        BY <2>6 DEF WriteDone, OpenFails, Raise, WriteFails, Crash, Mines
    <2> QED BY <1>1, <1>4, <2>1, <2>2, <2>3, <2>4, <2>5, <2>6 DEF Action
<1>6. Append(chain[w], NewBlock(chain[w], es))[Len(chain[w]) + 1] = NewBlock(chain[w], es)
    BY <1>2
<1> QED BY <1>2, <1>3, <1>5, <1>6, AppendType

\* A worker that starts without a file has just mined its genesis block; any other
\* that starts holds the blocks of the file.
LEMMA LoadsLast ==
    ASSUME Base, Next, NEW w \in Workers, Loads(w)
    PROVE  \/ phase'[w] = "mined" /\ chain'[w] = <<Genesis>>
           \/ file.state = "whole" /\ chain'[w] = file.blocks
<1>1. PICK v \in Workers : Action(v) /\ \A u \in Workers \ {v} : Same(u)
    BY StepCases
<1>2. v = w /\ TypeOK
    BY <1>1 DEF Loads, Same, Base
<1>3. CASE StartFresh(w)
    BY <1>2, <1>3 DEF StartFresh, StartWith, TypeOK
<1>4. CASE StartLoad(w)
    BY <1>2, <1>4 DEF StartLoad, StartWith, TypeOK
<1>5. CASE StartFails(w)
    BY <1>2, <1>5 DEF StartFails, Loads, TypeOK, Running
<1> QED
    BY <1>1, <1>2, <1>3, <1>4, <1>5
    DEF Action, Loads, Record, Flush, Stop, OpenFile, WriteDone, OpenFails, WriteFails,
        Crash, Writing, Running

LEMMA MintedStep ==
    ASSUME Base, Minted, LedgerStep
    PROVE  Minted'
<1>1. /\ Next
      /\ minted' = minted \cup
            {chain'[w][Len(chain'[w])] : w \in {v \in Workers : phase'[v] = "mined"}}
    BY DEF LedgerStep
<1>2. minted \subseteq minted'
      /\ \A w \in Workers : phase'[w] = "mined" => chain'[w][Len(chain'[w])] \in minted'
    BY <1>1
<1>3. file'.state = "whole" => Mint(file'.blocks, minted')
    <2>1. CASE file' = file
        BY <1>2, <2>1 DEF Minted, Mint
    <2>2. CASE file' = Torn
        BY <2>2 DEF Torn
    <2>3. ASSUME NEW w \in Workers, Running(w), file' = Whole(chain[w])
          PROVE  Mint(file'.blocks, minted')
        BY <1>2, <2>3 DEF Whole, Minted, Mint
    <2> QED BY <1>1, <2>1, <2>2, <2>3, StepCases
<1>4. ASSUME NEW w \in Workers, Running(w)'
      PROVE  Mint(chain'[w], minted')
    <2>1. CASE Same(w)
        BY <1>2, <1>4, <2>1 DEF Same, Minted, Mint
    <2>2. CASE Halts(w)
        BY <1>4, <2>2 DEF Halts
    <2>3. CASE Loads(w)
        <3>1. CASE phase'[w] = "mined" /\ chain'[w] = <<Genesis>>
            <4>1. DOMAIN <<Genesis>> = {1} /\ Len(<<Genesis>>) = 1
                OBVIOUS
            <4>2. <<Genesis>>[1] \in minted'
                BY <1>2, <3>1, <4>1
            <4> QED BY <3>1, <4>1, <4>2 DEF Mint
        <3>2. CASE file.state = "whole" /\ chain'[w] = file.blocks
            BY <1>2, <3>2 DEF Minted, Mint
        <3> QED BY <1>1, <2>3, <3>1, <3>2, LoadsLast
    <2>4. CASE Buffers(w)
        BY <1>2, <2>4 DEF Buffers, Minted, Mint
    <2>5. ASSUME NEW es \in Seq(Events), Mines(w, es)
          PROVE  Mint(chain'[w], minted')
        <3>1. NewBlock(chain[w], es) \in minted'
            BY <1>1, <1>2, <2>5, MinesLast
        <3>2. Mint(chain[w], minted')
            BY <1>2, <2>5 DEF Mines, Minted, Mint
        <3> QED BY <2>5, <3>1, <3>2, MinesBlock, MintAppend DEF Mines
    <2> QED BY <1>1, <2>1, <2>2, <2>3, <2>4, <2>5, WorkerStep
<1> QED BY <1>3, <1>4 DEF Minted

LEMMA CheckStep == CheckInv /\ [CheckNext]_checkVars => CheckInv'
<1> SUFFICES ASSUME CheckInv, [CheckNext]_checkVars PROVE CheckInv'
    OBVIOUS
<1>1. CASE LedgerStep
    <2>1. alterations' = alterations /\ Next
        BY <1>1 DEF LedgerStep
    <2>2. ASSUME alterations = 0 PROVE Base' /\ ChainsLinked' /\ Minted'
        BY <1>1, <2>1, <2>2, BaseStep, LinkedStep, MintedStep DEF CheckInv
    <2> QED BY <2>1, <2>2 DEF CheckInv
<1>2. CASE Alter
    BY <1>2 DEF Alter, CheckInv
<1>3. CASE UNCHANGED checkVars
    <2>1. [Next]_vars /\ UNCHANGED <<minted, alterations>> /\ UNCHANGED vars
        BY <1>3 DEF checkVars
    <2>2. Minted => Minted'
        BY <2>1 DEF vars, mem, env, history, Minted, Running
    <2> QED BY <2>1, <2>2, BaseStep, LinkedStep DEF CheckInv
<1> QED BY <1>1, <1>2, <1>3 DEF CheckNext

\* A chain that is hash-linked and whose blocks are as they were mined passes is_valid().
LEMMA LinkedIsValid ==
    ASSUME NEW c \in Seq(Block), NEW m, Linked(c, m), Mint(c, minted)
    PROVE  IsValid(c)
BY DEF Linked, Mint, IsValid, HashMatches

LEMMA CheckInvAccuses == CheckInv => NeverAccused
<1> SUFFICES ASSUME CheckInv, alterations = 0
             PROVE  (\A c \in Copies : IsValid(c)) /\ "tampered" \notin ScriptVerdicts
    BY DEF NeverAccused
<1>1. Base /\ ChainsLinked /\ Minted
    BY DEF CheckInv
<1>2. ASSUME NEW w \in Workers, Running(w) PROVE IsValid(chain[w])
    BY <1>1, <1>2, LinkedIsValid DEF Base, TypeOK, ChainsLinked, Minted
<1>3. ASSUME file.state = "whole" PROVE IsValid(file.blocks)
    BY <1>1, <1>3, LinkedIsValid DEF Base, TypeOK, Files, ChainsLinked, Minted
<1> QED BY <1>2, <1>3 DEF Copies, ScriptVerdicts

\* Where nobody altered the file, neither a running worker nor the script ever finds a
\* tampered chain, for any number of workers that write over each other's file, whatever
\* crashes and fails.
THEOREM CheckNeverAccused == CheckSpec => []NeverAccused
<1>1. CheckInit => CheckInv
    <2> SUFFICES ASSUME CheckInit PROVE CheckInv
        OBVIOUS
    <2>1. Base /\ alterations = 0
        BY BaseInit DEF CheckInit
    <2>2. ChainsLinked /\ Minted
        BY DEF CheckInit, Init, ChainsLinked, Minted, Running, Absent
    <2> QED BY <2>1, <2>2 DEF CheckInv
<1> QED BY <1>1, CheckStep, CheckInvAccuses, PTL DEF CheckSpec

-----------------------------------------------------------------------------
(* What a hash commits to, also in a file that was altered *)

\* A block as the file may hold it: an alteration leaves fields no block is mined with.
Stored == [index : Int, prev : Int, hash : Int, events : Seq(Events)]

\* What is left of the types when the file may have been altered.
Loose ==
    /\ phase \in [Workers -> Phases]
    /\ chain \in [Workers -> Seq(Stored)]
    /\ pending \in [Workers -> Seq(Events)]
    /\ mined \in Nat
    /\ file.blocks \in Seq(Stored)
    /\ \A w \in Workers : Running(w) => chain[w] # <<>>
    /\ file.state = "whole" => file.blocks # <<>>

Last(w) == chain[w][Len(chain[w])]

\* A hash was given to one block only, and no block has the next one.
HashInv ==
    /\ Loose
    /\ minted \subseteq Stored
    /\ \A b \in minted : b.hash <= mined
    /\ \A b, d \in minted : b.hash = d.hash => b = d
    /\ \A w \in Workers : phase[w] = "mined" => Last(w) \in minted

LEMMA StoredLast ==
    ASSUME NEW S, NEW c \in Seq(S), NEW b \in S
    PROVE  Append(c, b)[Len(Append(c, b))] = b /\ Append(c, b) \in Seq(S) /\ Append(c, b) # <<>>
OBVIOUS

\* w mines a block.
Mints(w) ==
    /\ chain'[w] \in Seq(Stored) /\ chain'[w] # <<>>
    /\ chain' = [chain EXCEPT ![w] = chain'[w]]
    /\ phase' = [phase EXCEPT ![w] = "mined"]
    /\ pending' = [pending EXCEPT ![w] = <<>>]
    /\ mined' = mined + 1
    /\ file' = file
    /\ Last(w)'.hash = mined + 1 /\ Last(w)' \in Stored

LEMMA MineMints ==
    ASSUME Loose, NEW w \in Workers, Running(w), NEW es \in Seq(Events),
           NEW op, Mine(w, es, op), file' = file
    PROVE  Mints(w)
<1> DEFINE b == NewBlock(chain[w], es)
<1>1. chain[w] \in Seq(Stored) /\ chain[w] # <<>> /\ mined \in Nat
    BY DEF Loose
<1>2. b \in Stored /\ b.hash = mined + 1
    <2> DEFINE last == chain[w][Len(chain[w])]
    <2>1. Len(chain[w]) \in Int /\ last \in Stored
        BY <1>1
    <2>2. last.hash \in Int
        <3> HIDE DEF last
        <3> QED BY <2>1 DEF Stored
    <2>3. mined + 1 \in Int
        BY <1>1
    <2> QED BY <2>1, <2>2, <2>3 DEF NewBlock, Stored
<1>3. chain' = [chain EXCEPT ![w] = Append(chain[w], b)] /\ chain'[w] = Append(chain[w], b)
    BY DEF Mine, Loose
<1> HIDE DEF b
<1>4. chain'[w] \in Seq(Stored) /\ chain'[w] # <<>> /\ Last(w)' = b
    BY <1>1, <1>2, <1>3, StoredLast DEF Last
<1> QED BY <1>2, <1>3, <1>4 DEF Mine, Mints

\* No block is mined: what the workers hold is left, loaded or dropped.
Keeps ==
    /\ mined' = mined
    /\ phase' \in [Workers -> Phases]
    /\ chain' \in [Workers -> Seq(Stored)]
    /\ pending' \in [Workers -> Seq(Events)]
    /\ \A v \in Workers :
        /\ Running(v)' => chain'[v] # <<>>
        /\ phase'[v] = "mined" => phase[v] = "mined" /\ chain'[v] = chain[v]
    /\ \/ file' = file
       \/ file' = Torn
       \/ \E v \in Workers : Running(v) /\ file' = Whole(chain[v])

LEMMA MintSteps ==
    ASSUME Loose, NEW w \in Workers, Action(w)
    PROVE  Mints(w) \/ Keeps
<1>1. CASE StartFresh(w)
    <2>1. /\ <<Genesis>> \in Seq(Stored) /\ <<Genesis>> # <<>>
          /\ <<Genesis>>[Len(<<Genesis>>)] = Genesis
          /\ Genesis \in Stored /\ Genesis.hash = mined + 1
        <3>1. Genesis \in Stored /\ Genesis.hash = mined + 1
            BY DEF Genesis, Stored, Loose
        <3> QED BY <3>1
    <2>2. chain' = [chain EXCEPT ![w] = <<Genesis>>] /\ chain'[w] = <<Genesis>>
        BY <1>1 DEF StartFresh, StartWith, Loose
    <2>3. Mints(w)
        BY <1>1, <2>1, <2>2 DEF StartFresh, StartWith, Mints, Last
    <2> QED BY <2>3
<1>2. CASE StartLoad(w)
    <2>1. /\ phase' = [phase EXCEPT ![w] = "up"] /\ file.state = "whole"
          /\ chain' = [chain EXCEPT ![w] = file.blocks]
          /\ pending' = [pending EXCEPT ![w] = <<>>]
          /\ mined' = mined /\ file' = file
        BY <1>2 DEF StartLoad, StartWith
    <2>2. chain' \in [Workers -> Seq(Stored)] /\ pending' \in [Workers -> Seq(Events)]
          /\ phase' \in [Workers -> Phases]
        <3>1. <<>> \in Seq(Events) /\ "up" \in Phases
            BY DEF Phases
        <3> QED BY <2>1, <3>1 DEF Loose
    <2>3. ASSUME NEW v \in Workers
          PROVE  /\ Running(v)' => chain'[v] # <<>>
                 /\ phase'[v] = "mined" => phase[v] = "mined" /\ chain'[v] = chain[v]
        BY <2>1 DEF Loose, Running
    <2> QED BY <2>1, <2>2, <2>3 DEF Keeps
<1>10. CASE StartFails(w)
    <2>1. /\ phase' = [phase EXCEPT ![w] = "down"] /\ ~Running(w)
          /\ chain' = chain /\ pending' = pending /\ mined' = mined /\ file' = file
        BY <1>10 DEF StartFails
    <2> QED BY <2>1 DEF Loose, Keeps, Running, Phases
<1>3. CASE \E e \in Events : Record(w, e)
    <2>1. PICK e \in Events : Record(w, e)
        BY <1>3
    <2> DEFINE buffer == Append(pending[w], e)
    <2>2. buffer \in Seq(Events)
        BY DEF Loose
    <2>3. CASE FlushDue(buffer)
        BY <2>1, <2>2, <2>3, MineMints DEF Record, Running
    <2>4. CASE ~FlushDue(buffer)
        <3>1. /\ phase' = phase /\ chain' = chain /\ mined' = mined /\ file' = file
              /\ pending' = [pending EXCEPT ![w] = buffer]
            BY <2>1, <2>4 DEF Record
        <3> QED BY <2>2, <3>1 DEF Loose, Keeps, Running
    <2> QED BY <2>3, <2>4
<1>4. ASSUME Halt(w, "down") \/ Halt(w, "stopped"), mined' = mined,
             \/ file' = file \/ file' = Torn \/ (Running(w) /\ file' = Whole(chain[w]))
      PROVE  Keeps
    <2>1. <<>> \in Seq(Stored) /\ <<>> \in Seq(Events)
        OBVIOUS
    <2>2. PICK p \in {"down", "stopped"} : phase' = [phase EXCEPT ![w] = p]
        BY <1>4, Zenon DEF Halt
    <2>3. /\ chain' = [chain EXCEPT ![w] = <<>>]
          /\ pending' = [pending EXCEPT ![w] = <<>>]
        BY <1>4, Zenon DEF Halt
    <2>4. /\ phase' \in [Workers -> Phases] /\ chain' \in [Workers -> Seq(Stored)]
          /\ pending' \in [Workers -> Seq(Events)]
        BY <2>1, <2>2, <2>3 DEF Loose, Phases
    <2>5. ASSUME NEW v \in Workers
          PROVE  /\ Running(v)' => chain'[v] # <<>>
                 /\ phase'[v] = "mined" => phase[v] = "mined" /\ chain'[v] = chain[v]
        BY <2>2, <2>3 DEF Loose, Running
    <2> QED BY <1>4, <2>4, <2>5, Zenon DEF Keeps
<1>5. CASE Flush(w) \/ Stop(w)
    <2>1. pending[w] \in Seq(Events)
        BY DEF Loose
    <2> QED BY <1>4, <1>5, <2>1, MineMints DEF Flush, Stop, StopFlush, Running
<1>6. CASE OpenFile(w)
    BY <1>6 DEF OpenFile, Contend, Writing, Loose, Keeps, Running, Phases
<1>7. CASE WriteDone(w)
    <2>1. Running(w) /\ mined' = mined /\ (file' = Torn \/ file' = Whole(chain[w]))
        BY <1>7 DEF WriteDone, Writing, Written, Running
    <2> QED BY <1>4, <1>7, <2>1 DEF WriteDone, Return, Loose, Keeps, Running, Phases
<1>8. CASE OpenFails(w) \/ WriteFails(w)
    <2>1. Raise(w) /\ (file' = file \/ file' = Torn) /\ Running(w)
        BY <1>8 DEF OpenFails, WriteFails, Writing, Running
    <2> QED BY <1>4, <2>1 DEF Raise, Loose, Keeps, Running, Phases
<1>9. CASE Crash(w)
    BY <1>4, <1>9 DEF Crash
<1> QED BY <1>1, <1>2, <1>3, <1>5, <1>6, <1>7, <1>8, <1>9, <1>10 DEF Action

LEMMA KeepsFile ==
    ASSUME Loose, \/ file' = file
                  \/ file' = Torn
                  \/ \E v \in Workers : Running(v) /\ file' = Whole(chain[v])
    PROVE  file'.blocks \in Seq(Stored) /\ (file'.state = "whole" => file'.blocks # <<>>)
<1>1. CASE file' = file
    BY <1>1 DEF Loose
<1>2. CASE file' = Torn
    <2>1. <<>> \in Seq(Stored)
        OBVIOUS
    <2> QED BY <1>2, <2>1 DEF Torn
<1>3. ASSUME NEW v \in Workers, Running(v), file' = Whole(chain[v])
      PROVE  file'.blocks \in Seq(Stored) /\ file'.blocks # <<>>
    BY <1>3 DEF Loose, Whole
<1> QED BY <1>1, <1>2, <1>3

LEMMA LedgerHashStep == HashInv /\ LedgerStep => HashInv'
<1> SUFFICES ASSUME HashInv, LedgerStep PROVE HashInv'
    OBVIOUS
<1>1. /\ Loose /\ minted \subseteq Stored
      /\ \A b \in minted : b.hash <= mined
      /\ \A b, d \in minted : b.hash = d.hash => b = d
      /\ \A w \in Workers : phase[w] = "mined" => Last(w) \in minted
    BY DEF HashInv
<1>2. minted' = minted \cup {Last(w)' : w \in {v \in Workers : phase'[v] = "mined"}}
    BY DEF LedgerStep, Last
<1>3. PICK w \in Workers : Action(w)
    BY DEF LedgerStep, Next, Action
<1>4. CASE Keeps
    <2>1. \A v \in Workers : phase'[v] = "mined" => phase[v] = "mined" /\ Last(v)' = Last(v)
        BY <1>4 DEF Keeps, Last
    <2>2. minted' = minted
        BY <1>1, <1>2, <2>1
    <2>3. Loose'
        BY <1>1, <1>4, KeepsFile DEF Keeps, Loose
    <2>4. mined' = mined /\ \A v \in Workers : phase'[v] = "mined" => Last(v)' \in minted'
        BY <1>1, <1>4, <2>1, <2>2 DEF Keeps
    <2> QED BY <1>1, <2>2, <2>3, <2>4 DEF HashInv
<1>5. CASE Mints(w)
    <2>1. /\ phase'[w] = "mined" /\ mined' = mined + 1
          /\ Last(w)'.hash = mined + 1 /\ Last(w)' \in Stored
        BY <1>1, <1>5 DEF Mints, Loose
    <2>2. ASSUME NEW v \in Workers \ {w}, phase'[v] = "mined"
          PROVE  Last(v)' \in minted
        <3>1. phase[v] = "mined" /\ chain'[v] = chain[v]
            BY <1>1, <1>5, <2>2 DEF Mints, Loose
        <3> QED BY <1>1, <3>1 DEF Last
    <2>3. minted' = minted \cup {Last(w)'}
        BY <1>2, <2>1, <2>2
    <2>4. Loose'
        <3>1. chain' \in [Workers -> Seq(Stored)] /\ phase' \in [Workers -> Phases]
              /\ pending' \in [Workers -> Seq(Events)]
            <4>1. <<>> \in Seq(Events) /\ "mined" \in Phases
                BY DEF Phases
            <4> QED BY <1>1, <1>5, <4>1 DEF Mints, Loose
        <3>2. mined' \in Nat /\ file' = file
            BY <1>1, <1>5 DEF Mints, Loose
        <3>3. ASSUME NEW v \in Workers, Running(v)' PROVE chain'[v] # <<>>
            BY <1>1, <1>5, <3>3 DEF Mints, Loose, Running
        <3> QED BY <1>1, <3>1, <3>2, <3>3 DEF Loose
    <2>5. mined \in Nat /\ \A b \in minted : b.hash \in Int /\ b.hash <= mined
        BY <1>1 DEF Loose, Stored
    <2>6. \A b \in minted' : b.hash <= mined'
        BY <2>1, <2>3, <2>5
    <2>7. \A b, d \in minted' : b.hash = d.hash => b = d
        <3>1. \A b \in minted : b.hash # mined + 1
            BY <2>5
        <3> QED BY <1>1, <2>1, <2>3, <3>1
    <2>8. minted' \subseteq Stored
          /\ \A v \in Workers : phase'[v] = "mined" => Last(v)' \in minted'
        BY <1>1, <2>1, <2>2, <2>3
    <2> QED BY <2>4, <2>6, <2>7, <2>8 DEF HashInv
<1> QED BY <1>1, <1>3, <1>4, <1>5, MintSteps

\* An alteration leaves a list of blocks, of which at least the first stays.
LEMMA AlteredFile ==
    ASSUME Loose, minted \subseteq Stored, Alter
    PROVE  file'.blocks \in Seq(Stored) /\ file'.blocks # <<>>
<1> DEFINE c == file.blocks
<1>1. c \in Seq(Stored) /\ c # <<>>
    BY DEF Alter, Loose
<1>2. ASSUME NEW i \in DOMAIN c, NEW b \in Stored
      PROVE  [c EXCEPT ![i] = b] \in Seq(Stored) /\ [c EXCEPT ![i] = b] # <<>>
    <2> HIDE DEF c
    <2> QED BY <1>1
<1>3. ASSUME NEW i \in 2..Len(c)
      PROVE  /\ SubSeq(c, 1, i - 1) \o SubSeq(c, i + 1, Len(c)) \in Seq(Stored)
             /\ SubSeq(c, 1, i - 1) \o SubSeq(c, i + 1, Len(c)) # <<>>
    <2> HIDE DEF c
    <2>1. Len(c) \in Nat /\ i - 1 >= 1
        BY <1>1
    <2>2. /\ SubSeq(c, 1, i - 1) \in Seq(Stored) /\ Len(SubSeq(c, 1, i - 1)) = i - 1
          /\ SubSeq(c, i + 1, Len(c)) \in Seq(Stored)
        BY <1>1, <2>1
    <2>3. \A s, t \in Seq(Stored) :
            s \o t \in Seq(Stored) /\ Len(s \o t) = Len(s) + Len(t) /\ Len(t) \in Nat
        OBVIOUS
    <2>4. Len(<<>>) = 0
        OBVIOUS
    <2> QED BY <2>1, <2>2, <2>3, <2>4
<1>4. ASSUME NEW b \in Stored PROVE Alterations(b) \subseteq Stored
    <2>1. \A e \in Events : <<e>> \in Seq(Events)
        OBVIOUS
    <2>2. b.events \in Seq(Events) /\ b.index + 1 \in Int /\ -1 \in Int
        BY DEF Stored
    <2>3. SubSeq(b.events, 2, Len(b.events)) \in Seq(Events)
        BY <2>2
    <2>4. /\ \A x \in Int : /\ [b EXCEPT !.index = x] \in Stored
                            /\ [b EXCEPT !.prev = x] \in Stored
                            /\ [b EXCEPT !.hash = x] \in Stored
          /\ \A es \in Seq(Events) : [b EXCEPT !.events = es] \in Stored
        BY DEF Stored
    <2> HIDE DEF Stored
    <2> QED BY <2>1, <2>2, <2>3, <2>4 DEF Alterations
<1>5. \A i \in DOMAIN c : c[i] \in Stored
    <2> HIDE DEF c
    <2> QED BY <1>1
<1>6. PICK e \in Replaced(c) \cup Changed(c) \cup Shortened(c) : file' = Whole(e)
    BY DEF Alter
<1> HIDE DEF c
<1>7. \/ \E i \in DOMAIN c, b \in Stored : e = [c EXCEPT ![i] = b]
      \/ \E i \in 2..Len(c) : e = SubSeq(c, 1, i - 1) \o SubSeq(c, i + 1, Len(c))
    <2>1. CASE e \in Replaced(c)
        <3>1. PICK i \in DOMAIN c, b \in minted : e = [c EXCEPT ![i] = b]
            BY <2>1 DEF Replaced
        <3> QED BY <3>1
    <2>2. CASE e \in Changed(c)
        <3>1. PICK i \in DOMAIN c : e \in {[c EXCEPT ![i] = b] : b \in Alterations(c[i])}
            BY <2>2, Zenon DEF Changed
        <3>2. PICK b \in Alterations(c[i]) : e = [c EXCEPT ![i] = b]
            BY <3>1, Zenon
        <3> QED BY <1>4, <1>5, <3>2, Zenon
    <2>3. CASE e \in Shortened(c)
        BY <2>3, Zenon DEF Shortened
    <2> QED BY <1>6, <2>1, <2>2, <2>3
<1>8. e \in Seq(Stored) /\ e # <<>>
    BY <1>2, <1>3, <1>7
<1> QED BY <1>6, <1>8 DEF Whole

LEMMA HashStep == HashInv /\ [CheckNext]_checkVars => HashInv'
<1> SUFFICES ASSUME HashInv, [CheckNext]_checkVars PROVE HashInv'
    OBVIOUS
<1>1. CASE Alter
    <2>1. file'.blocks \in Seq(Stored) /\ file'.blocks # <<>>
        BY <1>1, AlteredFile DEF HashInv
    <2> QED BY <1>1, <2>1 DEF Alter, HashInv, Loose, mem, Last, Running
<1>2. CASE UNCHANGED checkVars
    BY <1>2 DEF checkVars, vars, mem, HashInv, Loose, Last, Running
<1> QED BY <1>1, <1>2, LedgerHashStep DEF CheckNext

LEMMA HashInit == CheckInit => HashInv
<1> SUFFICES ASSUME CheckInit PROVE HashInv
    OBVIOUS
<1>1. Base
    BY BaseInit DEF CheckInit
<1>2. <<>> \in Seq(Stored) /\ <<>> \in Seq(Events)
    OBVIOUS
<1> QED BY <1>2 DEF CheckInit, Init, HashInv, Loose, Phases, Running, Absent

\* The blocks before two equal blocks, one after the other: each is told by its hash.
LEMMA HashCommits ==
    ASSUME HashInv,
           NEW c \in Seq(Stored), NEW d \in Seq(Stored), IsValid(c), IsValid(d),
           NEW i \in 2..Len(c), NEW j \in 2..Len(d), c[i] = d[j]
    PROVE  \A k \in Nat : k < i - 1 /\ k < j - 1 => c[i - k] = d[j - k]
<1> DEFINE Same2(k) == k < i - 1 /\ k < j - 1 => c[i - k] = d[j - k]
           T == {k \in Nat : Same2(k)}
<1>1. /\ Len(c) \in Nat /\ Len(d) \in Nat /\ i \in Nat /\ j \in Nat
      /\ \A a \in 2..Len(c) : c[a].prev = c[a - 1].hash /\ c[a] \in minted
      /\ \A a \in 2..Len(d) : d[a].prev = d[a - 1].hash /\ d[a] \in minted
    BY DEF IsValid, HashMatches
<1>2. 0 \in T
    BY <1>1
<1>3. ASSUME NEW k \in Nat, k \in T PROVE k + 1 \in T
    <2> SUFFICES ASSUME k + 1 < i - 1, k + 1 < j - 1
                 PROVE  c[i - (k + 1)] = d[j - (k + 1)]
        OBVIOUS
    <2> DEFINE a == i - k
               b == j - k
    <2>1. /\ a \in 2..Len(c) /\ b \in 2..Len(d) /\ a - 1 \in 2..Len(c) /\ b - 1 \in 2..Len(d)
          /\ i - (k + 1) = a - 1 /\ j - (k + 1) = b - 1
        BY <1>1
    <2>2. c[a] = d[b]
        BY <1>1, <1>3
    <2> HIDE DEF a, b
    <2>3. c[a - 1].hash = d[b - 1].hash /\ c[a - 1] \in minted /\ d[b - 1] \in minted
        BY <1>1, <2>1, <2>2
    <2> QED BY <2>1, <2>3 DEF HashInv
<1>4. \A k \in Nat : k \in T
    <2> HIDE DEF T
    <2> QED BY <1>2, <1>3, NatInd
<1> QED BY <1>4

LEMMA HashInvCommits == HashInv => LastBlockCommits
<1> SUFFICES ASSUME HashInv,
                    NEW c \in Copies, NEW d \in Copies, IsValid(c), IsValid(d),
                    NEW i \in 2..Len(c), NEW j \in 2..Len(d), c[i] = d[j],
                    NEW k \in 1..(i - 1), k < j
             PROVE  /\ c[i - k].hash = d[j - k].hash
                    /\ k < i - 1 /\ k < j - 1 => c[i - k] = d[j - k]
    BY DEF LastBlockCommits
<1>1. c \in Seq(Stored) /\ d \in Seq(Stored)
    BY DEF Copies, HashInv, Loose
<1>2. \A n \in Nat : n < i - 1 /\ n < j - 1 => c[i - n] = d[j - n]
    BY <1>1, HashCommits
<1>3. /\ Len(c) \in Nat /\ Len(d) \in Nat /\ k \in Nat /\ k - 1 \in Nat
      /\ k - 1 < i - 1 /\ k - 1 < j - 1
      /\ i - (k - 1) \in 2..Len(c) /\ j - (k - 1) \in 2..Len(d)
      /\ (i - (k - 1)) - 1 = i - k /\ (j - (k - 1)) - 1 = j - k
    BY <1>1
<1>4. c[i - (k - 1)] = d[j - (k - 1)]
    BY <1>2, <1>3
<1>5. c[i - k].hash = d[j - k].hash
    BY <1>3, <1>4 DEF IsValid
<1> QED BY <1>2, <1>3, <1>5

\* Whoever altered the file, and how often: of two copies that pass is_valid() a block
\* they have in common settles all before it, but for the first one of the shorter copy.
THEOREM CheckLastBlockCommits == CheckSpec => []LastBlockCommits
BY HashInit, HashStep, HashInvCommits, PTL DEF CheckSpec

-----------------------------------------------------------------------------
(* The chain and the buffer of a running worker are append-only *)

LEMMA StartsWithItself ==
    ASSUME NEW S, NEW s \in Seq(S)
    PROVE  StartsWith(s, s) /\ \A e \in S : StartsWith(Append(s, e), s)
BY DEF StartsWith

\* Mine, called with the buffer or the buffer and what was added to it.
LEMMA MineGrows ==
    ASSUME Loose, NEW w \in Workers, Running(w), NEW es \in Seq(Events), NEW op,
           Mine(w, es, op), StartsWith(es, pending[w])
    PROVE  \A v \in Workers : Grows(v)
<1> DEFINE b == NewBlock(chain[w], es)
<1>1. chain[w] \in Seq(Stored) /\ chain[w] # <<>> /\ mined \in Nat
    BY DEF Loose
<1>2. b \in Stored /\ b.events = es
    <2> DEFINE last == chain[w][Len(chain[w])]
    <2>1. Len(chain[w]) \in Int /\ last \in Stored
        BY <1>1
    <2>2. last.hash \in Int
        <3> HIDE DEF last
        <3> QED BY <2>1 DEF Stored
    <2>3. mined + 1 \in Int
        BY <1>1
    <2> QED BY <2>1, <2>2, <2>3 DEF NewBlock, Stored
<1>3. chain' = [chain EXCEPT ![w] = Append(chain[w], b)] /\ pending' = [pending EXCEPT ![w] = <<>>]
    BY DEF Mine, Loose
<1> HIDE DEF b
<1>4. /\ Len(Append(chain[w], b)) = Len(chain[w]) + 1
      /\ Append(chain[w], b)[Len(Append(chain[w], b))] = b
    BY <1>1, <1>2
<1>5. /\ StartsWith(Append(chain[w], b), chain[w])
      /\ \A v \in Workers : StartsWith(pending[v], pending[v])
    BY <1>1, <1>2, StartsWithItself, Zenon DEF Loose
<1>6. chain'[w] = Append(chain[w], b) /\ pending'[w] = <<>>
    BY <1>3 DEF Loose
<1>7. Grows(w)
    BY <1>2, <1>4, <1>5, <1>6 DEF Grows
<1>8. \A v \in Workers \ {w} : chain'[v] = chain[v] /\ pending'[v] = pending[v]
    BY <1>3 DEF Loose
<1> QED BY <1>5, <1>7, <1>8, Zenon DEF Grows

LEMMA ActionGrows ==
    ASSUME Loose, NEW w \in Workers, Action(w)
    PROVE  \A v \in Workers : Running(v) /\ Running(v)' => Grows(v)
<1>1. \A v \in Workers : StartsWith(pending[v], pending[v])
    BY StartsWithItself DEF Loose
<1>2. ASSUME \A v \in Workers \ {w} : chain'[v] = chain[v] /\ pending'[v] = pending[v],
             ~Running(w) \/ ~Running(w)' \/ (chain'[w] = chain[w] /\ pending'[w] = pending[w])
      PROVE  \A v \in Workers : Running(v) /\ Running(v)' => Grows(v)
    BY <1>1, <1>2 DEF Grows
<1>3. CASE StartFresh(w) \/ StartLoad(w) \/ StartFails(w)
    BY <1>2, <1>3 DEF StartFresh, StartLoad, StartFails, StartWith, Loose
<1>4. ASSUME Halt(w, "down") \/ Halt(w, "stopped")
      PROVE  /\ \A v \in Workers \ {w} : chain'[v] = chain[v] /\ pending'[v] = pending[v]
             /\ ~Running(w)'
    BY <1>4 DEF Halt, Loose, Running
<1>5. CASE \E e \in Events : Record(w, e)
    <2>1. PICK e \in Events : Record(w, e)
        BY <1>5
    <2> DEFINE buffer == Append(pending[w], e)
    <2>2. buffer \in Seq(Events) /\ StartsWith(buffer, pending[w])
        <3>1. pending[w] \in Seq(Events)
            BY DEF Loose
        <3> QED BY <3>1, StartsWithItself
    <2>3. CASE FlushDue(buffer)
        BY <2>1, <2>2, <2>3, MineGrows DEF Record, Running
    <2>4. CASE ~FlushDue(buffer)
        <3>1. chain' = chain /\ pending' = [pending EXCEPT ![w] = buffer]
            BY <2>1, <2>4 DEF Record
        <3>2. pending'[w] = buffer /\ \A v \in Workers \ {w} : pending'[v] = pending[v]
            BY <3>1 DEF Loose
        <3> HIDE DEF buffer
        <3> QED BY <1>1, <2>2, <3>1, <3>2, Zenon DEF Grows
    <2> QED BY <2>3, <2>4
<1>6. CASE Flush(w) \/ Stop(w)
    <2>1. pending[w] \in Seq(Events)
        BY DEF Loose
    <2> QED BY <1>1, <1>2, <1>4, <1>6, <2>1, MineGrows DEF Flush, Stop, StopFlush, Running
<1>7. CASE OpenFile(w)
    BY <1>2, <1>7 DEF OpenFile
<1>8. CASE WriteDone(w)
    BY <1>2, <1>4, <1>8 DEF WriteDone, Return
<1>9. CASE OpenFails(w) \/ WriteFails(w)
    BY <1>2, <1>4, <1>9 DEF OpenFails, WriteFails, Raise
<1>10. CASE Crash(w)
    BY <1>2, <1>4, <1>10 DEF Crash
<1> QED BY <1>3, <1>5, <1>6, <1>7, <1>8, <1>9, <1>10 DEF Action

\* While a worker runs, no block it has and no event it was handed is changed, dropped or
\* reordered, for any number of workers, faults and crashes and whatever is done to the
\* file from outside.
THEOREM CheckAppendOnly == CheckSpec => AppendOnly
<1>1. HashInv /\ [CheckNext]_checkVars
      => [\A w \in Workers : Running(w) /\ Running(w)' => Grows(w)]_vars
    <2> SUFFICES ASSUME HashInv, [CheckNext]_checkVars, vars' # vars
                 PROVE  \A w \in Workers : Running(w) /\ Running(w)' => Grows(w)
        OBVIOUS
    <2>1. Loose
        BY DEF HashInv
    <2>2. CASE LedgerStep
        <3>1. PICK w \in Workers : Action(w)
            BY <2>2 DEF LedgerStep, Next, Action
        <3> QED BY <2>1, <3>1, ActionGrows
    <2>3. CASE Alter
        <3>1. \A w \in Workers : StartsWith(pending[w], pending[w])
            BY <2>1, StartsWithItself DEF Loose
        <3> QED BY <2>3, <3>1 DEF Alter, mem, Grows
    <2> QED BY <2>2, <2>3 DEF CheckNext, checkVars
<1> QED BY <1>1, HashInit, HashStep, PTL DEF CheckSpec, AppendOnly

-----------------------------------------------------------------------------
(* Recursive functions of Merkle: the levels, the indices and the hashes on the way *)
(* up, the rows of the balanced tree.  The value of each at i depends on that at    *)
(* i - 1.                                                                           *)

LevelStep(items, i, x) ==
    IF i = 0 THEN [j \in 1..Len(items) |-> Leaf(items[j])] ELSE Parents(x)

IndexStep(leaf, i, x) == IF i = 0 THEN leaf ELSE x \div 2

HashStepUp(d, i, x) ==
    IF i = 0 THEN Leaf(d.item)
    ELSE IF d.proof[i].position = "right"
         THEN Node(x, d.proof[i].hash) ELSE Node(d.proof[i].hash, x)

\* Where the row of level k is read at index i.
Within(n, k, i) == IF i > Lasts(n)[k] THEN Lasts(n)[k] ELSE i

RowStep(items, k, x) ==
    LET n == Len(items) IN
    IF k = 0 THEN [i \in 0..n |-> Leaf(items[Within(n, 0, i) + 1])]
    ELSE [i \in 0..n |-> Node(x[2 * Within(n, k, i)], x[2 * Within(n, k, i) + 1])]

StepUp(kind, d, i, x) ==
    IF kind = "level" THEN LevelStep(d, i, x)
    ELSE IF kind = "index" THEN IndexStep(d, i, x)
    ELSE IF kind = "row" THEN RowStep(d, i, x)
    ELSE HashStepUp(d, i, x)

WayUp(h, kind, d, n) == h = [i \in 0..n |-> StepUp(kind, d, i, h[i - 1])]

LEMMA WayUpAt ==
    ASSUME NEW h, NEW kind, NEW d, NEW n \in Nat, WayUp(h, kind, d, n), NEW i \in 0..n
    PROVE  h[i] = StepUp(kind, d, i, h[i - 1])
BY DEF WayUp

LEMMA WayUpExists ==
    ASSUME NEW kind, NEW d, NEW n \in Nat
    PROVE  \E h : WayUp(h, kind, d, n)
<1> DEFINE S == {m \in Nat : \E h : WayUp(h, kind, d, m)}
<1>1. 0 \in S
    <2> DEFINE h == [i \in 0..0 |-> StepUp(kind, d, 0, 0)]
    <2>1. \A i \in 0..0 : \A x : StepUp(kind, d, i, x) = StepUp(kind, d, 0, 0)
        <3>1. \A i \in 0..0 : i = 0
            OBVIOUS
        <3> QED BY <3>1 DEF StepUp, LevelStep, IndexStep, RowStep, HashStepUp
    <2>2. \A f : (\A i \in 0..0 : StepUp(kind, d, i, f[i - 1]) = StepUp(kind, d, 0, 0)) =>
                    h = [i \in 0..0 |-> StepUp(kind, d, i, f[i - 1])]
        OBVIOUS
    <2>3. WayUp(h, kind, d, 0)
        <3> HIDE DEF h
        <3> QED BY <2>1, <2>2 DEF WayUp
    <2> QED BY <2>3
<1>2. ASSUME NEW m \in Nat, m \in S PROVE m + 1 \in S
    <2>1. PICK h : WayUp(h, kind, d, m)
        BY <1>2
    <2> DEFINE g == [i \in 0..(m + 1) |-> StepUp(kind, d, i, h[i - 1])]
    <2>2. ASSUME NEW i \in 0..m PROVE g[i] = h[i]
        BY <2>1, WayUpAt
    <2>3. ASSUME NEW i \in 0..(m + 1)
          PROVE  StepUp(kind, d, i, g[i - 1]) = StepUp(kind, d, i, h[i - 1])
        <3>1. i = 0 \/ i - 1 \in 0..m
            OBVIOUS
        <3>2. i # 0 => g[i - 1] = h[i - 1]
            BY <2>2, <3>1
        <3> HIDE DEF g
        <3>3. CASE i = 0
            BY <3>3 DEF StepUp, LevelStep, IndexStep, RowStep, HashStepUp
        <3> QED BY <3>2, <3>3
    <2>4. \A f : (\A i \in 0..(m + 1) :
                      StepUp(kind, d, i, f[i - 1]) = StepUp(kind, d, i, h[i - 1])) =>
                    g = [i \in 0..(m + 1) |-> StepUp(kind, d, i, f[i - 1])]
        OBVIOUS
    <2>5. WayUp(g, kind, d, m + 1)
        <3> HIDE DEF g
        <3> QED BY <2>3, <2>4 DEF WayUp
    <2> QED BY <2>5
<1>3. n \in S
    <2> HIDE DEF S
    <2> QED BY <1>1, <1>2, NatInd
<1> QED BY <1>3

LEMMA LevelsAre ==
    ASSUME NEW items, Len(items) \in Nat
    PROVE  /\ Levels(items)[0] = [i \in 1..Len(items) |-> Leaf(items[i])]
           /\ \A k \in 1..Len(items) : Levels(items)[k] = Parents(Levels(items)[k - 1])
<1> DEFINE Fits(h) == h = [k \in 0..Len(items) |->
                IF k = 0 THEN [i \in 1..Len(items) |-> Leaf(items[i])] ELSE Parents(h[k - 1])]
           f == Levels(items)
<1>1. \E h : Fits(h)
    <2>1. PICK h : WayUp(h, "level", items, Len(items))
        BY WayUpExists
    <2>2. Fits(h)
        BY <2>1 DEF WayUp, StepUp, LevelStep
    <2> QED BY <2>2
<1>2. f = CHOOSE h : Fits(h)
    BY DEF Levels
<1>3. Fits(f)
    <2> HIDE DEF Fits, f
    <2> QED BY <1>1, <1>2, Zenon
<1> HIDE DEF f
<1>4. 0 \in 0..Len(items) /\ \A k \in 1..Len(items) : k \in 0..Len(items) /\ k # 0
    OBVIOUS
<1> QED BY <1>3, <1>4 DEF f

LEMMA AncestorsAre ==
    ASSUME NEW leaf, NEW h \in Nat
    PROVE  /\ Ancestors(leaf, h)[0] = leaf
           /\ \A k \in 1..h : Ancestors(leaf, h)[k] = Ancestors(leaf, h)[k - 1] \div 2
<1> DEFINE Fits(g) == g = [k \in 0..h |-> IF k = 0 THEN leaf ELSE g[k - 1] \div 2]
           f == Ancestors(leaf, h)
<1>1. \E g : Fits(g)
    <2>1. PICK g : WayUp(g, "index", leaf, h)
        BY WayUpExists
    <2>2. Fits(g)
        BY <2>1 DEF WayUp, StepUp, IndexStep
    <2> QED BY <2>2
<1>2. f = CHOOSE g : Fits(g)
    BY DEF Ancestors
<1>3. Fits(f)
    <2> HIDE DEF Fits, f
    <2> QED BY <1>1, <1>2, Zenon
<1> HIDE DEF f
<1>4. 0 \in 0..h /\ \A k \in 1..h : k \in 0..h /\ k # 0
    OBVIOUS
<1> QED BY <1>3, <1>4 DEF f

LEMMA HashesAre ==
    ASSUME NEW item, NEW proof, Len(proof) \in Nat
    PROVE  /\ HashesUp(item, proof)[0] = Leaf(item)
           /\ \A k \in 1..Len(proof) : HashesUp(item, proof)[k] =
                 IF proof[k].position = "right"
                 THEN Node(HashesUp(item, proof)[k - 1], proof[k].hash)
                 ELSE Node(proof[k].hash, HashesUp(item, proof)[k - 1])
<1> DEFINE Fits(g) == g = [k \in 0..Len(proof) |->
                IF k = 0 THEN Leaf(item)
                ELSE IF proof[k].position = "right"
                     THEN Node(g[k - 1], proof[k].hash) ELSE Node(proof[k].hash, g[k - 1])]
           f == HashesUp(item, proof)
           d == [item |-> item, proof |-> proof]
<1>1. \E g : Fits(g)
    <2>1. PICK g : WayUp(g, "hash", d, Len(proof))
        BY WayUpExists
    <2>2. d.item = item /\ d.proof = proof
        OBVIOUS
    <2> HIDE DEF d
    <2>3. Fits(g)
        BY <2>1, <2>2 DEF WayUp, StepUp, HashStepUp
    <2> QED BY <2>3
<1>2. f = CHOOSE g : Fits(g)
    BY DEF HashesUp
<1>3. Fits(f)
    <2> HIDE DEF Fits, f
    <2> QED BY <1>1, <1>2, Zenon
<1> HIDE DEF f
<1>4. 0 \in 0..Len(proof) /\ \A k \in 1..Len(proof) : k \in 0..Len(proof) /\ k # 0
    OBVIOUS
<1> QED BY <1>3, <1>4 DEF f

-----------------------------------------------------------------------------
(* The levels of a tree *)

\* l is a list of n items, whatever these are.
IsList(l, n) == n \in Nat \ {0} /\ l = [i \in 1..n |-> l[i]]

LEMMA ListIs ==
    ASSUME NEW l, NEW n, IsList(l, n)
    PROVE  Len(l) = n /\ n \in Nat \ {0} /\ DOMAIN l = 1..n /\ l \in Seq({l[i] : i \in 1..n})
<1>1. n \in Nat /\ l \in [1..n -> {l[i] : i \in 1..n}]
    BY DEF IsList
<1>2. n \in Nat \ {0}
    BY DEF IsList
<1> QED BY <1>1, <1>2

LEMMA LenOf ==
    ASSUME NEW S, NEW n \in Nat, NEW l \in [1..n -> S]
    PROVE  Len(l) = n
OBVIOUS

LEMMA MakesList ==
    ASSUME NEW S, NEW l \in Seq(S), l # <<>>
    PROVE  IsList(l, Len(l))
BY DEF IsList

LEMMA Halved ==
    ASSUME NEW n \in Nat, n > 1
    PROVE  /\ (n + 1) \div 2 \in 1..(n - 1)
           /\ \A i \in 0..(n - 1) :
                 /\ i \div 2 \in 0..(((n + 1) \div 2) - 1)
                 /\ i % 2 = 0 => 2 * ((i \div 2) + 1) = i + 2
                 /\ i % 2 # 0 => 2 * ((i \div 2) + 1) = i + 1
OBVIOUS

LEMMA PaddedIs ==
    ASSUME NEW l, NEW n, IsList(l, n)
    PROVE  /\ IsList(Padded(l), 2 * ((n + 1) \div 2))
           /\ \A i \in 1..n : Padded(l)[i] = l[i]
           /\ n % 2 = 1 => Padded(l)[n + 1] = l[n]
<1> DEFINE S == {l[i] : i \in 1..n}
<1>1. l \in Seq(S) /\ Len(l) = n /\ n \in Nat \ {0}
    BY ListIs
<1>2. l[n] \in S
    BY <1>1
<1> HIDE DEF S
<1>3. CASE n % 2 = 1
    <2>1. Padded(l) = Append(l, l[n])
        BY <1>1, <1>3 DEF Padded
    <2>2. /\ Append(l, l[n]) \in Seq(S) /\ Len(Append(l, l[n])) = n + 1
          /\ \A i \in 1..n : Append(l, l[n])[i] = l[i]
          /\ Append(l, l[n])[n + 1] = l[n]
        BY <1>1, <1>2
    <2>3. n + 1 = 2 * ((n + 1) \div 2)
        BY <1>1, <1>3
    <2>4. Append(l, l[n]) # <<>>
        BY <1>1, <2>2
    <2> QED BY <2>1, <2>2, <2>3, <2>4, MakesList
<1>4. CASE n % 2 # 1
    <2>1. Padded(l) = l
        BY <1>1, <1>4 DEF Padded
    <2>2. n = 2 * ((n + 1) \div 2)
        BY <1>1, <1>4
    <2> QED BY <1>4, <2>1, <2>2
<1> QED BY <1>3, <1>4

\* The node of l above its index i.
LEMMA ParentsAre ==
    ASSUME NEW l, NEW n, IsList(l, n), n > 1
    PROVE  /\ (n + 1) \div 2 \in 1..(n - 1)
           /\ IsList(Parents(l), (n + 1) \div 2)
           /\ \A i \in 0..(n - 1) :
                 /\ i \div 2 \in 0..(((n + 1) \div 2) - 1)
                 /\ Parents(l)[(i \div 2) + 1] =
                       IF i % 2 = 0 THEN Node(l[i + 1], Padded(l)[i + 2])
                       ELSE Node(Padded(l)[i], l[i + 1])
<1> DEFINE m == (n + 1) \div 2
           p == Padded(l)
<1>1. n \in Nat /\ Len(l) = n
    BY ListIs
<1>2. m \in 1..(n - 1)
    BY <1>1, Halved
<1>3. IsList(p, 2 * m) /\ \A i \in 1..n : p[i] = l[i]
    BY PaddedIs
<1>4. Len(p) = 2 * m
    BY <1>3, ListIs
<1>5. m \in Nat \ {0} /\ (2 * m) \div 2 = m
    <2> HIDE DEF m
    <2> QED BY <1>1, <1>2
<1>6. Parents(l) = [i \in 1..m |-> Node(p[2 * i - 1], p[2 * i])]
    BY <1>1, <1>4, <1>5 DEF Parents
<1>7. IsList(Parents(l), m)
    <2> HIDE DEF m, p
    <2> QED BY <1>5, <1>6 DEF IsList
<1>8. ASSUME NEW i \in 0..(n - 1)
      PROVE  /\ i \div 2 \in 0..(m - 1)
             /\ Parents(l)[(i \div 2) + 1] =
                   IF i % 2 = 0 THEN Node(l[i + 1], p[i + 2]) ELSE Node(p[i], l[i + 1])
    <2> DEFINE j == (i \div 2) + 1
    <2>1. /\ i \div 2 \in 0..(m - 1)
          /\ i % 2 = 0 => 2 * j = i + 2
          /\ i % 2 # 0 => 2 * j = i + 1
        BY <1>1, Halved
    <2>2. j \in 1..m
        <3> HIDE DEF m
        <3> QED BY <1>5, <2>1
    <2> HIDE DEF m, p, j
    <2>3. Parents(l)[j] = Node(p[2 * j - 1], p[2 * j])
        BY <1>6, <2>2
    <2>4. i + 1 \in 1..n
        BY <1>1
    <2>5. p[i + 1] = l[i + 1]
        BY <1>3, <2>4
    <2>6. CASE i % 2 = 0
        <3>1. 2 * j = i + 2 /\ (i + 2) - 1 = i + 1
            BY <2>1, <2>6
        <3> QED BY <2>1, <2>3, <2>5, <2>6, <3>1 DEF j
    <2>7. CASE i % 2 # 0
        <3>1. 2 * j = i + 1 /\ (i + 1) - 1 = i
            BY <2>1, <2>7
        <3> QED BY <2>1, <2>3, <2>5, <2>7, <3>1 DEF j
    <2> QED BY <2>6, <2>7
<1> QED BY <1>2, <1>7, <1>8

\* Every level is a list, and shorter than the one below until it has one node.
LEMMA WidthsAre ==
    ASSUME NEW items, NEW n, IsList(items, n)
    PROVE  \A k \in 0..n : \E m \in Nat : /\ IsList(Levels(items)[k], m)
                                          /\ m = 1 \/ m <= n - k
<1> DEFINE L == Levels(items)
           Wide(k) == \E m \in Nat : IsList(L[k], m) /\ (m = 1 \/ m <= n - k)
           T == {k \in Nat : k <= n => Wide(k)}
<1>1. n \in Nat \ {0} /\ Len(items) = n
    BY ListIs
<1>2. L[0] = [i \in 1..n |-> Leaf(items[i])] /\ \A k \in 1..n : L[k] = Parents(L[k - 1])
    BY <1>1, LevelsAre
<1> HIDE DEF L
<1>3. 0 \in T
    <2>1. IsList(L[0], n) /\ n <= n - 0
        BY <1>1, <1>2 DEF IsList
    <2> QED BY <1>1, <2>1
<1>4. ASSUME NEW k \in Nat, k \in T PROVE k + 1 \in T
    <2> SUFFICES ASSUME k + 1 <= n PROVE Wide(k + 1)
        OBVIOUS
    <2>1. PICK m \in Nat : IsList(L[k], m) /\ (m = 1 \/ m <= n - k)
        BY <1>1, <1>4
    <2>2. L[k + 1] = Parents(L[k])
        <3>1. k + 1 \in 1..n /\ (k + 1) - 1 = k
            BY <1>1
        <3> QED BY <1>2, <3>1
    <2>3. m \in Nat \ {0} /\ Len(L[k]) = m
        BY <2>1, ListIs
    <2>4. CASE m = 1
        <3>1. Parents(L[k]) = L[k]
            BY <2>3, <2>4 DEF Parents
        <3> QED BY <2>1, <2>2, <2>4, <3>1
    <2>5. CASE m # 1
        <3>1. (m + 1) \div 2 \in 1..(m - 1) /\ IsList(Parents(L[k]), (m + 1) \div 2)
            <4>1. m > 1
                BY <2>3, <2>5
            <4> QED BY <2>1, <4>1, ParentsAre, Zenon
        <3>2. PICK j \in Nat : j = (m + 1) \div 2 /\ j <= m - 1
            BY <2>3, <3>1
        <3>3. m - 1 <= n - (k + 1)
            BY <1>1, <2>1, <2>3, <2>5
        <3>4. j <= n - (k + 1)
            BY <1>1, <2>3, <3>2, <3>3
        <3> QED BY <2>2, <3>1, <3>2, <3>4
    <2> QED BY <2>4, <2>5
<1>5. \A k \in Nat : k \in T
    <2> HIDE DEF T
    <2> QED BY <1>3, <1>4, NatInd
<1>6. ASSUME NEW k \in 0..n PROVE Wide(k)
    BY <1>1, <1>5
<1> QED BY <1>6 DEF L

LEMMA HeightIs ==
    ASSUME NEW items, NEW n, IsList(items, n)
    PROVE  /\ Height(items) \in 0..n
           /\ Len(Levels(items)[Height(items)]) = 1
           /\ \A k \in 0..(Height(items) - 1) : Len(Levels(items)[k]) > 1
<1> DEFINE L == Levels(items)
           Fits(h) == Len(L[h]) = 1 /\ \A k \in 0..(h - 1) : Len(L[k]) > 1
           S == {h \in 0..n : Len(L[h]) = 1}
<1>1. n \in Nat \ {0} /\ Len(items) = n
    BY ListIs
<1>2. \A k \in 0..n : \E m \in Nat : IsList(L[k], m) /\ (m = 1 \/ m <= n - k)
    BY WidthsAre
<1> HIDE DEF L
<1>3. \A k \in 0..n : Len(L[k]) \in Nat \ {0} /\ (Len(L[k]) = 1 \/ Len(L[k]) <= n - k)
    BY <1>2, ListIs
<1>4. n \in S
    BY <1>1, <1>3
<1>5. PICK h \in S : \A k \in S : h <= k
    <2>1. S \subseteq Nat
        BY <1>1
    <2> HIDE DEF S
    <2> QED BY <1>4, <2>1, LeastNat
<1>6. h \in 0..n /\ Fits(h)
    <2>1. ASSUME NEW k \in 0..(h - 1) PROVE Len(L[k]) > 1
        <3>1. k \in 0..n /\ ~(h <= k)
            BY <1>1, <1>5
        <3>2. k \notin S
            BY <1>5, <3>1
        <3>3. Len(L[k]) \in Nat \ {0} /\ Len(L[k]) # 1
            BY <1>3, <3>1, <3>2, Zenon
        <3>4. \A x \in Nat \ {0} : x # 1 => x > 1
            OBVIOUS
        <3> QED BY <3>3, <3>4, Zenon
    <2> QED BY <1>5, <2>1
<1>7. Height(items) = CHOOSE x \in 0..n : Fits(x)
    BY <1>1 DEF Height, L
<1>8. Height(items) \in 0..n /\ Fits(Height(items))
    <2> HIDE DEF Fits
    <2> QED BY <1>6, <1>7, Zenon
<1> QED BY <1>8 DEF L

\* The root is the only node of the level at the height of the tree.
LEMMA RootIs ==
    ASSUME NEW items, NEW n, IsList(items, n)
    PROVE  Root(items) = Levels(items)[Height(items)][1]
<1> DEFINE L == Levels(items)
           h == Height(items)
           T == {k \in Nat : h + k <= n => L[h + k] = L[h]}
<1>1. n \in Nat \ {0} /\ Len(items) = n
    BY ListIs
<1>2. \A k \in 1..n : L[k] = Parents(L[k - 1])
    BY <1>1, LevelsAre
<1>3. h \in 0..n /\ Len(L[h]) = 1
    BY HeightIs
<1> HIDE DEF L, h
<1>4. 0 \in T
    BY <1>3
<1>5. ASSUME NEW k \in Nat, k \in T PROVE k + 1 \in T
    <2> SUFFICES ASSUME h + (k + 1) <= n PROVE L[h + (k + 1)] = L[h]
        OBVIOUS
    <2>1. h + (k + 1) \in 1..n /\ (h + (k + 1)) - 1 = h + k /\ h + k <= n
        BY <1>1, <1>3
    <2>2. L[h + (k + 1)] = Parents(L[h + k])
        BY <1>2, <2>1
    <2>3. L[h + k] = L[h]
        BY <1>5, <2>1
    <2> QED BY <1>3, <2>2, <2>3 DEF Parents
<1>6. \A k \in Nat : k \in T
    <2> HIDE DEF T
    <2> QED BY <1>4, <1>5, NatInd
<1>7. L[n] = L[h]
    <2>1. n - h \in Nat /\ h + (n - h) = n /\ h + (n - h) <= n
        BY <1>1, <1>3
    <2>2. L[h + (n - h)] = L[h]
        BY <1>6, <2>1
    <2> QED BY <2>1, <2>2
<1> QED BY <1>1, <1>7 DEF Root, L, h

\* Below the root a level is the parents of the level before, which has two nodes or more.
LEMMA LevelAbove ==
    ASSUME NEW items, NEW n, IsList(items, n), NEW k \in Nat, k < Height(items)
    PROVE  \E m \in Nat :
              /\ m > 1 /\ IsList(Levels(items)[k], m)
              /\ Levels(items)[k + 1] = Parents(Levels(items)[k])
<1>1. n \in Nat \ {0} /\ Len(items) = n
    BY ListIs
<1>2. Height(items) \in 0..n /\ k \in 0..(Height(items) - 1)
    BY <1>1, HeightIs
<1>3. k \in 0..n /\ k + 1 \in 1..n /\ (k + 1) - 1 = k
    BY <1>1, <1>2
<1>4. PICK m \in Nat : IsList(Levels(items)[k], m)
    BY <1>3, WidthsAre
<1>5. m > 1
    <2>1. Len(Levels(items)[k]) > 1 /\ Len(Levels(items)[k]) = m
        BY <1>2, <1>4, HeightIs, ListIs
    <2> QED BY <2>1
<1>6. Levels(items)[k + 1] = Parents(Levels(items)[k])
    <2>1. \A j \in 1..n : Levels(items)[j] = Parents(Levels(items)[j - 1])
        BY <1>1, LevelsAre
    <2> QED BY <1>3, <2>1
<1> QED BY <1>4, <1>5, <1>6

-----------------------------------------------------------------------------
(* The proofs of a tree *)

\* Hashing upwards from a leaf with the siblings on its way gives the nodes above it.
LEMMA HashesAreNodes ==
    ASSUME NEW items, NEW n, IsList(items, n), NEW leaf \in 0..(n - 1),
           NEW at, at = Ancestors(leaf, Height(items)),
           NEW proof, proof = [k \in 1..Height(items) |-> Sibling(Levels(items)[k - 1], at[k - 1])]
    PROVE  /\ Len(proof) = Height(items)
           /\ HashesUp(items[leaf + 1], proof)[Height(items)] = Root(items)
<1> DEFINE L  == Levels(items)
           h  == Height(items)
           up == HashesUp(items[leaf + 1], proof)
           On(k) == \E m \in Nat : /\ IsList(L[k], m) /\ at[k] \in 0..(m - 1)
                                   /\ up[k] = L[k][at[k] + 1]
           T == {k \in Nat : k <= h => On(k)}
<1>1. n \in Nat \ {0} /\ Len(items) = n
    BY ListIs
<1>2. h \in 0..n /\ Len(L[h]) = 1
    BY HeightIs
<1>3. Len(proof) = h
    <2> DEFINE S == {Sibling(L[k - 1], at[k - 1]) : k \in 1..h}
    <2>1. h \in Nat /\ proof \in [1..h -> S]
        BY <1>1, <1>2
    <2> HIDE DEF S, h
    <2> QED BY <2>1, LenOf, Zenon
<1>4. at[0] = leaf /\ \A k \in 1..h : at[k] = at[k - 1] \div 2
    BY <1>1, <1>2, AncestorsAre
<1>5. /\ up[0] = Leaf(items[leaf + 1])
      /\ \A k \in 1..h : up[k] = IF proof[k].position = "right"
                                 THEN Node(up[k - 1], proof[k].hash)
                                 ELSE Node(proof[k].hash, up[k - 1])
    BY <1>1, <1>2, <1>3, HashesAre
<1>6. L[0] = [i \in 1..n |-> Leaf(items[i])]
    BY <1>1, LevelsAre
<1>7. \A k \in Nat : k < h => \E m \in Nat : m > 1 /\ IsList(L[k], m) /\ L[k + 1] = Parents(L[k])
    BY LevelAbove
<1>8. \A k \in 1..h : proof[k] = Sibling(L[k - 1], at[k - 1])
    OBVIOUS
<1>9. Root(items) = L[h][1]
    BY RootIs
<1> HIDE DEF L, h, up
<1>10. 0 \in T
    <2>1. IsList(L[0], n)
        BY <1>1, <1>6 DEF IsList
    <2>2. leaf + 1 \in 1..n
        BY <1>1
    <2>3. up[0] = L[0][at[0] + 1]
        BY <1>4, <1>5, <1>6, <2>2
    <2> QED BY <1>1, <1>4, <2>1, <2>3
<1>11. ASSUME NEW k \in Nat, k \in T PROVE k + 1 \in T
    <2> SUFFICES ASSUME k + 1 <= h PROVE On(k + 1)
        OBVIOUS
    <2>1. k + 1 \in 1..h /\ (k + 1) - 1 = k /\ k < h /\ k <= h /\ h \in Nat
        BY <1>1, <1>2
    <2>2. PICK q \in Nat : IsList(L[k], q) /\ at[k] \in 0..(q - 1) /\ up[k] = L[k][at[k] + 1]
        BY <1>11, <2>1
    <2>3. PICK m \in Nat : m > 1 /\ IsList(L[k], m) /\ L[k + 1] = Parents(L[k])
        BY <1>7, <2>1
    <2>4. q = m
        <3>1. Len(L[k]) = q
            BY <2>2, ListIs, Zenon
        <3>2. Len(L[k]) = m
            BY <2>3, ListIs, Zenon
        <3> QED BY <3>1, <3>2
    <2> DEFINE i == at[k]
    <2>5. i \in 0..(m - 1) /\ i \in Nat /\ up[k] = L[k][i + 1]
        BY <2>2, <2>4
    <2>6. at[k + 1] = i \div 2
        BY <1>4, <2>1
    <2>7. proof[k + 1] = Sibling(L[k], i)
        BY <1>8, <2>1
    <2>8. up[k + 1] = IF proof[k + 1].position = "right"
                      THEN Node(up[k], proof[k + 1].hash) ELSE Node(proof[k + 1].hash, up[k])
        BY <1>5, <2>1
    <2> HIDE DEF i
    <2>9. up[k + 1] = IF i % 2 = 0 THEN Node(L[k][i + 1], Padded(L[k])[i + 2])
                      ELSE Node(Padded(L[k])[i], L[k][i + 1])
        <3>1. proof[k + 1].position = (IF i % 2 = 0 THEN "right" ELSE "left")
            BY <2>7 DEF Sibling
        <3>2. proof[k + 1].hash = IF i % 2 = 0 THEN Padded(L[k])[i + 2] ELSE Padded(L[k])[i]
            BY <2>7 DEF Sibling
        <3>3. CASE i % 2 = 0
            <4>1. proof[k + 1].position = "right" /\ proof[k + 1].hash = Padded(L[k])[i + 2]
                BY <3>1, <3>2, <3>3, Zenon
            <4> QED BY <2>5, <2>8, <3>3, <4>1, Zenon
        <3>4. CASE i % 2 # 0
            <4>1. proof[k + 1].position # "right" /\ proof[k + 1].hash = Padded(L[k])[i]
                BY <3>1, <3>2, <3>4
            <4> QED BY <2>5, <2>8, <3>4, <4>1, Zenon
        <3> QED BY <3>3, <3>4, Zenon
    <2>10. /\ IsList(Parents(L[k]), (m + 1) \div 2)
           /\ i \div 2 \in 0..(((m + 1) \div 2) - 1)
           /\ Parents(L[k])[(i \div 2) + 1] =
                 IF i % 2 = 0 THEN Node(L[k][i + 1], Padded(L[k])[i + 2])
                 ELSE Node(Padded(L[k])[i], L[k][i + 1])
        BY <2>3, <2>5, ParentsAre, Zenon
    <2>11. (m + 1) \div 2 \in Nat
        BY <2>10 DEF IsList
    <2> QED BY <2>3, <2>6, <2>9, <2>10, <2>11, Zenon
<1>12. \A k \in Nat : k \in T
    <2> HIDE DEF T
    <2> QED BY <1>10, <1>11, NatInd
<1>13. PICK m \in Nat : IsList(L[h], m) /\ at[h] \in 0..(m - 1) /\ up[h] = L[h][at[h] + 1]
    <2>1. h \in Nat /\ h <= h
        BY <1>1, <1>2
    <2> QED BY <1>12, <2>1
<1>14. at[h] + 1 = 1
    <2>1. m = 1
        BY <1>2, <1>13, ListIs
    <2> QED BY <1>13, <2>1
<1> QED BY <1>3, <1>9, <1>13, <1>14 DEF h, up

\* The answer for an item of the list is a proof that verifies.
LEMMA ProofVerifies ==
    ASSUME NEW items, NEW n, IsList(items, n), NEW item, Contains(items, item)
    PROVE  /\ Len(GetProof(items, item)) \in Nat
           /\ VerifyProof(item, GetProof(items, item), Root(items))
<1> DEFINE Is(i) == items[i] = item /\ \A j \in 1..(i - 1) : items[j] # item
           S == {i \in DOMAIN items : items[i] = item}
           first == CHOOSE i \in DOMAIN items : Is(i)
           at == Ancestors(first - 1, Height(items))
           proof == [k \in 1..Height(items) |-> Sibling(Levels(items)[k - 1], at[k - 1])]
<1>1. n \in Nat \ {0} /\ DOMAIN items = 1..n
    BY ListIs
<1>2. \E i \in DOMAIN items : Is(i)
    <2>1. S \subseteq Nat /\ S # {}
        BY <1>1 DEF Contains
    <2>2. PICK i \in S : \A j \in S : i <= j
        <3> HIDE DEF S
        <3> QED BY <2>1, LeastNat
    <2>3. ASSUME NEW j \in 1..(i - 1) PROVE items[j] # item
        <3>1. j \in DOMAIN items /\ ~(i <= j)
            BY <1>1, <2>2
        <3> QED BY <2>2, <3>1
    <2> QED BY <2>2, <2>3
<1>3. first \in DOMAIN items /\ items[first] = item
    <2>1. first \in DOMAIN items /\ Is(first)
        <3> HIDE DEF Is
        <3> QED BY <1>2, Zenon
    <2> QED BY <2>1
<1>4. GetProof(items, item) = proof
    BY DEF GetProof
<1> HIDE DEF first
<1>5. first - 1 \in 0..(n - 1) /\ (first - 1) + 1 = first
    BY <1>1, <1>3
<1>6. /\ Len(proof) = Height(items)
      /\ HashesUp(items[(first - 1) + 1], proof)[Height(items)] = Root(items)
    BY <1>5, HashesAreNodes
<1>7. Height(items) \in Nat
    BY <1>1, HeightIs
<1> HIDE DEF proof
<1> QED BY <1>3, <1>4, <1>5, <1>6, <1>7 DEF VerifyProof

LEMMA HashesInjective ==
    /\ \A x, y : Leaf(x) = Leaf(y) => x = y
    /\ \A a, b, c, d : Node(a, b) = Node(c, d) => a = c /\ b = d
    /\ \A x, a, b : Leaf(x) # Node(a, b)
BY DEF Leaf, Node

\* A proof proves one item at most.
LEMMA ProofProvesOne ==
    ASSUME NEW x, NEW y, NEW proof, NEW root, Len(proof) \in Nat,
           VerifyProof(x, proof, root), VerifyProof(y, proof, root)
    PROVE  x = y
<1> DEFINE n == Len(proof)
           f == HashesUp(x, proof)
           g == HashesUp(y, proof)
           T == {k \in Nat : k <= n => f[n - k] = g[n - k]}
<1>1. n \in Nat /\ f[n] = g[n]
    BY DEF VerifyProof
<1>2. /\ f[0] = Leaf(x) /\ g[0] = Leaf(y)
      /\ \A k \in 1..n : f[k] = IF proof[k].position = "right"
                                THEN Node(f[k - 1], proof[k].hash) ELSE Node(proof[k].hash, f[k - 1])
      /\ \A k \in 1..n : g[k] = IF proof[k].position = "right"
                                THEN Node(g[k - 1], proof[k].hash) ELSE Node(proof[k].hash, g[k - 1])
    BY HashesAre
<1> HIDE DEF n, f, g
<1>3. 0 \in T
    <2>1. n - 0 = n
        BY <1>1
    <2> QED BY <1>1, <2>1
<1>4. ASSUME NEW k \in Nat, k \in T PROVE k + 1 \in T
    <2> SUFFICES ASSUME k + 1 <= n PROVE f[n - (k + 1)] = g[n - (k + 1)]
        OBVIOUS
    <2> DEFINE j == n - k
    <2>1. j \in 1..n /\ n - (k + 1) = j - 1 /\ k <= n
        BY <1>1
    <2>2. f[j] = g[j]
        BY <1>4, <2>1
    <2> HIDE DEF j
    <2> QED BY <1>2, <2>1, <2>2, HashesInjective
<1>5. \A k \in Nat : k \in T
    <2> HIDE DEF T
    <2> QED BY <1>3, <1>4, NatInd
<1>6. f[n - n] = g[n - n] /\ n - n = 0
    <2>1. n <= n /\ n - n = 0
        BY <1>1
    <2>2. n \in T
        <3> HIDE DEF T
        <3> QED BY <1>1, <1>5
    <2> QED BY <2>1, <2>2
<1> QED BY <1>2, <1>6, HashesInjective

-----------------------------------------------------------------------------
(* Equal roots *)

\* The first node of a level is the left child of the first node of the next.
LEMMA FirstNodes ==
    ASSUME NEW items, NEW n, IsList(items, n)
    PROVE  /\ Height(items) \in Nat
           /\ Levels(items)[0][1] = Leaf(items[1])
           /\ \A k \in Nat : k < Height(items) =>
                 \E r : Levels(items)[k + 1][1] = Node(Levels(items)[k][1], r)
<1>1. n \in Nat \ {0} /\ Len(items) = n
    BY ListIs
<1>2. Levels(items)[0] = [i \in 1..n |-> Leaf(items[i])]
    BY <1>1, LevelsAre
<1>3. Levels(items)[0][1] = Leaf(items[1])
    BY <1>1, <1>2
<1>4. ASSUME NEW k \in Nat, k < Height(items)
      PROVE  \E r : Levels(items)[k + 1][1] = Node(Levels(items)[k][1], r)
    <2>1. PICK m \in Nat : /\ m > 1 /\ IsList(Levels(items)[k], m)
                           /\ Levels(items)[k + 1] = Parents(Levels(items)[k])
        BY <1>4, LevelAbove
    <2> DEFINE l == Levels(items)[k]
    <2> HIDE DEF l
    <2>2. 0 \in 0..(m - 1) /\ 0 \div 2 = 0 /\ 0 % 2 = 0 /\ 0 + 1 = 1
        BY <2>1
    <2>3. Parents(l)[(0 \div 2) + 1] = IF 0 % 2 = 0 THEN Node(l[0 + 1], Padded(l)[0 + 2])
                                       ELSE Node(Padded(l)[0], l[0 + 1])
        BY <2>1, <2>2, ParentsAre, Zenon DEF l
    <2>4. Parents(l)[1] = Node(l[1], Padded(l)[0 + 2])
        BY <2>2, <2>3, Zenon
    <2> QED BY <2>1, <2>4 DEF l
<1>5. Height(items) \in Nat
    BY <1>1, HeightIs
<1> QED BY <1>3, <1>4, <1>5

LEMMA RootsDescend ==
    ASSUME NEW s, NEW n, IsList(s, n), NEW t, NEW m, IsList(t, m),
           Height(s) <= Height(t), Root(s) = Root(t)
    PROVE  s[1] = t[1]
<1> DEFINE a == Height(s)
           b == Height(t)
           P == Levels(s)
           Q == Levels(t)
           T == {k \in Nat : k <= a => P[a - k][1] = Q[b - k][1]}
<1>1. a \in Nat /\ b \in Nat /\ a <= b
    BY FirstNodes
<1>2. /\ P[0][1] = Leaf(s[1]) /\ Q[0][1] = Leaf(t[1])
      /\ \A k \in Nat : k < a => \E r : P[k + 1][1] = Node(P[k][1], r)
      /\ \A k \in Nat : k < b => \E r : Q[k + 1][1] = Node(Q[k][1], r)
    BY FirstNodes
<1>3. P[a][1] = Q[b][1]
    BY RootIs
<1> HIDE DEF a, b, P, Q
<1>4. 0 \in T
    <2>1. a - 0 = a /\ b - 0 = b
        BY <1>1
    <2> QED BY <1>3, <2>1
<1>5. ASSUME NEW k \in Nat, k \in T PROVE k + 1 \in T
    <2> SUFFICES ASSUME k + 1 <= a PROVE P[a - (k + 1)][1] = Q[b - (k + 1)][1]
        OBVIOUS
    <2> DEFINE i == a - (k + 1)
               j == b - (k + 1)
    <2>1. /\ i \in Nat /\ i < a /\ i + 1 = a - k /\ j \in Nat /\ j < b /\ j + 1 = b - k
          /\ k <= a
        BY <1>1
    <2>2. P[a - k][1] = Q[b - k][1]
        BY <1>5, <2>1
    <2> HIDE DEF i, j
    <2>3. PICK x : P[i + 1][1] = Node(P[i][1], x)
        BY <1>2, <2>1
    <2>4. PICK y : Q[j + 1][1] = Node(Q[j][1], y)
        BY <1>2, <2>1
    <2>5. P[i][1] = Q[j][1]
        BY <2>1, <2>2, <2>3, <2>4, HashesInjective
    <2> QED BY <2>5 DEF i, j
<1>6. \A k \in Nat : k \in T
    <2> HIDE DEF T
    <2> QED BY <1>4, <1>5, NatInd
<1>7. P[0][1] = Q[b - a][1]
    <2>1. a <= a /\ a - a = 0
        BY <1>1
    <2>2. a \in T
        <3> HIDE DEF T
        <3> QED BY <1>1, <1>6
    <2> QED BY <2>1, <2>2
<1>8. CASE b = a
    <2>1. b - a = 0
        BY <1>1, <1>8
    <2>2. Leaf(s[1]) = Leaf(t[1])
        BY <1>2, <1>7, <2>1
    <2> QED BY <2>2, HashesInjective, Zenon
<1>9. CASE b # a
    <2> DEFINE k == (b - a) - 1
    <2>1. k \in Nat /\ k < b /\ k + 1 = b - a
        BY <1>1, <1>9
    <2> HIDE DEF k
    <2>2. PICK r : Q[k + 1][1] = Node(Q[k][1], r)
        BY <1>2, <2>1
    <2>3. Leaf(s[1]) = Node(Q[k][1], r)
        BY <1>2, <1>7, <2>1, <2>2
    <2> QED BY <2>3, HashesInjective
<1> QED BY <1>8, <1>9

\* Two lists with the same root have the same first item.
LEMMA RootsAgree ==
    ASSUME NEW s, NEW n, IsList(s, n), NEW t, NEW m, IsList(t, m), Root(s) = Root(t)
    PROVE  s[1] = t[1]
<1>1. Height(s) \in Nat /\ Height(t) \in Nat
    BY FirstNodes
<1>2. CASE Height(s) <= Height(t)
    BY <1>2, RootsDescend
<1>3. CASE Height(t) <= Height(s)
    <2>1. t[1] = s[1]
        BY <1>3, RootsDescend
    <2> QED BY <2>1
<1> QED BY <1>1, <1>2, <1>3

\* Of every list of items, of any length and with repetitions, a proof that get_proof() makes
\* verifies for its item and for no other, and an item that is not in the list has no proof
\* that verifies (merkle.py:127, merkle.py:176).
THEOREM MerkleProvesExactly ==
    ASSUME NEW items, NEW n, IsList(items, n), NEW all
    PROVE  ProvesExactly(items, all)
<1>1. n \in Nat \ {0} /\ DOMAIN items = 1..n
    BY ListIs
<1>2. ASSUME NEW item, ~Contains(items, item)
      PROVE  ~VerifyProof(item, GetProof(items, item), Root(items))
    <2> DEFINE h == Height(items)
               L == Levels(items)
    <2>1. h \in Nat /\ L[0][1] = Leaf(items[1])
          /\ \A k \in Nat : k < h => \E r : L[k + 1][1] = Node(L[k][1], r)
        BY FirstNodes
    <2>2. Root(items) = L[h][1]
        BY RootIs
    <2> HIDE DEF h, L
    <2>3. item # items[1]
        BY <1>1, <1>2 DEF Contains
    <2>4. Leaf(item) # Root(items)
        <3>1. CASE h = 0
            <4>1. Root(items) = Leaf(items[1])
                BY <2>1, <2>2, <3>1
            <4> QED BY <2>3, <4>1, HashesInjective, Zenon
        <3>2. CASE h # 0
            <4>1. h - 1 \in Nat /\ h - 1 < h /\ (h - 1) + 1 = h
                BY <2>1, <3>2
            <4>2. PICK r : L[(h - 1) + 1][1] = Node(L[h - 1][1], r)
                BY <2>1, <4>1
            <4>3. Root(items) = Node(L[h - 1][1], r)
                BY <2>2, <4>1, <4>2
            <4>4. Leaf(item) # Node(L[h - 1][1], r)
                BY HashesInjective
            <4> QED BY <4>3, <4>4
        <3> QED BY <3>1, <3>2
    <2>5. GetProof(items, item) = <<>> /\ Len(<<>>) = 0
        BY <1>2 DEF GetProof
    <2>6. HashesUp(item, <<>>)[0] = Leaf(item)
        BY <2>5, HashesAre
    <2> QED BY <2>4, <2>5, <2>6 DEF VerifyProof
<1>3. ASSUME NEW item, Contains(items, item)
      PROVE  /\ VerifyProof(item, GetProof(items, item), Root(items))
             /\ \A x : VerifyProof(x, GetProof(items, item), Root(items)) => x = item
    BY <1>3, ProofVerifies, ProofProvesOne
<1>4. \A i \in DOMAIN items : Contains(items, items[i])
    BY DEF Contains
<1> QED BY <1>2, <1>3, <1>4 DEF ProvesExactly

-----------------------------------------------------------------------------
(* No event is in two mined blocks *)

\* An event is in one mined block or in one buffer at most, whatever copies of the block
\* there are.
OnceMinted ==
    /\ \A b \in minted : Elems(b.events) \subseteq recorded
    /\ \A w \in Workers : Elems(pending[w]) \subseteq recorded
    /\ \A v, w \in Workers : v # w => Elems(pending[v]) \cap Elems(pending[w]) = {}
    /\ \A w \in Workers, b \in minted : Elems(b.events) \cap Elems(pending[w]) = {}
    /\ \A b, d \in minted : b # d => Elems(b.events) \cap Elems(d.events) = {}

\* What a step of w does to the events: those in new are recorded now.
Moves(w, new) ==
    /\ new \cap recorded = {} /\ recorded' = recorded \cup new
    /\ \A v \in Workers \ {w} : pending'[v] = pending[v]
    /\ Elems(pending'[w]) \subseteq Elems(pending[w]) \cup new

\* The block w has mined has the events that were in its buffer.
MovesInto(w, new) ==
    /\ pending'[w] = <<>>
    /\ Elems(Last(w)'.events) \subseteq Elems(pending[w]) \cup new

LEMMA MineMoves ==
    ASSUME Loose, NEW w \in Workers, NEW es \in Seq(Events), NEW op, Mine(w, es, op)
    PROVE  /\ pending'[w] = <<>> /\ \A v \in Workers \ {w} : pending'[v] = pending[v]
           /\ Last(w)'.events = es
<1> DEFINE b == NewBlock(chain[w], es)
<1>1. chain[w] \in Seq(Stored)
    BY DEF Loose
<1>2. chain'[w] = Append(chain[w], b) /\ b.events = es
    BY DEF Mine, Loose, NewBlock
<1> HIDE DEF b
<1>3. Last(w)' = b
    <2>1. \A S : \A c \in Seq(S) : Append(c, b)[Len(Append(c, b))] = b
        OBVIOUS
    <2> QED BY <1>1, <1>2, <2>1 DEF Last
<1> QED BY <1>2, <1>3 DEF Mine, Loose

LEMMA EventSteps ==
    ASSUME Loose, NEW w \in Workers, Action(w)
    PROVE  \E new \in SUBSET Events : Moves(w, new) /\ (Mints(w) => MovesInto(w, new))
<1>0. Elems(<<>>) = {}
    BY EventsInEmpty
<1>1. ASSUME recorded' = recorded, ~Mints(w),
             \/ pending' = pending
             \/ pending' = [pending EXCEPT ![w] = <<>>]
      PROVE  \E new \in SUBSET Events : Moves(w, new) /\ (Mints(w) => MovesInto(w, new))
    <2>1. Moves(w, {})
        BY <1>0, <1>1 DEF Moves, Loose
    <2> QED BY <1>1, <2>1
<1>2. ASSUME NEW op, Mine(w, pending[w], op), recorded' = recorded
      PROVE  \E new \in SUBSET Events : Moves(w, new) /\ (Mints(w) => MovesInto(w, new))
    <2>1. pending[w] \in Seq(Events)
        BY DEF Loose
    <2>2. Moves(w, {}) /\ MovesInto(w, {})
        BY <1>0, <1>2, <2>1, MineMoves DEF Moves, MovesInto
    <2> QED BY <2>2
<1>3. CASE StartFresh(w)
    <2>1. Last(w)'.events = <<>>
        <3>1. chain'[w] = <<Genesis>>
            BY <1>3 DEF StartFresh, StartWith, Loose
        <3> QED BY <3>1 DEF Last, Genesis
    <2>2. recorded' = recorded /\ pending' = [pending EXCEPT ![w] = <<>>]
        BY <1>3 DEF StartFresh, StartWith
    <2>3. Moves(w, {}) /\ MovesInto(w, {})
        BY <1>0, <2>1, <2>2 DEF Moves, MovesInto, Loose
    <2> QED BY <2>3
<1>4. CASE \E e \in Events : Record(w, e)
    <2>1. PICK e \in Events : Record(w, e)
        BY <1>4
    <2> DEFINE buffer == Append(pending[w], e)
    <2>2. pending[w] \in Seq(Events) /\ buffer \in Seq(Events)
        BY DEF Loose
    <2>3. Elems(buffer) = Elems(pending[w]) \cup {e}
        BY <2>2, ElemsAppend
    <2>4. {e} \cap recorded = {} /\ recorded' = recorded \cup {e}
        BY <2>1 DEF Record
    <2>5. CASE FlushDue(buffer)
        <3>1. Mine(w, buffer, "record")
            BY <2>1, <2>5 DEF Record
        <3>2. Moves(w, {e}) /\ MovesInto(w, {e})
            BY <1>0, <2>2, <2>3, <2>4, <3>1, MineMoves DEF Moves, MovesInto
        <3> QED BY <3>2
    <2>6. CASE ~FlushDue(buffer)
        <3>1. pending' = [pending EXCEPT ![w] = buffer] /\ mined' = mined
            BY <2>1, <2>6 DEF Record
        <3>2. Moves(w, {e})
            BY <2>3, <2>4, <3>1 DEF Moves, Loose
        <3>3. ~Mints(w)
            BY <3>1 DEF Mints, Loose
        <3> QED BY <3>2, <3>3
    <2> QED BY <2>5, <2>6
<1>5. CASE Flush(w)
    BY <1>2, <1>5 DEF Flush, history
<1>6. mined' = mined => ~Mints(w)
    BY DEF Mints, Loose
<1>7. CASE Stop(w)
    <2>1. CASE pending[w] = <<>>
        BY <1>1, <1>6, <1>7, <2>1 DEF Stop, StopFlush, Halt
    <2>2. CASE pending[w] # <<>>
        BY <1>2, <1>7, <2>2 DEF Stop, StopFlush, history
    <2> QED BY <2>1, <2>2
<1>8. CASE StartLoad(w) \/ StartFails(w)
    BY <1>1, <1>6, <1>8 DEF StartLoad, StartWith, StartFails, history
<1>9. CASE OpenFile(w) \/ WriteDone(w)
    BY <1>1, <1>6, <1>9 DEF OpenFile, WriteDone, Return, Halt, history
<1>10. CASE OpenFails(w) \/ WriteFails(w) \/ Crash(w)
    BY <1>1, <1>6, <1>10 DEF OpenFails, WriteFails, Raise, Crash, Halt
<1> QED BY <1>3, <1>4, <1>5, <1>7, <1>8, <1>9, <1>10 DEF Action

LEMMA OnceMintedStep == HashInv /\ OnceMinted /\ [CheckNext]_checkVars => OnceMinted'
<1> SUFFICES ASSUME HashInv, OnceMinted, [CheckNext]_checkVars PROVE OnceMinted'
    OBVIOUS
<1>1. CASE Alter \/ UNCHANGED checkVars
    <2>1. minted' = minted /\ recorded' = recorded /\ pending' = pending
        BY <1>1 DEF Alter, checkVars, vars, mem, history
    <2> QED BY <2>1 DEF OnceMinted
<1>2. CASE LedgerStep
    <2>1. Loose /\ \A w \in Workers : phase[w] = "mined" => Last(w) \in minted
        BY DEF HashInv
    <2>2. PICK w \in Workers : Action(w)
        BY <1>2 DEF LedgerStep, Next, Action
    <2>3. PICK new \in SUBSET Events : Moves(w, new) /\ (Mints(w) => MovesInto(w, new))
        BY <2>1, <2>2, EventSteps
    <2>4. minted' = minted \cup {Last(v)' : v \in {u \in Workers : phase'[u] = "mined"}}
        BY <1>2 DEF LedgerStep, Last
    <2>5. CASE Keeps
        <3>1. \A v \in Workers : phase'[v] = "mined" => phase[v] = "mined" /\ Last(v)' = Last(v)
            BY <2>5 DEF Keeps, Last
        <3>2. minted' = minted
            BY <2>1, <2>4, <3>1
        <3> QED BY <2>3, <3>2, Zenon DEF OnceMinted, Moves
    <2>6. CASE Mints(w)
        <3> DEFINE b == Last(w)'
        <3>1. phase'[w] = "mined"
            BY <2>1, <2>6 DEF Mints, Loose
        <3>2. \A v \in Workers \ {w} : phase'[v] = "mined" => Last(v)' \in minted
            <4>1. ASSUME NEW v \in Workers \ {w}, phase'[v] = "mined"
                  PROVE  Last(v)' \in minted
                <5>1. phase[v] = "mined" /\ chain'[v] = chain[v]
                    BY <2>1, <2>6, <4>1 DEF Mints, Loose
                <5> QED BY <2>1, <5>1 DEF Last
            <4> QED BY <4>1
        <3>3. minted' = minted \cup {b}
            BY <2>4, <3>1, <3>2
        <3>4. Elems(pending'[w]) = {}
            BY <2>3, <2>6, EventsInEmpty DEF MovesInto
        <3>5. Elems(b.events) \subseteq Elems(pending[w]) \cup new
            BY <2>3, <2>6 DEF MovesInto
        <3> HIDE DEF b
        <3>6. /\ new \cap recorded = {} /\ recorded' = recorded \cup new
              /\ \A v \in Workers \ {w} : pending'[v] = pending[v]
            BY <2>3 DEF Moves
        <3>7. \A d \in minted : Elems(b.events) \cap Elems(d.events) = {}
            BY <3>5, <3>6 DEF OnceMinted
        <3>8. \A v \in Workers : Elems(b.events) \cap Elems(pending'[v]) = {}
            BY <3>4, <3>5, <3>6 DEF OnceMinted
        <3>9. \A c, d \in minted' : c # d => Elems(c.events) \cap Elems(d.events) = {}
            BY <3>3, <3>7 DEF OnceMinted
        <3>10. \A c \in minted' : Elems(c.events) \subseteq recorded'
            BY <3>3, <3>5, <3>6 DEF OnceMinted
        <3>11. \A v \in Workers : Elems(pending'[v]) \subseteq recorded'
            BY <3>4, <3>6 DEF OnceMinted
        <3>12. \A u, v \in Workers : u # v => Elems(pending'[u]) \cap Elems(pending'[v]) = {}
            BY <3>4, <3>6 DEF OnceMinted
        <3>13. \A v \in Workers, c \in minted' : Elems(c.events) \cap Elems(pending'[v]) = {}
            BY <3>3, <3>4, <3>6, <3>8 DEF OnceMinted
        <3> QED BY <3>9, <3>10, <3>11, <3>12, <3>13, Zenon DEF OnceMinted, Elems
    <2> QED BY <2>1, <2>2, <2>5, <2>6, MintSteps
<1> QED BY <1>1, <1>2 DEF CheckNext

-----------------------------------------------------------------------------
(* Inclusion proofs *)

\* The answer for an event of a block, whatever the chain holds.
LEMMA AnswerHolds ==
    ASSUME NEW c \in Seq(Stored), NEW i \in DOMAIN c, NEW e
    PROVE  IF Contains(c[i].events, e)
           THEN /\ MerkleProof(c, i - 1, e).valid
                /\ \A x : VerifyProof(x, MerkleProof(c, i - 1, e).proof,
                                      MerkleProof(c, i - 1, e).root) => x = e
           ELSE "error" \in DOMAIN MerkleProof(c, i - 1, e)
<1> DEFINE items == c[i].events
           answer == MerkleProof(c, i - 1, e)
<1>1. i - 1 \in 0..(Len(c) - 1) /\ (i - 1) + 1 = i /\ c[i] \in Stored
    OBVIOUS
<1>2. items \in Seq(Events)
    BY <1>1 DEF Stored
<1>3. answer = IF items = <<>> THEN [error |-> "no events"]
               ELSE IF ~Contains(items, e) THEN [error |-> "event not in block"]
               ELSE [root  |-> Root(items),
                     proof |-> GetProof(items, e),
                     valid |-> VerifyProof(e, GetProof(items, e), Root(items))]
    BY <1>1 DEF MerkleProof
<1> HIDE DEF items, answer
<1>4. CASE Contains(items, e)
    <2>1. items # <<>>
        BY <1>4 DEF Contains
    <2>2. IsList(items, Len(items))
        BY <1>2, <2>1, MakesList
    <2>3. /\ Len(GetProof(items, e)) \in Nat
          /\ VerifyProof(e, GetProof(items, e), Root(items))
        BY <1>4, <2>2, ProofVerifies
    <2>4. /\ answer.root = Root(items) /\ answer.proof = GetProof(items, e)
          /\ answer.valid = VerifyProof(e, GetProof(items, e), Root(items))
        BY <1>3, <1>4, <2>1
    <2>5. \A x : VerifyProof(x, GetProof(items, e), Root(items)) => x = e
        BY <2>3, ProofProvesOne
    <2> QED BY <1>4, <2>3, <2>4, <2>5 DEF items, answer
<1>5. CASE ~Contains(items, e)
    BY <1>3, <1>5 DEF items, answer
<1> QED BY <1>4, <1>5 DEF items

LEMMA ProofsFollow == HashInv /\ OnceMinted => ProofsHold
<1> SUFFICES ASSUME HashInv, OnceMinted PROVE ProofsHold
    OBVIOUS
<1>1. ASSUME NEW w \in Workers, NEW e \in Events, NEW i \in DOMAIN chain[w]
      PROVE  LET answer == MerkleProof(chain[w], i - 1, e) IN
             IF Contains(chain[w][i].events, e)
             THEN /\ answer.valid
                  /\ \A x \in Events \ {e} : ~VerifyProof(x, answer.proof, answer.root)
             ELSE "error" \in DOMAIN answer
    <2>1. chain[w] \in Seq(Stored)
        BY DEF HashInv, Loose
    <2> QED BY <2>1, AnswerHolds
<1>2. ASSUME NEW b \in minted, NEW d \in minted, b.events # <<>>, d.events # <<>>,
             Root(b.events) = Root(d.events)
      PROVE  b = d
    <2>1. b.events \in Seq(Events) /\ d.events \in Seq(Events)
        BY DEF HashInv, Stored
    <2>2. IsList(b.events, Len(b.events)) /\ IsList(d.events, Len(d.events))
        BY <1>2, <2>1, MakesList
    <2>3. b.events[1] = d.events[1]
        BY <1>2, <2>2, RootsAgree
    <2>4. b.events[1] \in Elems(b.events) /\ d.events[1] \in Elems(d.events)
        BY <1>2, <2>1 DEF Elems
    <2> QED BY <2>3, <2>4 DEF OnceMinted
<1> QED BY <1>1, <1>2 DEF ProofsHold

\* Every event of a block in memory, of any number, has a proof that verifies and proves
\* no other event, and no two mined blocks have the same root, also after the file was
\* altered and loaded again.
THEOREM CheckProofsHold == CheckSpec => []ProofsHold
<1>1. CheckInit => OnceMinted
    BY EventsInEmpty DEF CheckInit, Init, OnceMinted
<1> QED BY <1>1, HashInit, HashStep, OnceMintedStep, ProofsFollow, PTL DEF CheckSpec

-----------------------------------------------------------------------------
(* The balanced tree *)

LEMMA LastsAre ==
    ASSUME NEW n \in Nat
    PROVE  /\ Lasts(n)[0] = n - 1
           /\ \A k \in 1..n : Lasts(n)[k] = Lasts(n)[k - 1] \div 2
<1>1. Lasts(n) = Ancestors(n - 1, n)
    BY DEF Lasts, Ancestors
<1> QED BY <1>1, AncestorsAre

LEMMA RowsAre ==
    ASSUME NEW items, NEW n \in Nat, n = Len(items)
    PROVE  /\ \A i \in 0..n : Rows(items)[0][i] = Leaf(items[Within(n, 0, i) + 1])
           /\ \A k \in 1..n, i \in 0..n : Rows(items)[k][i] =
                 Node(Rows(items)[k - 1][2 * Within(n, k, i)],
                      Rows(items)[k - 1][2 * Within(n, k, i) + 1])
<1> DEFINE Row(g, k) ==
               [i \in 0..Len(items) |->
                  IF k = 0 THEN Leaf(items[Within(Len(items), k, i) + 1])
                  ELSE Node(g[k - 1][2 * Within(Len(items), k, i)],
                            g[k - 1][2 * Within(Len(items), k, i) + 1])]
           Fits(g) == g = [k \in 0..Len(items) |-> Row(g, k)]
           f == Rows(items)
<1>1. \E g : Fits(g)
    <2>1. PICK g : WayUp(g, "row", items, Len(items))
        BY WayUpExists
    <2>2. ASSUME NEW k \in 0..Len(items)
          PROVE  RowStep(items, k, g[k - 1]) = Row(g, k)
        BY DEF RowStep
    <2>3. g = [k \in 0..Len(items) |-> RowStep(items, k, g[k - 1])]
        BY <2>1 DEF WayUp, StepUp
    <2> HIDE DEF Row
    <2>4. Fits(g)
        BY <2>2, <2>3
    <2> QED BY <2>4
<1>2. f = CHOOSE g : Fits(g)
    BY DEF Rows, Within
<1>3. Fits(f)
    <2> HIDE DEF Fits, f
    <2> QED BY <1>1, <1>2, Zenon
<1> HIDE DEF f
<1>4. \A k \in 0..n : f[k] = Row(f, k)
    <2> HIDE DEF Row
    <2> QED BY <1>3
<1>5. 0 \in 0..n /\ \A k \in 1..n : k \in 0..n /\ k # 0
    OBVIOUS
<1>6. ASSUME NEW i \in 0..n PROVE f[0][i] = Leaf(items[Within(n, 0, i) + 1])
    BY <1>4, <1>5
<1>7. ASSUME NEW k \in 1..n, NEW i \in 0..n
      PROVE  f[k][i] = Node(f[k - 1][2 * Within(n, k, i)], f[k - 1][2 * Within(n, k, i) + 1])
    <2>1. k \in 0..n /\ k # 0
        BY <1>5
    <2>2. f[k] = Row(f, k)
        <3> HIDE DEF Row
        <3> QED BY <1>4, <2>1
    <2>3. Row(f, k) = [x \in 0..n |-> Node(f[k - 1][2 * Within(n, k, x)],
                                           f[k - 1][2 * Within(n, k, x) + 1])]
        BY <2>1
    <2> HIDE DEF Row
    <2> QED BY <2>2, <2>3
<1> QED BY <1>6, <1>7 DEF f

LEMMA Doubled ==
    ASSUME NEW m \in Nat, m > 1
    PROVE  /\ ((m - 1) \div 2) + 1 = (m + 1) \div 2
           /\ (m - 1) \div 2 \in 0..(m - 1)
           /\ \A j \in 0..((m - 1) \div 2) :
                 /\ 2 * j \in 0..(m - 1) /\ (2 * j) \div 2 = j /\ (2 * j) % 2 = 0
                 /\ 2 * j + 1 \in 1..m
                 /\ 2 * j + 1 = m => m % 2 = 1
OBVIOUS

LEMMA WithinIs ==
    ASSUME NEW n, NEW k, NEW i \in Nat, Lasts(n)[k] \in Nat
    PROVE  /\ Within(n, k, i) \in 0..Lasts(n)[k]
           /\ i <= Lasts(n)[k] => Within(n, k, i) = i
           /\ i = Lasts(n)[k] + 1 => Within(n, k, i) = Lasts(n)[k]
BY DEF Within

\* The rows of the balanced tree are the levels, up to the root.
LEMMA RowsAreLevels ==
    ASSUME NEW items, NEW n, IsList(items, n), NEW k \in 0..Height(items)
    PROVE  /\ Lasts(n)[k] \in 0..(n - 1)
           /\ IsList(Levels(items)[k], Lasts(n)[k] + 1)
           /\ \A i \in 0..n : Rows(items)[k][i] = Levels(items)[k][Within(n, k, i) + 1]
<1> DEFINE L == Levels(items)
           h == Height(items)
           R == Rows(items)
           last == Lasts(n)
           Fits(q) == /\ last[q] \in 0..(n - 1)
                      /\ IsList(L[q], last[q] + 1)
                      /\ \A i \in 0..n : R[q][i] = L[q][Within(n, q, i) + 1]
           T == {q \in Nat : q <= h => Fits(q)}
<1>1. n \in Nat \ {0} /\ Len(items) = n
    BY ListIs
<1>2. h \in 0..n
    BY HeightIs
<1>3. last[0] = n - 1 /\ \A q \in 1..n : last[q] = last[q - 1] \div 2
    BY <1>1, LastsAre
<1>4. /\ \A i \in 0..n : R[0][i] = Leaf(items[Within(n, 0, i) + 1])
      /\ \A q \in 1..n, i \in 0..n : R[q][i] =
            Node(R[q - 1][2 * Within(n, q, i)], R[q - 1][2 * Within(n, q, i) + 1])
    BY <1>1, RowsAre
<1>5. \A q \in Nat : q < h => \E m \in Nat : m > 1 /\ IsList(L[q], m) /\ L[q + 1] = Parents(L[q])
    BY LevelAbove
<1>6. L[0] = [i \in 1..n |-> Leaf(items[i])]
    BY <1>1, LevelsAre
<1>w. \A q, i \in Nat : last[q] \in Nat =>
         /\ Within(n, q, i) \in 0..last[q]
         /\ i <= last[q] => Within(n, q, i) = i
         /\ i = last[q] + 1 => Within(n, q, i) = last[q]
    BY WithinIs
<1> HIDE DEF L, h, R, last
<1>7. 0 \in T
    <2>1. last[0] \in 0..(n - 1) /\ last[0] \in Nat /\ last[0] + 1 = n
        BY <1>1, <1>3
    <2>2. IsList(L[0], n)
        BY <1>1, <1>6 DEF IsList
    <2>3. ASSUME NEW i \in 0..n PROVE R[0][i] = L[0][Within(n, 0, i) + 1]
        <3>1. Within(n, 0, i) \in 0..last[0]
            BY <1>1, <1>w, <2>1
        <3>2. Within(n, 0, i) + 1 \in 1..n
            BY <1>1, <2>1, <3>1
        <3> QED BY <1>4, <1>6, <3>2
    <2> QED BY <2>1, <2>2, <2>3
<1>8. ASSUME NEW q \in Nat, q \in T PROVE q + 1 \in T
    <2> SUFFICES ASSUME q + 1 <= h PROVE Fits(q + 1)
        OBVIOUS
    <2>1. q + 1 \in 1..n /\ (q + 1) - 1 = q /\ q < h /\ q <= h
        BY <1>1, <1>2
    <2>2. Fits(q)
        BY <1>8, <2>1
    <2>3. PICK m \in Nat : m > 1 /\ IsList(L[q], m) /\ L[q + 1] = Parents(L[q])
        BY <1>5, <2>1
    <2>4. last[q] = m - 1 /\ last[q] \in Nat
        <3>1. Len(L[q]) = m
            BY <2>3, ListIs, Zenon
        <3>2. Len(L[q]) = last[q] + 1
            BY <2>2, ListIs, Zenon
        <3> QED BY <1>1, <2>2, <3>1, <3>2
    <2>5. m <= n
        BY <1>1, <2>2, <2>4
    <2>6. last[q + 1] = (m - 1) \div 2
        BY <1>3, <2>1, <2>4
    <2>7. last[q + 1] + 1 = (m + 1) \div 2 /\ last[q + 1] \in 0..(m - 1)
        BY <2>3, <2>6, Doubled
    <2>8. last[q + 1] \in 0..(n - 1) /\ last[q + 1] \in Nat
        BY <1>1, <2>5, <2>7
    <2>9. IsList(L[q + 1], last[q + 1] + 1)
        <3>1. IsList(Parents(L[q]), (m + 1) \div 2)
            BY <2>3, ParentsAre, Zenon
        <3> QED BY <2>3, <2>7, <3>1
    <2>10. ASSUME NEW i \in 0..n
           PROVE  R[q + 1][i] = L[q + 1][Within(n, q + 1, i) + 1]
        <3> DEFINE j == Within(n, q + 1, i)
                   p == Padded(L[q])
        <3>1. j \in 0..((m - 1) \div 2)
            <4>1. i \in Nat /\ q + 1 \in Nat
                BY <1>1
            <4>2. Within(n, q + 1, i) \in 0..last[q + 1]
                BY <1>w, <2>8, <4>1, Zenon
            <4> QED BY <2>6, <4>2
        <3>2. R[q + 1][i] = Node(R[q][2 * j], R[q][2 * j + 1])
            BY <1>4, <2>1
        <3> HIDE DEF j
        <3>3. /\ 2 * j \in 0..(m - 1) /\ (2 * j) \div 2 = j /\ (2 * j) % 2 = 0
              /\ 2 * j + 1 \in 1..m
              /\ 2 * j + 1 = m => m % 2 = 1
            BY <2>3, <3>1, Doubled
        <3>4. Parents(L[q])[j + 1] = Node(L[q][2 * j + 1], p[2 * j + 2])
            <4>1. Parents(L[q])[((2 * j) \div 2) + 1] =
                     IF (2 * j) % 2 = 0 THEN Node(L[q][2 * j + 1], p[2 * j + 2])
                     ELSE Node(p[2 * j], L[q][2 * j + 1])
                BY <2>3, <3>3, ParentsAre, Zenon
            <4> QED BY <3>3, <4>1, Zenon
        <3>5. (\A x \in 1..m : p[x] = L[q][x]) /\ (m % 2 = 1 => p[m + 1] = L[q][m])
            BY <2>3, PaddedIs
        <3> HIDE DEF p
        <3>6. R[q][2 * j] = L[q][2 * j + 1]
            <4>1. 2 * j \in 0..n /\ 2 * j \in Nat /\ 2 * j <= last[q]
                BY <1>1, <2>4, <2>5, <3>3
            <4>2. Within(n, q, 2 * j) = 2 * j
                BY <1>w, <2>4, <4>1
            <4> QED BY <2>2, <4>1, <4>2
        <3>7. R[q][2 * j + 1] = p[2 * j + 2]
            <4>1. 2 * j + 1 \in 0..n /\ 2 * j + 1 \in Nat
                BY <1>1, <2>5, <3>3
            <4>2. R[q][2 * j + 1] = L[q][Within(n, q, 2 * j + 1) + 1]
                BY <2>2, <4>1
            <4>3. CASE 2 * j + 1 < m
                <5>1. 2 * j + 1 <= last[q] /\ 2 * j + 2 \in 1..m /\ (2 * j + 1) + 1 = 2 * j + 2
                    BY <2>4, <3>1, <3>3, <4>3
                <5>2. Within(n, q, 2 * j + 1) = 2 * j + 1
                    BY <1>w, <2>4, <4>1, <5>1
                <5> QED BY <3>5, <4>2, <5>1, <5>2
            <4>4. CASE 2 * j + 1 = m
                <5>1. 2 * j + 1 = last[q] + 1 /\ 2 * j + 2 = m + 1 /\ last[q] + 1 = m
                    BY <2>4, <3>1, <4>4
                <5>2. Within(n, q, 2 * j + 1) = last[q]
                    BY <1>w, <2>4, <4>1, <5>1
                <5> QED BY <3>3, <3>5, <4>2, <4>4, <5>1, <5>2
            <4>5. 2 * j + 1 < m \/ 2 * j + 1 = m
                BY <3>3
            <4> QED BY <4>3, <4>4, <4>5
        <3> QED BY <2>3, <3>2, <3>4, <3>6, <3>7 DEF j
    <2> QED BY <2>8, <2>9, <2>10
<1>9. \A q \in Nat : q \in T
    <2> HIDE DEF T
    <2> QED BY <1>7, <1>8, NatInd
<1>10. k \in Nat /\ k <= h
    BY <1>2 DEF h
<1>11. Fits(k)
    BY <1>9, <1>10
<1> QED BY <1>11 DEF L, R, last

\* The tree the code builds from the leaves up is the balanced tree, for every list.
LEMMA RootIsBalanced ==
    ASSUME NEW items, NEW n, IsList(items, n)
    PROVE  Root(items) = BalancedRoot(items)
<1> DEFINE h == Height(items)
           last == Lasts(n)
           Top(k) == last[k] = 0 /\ \A m \in 0..(k - 1) : last[m] > 0
           top == CHOOSE k \in 0..n : Top(k)
<1>1. n \in Nat \ {0} /\ Len(items) = n
    BY ListIs
<1>2. /\ h \in 0..n /\ Len(Levels(items)[h]) = 1
      /\ \A k \in 0..(h - 1) : Len(Levels(items)[k]) > 1
    BY HeightIs
<1>3. \A k \in 0..h : last[k] \in 0..(n - 1) /\ Len(Levels(items)[k]) = last[k] + 1
    <2>1. ASSUME NEW k \in 0..h
          PROVE  last[k] \in 0..(n - 1) /\ Len(Levels(items)[k]) = last[k] + 1
        <3>1. last[k] \in 0..(n - 1) /\ IsList(Levels(items)[k], last[k] + 1)
            BY RowsAreLevels
        <3> QED BY <3>1, ListIs, Zenon
    <2> QED BY <2>1
<1>4. \A i \in 0..n : Rows(items)[h][i] = Levels(items)[h][Within(n, h, i) + 1]
    <2>1. h \in 0..h
        BY <1>1, <1>2
    <2> QED BY <2>1, RowsAreLevels
<1>5. BalancedRoot(items) = Rows(items)[top][0]
    BY <1>1 DEF BalancedRoot
<1>6. Root(items) = Levels(items)[h][1]
    BY RootIs
<1>7. \A k : Within(n, k, 0) = IF 0 > last[k] THEN last[k] ELSE 0
    BY DEF Within
<1> HIDE DEF h, last
<1>8. Top(h)
    <2>1. last[h] = 0
        <3>1. h \in 0..h
            BY <1>1, <1>2
        <3>2. last[h] \in 0..(n - 1) /\ Len(Levels(items)[h]) = last[h] + 1
            BY <1>3, <3>1
        <3>3. last[h] + 1 = 1
            BY <1>2, <3>2, Zenon
        <3>4. \A x \in 0..(n - 1) : x + 1 = 1 => x = 0
            BY <1>1
        <3> QED BY <3>2, <3>3, <3>4, Zenon
    <2>2. ASSUME NEW m \in 0..(h - 1) PROVE last[m] > 0
        <3>1. m \in 0..h /\ Len(Levels(items)[m]) > 1
            BY <1>1, <1>2
        <3>2. last[m] \in 0..(n - 1) /\ Len(Levels(items)[m]) = last[m] + 1
            BY <1>3, <3>1
        <3> QED BY <1>1, <3>1, <3>2
    <2> QED BY <2>1, <2>2
<1>9. ASSUME NEW k \in 0..n, Top(k) PROVE k = h
    <2>1. ~(k < h)
        <3>1. k < h => k \in 0..(h - 1)
            BY <1>1, <1>2
        <3> QED BY <1>8, <1>9, <3>1
    <2>2. ~(h < k)
        <3>1. h < k => h \in 0..(k - 1)
            BY <1>1, <1>2
        <3> QED BY <1>8, <1>9, <3>1
    <2> QED BY <1>1, <1>2, <2>1, <2>2
<1>10. top = h
    <2>1. top \in 0..n /\ Top(top)
        <3> HIDE DEF Top
        <3> QED BY <1>2, <1>8, Zenon
    <2> HIDE DEF top
    <2> QED BY <1>9, <2>1
<1>11. Within(n, h, 0) + 1 = 1
    BY <1>7, <1>8
<1>12. Rows(items)[h][0] = Levels(items)[h][1]
    BY <1>1, <1>4, <1>11
<1> QED BY <1>5, <1>6, <1>10, <1>12

\* Of every list of items, of any length and with repetitions, the tree is the balanced one
\* and its proofs prove exactly the items of the list.
THEOREM CheckTreeIsBalanced == CheckSpec => []TreeIsBalanced
<1>1. ASSUME NEW items \in Lists
      PROVE  Root(items) = BalancedRoot(items) /\ ProvesExactly(items, Items)
    <2>1. IsList(items, Len(items))
        BY ListsAssumption, MakesList
    <2> QED BY <2>1, RootIsBalanced, MerkleProvesExactly
<1>2. TreeIsBalanced
    BY <1>1 DEF TreeIsBalanced
<1>3. CheckInit => TreeIsBalanced
    BY <1>2
<1>4. TreeIsBalanced /\ [CheckNext]_checkVars => TreeIsBalanced'
    BY <1>1 DEF TreeIsBalanced
<1> QED BY <1>3, <1>4, PTL DEF CheckSpec

-----------------------------------------------------------------------------
(* Proofs that anyone made up *)

LEMMA EvenPlace ==
    ASSUME NEW n \in Nat, n > 1, NEW j \in 1..((n + 1) \div 2)
    PROVE  /\ 2 * (j - 1) \in 0..(n - 1)
           /\ (2 * (j - 1)) % 2 = 0
           /\ (2 * (j - 1)) \div 2 + 1 = j
           /\ 2 * (j - 1) + 1 \in 1..n
           /\ \/ 2 * (j - 1) + 2 \in 1..n
              \/ n % 2 = 1 /\ 2 * (j - 1) + 2 = n + 1
<1>1. PICK q \in Nat : n = 2 * q \/ n = 2 * q + 1
    <2>1. n = 2 * (n \div 2) \/ n = 2 * (n \div 2) + 1
        OBVIOUS
    <2>2. n \div 2 \in Nat
        OBVIOUS
    <2> QED BY <2>1, <2>2
<1>2. CASE n = 2 * q
    BY <1>2
<1>3. CASE n = 2 * q + 1
    BY <1>3
<1> QED BY <1>1, <1>2, <1>3

\* A node of a level above the leaves is made of two nodes of the level below.
LEMMA ChildrenOf ==
    ASSUME NEW l, NEW n, IsList(l, n), n > 1, NEW j \in 1..((n + 1) \div 2)
    PROVE  \E a, b \in 1..n : Parents(l)[j] = Node(l[a], l[b])
<1> DEFINE i == 2 * (j - 1)
<1>1. n \in Nat
    BY ListIs
<1>2. /\ i \in 0..(n - 1) /\ i % 2 = 0 /\ (i \div 2) + 1 = j /\ i + 1 \in 1..n
      /\ i + 2 \in 1..n \/ (n % 2 = 1 /\ i + 2 = n + 1)
    BY <1>1, EvenPlace
<1> HIDE DEF i
<1>3. Parents(l)[j] = Node(l[i + 1], Padded(l)[i + 2])
    <2>1. Parents(l)[(i \div 2) + 1] = IF i % 2 = 0 THEN Node(l[i + 1], Padded(l)[i + 2])
                                       ELSE Node(Padded(l)[i], l[i + 1])
        BY <1>2, ParentsAre, Zenon
    <2> QED BY <1>2, <2>1, Zenon
<1>4. \E b \in 1..n : Padded(l)[i + 2] = l[b]
    <2>1. /\ \A b \in 1..n : Padded(l)[b] = l[b]
          /\ n % 2 = 1 => Padded(l)[n + 1] = l[n]
        BY PaddedIs
    <2>2. CASE i + 2 \in 1..n
        BY <2>1, <2>2
    <2>3. CASE n % 2 = 1 /\ i + 2 = n + 1
        <3>1. n \in 1..n
            BY <1>1
        <3> QED BY <2>1, <2>3, <3>1
    <2> QED BY <1>2, <2>2, <2>3
<1> QED BY <1>2, <1>3, <1>4

\* The nodes of the level at height k, as the two lemmas below use them.
IsNode(items, k, x) ==
    \E m \in Nat : IsList(Levels(items)[k], m) /\ \E j \in 1..m : x = Levels(items)[k][j]

LEMMA RootIsNode ==
    ASSUME NEW items, NEW n, IsList(items, n)
    PROVE  IsNode(items, Height(items), Root(items))
<1>1. Height(items) \in 0..n /\ Len(Levels(items)[Height(items)]) = 1
    BY HeightIs
<1>2. PICK m \in Nat : IsList(Levels(items)[Height(items)], m)
    BY <1>1, WidthsAre
<1>3. 1 \in 1..m
    <2>1. m \in Nat \ {0}
        BY <1>2, ListIs, Zenon
    <2> QED BY <2>1
<1> QED BY <1>2, <1>3, RootIs DEF IsNode

LEMMA LeafNodes ==
    ASSUME NEW items, NEW n, IsList(items, n), NEW x, IsNode(items, 0, x)
    PROVE  \E i \in 1..n : x = Leaf(items[i])
<1>1. n \in Nat /\ Len(items) = n
    BY ListIs
<1>2. Levels(items)[0] = [i \in 1..n |-> Leaf(items[i])]
    BY <1>1, LevelsAre
<1>3. PICK m \in Nat : IsList(Levels(items)[0], m) /\ \E j \in 1..m : x = Levels(items)[0][j]
    BY DEF IsNode
<1>4. DOMAIN Levels(items)[0] = 1..m
    BY <1>3, ListIs
<1>5. PICK j \in 1..m : x = Levels(items)[0][j]
    BY <1>3
<1>6. j \in 1..n
    BY <1>2, <1>4, <1>5
<1> QED BY <1>2, <1>5, <1>6

LEMMA InnerNodes ==
    ASSUME NEW items, NEW n, IsList(items, n), NEW k \in Nat, k < Height(items),
           NEW x, IsNode(items, k + 1, x)
    PROVE  \E a, b : IsNode(items, k, a) /\ IsNode(items, k, b) /\ x = Node(a, b)
<1> DEFINE L == Levels(items)
<1>1. PICK m \in Nat : m > 1 /\ IsList(L[k], m) /\ L[k + 1] = Parents(L[k])
    BY LevelAbove
<1>2. PICK q \in Nat : IsList(L[k + 1], q) /\ \E j \in 1..q : x = L[k + 1][j]
    BY DEF IsNode
<1>3. PICK j \in 1..q : x = L[k + 1][j]
    BY <1>2
<1> HIDE DEF L
<1>4. q = (m + 1) \div 2
    <2>1. IsList(L[k + 1], (m + 1) \div 2)
        BY <1>1, ParentsAre, Zenon
    <2>2. Len(L[k + 1]) = q
        BY <1>2, ListIs, Zenon
    <2>3. Len(L[k + 1]) = (m + 1) \div 2
        BY <2>1, ListIs, Zenon
    <2> QED BY <2>2, <2>3
<1>5. j \in 1..((m + 1) \div 2)
    BY <1>3, <1>4, Zenon
<1>6. PICK a, b \in 1..m : Parents(L[k])[j] = Node(L[k][a], L[k][b])
    BY <1>1, <1>5, ChildrenOf
<1>7. IsNode(items, k, L[k][a]) /\ IsNode(items, k, L[k][b])
    BY <1>1, <1>6 DEF IsNode, L
<1> QED BY <1>1, <1>3, <1>6, <1>7, Zenon

\* Downwards from the root, the hashes on the way of a proof that verifies are nodes of the tree.
LEMMA HashesDescend ==
    ASSUME NEW items, NEW n, IsList(items, n), NEW x, NEW proof, Len(proof) \in Nat,
           VerifyProof(x, proof, Root(items)),
           NEW k \in Nat, k <= Height(items), k <= Len(proof)
    PROVE  IsNode(items, Height(items) - k, HashesUp(x, proof)[Len(proof) - k])
<1> DEFINE h == Height(items)
           c == Len(proof)
           up == HashesUp(x, proof)
           T == {i \in Nat : i <= h /\ i <= c => IsNode(items, h - i, up[c - i])}
<1>1. h \in Nat /\ c \in Nat
    BY FirstNodes
<1>2. up[c] = Root(items)
    BY DEF VerifyProof
<1>3. \A i \in 1..c : up[i] = IF proof[i].position = "right"
                              THEN Node(up[i - 1], proof[i].hash) ELSE Node(proof[i].hash, up[i - 1])
    BY HashesAre
<1>4. IsNode(items, h, Root(items))
    BY RootIsNode
<1>5. \A i \in Nat : i < h => \A y : IsNode(items, i + 1, y) =>
          \E a, b : IsNode(items, i, a) /\ IsNode(items, i, b) /\ y = Node(a, b)
    BY InnerNodes
<1> HIDE DEF h, c, up
<1>6. 0 \in T
    <2>1. h - 0 = h /\ c - 0 = c
        BY <1>1
    <2> QED BY <1>2, <1>4, <2>1
<1>7. ASSUME NEW i \in Nat, i \in T PROVE i + 1 \in T
    <2> SUFFICES ASSUME i + 1 <= h, i + 1 <= c PROVE IsNode(items, h - (i + 1), up[c - (i + 1)])
        OBVIOUS
    <2> DEFINE p == h - (i + 1)
               q == c - i
    <2>1. /\ p \in Nat /\ p < h /\ p + 1 = h - i /\ q \in 1..c /\ q - 1 = c - (i + 1)
          /\ i <= h /\ i <= c
        BY <1>1
    <2>2. IsNode(items, p + 1, up[q])
        BY <1>7, <2>1
    <2> HIDE DEF p, q
    <2>3. PICK a, b : IsNode(items, p, a) /\ IsNode(items, p, b) /\ up[q] = Node(a, b)
        BY <1>5, <2>1, <2>2
    <2>4. \/ up[q] = Node(up[q - 1], proof[q].hash)
          \/ up[q] = Node(proof[q].hash, up[q - 1])
        BY <1>3, <2>1
    <2>5. up[q - 1] = a \/ up[q - 1] = b
        BY <2>3, <2>4, HashesInjective
    <2>6. IsNode(items, p, up[q - 1])
        BY <2>3, <2>5, Zenon
    <2> QED BY <2>1, <2>6 DEF p
<1>8. \A i \in Nat : i \in T
    <2> HIDE DEF T
    <2> QED BY <1>6, <1>7, NatInd
<1> QED BY <1>8 DEF h, c, up

\* No proof at all, however it was made, verifies against the root of a list for anything but
\* an item of that list, and one that verifies has as many steps as the tree is high.
THEOREM MerkleProvesOnlyItems ==
    ASSUME NEW items, NEW n, IsList(items, n), NEW x, NEW proof, Len(proof) \in Nat,
           VerifyProof(x, proof, Root(items))
    PROVE  Contains(items, x) /\ Len(proof) = Height(items)
<1> DEFINE h == Height(items)
           c == Len(proof)
           up == HashesUp(x, proof)
<1>1. h \in Nat /\ c \in Nat
    BY FirstNodes
<1>2. \A k \in Nat : k <= h /\ k <= c => IsNode(items, h - k, up[c - k])
    BY HashesDescend
<1>3. /\ up[0] = Leaf(x)
      /\ \A i \in 1..c : up[i] = IF proof[i].position = "right"
                                 THEN Node(up[i - 1], proof[i].hash) ELSE Node(proof[i].hash, up[i - 1])
    BY HashesAre
<1> HIDE DEF h, c, up
<1>4. c <= h
    <2> SUFFICES ASSUME h < c PROVE FALSE
        BY <1>1
    <2>1. h <= h /\ h <= c /\ h - h = 0 /\ c - h \in 1..c
        BY <1>1
    <2>2. IsNode(items, 0, up[c - h])
        BY <1>1, <1>2, <2>1
    <2>3. PICK i \in 1..n : up[c - h] = Leaf(items[i])
        BY <2>2, LeafNodes
    <2> QED BY <1>3, <2>1, <2>3, HashesInjective
<1>5. c = h
    <2> SUFFICES ASSUME c < h PROVE FALSE
        BY <1>1, <1>4
    <2> DEFINE p == (h - c) - 1
    <2>1. c <= h /\ c <= c /\ c - c = 0 /\ p \in Nat /\ p < h /\ p + 1 = h - c
        BY <1>1
    <2>2. IsNode(items, p + 1, Leaf(x))
        BY <1>1, <1>2, <1>3, <2>1
    <2> HIDE DEF p
    <2>3. PICK a, b : Leaf(x) = Node(a, b)
        BY <2>1, <2>2, InnerNodes DEF h
    <2> QED BY <2>3, HashesInjective
<1>6. Contains(items, x)
    <2>1. h <= h /\ h - h = 0
        BY <1>1
    <2>2. IsNode(items, 0, Leaf(x))
        BY <1>1, <1>2, <1>3, <1>5, <2>1
    <2>3. PICK i \in 1..n : Leaf(x) = Leaf(items[i])
        BY <2>2, LeafNodes
    <2>4. x = items[i] /\ i \in DOMAIN items
        BY <2>3, HashesInjective, ListIs
    <2> QED BY <2>4 DEF Contains
<1> QED BY <1>5, <1>6 DEF h, c

-----------------------------------------------------------------------------
(* What a root says of the list *)

LEMMA SameHeight ==
    ASSUME NEW s, NEW n, IsList(s, n), NEW t, NEW m, IsList(t, m), Root(s) = Root(t)
    PROVE  /\ Height(s) = Height(t)
           /\ \A i \in 1..n : \E j \in 1..m : s[i] = t[j]
<1>1. n \in Nat \ {0} /\ DOMAIN s = 1..n /\ DOMAIN t = 1..m
    BY ListIs
<1>2. ASSUME NEW i \in 1..n
      PROVE  Contains(t, s[i]) /\ Height(s) = Height(t)
    <2> DEFINE proof == GetProof(s, s[i])
    <2>1. Contains(s, s[i])
        BY <1>1 DEF Contains
    <2>2. Len(proof) \in Nat /\ VerifyProof(s[i], proof, Root(s))
        BY <2>1, ProofVerifies
    <2> HIDE DEF proof
    <2>3. Len(proof) = Height(s)
        BY <2>2, MerkleProvesOnlyItems
    <2>4. Contains(t, s[i]) /\ Len(proof) = Height(t)
        BY <2>2, MerkleProvesOnlyItems
    <2> QED BY <2>3, <2>4
<1>3. 1 \in 1..n
    BY <1>1
<1> QED BY <1>1, <1>2, <1>3 DEF Contains

\* The node above index i of a level, and index i - 1 of lists that have it both.
LEMMA ChildrenAgree ==
    ASSUME NEW k, NEW a, IsList(k, a), a > 1, NEW l, NEW b, IsList(l, b), b > 1,
           \A j \in 1..((a + 1) \div 2) :
               j \in 1..((b + 1) \div 2) => Parents(k)[j] = Parents(l)[j],
           NEW i \in 1..a, i \in 1..b
    PROVE  k[i] = l[i]
<1> DEFINE p == i - 1
<1>1. a \in Nat /\ b \in Nat
    BY ListIs
<1>2. p \in 0..(a - 1) /\ p \in 0..(b - 1) /\ p + 1 = i
    BY <1>1
<1> HIDE DEF p
<1>3. /\ p \div 2 \in 0..(((a + 1) \div 2) - 1) /\ (a + 1) \div 2 \in Nat
      /\ Parents(k)[(p \div 2) + 1] = IF p % 2 = 0 THEN Node(k[p + 1], Padded(k)[p + 2])
                                      ELSE Node(Padded(k)[p], k[p + 1])
    <2>1. IsList(Parents(k), (a + 1) \div 2)
        BY ParentsAre, Zenon
    <2>2. (a + 1) \div 2 \in Nat
        BY <2>1 DEF IsList
    <2> QED BY <1>2, <2>2, ParentsAre, Zenon
<1>4. /\ p \div 2 \in 0..(((b + 1) \div 2) - 1) /\ (b + 1) \div 2 \in Nat
      /\ Parents(l)[(p \div 2) + 1] = IF p % 2 = 0 THEN Node(l[p + 1], Padded(l)[p + 2])
                                      ELSE Node(Padded(l)[p], l[p + 1])
    <2>1. IsList(Parents(l), (b + 1) \div 2)
        BY ParentsAre, Zenon
    <2>2. (b + 1) \div 2 \in Nat
        BY <2>1 DEF IsList
    <2> QED BY <1>2, <2>2, ParentsAre, Zenon
<1>5. \A x, y \in Nat : \A j :
         j \in 0..(x - 1) /\ j \in 0..(y - 1) => j + 1 \in 1..x /\ j + 1 \in 1..y
    OBVIOUS
<1>6. Parents(k)[(p \div 2) + 1] = Parents(l)[(p \div 2) + 1]
    <2>1. /\ (p \div 2) + 1 \in 1..((a + 1) \div 2)
          /\ (p \div 2) + 1 \in 1..((b + 1) \div 2)
        BY <1>3, <1>4, <1>5, Zenon
    <2> QED BY <2>1, Zenon
<1>7. k[p + 1] = l[p + 1]
    <2>1. CASE p % 2 = 0
        <3>1. Node(k[p + 1], Padded(k)[p + 2]) = Node(l[p + 1], Padded(l)[p + 2])
            BY <1>3, <1>4, <1>6, <2>1, Zenon
        <3> QED BY <3>1, HashesInjective
    <2>2. CASE p % 2 # 0
        <3>1. Node(Padded(k)[p], k[p + 1]) = Node(Padded(l)[p], l[p + 1])
            BY <1>3, <1>4, <1>6, <2>2, Zenon
        <3> QED BY <3>1, HashesInjective
    <2> QED BY <2>1, <2>2, Zenon
<1> QED BY <1>2, <1>7

\* Two levels have the same nodes as far as they go.
Agree(k, l) == \A a, b \in Nat : IsList(k, a) /\ IsList(l, b) =>
                  \A i \in 1..a : i \in 1..b => k[i] = l[i]

\* Two lists with the same root agree at every place both have, and each has every item of
\* the other: a root together with the number of items says what the list is.  (Without the
\* number it does not: the last node of an odd level is repeated, merkle.py:57.)
THEOREM MerkleRootCommits ==
    ASSUME NEW s, NEW n, IsList(s, n), NEW t, NEW m, IsList(t, m), Root(s) = Root(t)
    PROVE  /\ \A i \in 1..n : Contains(t, s[i])
           /\ \A i \in 1..m : Contains(s, t[i])
           /\ \A i \in 1..n : i \in 1..m => s[i] = t[i]
           /\ n = m => s = t
<1> DEFINE P == Levels(s)
           Q == Levels(t)
           h == Height(s)
           T == {k \in Nat : k <= h => Agree(P[h - k], Q[h - k])}
<1>1. n \in Nat \ {0} /\ m \in Nat \ {0} /\ DOMAIN t = 1..m /\ DOMAIN s = 1..n
      /\ Len(s) = n /\ Len(t) = m
    BY ListIs
<1>2. h = Height(t) /\ h \in Nat
    BY SameHeight, FirstNodes
<1>3. /\ \A i \in 1..n : \E j \in 1..m : s[i] = t[j]
      /\ \A i \in 1..m : \E j \in 1..n : t[i] = s[j]
    BY SameHeight
<1>4. /\ \A k \in Nat : k < h => \E c \in Nat : c > 1 /\ IsList(P[k], c) /\ P[k + 1] = Parents(P[k])
      /\ \A k \in Nat : k < h => \E c \in Nat : c > 1 /\ IsList(Q[k], c) /\ Q[k + 1] = Parents(Q[k])
    BY <1>2, LevelAbove
<1>5. P[h][1] = Q[h][1] /\ Len(P[h]) = 1 /\ Len(Q[h]) = 1
    <2>1. Root(s) = P[h][1] /\ Len(P[h]) = 1
        BY RootIs, HeightIs
    <2>2. Root(t) = Q[h][1] /\ Len(Q[h]) = 1
        BY <1>2, RootIs, HeightIs
    <2> QED BY <2>1, <2>2
<1>6. P[0] = [i \in 1..n |-> Leaf(s[i])] /\ Q[0] = [i \in 1..m |-> Leaf(t[i])]
    BY <1>1, LevelsAre
<1> HIDE DEF P, Q, h
<1>7. 0 \in T
    <2>1. ASSUME NEW a \in Nat, NEW b \in Nat, IsList(P[h], a), IsList(Q[h], b), NEW i \in 1..a
          PROVE  P[h][i] = Q[h][i]
        <3>1. a = 1
            BY <1>5, <2>1, ListIs
        <3>2. i = 1
            BY <3>1
        <3> QED BY <1>5, <3>2
    <2>2. h - 0 = h
        BY <1>2
    <2> QED BY <2>1, <2>2 DEF Agree
<1>8. ASSUME NEW k \in Nat, k \in T PROVE k + 1 \in T
    <2> SUFFICES ASSUME k + 1 <= h PROVE Agree(P[h - (k + 1)], Q[h - (k + 1)])
        OBVIOUS
    <2> DEFINE p == h - (k + 1)
    <2>1. p \in Nat /\ p < h /\ p + 1 = h - k /\ k <= h
        BY <1>2
    <2>2. Agree(P[p + 1], Q[p + 1])
        BY <1>8, <2>1
    <2> HIDE DEF p
    <2>3. PICK c \in Nat : c > 1 /\ IsList(P[p], c) /\ P[p + 1] = Parents(P[p])
        BY <1>4, <2>1
    <2>4. PICK d \in Nat : d > 1 /\ IsList(Q[p], d) /\ Q[p + 1] = Parents(Q[p])
        BY <1>4, <2>1
    <2>5. \A j \in 1..((c + 1) \div 2) :
              j \in 1..((d + 1) \div 2) => Parents(P[p])[j] = Parents(Q[p])[j]
        <3>1. IsList(P[p + 1], (c + 1) \div 2) /\ IsList(Q[p + 1], (d + 1) \div 2)
            BY <2>3, <2>4, ParentsAre, Zenon
        <3>2. (c + 1) \div 2 \in Nat /\ (d + 1) \div 2 \in Nat
            BY <2>3, <2>4
        <3>3. \A j \in 1..((c + 1) \div 2) :
                  j \in 1..((d + 1) \div 2) => P[p + 1][j] = Q[p + 1][j]
            BY <2>2, <3>1, <3>2, Zenon DEF Agree
        <3> QED BY <2>3, <2>4, <3>3, Zenon
    <2>6. ASSUME NEW a \in Nat, NEW b \in Nat, IsList(P[p], a), IsList(Q[p], b),
                 NEW i \in 1..a, i \in 1..b
          PROVE  P[p][i] = Q[p][i]
        <3>1. a = c /\ b = d
            <4>1. Len(P[p]) = a /\ Len(P[p]) = c /\ Len(Q[p]) = b /\ Len(Q[p]) = d
                BY <2>3, <2>4, <2>6, ListIs, Zenon
            <4> QED BY <4>1
        <3> QED BY <2>3, <2>4, <2>5, <2>6, <3>1, ChildrenAgree
    <2> QED BY <2>6 DEF Agree, p
<1>9. \A k \in Nat : k \in T
    <2> HIDE DEF T
    <2> QED BY <1>7, <1>8, NatInd
<1>10. Agree(P[0], Q[0])
    <2>1. h <= h /\ h - h = 0
        BY <1>2
    <2> QED BY <1>2, <1>9, <2>1
<1>11. ASSUME NEW i \in 1..n, i \in 1..m PROVE s[i] = t[i]
    <2>1. IsList(P[0], n) /\ IsList(Q[0], m)
        BY <1>1, <1>6 DEF IsList
    <2>2. P[0][i] = Q[0][i]
        BY <1>1, <1>10, <1>11, <2>1 DEF Agree
    <2>3. Leaf(s[i]) = Leaf(t[i])
        BY <1>6, <1>11, <2>2
    <2> QED BY <2>3, HashesInjective
<1>12. n = m => s = t
    <2> SUFFICES ASSUME n = m PROVE s = t
        OBVIOUS
    <2>1. s = [i \in 1..n |-> s[i]] /\ t = [i \in 1..n |-> t[i]]
        BY DEF IsList
    <2>2. \A i \in 1..n : s[i] = t[i]
        BY <1>11
    <2> QED BY <2>1, <2>2
<1> QED BY <1>1, <1>3, <1>11, <1>12 DEF Contains
=============================================================================
