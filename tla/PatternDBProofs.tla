-------------------------- MODULE PatternDBProofs ---------------------------
(***************************************************************************)
(* Proofs about PatternDB, for any finite set of patterns, any number of   *)
(* cycles in flight and any number of faults and crashes.                  *)
(***************************************************************************)
EXTENDS PatternDB, FiniteSetTheorems, TLAPS

-----------------------------------------------------------------------------
(* Enumerations, and the lists built from them *)

LEMMA OrdersProperties ==
    ASSUME NEW S, IsFiniteSet(S), NEW s \in Orders(S)
    PROVE  /\ s \in Seq(S)
           /\ \A i, j \in DOMAIN s : i # j => s[i] # s[j]
           /\ \A p \in S : \E i \in DOMAIN s : s[i] = p
<1>1. Cardinality(S) \in Nat
    BY FS_CardinalityType
<1>2. PICK n \in 0..Cardinality(S) :
        /\ s \in [1..n -> S]
        /\ \A i, j \in 1..n : i # j => s[i] # s[j]
        /\ \A p \in S : \E i \in 1..n : s[i] = p
    BY DEF Orders
<1>3. n \in Nat /\ DOMAIN s = 1..n
    BY <1>1, <1>2
<1>4. s \in Seq(S)
    BY <1>2, <1>3
<1> QED BY <1>2, <1>3, <1>4

LEMMA EntriesProperties ==
    ASSUME NEW S \in SUBSET Patterns, NEW s \in Seq(S), NEW b \in BOOLEAN
    PROVE  /\ Entries(s, b) \in Seq(Entry)
           /\ DOMAIN Entries(s, b) = DOMAIN s
           /\ \A i \in DOMAIN s : Entries(s, b)[i].hash = s[i] /\ Entries(s, b)[i].promoted = b
<1>1. DOMAIN s = 1..Len(s) /\ Len(s) \in Nat /\ \A i \in DOMAIN s : s[i] \in S
    OBVIOUS
<1>2. \A i \in DOMAIN s : [hash |-> s[i], promoted |-> b] \in Entry
    BY <1>1 DEF Entry
<1>3. Entries(s, b) \in [1..Len(s) -> Entry]
    BY <1>1, <1>2 DEF Entries
<1>4. Entries(s, b) \in Seq(Entry)
    BY <1>1, <1>3
<1> QED BY <1>1, <1>4 DEF Entries

LEMMA HashesProperties ==
    ASSUME NEW d \in Seq(Entry)
    PROVE  Hashes(d) \subseteq Patterns /\ IsFiniteSet(Hashes(d))
<1>0. \A i \in DOMAIN d : d[i] \in Entry
    OBVIOUS
<1>1. Hashes(d) \subseteq Patterns
    BY <1>0 DEF Hashes, Entry
<1> QED BY <1>1, PatternsAssumption, FS_Subset

\* Two lists with no hash in common, one after the other.
LEMMA ConcatProps ==
    ASSUME NEW d \in Seq(Entry), NEW e \in Seq(Entry)
    PROVE  /\ d \o e \in Seq(Entry)
           /\ Hashes(d \o e) = Hashes(d) \cup Hashes(e)
           /\ Unique(d) /\ Unique(e) /\ Hashes(d) \cap Hashes(e) = {} => Unique(d \o e)
<1>1. /\ d \o e \in Seq(Entry) /\ Len(d) \in Nat /\ Len(e) \in Nat
      /\ DOMAIN d = 1..Len(d) /\ DOMAIN e = 1..Len(e)
      /\ DOMAIN (d \o e) = 1..(Len(d) + Len(e))
      /\ \A i \in DOMAIN d : (d \o e)[i] = d[i]
      /\ \A i \in 1..(Len(d) + Len(e)) :
            i \notin DOMAIN d => (d \o e)[i] = e[i - Len(d)] /\ i - Len(d) \in DOMAIN e
      /\ \A j \in DOMAIN e : (d \o e)[Len(d) + j] = e[j] /\ Len(d) + j \in DOMAIN (d \o e)
    OBVIOUS
<1> DEFINE f == d \o e
<1> HIDE DEF f
<1>2. Hashes(f) = Hashes(d) \cup Hashes(e)
    <2>1. Hashes(f) \subseteq Hashes(d) \cup Hashes(e)
        BY <1>1 DEF Hashes, f
    <2>2. Hashes(d) \subseteq Hashes(f)
        BY <1>1 DEF Hashes, f
    <2>3. Hashes(e) \subseteq Hashes(f)
        <3>1. ASSUME NEW j \in DOMAIN e PROVE e[j].hash \in Hashes(f)
            <4>1. f[Len(d) + j] = e[j] /\ Len(d) + j \in DOMAIN f
                BY <1>1 DEF f
            <4> QED BY <4>1 DEF Hashes
        <3> QED BY <3>1 DEF Hashes
    <2> QED BY <2>1, <2>2, <2>3
<1>3. ASSUME Unique(d), Unique(e), Hashes(d) \cap Hashes(e) = {},
             NEW i \in DOMAIN f, NEW j \in DOMAIN f, i # j
      PROVE  f[i].hash # f[j].hash
    <2>0. ASSUME NEW k \in DOMAIN f
          PROVE  IF k \in DOMAIN d THEN f[k].hash \in Hashes(d) ELSE f[k].hash \in Hashes(e)
        <3>1. CASE k \in DOMAIN d
            <4>1. f[k] = d[k]
                BY <1>1, <3>1 DEF f
            <4> QED BY <3>1, <4>1 DEF Hashes
        <3>2. CASE k \notin DOMAIN d
            <4>1. f[k] = e[k - Len(d)] /\ k - Len(d) \in DOMAIN e
                BY <1>1, <3>2 DEF f
            <4> QED BY <3>2, <4>1 DEF Hashes
        <3> QED BY <3>1, <3>2
    <2>1. CASE i \in DOMAIN d /\ j \in DOMAIN d
        BY <1>1, <1>3, <2>1 DEF Unique, f
    <2>2. CASE i \in DOMAIN d /\ j \notin DOMAIN d
        BY <1>3, <2>0, <2>2
    <2>3. CASE i \notin DOMAIN d /\ j \in DOMAIN d
        BY <1>3, <2>0, <2>3
    <2>4. CASE i \notin DOMAIN d /\ j \notin DOMAIN d
        <3>1. i - Len(d) # j - Len(d) /\ i - Len(d) \in DOMAIN e /\ j - Len(d) \in DOMAIN e
            BY <1>1, <1>3, <2>4 DEF f
        <3> QED BY <1>1, <1>3, <2>4, <3>1 DEF Unique, f
    <2> QED BY <2>1, <2>2, <2>3, <2>4
<1>4. Unique(d) /\ Unique(e) /\ Hashes(d) \cap Hashes(e) = {} => Unique(f)
    BY <1>3 DEF Unique
<1> QED BY <1>1, <1>2, <1>4 DEF f

LEMMA AppendProps ==
    ASSUME NEW d \in Seq(Entry), NEW x \in Entry
    PROVE  /\ Append(d, x) \in Seq(Entry)
           /\ Hashes(Append(d, x)) = Hashes(d) \cup {x.hash}
           /\ Unique(d) /\ x.hash \notin Hashes(d) => Unique(Append(d, x))
           /\ \A i \in DOMAIN Append(d, x) : Append(d, x)[i] = x \/ \E j \in DOMAIN d : Append(d, x)[i] = d[j]
<1>1. /\ DOMAIN Append(d, x) = DOMAIN d \cup {Len(d) + 1}
      /\ \A i \in DOMAIN d : Append(d, x)[i] = d[i]
      /\ Append(d, x)[Len(d) + 1] = x
      /\ Append(d, x) \in Seq(Entry)
    OBVIOUS
<1> DEFINE f == Append(d, x)
<1> HIDE DEF f
<1>2. Hashes(f) = Hashes(d) \cup {x.hash}
    BY <1>1, Zenon DEF Hashes, f
<1>3. ASSUME Unique(d), x.hash \notin Hashes(d) PROVE Unique(f)
    <2>1. \A i \in DOMAIN d : d[i].hash # x.hash
        BY <1>3 DEF Hashes
    <2> SUFFICES ASSUME NEW i \in DOMAIN f, NEW j \in DOMAIN f, i # j
                 PROVE  f[i].hash # f[j].hash
        BY DEF Unique
    <2>2. CASE i \in DOMAIN d /\ j \in DOMAIN d
        BY <1>1, <1>3, <2>2 DEF Unique, f
    <2>3. CASE i \notin DOMAIN d \/ j \notin DOMAIN d
        BY <1>1, <2>1, <2>3 DEF f
    <2> QED BY <2>2, <2>3
<1> QED BY <1>1, <1>2, <1>3 DEF f

\* The promoted patterns, as the entries promote_ioc_patterns() appends.
LEMMA PromotedProps ==
    ASSUME NEW S \in SUBSET Patterns, NEW s \in Orders(S)
    PROVE  /\ Entries(s, TRUE) \in Seq(Entry)
           /\ Hashes(Entries(s, TRUE)) = S
           /\ Unique(Entries(s, TRUE))
           /\ StoredActive(Entries(s, TRUE))
<1>1. IsFiniteSet(S)
    BY PatternsAssumption, FS_Subset
<1>2. /\ s \in Seq(S)
      /\ \A i, j \in DOMAIN s : i # j => s[i] # s[j]
      /\ \A p \in S : \E i \in DOMAIN s : s[i] = p
    BY <1>1, OrdersProperties
<1> DEFINE e == Entries(s, TRUE)
<1>3. /\ e \in Seq(Entry) /\ DOMAIN e = DOMAIN s
      /\ \A i \in DOMAIN s : e[i].hash = s[i] /\ e[i].promoted = TRUE
    BY <1>2, EntriesProperties
<1> HIDE DEF e
<1>4. \A i \in DOMAIN s : s[i] \in S
    BY <1>2
<1>5. Hashes(e) = S
    BY <1>2, <1>3, <1>4 DEF Hashes
<1>6. Unique(e)
    BY <1>2, <1>3 DEF Unique
<1>7. StoredActive(e)
    BY <1>3 DEF StoredActive
<1> QED BY <1>3, <1>5, <1>6, <1>7 DEF e

\* What delete_evolved_pattern() leaves.
LEMMA WithoutProps ==
    ASSUME NEW d \in Seq(Entry), NEW p \in Patterns, NEW x \in Without(d, p)
    PROVE  /\ x \in Seq(Entry)
           /\ Hashes(x) = Hashes(d) \ {p}
           /\ Unique(d) => Unique(x)
           /\ StoredActive(d) => StoredActive(x)
<1> DEFINE others == {i \in DOMAIN d : d[i].hash # p}
<1>1. PICK f \in Orders(others) : x = [j \in DOMAIN f |-> d[f[j]]]
    BY DEF Without
<1>2. IsFiniteSet(others)
    <2>1. DOMAIN d = 1..Len(d) /\ Len(d) \in Nat
        OBVIOUS
    <2>2. IsFiniteSet(1..Len(d))
        BY <2>1, FS_Interval
    <2>3. others \subseteq 1..Len(d)
        BY <2>1
    <2> QED BY <2>2, <2>3, FS_Subset
<1>3. /\ f \in Seq(others)
      /\ \A i, j \in DOMAIN f : i # j => f[i] # f[j]
      /\ \A i \in others : \E j \in DOMAIN f : f[j] = i
    BY <1>2, OrdersProperties
<1>4. /\ DOMAIN f = 1..Len(f) /\ Len(f) \in Nat
      /\ \A j \in DOMAIN f : f[j] \in DOMAIN d /\ d[f[j]].hash # p
    BY <1>3
<1>5. DOMAIN x = DOMAIN f /\ \A j \in DOMAIN f : x[j] = d[f[j]]
    BY <1>1
<1>6. x \in [1..Len(f) -> Entry]
    BY <1>1, <1>4
<1>7. x \in Seq(Entry)
    BY <1>4, <1>6
<1>8. Hashes(x) = Hashes(d) \ {p}
    BY <1>3, <1>4, <1>5 DEF Hashes
<1>9. Unique(d) => Unique(x)
    BY <1>3, <1>4, <1>5 DEF Unique
<1>10. StoredActive(d) => StoredActive(x)
    BY <1>4, <1>5 DEF StoredActive
<1> QED BY <1>7, <1>8, <1>9, <1>10

-----------------------------------------------------------------------------
(* Type correctness *)

LEMMA SaveType ==
    ASSUME NEW op \in Ops, NEW d \in Seq(Entry), NEW S \in SUBSET Patterns,
           NEW C \in SUBSET Cycles, BeginSave(op, d, S, C)
    PROVE  save' \in Saves
BY DEF BeginSave, Saves

LEMMA NoSaveType == NoSave \in Saves /\ NoCycle \in [running : BOOLEAN, data : Seq(Entry), newly : Seq(Entry)]
BY DEF NoSave, Saves, Ops, NoCycle

LEMMA DBTypes ==
    ASSUME TypeOK
    PROVE  /\ file.patterns \in Seq(Entry)
           /\ save.data \in Seq(Entry) /\ save.subject \subseteq Patterns /\ save.cycles \subseteq Cycles
           /\ \A c \in Cycles : /\ cycle[c].data \in Seq(Entry)
                                /\ cycle[c].newly \in Seq(Entry)
                                /\ CycleData(c) \in Seq(Entry)
                                /\ Hashes(cycle[c].newly) \subseteq Patterns
<1>1. file.patterns \in Seq(Entry)
    BY DEF TypeOK, Files
<1>2. save.data \in Seq(Entry) /\ save.subject \subseteq Patterns /\ save.cycles \subseteq Cycles
    BY DEF TypeOK, Saves
<1>3. \A c \in Cycles : cycle[c].data \in Seq(Entry) /\ cycle[c].newly \in Seq(Entry)
    BY DEF TypeOK
<1> QED BY <1>1, <1>2, <1>3, ConcatProps, HashesProperties DEF CycleData

LEMMA PromoteType ==
    ASSUME TypeOK, NEW op \in Ops, NEW C \in SUBSET Cycles, BeginPromote(op, C)
    PROVE  save' \in Saves
<1>1. Promotable \in SUBSET Patterns
    BY DEF Promotable, TypeOK
<1>2. PICK s \in Orders(Promotable) :
        BeginSave(op, file.patterns \o Entries(s, TRUE), Promotable, C)
    BY DEF BeginPromote
<1>3. file.patterns \o Entries(s, TRUE) \in Seq(Entry)
    BY <1>1, PromotedProps, ConcatProps, DBTypes
<1> QED BY <1>1, <1>2, <1>3, SaveType

LEMMA DBTypeStep == TypeOK /\ [Next]_vars => TypeOK'
<1> SUFFICES ASSUME TypeOK, [Next]_vars PROVE TypeOK'
    OBVIOUS
<1>1. CASE UNCHANGED vars
    BY <1>1 DEF vars, history, TypeOK
<1>2. CASE Start
    BY <1>2 DEF Start, Reloaded, TypeOK, history
<1>3. CASE Halt
    <2>1. /\ cycle' \in [Cycles -> [running : BOOLEAN, data : Seq(Entry), newly : Seq(Entry)]]
          /\ save' \in Saves /\ active' \in [Patterns -> 0..2]
        BY <1>3, NoSaveType DEF Halt
    <2>2. up' \in BOOLEAN /\ hot' \subseteq Patterns
        BY <1>3 DEF Halt
    <2>3. file' \in Files /\ faults' \in Nat /\ halts' \in Nat
        BY <1>3 DEF Halt, TypeOK
    <2>4. stored' \subseteq Patterns /\ exposed' \subseteq Patterns /\ deleted' \subseteq Patterns
        BY <1>3 DEF Halt, TypeOK, history
    <2> QED BY <2>1, <2>2, <2>3, <2>4, Zenon DEF TypeOK
<1>4. ASSUME NEW p \in Patterns, AddCustom(p) PROVE TypeOK'
    <2>1. [hash |-> p, promoted |-> FALSE] \in Entry
        BY DEF Entry
    <2>2. Append(file.patterns, [hash |-> p, promoted |-> FALSE]) \in Seq(Entry)
        BY <2>1, DBTypes, AppendProps
    <2>3. save' \in Saves
        <3>1. BeginSave("custom", Append(file.patterns, [hash |-> p, promoted |-> FALSE]), {p}, {})
            BY <1>4 DEF AddCustom
        <3>2. "custom" \in Ops /\ {p} \in SUBSET Patterns /\ {} \in SUBSET Cycles
            BY DEF Ops
        <3> QED BY <2>2, <3>1, <3>2, SaveType
    <2> QED BY <1>4, <2>3 DEF AddCustom, TypeOK, history
<1>5. ASSUME NEW p \in Patterns, Delete(p) PROVE TypeOK'
    <2>1. PICK d \in Without(file.patterns, p) : BeginSave("delete", d, {p}, {})
        BY <1>5 DEF Delete
    <2>2. save' \in Saves
        BY <2>1, SaveType, WithoutProps, DBTypes DEF Ops
    <2> QED BY <1>5, <2>2 DEF Delete, TypeOK, history
<1>6. CASE Promote
    <2>1. save' \in Saves
        BY <1>6, PromoteType DEF Promote, Ops
    <2> QED BY <1>6, <2>1 DEF Promote, TypeOK, history
<1>7. ASSUME NEW c \in Cycles, BeginCycle(c) PROVE TypeOK'
    <2>1. [running |-> TRUE, data |-> file.patterns, newly |-> <<>>]
            \in [running : BOOLEAN, data : Seq(Entry), newly : Seq(Entry)]
        BY DBTypes
    <2> QED BY <1>7, <2>1 DEF BeginCycle, TypeOK, history
<1>8. ASSUME NEW c \in Cycles, NEW p \in Patterns, Synthesise(c, p) PROVE TypeOK'
    <2>1. [hash |-> p, promoted |-> FALSE] \in Entry
        BY DEF Entry
    <2>2. Append(cycle[c].newly, [hash |-> p, promoted |-> FALSE]) \in Seq(Entry)
        BY <2>1, DBTypes, AppendProps
    <2>3. cycle' = [cycle EXCEPT ![c].newly =
                        Append(cycle[c].newly, [hash |-> p, promoted |-> FALSE])]
        BY <1>8 DEF Synthesise
    <2>4. cycle' \in [Cycles -> [running : BOOLEAN, data : Seq(Entry), newly : Seq(Entry)]]
        BY <2>2, <2>3 DEF TypeOK
    <2> QED BY <1>8, <2>4 DEF Synthesise, TypeOK, history
<1>9. ASSUME NEW c \in Cycles, FinishCycle(c) PROVE TypeOK'
    <2>1. save' \in Saves
        <3>1. CASE BeginPromote("cyclePromote", {c})
            BY <3>1, PromoteType DEF Ops
        <3>2. CASE BeginCycleSave(c)
            BY <3>2, SaveType, DBTypes DEF BeginCycleSave, Ops
        <3>3. CASE UNCHANGED save
            BY <3>3 DEF TypeOK
        <3> QED BY <1>9, <3>1, <3>2, <3>3 DEF FinishCycle
    <2>2. cycle' = cycle \/ cycle' = [cycle EXCEPT ![c] = NoCycle]
        BY <1>9 DEF FinishCycle
    <2>3. cycle' \in [Cycles -> [running : BOOLEAN, data : Seq(Entry), newly : Seq(Entry)]]
        BY <2>2, NoSaveType DEF TypeOK
    <2> QED BY <1>9, <2>1, <2>3 DEF FinishCycle, TypeOK, history
<1>10. CASE OpenFile
    <2>1. save' \in Saves /\ file' \in Files
        <3>1. save' = [save EXCEPT !.open = TRUE] /\ file' = Torn
            BY <1>10 DEF OpenFile
        <3>2. save' \in Saves
            BY <3>1 DEF TypeOK, Saves
        <3> QED BY <3>1, <3>2 DEF Torn, Files
    <2> QED BY <1>10, <2>1 DEF OpenFile, TypeOK, history
<1>11. CASE WriteDone
    <2>1. file' \in Files
        BY <1>11, DBTypes DEF WriteDone, Whole, Files
    <2>2. active' \in [Patterns -> 0..2]
        BY <1>11 DEF WriteDone, Reloaded, TypeOK
    <2>3. stored' \subseteq Patterns /\ exposed' \subseteq Patterns /\ deleted' \subseteq Patterns
        BY <1>11, DBTypes DEF WriteDone, Report, TypeOK
    <2>4. /\ save' \in Saves
          /\ cycle' \in [Cycles -> [running : BOOLEAN, data : Seq(Entry), newly : Seq(Entry)]]
        <3>1. CASE save' = NoSave /\ UNCHANGED cycle
            BY <3>1, NoSaveType DEF TypeOK
        <3>2. ASSUME NEW c \in save.cycles, GoOn(c)
              PROVE  /\ save' \in Saves
                     /\ cycle' \in [Cycles -> [running : BOOLEAN, data : Seq(Entry),
                                               newly : Seq(Entry)]]
            <4>1. c \in Cycles
                BY DBTypes
            <4>2. CASE BeginCycleSave(c) /\ UNCHANGED cycle
                <5>1. /\ "cycleSave" \in Ops /\ {c} \in SUBSET Cycles
                      /\ Hashes(cycle[c].newly) \in SUBSET Patterns
                      /\ CycleData(c) \in Seq(Entry)
                    BY <4>1, DBTypes DEF Ops
                <5>2. save' \in Saves
                    BY <4>2, <5>1, SaveType DEF BeginCycleSave
                <5> QED BY <4>2, <5>2 DEF TypeOK
            <4>3. CASE save' = NoSave /\ cycle' = [cycle EXCEPT ![c] = NoCycle]
                BY <4>1, <4>3, NoSaveType DEF TypeOK
            <4> QED BY <3>2, <4>2, <4>3 DEF GoOn
        <3> QED BY <1>11, <3>1, <3>2 DEF WriteDone
    <2> QED BY <1>11, <2>1, <2>2, <2>3, <2>4 DEF WriteDone, TypeOK
<1>12. CASE SaveFails
    BY <1>12, NoSaveType DEF SaveFails, TypeOK, history
<1>13. ASSUME NEW p \in Patterns, IocHot(p) \/ IocGone(p) PROVE TypeOK'
    BY <1>13 DEF IocHot, IocGone, TypeOK, history
<1> QED
    BY <1>1, <1>2, <1>3, <1>4, <1>5, <1>6, <1>7, <1>8, <1>9, <1>10, <1>11, <1>12, <1>13
    DEF Next

\* Every variable of the pattern database keeps its type in every behaviour.
THEOREM PatternTypeCorrect == Spec => []TypeOK
<1>1. Init => TypeOK
    <2> SUFFICES ASSUME Init PROVE TypeOK
        OBVIOUS
    <2>1. save \in Saves /\ file \in Files
        BY NoSaveType DEF Init, Files
    <2>2. cycle \in [Cycles -> [running : BOOLEAN, data : Seq(Entry), newly : Seq(Entry)]]
        BY NoSaveType DEF Init
    <2>3. up \in BOOLEAN /\ hot \subseteq Patterns
        BY Zenon DEF Init
    <2>6. active \in [Patterns -> 0..2]
        BY SMT DEF Init
    <2>4. faults \in Nat /\ halts \in Nat
        BY DEF Init
    <2>5. stored \subseteq Patterns /\ exposed \subseteq Patterns /\ deleted \subseteq Patterns
        BY DEF Init
    <2> QED BY <2>1, <2>2, <2>3, <2>4, <2>5, <2>6, Zenon DEF TypeOK
<1> QED BY <1>1, DBTypeStep, PTL DEF Spec

-----------------------------------------------------------------------------
(* No hash twice *)

\* HashesUnique is not inductive: a cycle writes what it read and what it found,
\* so neither may hold a hash twice, and nothing found may have been read.
CycleUnique(c) ==
    /\ Unique(cycle[c].data) /\ Unique(cycle[c].newly)
    /\ Hashes(cycle[c].data) \cap Hashes(cycle[c].newly) = {}

UniqueInv == HashesUnique /\ \A c \in Cycles : CycleUnique(c)

LEMMA UniqueEmpty == Unique(<<>>) /\ Hashes(<<>>) = {}
BY DEF Unique, Hashes

LEMMA PromoteUnique ==
    ASSUME TypeOK, Unique(file.patterns), NEW op, NEW C, BeginPromote(op, C)
    PROVE  Unique(save'.data)
<1>1. Promotable \in SUBSET Patterns /\ Promotable \cap Hashes(file.patterns) = {}
    BY DEF Promotable, TypeOK
<1>2. PICK s \in Orders(Promotable) :
        BeginSave(op, file.patterns \o Entries(s, TRUE), Promotable, C)
    BY DEF BeginPromote
<1>3. Unique(file.patterns \o Entries(s, TRUE))
    BY <1>1, PromotedProps, ConcatProps, DBTypes
<1> QED BY <1>2, <1>3 DEF BeginSave

LEMMA UniqueStep == TypeOK /\ UniqueInv /\ [Next]_vars => UniqueInv'
<1> SUFFICES ASSUME TypeOK, UniqueInv, [Next]_vars PROVE UniqueInv'
    OBVIOUS
<1>0. /\ Unique(file.patterns) /\ Unique(save.data)
      /\ \A c \in Cycles : CycleUnique(c) /\ Unique(CycleData(c))
    BY DBTypes, ConcatProps DEF UniqueInv, HashesUnique, CycleUnique, CycleData
<1>a. ASSUME file' = file, cycle' = cycle, Unique(save'.data) PROVE UniqueInv'
    BY <1>0, <1>a DEF UniqueInv, HashesUnique, CycleUnique
<1>b. /\ Unique(NoCycle.data) /\ Unique(NoCycle.newly) /\ Unique(NoSave.data)
      /\ Hashes(NoCycle.data) \cap Hashes(NoCycle.newly) = {}
    BY UniqueEmpty DEF NoCycle, NoSave
<1>c. ASSUME NEW C \in SUBSET Cycles,
             \A c \in Cycles : cycle'[c] = IF c \in C THEN NoCycle ELSE cycle[c],
             Unique(file'.patterns), Unique(save'.data)
      PROVE  UniqueInv'
    BY <1>0, <1>b, <1>c DEF UniqueInv, HashesUnique, CycleUnique
<1>1. CASE UNCHANGED vars
    BY <1>1, <1>a, <1>0 DEF vars
<1>2. CASE Start
    BY <1>2, <1>a, <1>0 DEF Start
<1>3. CASE Halt
    BY <1>3, <1>0, <1>b, <1>c DEF Halt
<1>4. ASSUME NEW p \in Patterns, AddCustom(p) PROVE UniqueInv'
    <2>1. [hash |-> p, promoted |-> FALSE] \in Entry
        BY DEF Entry
    <2>2. Unique(Append(file.patterns, [hash |-> p, promoted |-> FALSE]))
        BY <1>4, <1>0, <2>1, DBTypes, AppendProps DEF AddCustom, AddAllowed
    <2> QED BY <1>4, <1>a, <2>2 DEF AddCustom, BeginSave
<1>5. ASSUME NEW p \in Patterns, Delete(p) PROVE UniqueInv'
    <2>1. PICK d \in Without(file.patterns, p) : BeginSave("delete", d, {p}, {})
        BY <1>5 DEF Delete
    <2>2. Unique(save'.data)
        BY <2>1, <1>0, WithoutProps, DBTypes DEF BeginSave
    <2> QED BY <1>5, <1>a, <2>2 DEF Delete
<1>6. CASE Promote
    BY <1>6, <1>0, <1>a, PromoteUnique DEF Promote
<1>7. ASSUME NEW c \in Cycles, BeginCycle(c) PROVE UniqueInv'
    <2>1. cycle'[c].data = file.patterns /\ cycle'[c].newly = <<>>
        BY <1>7 DEF BeginCycle, TypeOK
    <2>2. Unique(<<>>) /\ Hashes(<<>>) = {}
        BY UniqueEmpty
    <2>3. \A k \in Cycles \ {c} : cycle'[k] = cycle[k]
        BY <1>7 DEF BeginCycle, TypeOK
    <2> QED BY <1>7, <1>0, <2>1, <2>2, <2>3 DEF BeginCycle, UniqueInv, HashesUnique, CycleUnique
<1>8. ASSUME NEW c \in Cycles, NEW p \in Patterns, Synthesise(c, p) PROVE UniqueInv'
    <2> DEFINE x == [hash |-> p, promoted |-> FALSE]
    <2>1. x \in Entry
        BY DEF Entry
    <2>2. /\ cycle'[c].data = cycle[c].data
          /\ cycle'[c].newly = Append(cycle[c].newly, x)
        BY <1>8 DEF Synthesise, TypeOK
    <2>3. \A k \in Cycles \ {c} : cycle'[k] = cycle[k]
        BY <1>8 DEF Synthesise, TypeOK
    <2>4. x.hash \notin Hashes(cycle[c].newly) /\ x.hash \notin Hashes(cycle[c].data)
        BY <1>8 DEF Synthesise, Known
    <2>5. /\ Unique(Append(cycle[c].newly, x))
          /\ Hashes(Append(cycle[c].newly, x)) = Hashes(cycle[c].newly) \cup {x.hash}
        BY <1>0, <2>1, <2>4, AppendProps, DBTypes DEF CycleUnique
    <2>6. CycleUnique(c)'
        BY <1>0, <2>2, <2>4, <2>5 DEF CycleUnique
    <2> HIDE DEF x
    <2> QED BY <1>8, <1>0, <2>3, <2>6 DEF Synthesise, UniqueInv, HashesUnique, CycleUnique
<1>9. ASSUME NEW c \in Cycles, FinishCycle(c) PROVE UniqueInv'
    <2>1. CASE BeginPromote("cyclePromote", {c}) /\ UNCHANGED cycle
        BY <1>9, <1>0, <1>a, <2>1, PromoteUnique DEF FinishCycle
    <2>2. CASE BeginCycleSave(c) /\ UNCHANGED cycle
        BY <1>9, <1>0, <1>a, <2>2 DEF FinishCycle, BeginCycleSave, BeginSave
    <2>3. CASE cycle' = [cycle EXCEPT ![c] = NoCycle] /\ UNCHANGED save
        <3>1. \A k \in Cycles : cycle'[k] = IF k \in {c} THEN NoCycle ELSE cycle[k]
            BY <2>3 DEF TypeOK
        <3> QED BY <1>9, <1>0, <1>c, <2>3, <3>1 DEF FinishCycle
    <2> QED BY <1>9, <2>1, <2>2, <2>3 DEF FinishCycle
<1>10. CASE OpenFile
    <2>1. save'.data = save.data
        BY <1>10 DEF OpenFile, TypeOK, Saves
    <2> QED BY <1>10, <1>0, <2>1, UniqueEmpty DEF OpenFile, Torn, UniqueInv, HashesUnique, CycleUnique
<1>11. CASE WriteDone
    <2>1. Unique(file'.patterns)
        BY <1>11, <1>0 DEF WriteDone, Whole
    <2>2. CASE save' = NoSave /\ UNCHANGED cycle
        BY <1>0, <1>b, <2>1, <2>2 DEF UniqueInv, HashesUnique, CycleUnique
    <2>3. ASSUME NEW c \in save.cycles, GoOn(c) PROVE UniqueInv'
        <3>1. c \in Cycles
            BY DBTypes
        <3>2. CASE BeginCycleSave(c) /\ UNCHANGED cycle
            BY <1>0, <2>1, <3>1, <3>2
            DEF BeginCycleSave, BeginSave, UniqueInv, HashesUnique, CycleUnique
        <3>3. CASE save' = NoSave /\ cycle' = [cycle EXCEPT ![c] = NoCycle]
            <4>1. \A k \in Cycles : cycle'[k] = IF k \in {c} THEN NoCycle ELSE cycle[k]
                BY <3>3 DEF TypeOK
            <4> QED BY <1>b, <1>c, <2>1, <3>1, <3>3, <4>1
        <3> QED BY <2>3, <3>2, <3>3 DEF GoOn
    <2> QED BY <1>11, <2>2, <2>3 DEF WriteDone
<1>12. CASE SaveFails
    <2>1. \A k \in Cycles : cycle'[k] = IF k \in save.cycles THEN NoCycle ELSE cycle[k]
        BY <1>12 DEF SaveFails
    <2> QED BY <1>12, <1>0, <1>b, <1>c, <2>1, DBTypes DEF SaveFails
<1>13. ASSUME NEW p \in Patterns, IocHot(p) \/ IocGone(p) PROVE UniqueInv'
    BY <1>13, <1>0, <1>a DEF IocHot, IocGone
<1> QED
    BY <1>1, <1>2, <1>3, <1>4, <1>5, <1>6, <1>7, <1>8, <1>9, <1>10, <1>11, <1>12, <1>13
    DEF Next

\* The file never lists a hash twice, for any number of overlapping cycles,
\* promotions, additions and deletions: that each writer checks its own, possibly
\* stale, copy loses updates but duplicates none.
THEOREM PatternHashesUnique == Spec => []HashesUnique
<1>1. Init => UniqueInv
    <2> SUFFICES ASSUME Init PROVE UniqueInv
        OBVIOUS
    <2>1. Unique(file.patterns) /\ Unique(save.data)
        BY UniqueEmpty DEF Init, NoSave
    <2>2. ASSUME NEW c \in Cycles PROVE CycleUnique(c)
        <3>1. cycle[c].data = <<>> /\ cycle[c].newly = <<>>
            BY DEF Init, NoCycle
        <3> QED BY <3>1, UniqueEmpty DEF CycleUnique
    <2> QED BY <2>1, <2>2 DEF UniqueInv, HashesUnique
<1>2. UniqueInv => HashesUnique
    BY DEF UniqueInv
<1> QED BY <1>1, <1>2, UniqueStep, PatternTypeCorrect, PTL DEF Spec

-----------------------------------------------------------------------------
(* What is stored is active *)

ActiveIn(d, a) == \A i \in DOMAIN d : ~d[i].promoted => a[d[i].hash] > 0

\* What a save in progress will leave in the file is active, or becomes so when it is
\* reloaded after the write.
SaveActive ==
    \A i \in DOMAIN save.data :
        ~save.data[i].promoted =>
            \/ active[save.data[i].hash] > 0
            \/ save.op \in {"custom", "cycleSave"} /\ save.data[i].hash \in save.subject

\* StoredAreActive is not inductive: the file takes over what saves and cycles hold.
ActiveInv ==
    /\ up => ActiveIn(file.patterns, active)
    /\ \A c \in Cycles : ActiveIn(cycle[c].data, active)
    /\ SaveActive

LEMMA ReloadedProps ==
    ASSUME TypeOK, NEW S \in SUBSET Patterns
    PROVE  \A p \in Patterns : /\ active[p] > 0 => Reloaded(S)[p] > 0
                               /\ p \in S => Reloaded(S)[p] > 0
BY DEF TypeOK, Reloaded

LEMMA ActiveConcat ==
    ASSUME NEW d \in Seq(Entry), NEW e \in Seq(Entry), NEW i \in DOMAIN (d \o e)
    PROVE  \/ \E j \in DOMAIN d : (d \o e)[i] = d[j]
           \/ \E j \in DOMAIN e : (d \o e)[i] = e[j]
<1>1. /\ Len(d) \in Nat /\ Len(e) \in Nat
      /\ DOMAIN d = 1..Len(d) /\ DOMAIN e = 1..Len(e)
      /\ DOMAIN (d \o e) = 1..(Len(d) + Len(e))
      /\ \A k \in DOMAIN d : (d \o e)[k] = d[k]
      /\ \A k \in 1..(Len(d) + Len(e)) :
            k \notin DOMAIN d => (d \o e)[k] = e[k - Len(d)] /\ k - Len(d) \in DOMAIN e
    OBVIOUS
<1> QED BY <1>1

LEMMA ActiveMonotone ==
    ASSUME NEW d \in Seq(Entry), NEW a, NEW b, ActiveIn(d, a),
           \A p \in Patterns : a[p] > 0 => b[p] > 0
    PROVE  ActiveIn(d, b)
<1>1. \A i \in DOMAIN d : d[i] \in Entry
    OBVIOUS
<1>2. \A i \in DOMAIN d : d[i].hash \in Patterns
    BY <1>1 DEF Entry
<1> QED BY <1>2 DEF ActiveIn

LEMMA ActiveEmpty == \A a : ActiveIn(<<>>, a)
BY DEF ActiveIn

\* A save of promoted entries after the file, and one of what a cycle read and found.
LEMMA PromoteActive ==
    ASSUME TypeOK, ActiveInv, up, NEW op, NEW C, BeginPromote(op, C), active' = active
    PROVE  SaveActive'
<1>1. Promotable \in SUBSET Patterns
    BY DEF Promotable, TypeOK
<1>2. PICK s \in Orders(Promotable) :
        BeginSave(op, file.patterns \o Entries(s, TRUE), Promotable, C)
    BY DEF BeginPromote
<1>3. Entries(s, TRUE) \in Seq(Entry) /\ file.patterns \in Seq(Entry)
    BY <1>1, PromotedProps, DBTypes
<1> DEFINE e == Entries(s, TRUE)
           d == file.patterns \o e
<1>4. save'.data = d
    BY <1>2 DEF BeginSave
<1>5. \A i \in DOMAIN d : (\E j \in DOMAIN file.patterns : d[i] = file.patterns[j])
                          \/ \E j \in DOMAIN e : d[i] = e[j]
    BY <1>3, ActiveConcat
<1> HIDE DEF d, e
<1>6. \A j \in DOMAIN e : e[j].promoted
    BY Zenon DEF e, Entries
<1>7. \A i \in DOMAIN d : ~d[i].promoted => active[d[i].hash] > 0
    BY <1>5, <1>6 DEF ActiveInv, ActiveIn
<1> QED BY <1>4, <1>7 DEF SaveActive

LEMMA CycleSaveActive ==
    ASSUME TypeOK, NEW c \in Cycles, ActiveIn(cycle[c].data, active'), BeginCycleSave(c)
    PROVE  SaveActive'
<1>1. cycle[c].data \in Seq(Entry) /\ cycle[c].newly \in Seq(Entry)
    BY DBTypes
<1>2. /\ save'.data = CycleData(c) /\ save'.op = "cycleSave"
      /\ save'.subject = Hashes(cycle[c].newly)
    BY DEF BeginCycleSave, BeginSave
<1>3. ASSUME NEW i \in DOMAIN CycleData(c), ~CycleData(c)[i].promoted
      PROVE  active'[CycleData(c)[i].hash] > 0 \/ CycleData(c)[i].hash \in Hashes(cycle[c].newly)
    <2>1. \/ \E j \in DOMAIN cycle[c].data : CycleData(c)[i] = cycle[c].data[j]
          \/ \E j \in DOMAIN cycle[c].newly : CycleData(c)[i] = cycle[c].newly[j]
        BY <1>1, ActiveConcat DEF CycleData
    <2> QED BY <1>3, <2>1 DEF ActiveIn, Hashes
<1> QED BY <1>2, <1>3 DEF SaveActive

LEMMA ActiveStep == TypeOK /\ ActiveInv /\ [Next]_vars => ActiveInv'
<1> SUFFICES ASSUME TypeOK, ActiveInv, [Next]_vars PROVE ActiveInv'
    OBVIOUS
<1>a. ASSUME UNCHANGED <<up, file, active, cycle>>, SaveActive' PROVE ActiveInv'
    BY <1>a DEF ActiveInv
<1>b. SaveActive /\ UNCHANGED <<save, active>> => SaveActive'
    BY DEF SaveActive
<1>c. save' = NoSave => SaveActive'
    BY DEF SaveActive, NoSave
<1>d. ActiveIn(NoCycle.data, active') /\ ActiveIn(<<>>, active')
    BY ActiveEmpty DEF NoCycle
<1>1. CASE UNCHANGED vars
    BY <1>1, <1>a, <1>b DEF ActiveInv, vars
<1>2. CASE Start
    <2>1. Hashes(file.patterns) \in SUBSET Patterns /\ active' = Reloaded(Hashes(file.patterns))
        BY <1>2, DBTypes, HashesProperties DEF Start
    <2>2. \A p \in Patterns : /\ active[p] > 0 => active'[p] > 0
                              /\ p \in Hashes(file.patterns) => active'[p] > 0
        BY <2>1, ReloadedProps
    <2>3. ActiveIn(file.patterns, active')
        BY <2>1, <2>2 DEF ActiveIn, Hashes
    <2>4. \A c \in Cycles : ActiveIn(cycle[c].data, active')
        BY <2>2, DBTypes, ActiveMonotone DEF ActiveInv
    <2>5. SaveActive'
        <3>1. \A i \in DOMAIN save.data : save.data[i] \in Entry
            BY DBTypes
        <3>2. \A i \in DOMAIN save.data : save.data[i].hash \in Patterns
            BY <3>1 DEF Entry
        <3> QED BY <1>2, <2>2, <3>2 DEF Start, ActiveInv, SaveActive
    <2> QED BY <1>2, <2>3, <2>4, <2>5 DEF Start, ActiveInv
<1>3. CASE Halt
    BY <1>3, <1>c, <1>d DEF Halt, ActiveInv
<1>4. ASSUME NEW p \in Patterns, AddCustom(p) PROVE ActiveInv'
    <2> DEFINE x == [hash |-> p, promoted |-> FALSE]
    <2>1. x \in Entry
        BY DEF Entry
    <2>2. /\ save'.data = Append(file.patterns, x) /\ save'.op = "custom"
          /\ save'.subject = {p} /\ x.hash = p
        BY <1>4 DEF AddCustom, BeginSave
    <2>3. \A i \in DOMAIN Append(file.patterns, x) :
            \/ Append(file.patterns, x)[i] = x
            \/ \E j \in DOMAIN file.patterns : Append(file.patterns, x)[i] = file.patterns[j]
        BY <2>1, DBTypes, AppendProps
    <2> HIDE DEF x
    <2>4. SaveActive'
        BY <1>4, <2>2, <2>3 DEF AddCustom, Idle, ActiveInv, ActiveIn, SaveActive
    <2> QED BY <1>4, <1>a, <2>4 DEF AddCustom
<1>5. ASSUME NEW p \in Patterns, Delete(p) PROVE ActiveInv'
    <2>1. PICK d \in Without(file.patterns, p) : BeginSave("delete", d, {p}, {})
        BY <1>5 DEF Delete
    <2>2. StoredActive(file.patterns)
        BY <1>5 DEF Delete, Idle, ActiveInv, ActiveIn, StoredActive
    <2>3. StoredActive(d)
        BY <2>1, <2>2, WithoutProps, DBTypes
    <2>4. SaveActive'
        BY <1>5, <2>1, <2>3 DEF Delete, BeginSave, SaveActive, StoredActive
    <2> QED BY <1>5, <1>a, <2>4 DEF Delete
<1>6. CASE Promote
    BY <1>6, <1>a, PromoteActive DEF Promote, Idle
<1>7. ASSUME NEW c \in Cycles, BeginCycle(c) PROVE ActiveInv'
    <2>1. cycle'[c].data = file.patterns /\ \A k \in Cycles \ {c} : cycle'[k] = cycle[k]
        BY <1>7 DEF BeginCycle, TypeOK
    <2> QED BY <1>7, <1>b, <2>1 DEF BeginCycle, Idle, ActiveInv
<1>8. ASSUME NEW c \in Cycles, NEW p \in Patterns, Synthesise(c, p) PROVE ActiveInv'
    <2>1. \A k \in Cycles : cycle'[k].data = cycle[k].data
        BY <1>8 DEF Synthesise, TypeOK
    <2> QED BY <1>8, <1>b, <2>1 DEF Synthesise, ActiveInv
<1>9. ASSUME NEW c \in Cycles, FinishCycle(c) PROVE ActiveInv'
    <2>0. up /\ UNCHANGED <<up, file, active>> /\ ActiveIn(cycle[c].data, active')
        BY <1>9 DEF FinishCycle, Idle, ActiveInv
    <2>1. CASE BeginPromote("cyclePromote", {c}) /\ UNCHANGED cycle
        BY <1>a, <2>0, <2>1, PromoteActive
    <2>2. CASE BeginCycleSave(c) /\ UNCHANGED cycle
        BY <1>a, <2>0, <2>2, CycleSaveActive
    <2>3. CASE cycle' = [cycle EXCEPT ![c] = NoCycle] /\ UNCHANGED save
        <3>1. \A k \in Cycles : cycle'[k] = IF k = c THEN NoCycle ELSE cycle[k]
            BY <2>3 DEF TypeOK
        <3> QED BY <1>b, <1>d, <2>0, <2>3, <3>1 DEF ActiveInv
    <2> QED BY <1>9, <2>1, <2>2, <2>3 DEF FinishCycle
<1>10. CASE OpenFile
    <2>1. save'.data = save.data /\ save'.op = save.op /\ save'.subject = save.subject
        BY <1>10 DEF OpenFile, TypeOK, Saves
    <2>2. SaveActive'
        BY <1>10, <2>1 DEF OpenFile, ActiveInv, SaveActive
    <2> QED BY <1>10, <1>d, <2>2 DEF OpenFile, Torn, ActiveInv
<1>11. CASE WriteDone
    <2>1. \A p \in Patterns : active[p] > 0 => active'[p] > 0
        BY <1>11, ReloadedProps, DBTypes DEF WriteDone
    <2>2. ActiveIn(file'.patterns, active')
        <3>1. \A i \in DOMAIN save.data : save.data[i] \in Entry
            BY DBTypes
        <3>2. \A i \in DOMAIN save.data : save.data[i].hash \in Patterns
            BY <3>1 DEF Entry
        <3>3. ReloadAfterSave => \A p \in save.subject : active'[p] > 0
            BY <1>11, ReloadedProps, DBTypes DEF WriteDone
        <3>4. file'.patterns = save.data
            BY <1>11 DEF WriteDone, Whole
        <3> QED BY <2>1, <3>2, <3>3, <3>4 DEF ActiveInv, SaveActive, ActiveIn, ReloadAfterSave
    <2>3. \A k \in Cycles : ActiveIn(cycle[k].data, active')
        BY <2>1, DBTypes, ActiveMonotone DEF ActiveInv
    <2>4. CASE save' = NoSave /\ UNCHANGED cycle
        BY <1>c, <2>2, <2>3, <2>4 DEF ActiveInv
    <2>5. ASSUME NEW c \in save.cycles, GoOn(c) PROVE ActiveInv'
        <3>1. c \in Cycles
            BY DBTypes
        <3>2. CASE BeginCycleSave(c) /\ UNCHANGED cycle
            BY <2>2, <2>3, <3>1, <3>2, CycleSaveActive DEF ActiveInv
        <3>3. CASE save' = NoSave /\ cycle' = [cycle EXCEPT ![c] = NoCycle]
            <4>1. \A k \in Cycles : cycle'[k] = IF k = c THEN NoCycle ELSE cycle[k]
                BY <3>3 DEF TypeOK
            <4> QED BY <1>c, <1>d, <2>2, <2>3, <3>3, <4>1 DEF ActiveInv
        <3> QED BY <2>5, <3>2, <3>3 DEF GoOn
    <2> QED BY <1>11, <2>4, <2>5 DEF WriteDone
<1>12. CASE SaveFails
    <2>1. \A k \in Cycles : cycle'[k] = IF k \in save.cycles THEN NoCycle ELSE cycle[k]
        BY <1>12 DEF SaveFails
    <2> QED BY <1>12, <1>c, <1>d, <2>1 DEF SaveFails, ActiveInv
<1>13. ASSUME NEW p \in Patterns, IocHot(p) \/ IocGone(p) PROVE ActiveInv'
    BY <1>13, <1>a, <1>b DEF IocHot, IocGone, ActiveInv
<1> QED
    BY <1>1, <1>2, <1>3, <1>4, <1>5, <1>6, <1>7, <1>8, <1>9, <1>10, <1>11, <1>12, <1>13
    DEF Next

\* Every stored custom or synthesised pattern is active in the running agent whenever
\* the event loop is free, for any number of overlapping cycles, failures and restarts:
\* what a stale copy brings back into the file was reloaded when it was stored first.
THEOREM PatternStoredAreActive == Spec => []StoredAreActive
<1>1. Init => ActiveInv
    <2> SUFFICES ASSUME Init PROVE ActiveInv
        OBVIOUS
    <2>1. \A c \in Cycles : ActiveIn(cycle[c].data, active)
        BY ActiveEmpty DEF Init, NoCycle
    <2>2. SaveActive /\ ~up
        BY DEF Init, NoSave, SaveActive
    <2> QED BY <2>1, <2>2 DEF ActiveInv
<1>2. ActiveInv => StoredAreActive
    BY DEF ActiveInv, StoredAreActive, Idle, StoredActive, ActiveIn
<1> QED BY <1>1, <1>2, ActiveStep, PatternTypeCorrect, PTL DEF Spec

-----------------------------------------------------------------------------
(* Only an overlap with a cycle loses a stored pattern *)

Safe == stored \ exposed

\* What a save in progress writes and what it is about to remove.
SaveKeeps ==
    save # NoSave =>
        Safe \subseteq Hashes(save.data) \cup (IF save.op = "delete" THEN save.subject ELSE {})

\* LossNeedsOverlap is not inductive: what is safe must be in every copy that may be
\* written, those the running cycles hold included.
LossInv ==
    /\ file.state # "torn" => Safe \subseteq Hashes(file.patterns)
    /\ file.state = "torn" => file.patterns = <<>>
    /\ \A c \in Running : Safe \subseteq Hashes(cycle[c].data)
    /\ SaveKeeps
    /\ save.op # "delete" => save.subject \subseteq Hashes(save.data)
    /\ save.cycles \subseteq Running
    /\ \A c, d \in save.cycles : c = d

LEMMA PromoteLoss ==
    ASSUME TypeOK, LossInv, file.state # "torn", Safe' = Safe, NEW op, op # "delete",
           NEW C, BeginPromote(op, C)
    PROVE  SaveKeeps' /\ save'.op = op /\ save'.subject \subseteq Hashes(save'.data) /\ save'.cycles = C
<1>1. Promotable \in SUBSET Patterns
    BY DEF Promotable, TypeOK
<1>2. PICK s \in Orders(Promotable) :
        BeginSave(op, file.patterns \o Entries(s, TRUE), Promotable, C)
    BY DEF BeginPromote
<1>3. Hashes(file.patterns \o Entries(s, TRUE)) = Hashes(file.patterns) \cup Promotable
    <2>1. Entries(s, TRUE) \in Seq(Entry) /\ Hashes(Entries(s, TRUE)) = Promotable
        BY <1>1, PromotedProps
    <2> QED BY <2>1, ConcatProps, DBTypes
<1>4. /\ save'.data = file.patterns \o Entries(s, TRUE) /\ save'.op = op
      /\ save'.subject = Promotable /\ save'.cycles = C
    BY <1>2 DEF BeginSave
<1> QED BY <1>3, <1>4 DEF LossInv, SaveKeeps

LEMMA CycleSaveLoss ==
    ASSUME TypeOK, LossInv, NEW c \in Running, Safe' \subseteq Safe, BeginCycleSave(c)
    PROVE  /\ SaveKeeps' /\ save'.op = "cycleSave" /\ save'.subject \subseteq Hashes(save'.data)
           /\ save'.cycles = {c}
<1>1. /\ save'.data = CycleData(c) /\ save'.op = "cycleSave"
      /\ save'.subject = Hashes(cycle[c].newly) /\ save'.cycles = {c}
    BY DEF BeginCycleSave, BeginSave
<1>2. Hashes(CycleData(c)) = Hashes(cycle[c].data) \cup Hashes(cycle[c].newly)
    BY DBTypes, ConcatProps DEF CycleData, Running
<1> QED BY <1>1, <1>2 DEF LossInv, SaveKeeps

LEMMA LossStep == TypeOK /\ LossInv /\ [Next]_vars => LossInv'
<1> SUFFICES ASSUME TypeOK, LossInv, [Next]_vars PROVE LossInv'
    OBVIOUS
\* A new save, of a request or of a cycle, while everything else stays.
<1>a. ASSUME UNCHANGED <<file, cycle, stored, exposed>>, SaveKeeps',
             save'.op # "delete" => save'.subject \subseteq Hashes(save'.data),
             save'.cycles \subseteq Running, \A c, d \in save'.cycles : c = d
      PROVE  LossInv'
    BY <1>a DEF LossInv, Safe, Running
<1>b. UNCHANGED <<save, stored, exposed>> => SaveKeeps'
    BY DEF LossInv, SaveKeeps, Safe
<1>c. save' = NoSave => /\ SaveKeeps' /\ save'.subject \subseteq Hashes(save'.data)
                        /\ save'.cycles = {}
    BY DEF SaveKeeps, NoSave
<1>d. ~NoCycle.running
    BY DEF NoCycle
<1>1. CASE UNCHANGED vars
    BY <1>1, <1>a, <1>b DEF vars, history, LossInv
<1>2. CASE Start
    BY <1>2, <1>a, <1>b DEF Start, history, LossInv
<1>3. CASE Halt
    <2>1. Running' = {} /\ UNCHANGED <<file, stored, exposed>>
        BY <1>3, <1>d DEF Halt, Running, history
    <2> QED BY <1>3, <1>c, <2>1 DEF Halt, LossInv, Safe
<1>4. ASSUME NEW p \in Patterns, AddCustom(p) PROVE LossInv'
    <2> DEFINE x == [hash |-> p, promoted |-> FALSE]
    <2>1. x \in Entry /\ x.hash = p
        BY DEF Entry
    <2>2. /\ save'.data = Append(file.patterns, x) /\ save'.op = "custom"
          /\ save'.subject = {p} /\ save'.cycles = {}
        BY <1>4 DEF AddCustom, BeginSave
    <2>3. Hashes(Append(file.patterns, x)) = Hashes(file.patterns) \cup {p}
        BY <2>1, DBTypes, AppendProps
    <2> HIDE DEF x
    <2>4. Safe' = Safe /\ Safe \subseteq Hashes(file.patterns)
        BY <1>4 DEF AddCustom, history, Safe, LossInv
    <2>5. SaveKeeps'
        BY <2>2, <2>3, <2>4 DEF SaveKeeps
    <2> QED BY <1>4, <1>a, <2>2, <2>3, <2>5 DEF AddCustom, history
<1>5. ASSUME NEW p \in Patterns, Delete(p) PROVE LossInv'
    <2>1. PICK d \in Without(file.patterns, p) : BeginSave("delete", d, {p}, {})
        BY <1>5 DEF Delete
    <2>2. Hashes(d) = Hashes(file.patterns) \ {p}
        BY <2>1, WithoutProps, DBTypes
    <2>3. file.state # "torn"
        BY <1>5, UniqueEmpty DEF Delete, LossInv
    <2>4. Safe' = Safe /\ Safe \subseteq Hashes(file.patterns)
        BY <1>5, <2>3 DEF Delete, history, Safe, LossInv
    <2>5. save'.data = d /\ save'.op = "delete" /\ save'.subject = {p} /\ save'.cycles = {}
        BY <2>1 DEF BeginSave
    <2>6. SaveKeeps'
        BY <2>2, <2>4, <2>5 DEF SaveKeeps
    <2> QED BY <1>5, <1>a, <2>5, <2>6 DEF Delete, history
<1>6. CASE Promote
    <2>1. Safe' = Safe /\ UNCHANGED <<file, cycle, stored, exposed>>
        BY <1>6 DEF Promote, history, Safe
    <2>2. SaveKeeps' /\ save'.subject \subseteq Hashes(save'.data) /\ save'.cycles = {}
        BY <1>6, <2>1, PromoteLoss DEF Promote
    <2> QED BY <1>a, <2>1, <2>2
<1>7. ASSUME NEW c \in Cycles, BeginCycle(c) PROVE LossInv'
    <2>1. cycle'[c].data = file.patterns /\ \A k \in Cycles \ {c} : cycle'[k] = cycle[k]
        BY <1>7 DEF BeginCycle, TypeOK
    <2>2. Running' \subseteq Running \cup {c} /\ save = NoSave
        BY <1>7, <2>1 DEF BeginCycle, Running, Idle
    <2>3. Safe' = Safe /\ Safe \subseteq Hashes(file.patterns)
        BY <1>7 DEF BeginCycle, history, Safe, LossInv
    <2>4. \A k \in Running' : Safe' \subseteq Hashes(cycle'[k].data)
        BY <2>1, <2>2, <2>3 DEF LossInv, Running
    <2> QED BY <1>7, <1>c, <2>2, <2>3, <2>4 DEF BeginCycle, LossInv
<1>8. ASSUME NEW c \in Cycles, NEW p \in Patterns, Synthesise(c, p) PROVE LossInv'
    <2>1. \A k \in Cycles : cycle'[k].data = cycle[k].data /\ cycle'[k].running = cycle[k].running
        BY <1>8 DEF Synthesise, TypeOK
    <2>2. Running' = Running /\ Safe' = Safe
        BY <1>8, <2>1 DEF Synthesise, history, Safe, Running
    <2>3. \A k \in Running' : Safe' \subseteq Hashes(cycle'[k].data)
        BY <2>1, <2>2 DEF LossInv, Running
    <2> QED BY <1>8, <1>b, <2>2, <2>3 DEF Synthesise, history, LossInv
<1>9. ASSUME NEW c \in Cycles, FinishCycle(c) PROVE LossInv'
    <2>0. c \in Running /\ UNCHANGED <<file, stored, exposed>> /\ Safe' = Safe
        BY <1>9 DEF FinishCycle, history, Safe
    <2>1. CASE CanFinish /\ BeginPromote("cyclePromote", {c}) /\ UNCHANGED cycle
        <3>1. SaveKeeps' /\ save'.subject \subseteq Hashes(save'.data) /\ save'.cycles = {c}
            BY <2>0, <2>1, PromoteLoss DEF CanFinish
        <3> QED BY <1>a, <2>0, <2>1, <3>1
    <2>2. CASE BeginCycleSave(c) /\ UNCHANGED cycle
        <3>1. SaveKeeps' /\ save'.subject \subseteq Hashes(save'.data) /\ save'.cycles = {c}
            BY <2>0, <2>2, CycleSaveLoss
        <3> QED BY <1>a, <2>0, <2>2, <3>1
    <2>3. CASE cycle' = [cycle EXCEPT ![c] = NoCycle] /\ UNCHANGED save
        <3>1. \A k \in Cycles : cycle'[k] = IF k = c THEN NoCycle ELSE cycle[k]
            BY <2>3 DEF TypeOK
        <3>2. Running' \subseteq Running /\ \A k \in Running' : cycle'[k] = cycle[k]
            BY <1>d, <3>1 DEF Running
        <3>3. save' = NoSave
            BY <1>9, <2>3 DEF FinishCycle, Idle
        <3> QED BY <1>c, <2>0, <3>2, <3>3 DEF LossInv
    <2> QED BY <1>9, <2>1, <2>2, <2>3 DEF FinishCycle
<1>10. CASE OpenFile
    <2>1. /\ save'.data = save.data /\ save'.op = save.op
          /\ save'.subject = save.subject /\ save'.cycles = save.cycles
        BY <1>10 DEF OpenFile, TypeOK, Saves
    <2>2. SaveKeeps'
        BY <1>10, <2>1 DEF OpenFile, LossInv, SaveKeeps, Safe, history
    <2> QED BY <1>10, <2>1, <2>2 DEF OpenFile, Torn, LossInv, Safe, Running, history
<1>11. CASE WriteDone
    <2>1. save # NoSave
        BY <1>11 DEF WriteDone, NoSave
    <2>2. file'.patterns = save.data /\ file'.state = "whole"
        BY <1>11 DEF WriteDone, Whole
    <2>3. Safe' \subseteq Hashes(file'.patterns)
        BY <1>11, <2>1, <2>2 DEF WriteDone, Report, LossInv, SaveKeeps, Safe
    <2>4. Holders # {} => Safe' \subseteq Safe
        BY <1>11 DEF WriteDone, Report, Safe
    <2>5. CASE save' = NoSave /\ UNCHANGED cycle /\ save.cycles = {}
        <3>1. Running' = Running
            BY <2>5 DEF Running
        <3>2. \A k \in Running' : Safe' \subseteq Hashes(cycle'[k].data)
            BY <2>4, <2>5, <3>1 DEF Holders, LossInv
        <3> QED BY <1>c, <2>2, <2>3, <2>5, <3>2 DEF LossInv
    <2>6. ASSUME NEW c \in save.cycles, GoOn(c) PROVE LossInv'
        <3>1. c \in Running /\ c \in Cycles
            BY DEF LossInv, Running
        <3>2. CASE save.op = "cyclePromote" /\ BeginCycleSave(c) /\ UNCHANGED cycle
            <4>1. Safe' \subseteq Safe /\ Running' = Running
                BY <2>4, <3>1, <3>2 DEF Holders, Running
            <4>2. /\ SaveKeeps' /\ save'.subject \subseteq Hashes(save'.data)
                  /\ save'.cycles = {c}
                BY <3>1, <3>2, <4>1, CycleSaveLoss
            <4>3. \A k \in Running' : Safe' \subseteq Hashes(cycle'[k].data)
                BY <3>2, <4>1 DEF LossInv
            <4> QED BY <2>2, <2>3, <3>1, <4>1, <4>2, <4>3 DEF LossInv
        <3>3. CASE save' = NoSave /\ cycle' = [cycle EXCEPT ![c] = NoCycle]
            <4>1. \A k \in Cycles : cycle'[k] = IF k = c THEN NoCycle ELSE cycle[k]
                BY <3>3 DEF TypeOK
            <4>2. Running' \subseteq Running \ {c} /\ \A k \in Running' : cycle'[k] = cycle[k]
                BY <1>d, <4>1 DEF Running
            <4>3. save.cycles = {c}
                BY DEF LossInv
            <4>4. ASSUME NEW k \in Running' PROVE Safe' \subseteq Hashes(cycle'[k].data)
                <5>1. k \in Holders
                    BY <4>2, <4>3 DEF Holders
                <5> QED BY <2>4, <4>2, <5>1 DEF LossInv
            <4> QED BY <1>c, <2>2, <2>3, <3>3, <4>4 DEF LossInv
        <3> QED BY <2>6, <3>2, <3>3 DEF GoOn
    <2> QED BY <1>11, <2>5, <2>6 DEF WriteDone
<1>12. CASE SaveFails
    <2>1. \A k \in Cycles : cycle'[k] = IF k \in save.cycles THEN NoCycle ELSE cycle[k]
        BY <1>12 DEF SaveFails
    <2>2. Running' \subseteq Running /\ \A k \in Running' : cycle'[k] = cycle[k]
        BY <1>d, <2>1 DEF Running
    <2>3. Safe' = Safe /\ file' = file /\ save' = NoSave
        BY <1>12 DEF SaveFails, history, Safe
    <2> QED BY <1>c, <2>2, <2>3 DEF LossInv
<1>13. ASSUME NEW p \in Patterns, IocHot(p) \/ IocGone(p) PROVE LossInv'
    BY <1>13, <1>a, <1>b DEF IocHot, IocGone, history, LossInv
<1> QED
    BY <1>1, <1>2, <1>3, <1>4, <1>5, <1>6, <1>7, <1>8, <1>9, <1>10, <1>11, <1>12, <1>13
    DEF Next

\* A pattern that was reported stored while no cycle held an older copy is in every
\* readable file until it is deleted, for any number of cycles, failures and restarts:
\* overlapping with a cycle is the only way to lose one.
THEOREM PatternLossNeedsOverlap == Spec => []LossNeedsOverlap
<1>1. Init => LossInv
    BY DEF Init, NoSave, NoCycle, LossInv, SaveKeeps, Safe, Running, Hashes
<1>2. LossInv => LossNeedsOverlap
    BY DEF LossInv, LossNeedsOverlap, Safe
<1> QED BY <1>1, <1>2, LossStep, PatternTypeCorrect, PTL DEF Spec

-----------------------------------------------------------------------------
(* A file cut short *)

\* A file cut short lists nothing, so delete_evolved_pattern() finds nothing in it.
TornInv == file.state = "torn" => file.patterns = <<>>

LEMMA TornInvStep == TornInv /\ [Next]_vars => TornInv'
<1> SUFFICES ASSUME TornInv, [Next]_vars PROVE TornInv'
    OBVIOUS
<1> SUFFICES file' = file \/ file' = Torn \/ file' = Whole(save.data)
    BY DEF TornInv, Torn, Whole
<1>1. CASE UNCHANGED vars
    BY <1>1 DEF vars
<1>2. CASE Start \/ OpenFile \/ WriteDone \/ SaveFails
    BY <1>2 DEF Start, OpenFile, WriteDone, SaveFails
<1>3. CASE Halt \/ \E p \in Patterns : IocHot(p) \/ IocGone(p)
    BY <1>3 DEF Halt, IocHot, IocGone
<1>4. CASE Promote \/ \E p \in Patterns : AddCustom(p) \/ Delete(p)
    BY <1>4 DEF Promote, AddCustom, Delete
<1>5. CASE \E c \in Cycles : \/ BeginCycle(c) \/ FinishCycle(c)
                             \/ \E p \in Patterns : Synthesise(c, p)
    BY <1>5 DEF BeginCycle, FinishCycle, Synthesise
<1> QED BY <1>1, <1>2, <1>3, <1>4, <1>5 DEF Next

LEMMA TornStep ==
    ASSUME TornInv, Next, file.state = "torn", save = NoSave
    PROVE  save' = NoSave /\ file' = file
<1>1. Hashes(file.patterns) = {} /\ ~save.open
    BY DEF TornInv, Hashes, NoSave
<1>2. CASE Start \/ OpenFile \/ WriteDone \/ SaveFails
    BY <1>1, <1>2 DEF Start, OpenFile, WriteDone, SaveFails
<1>3. CASE Halt \/ \E p \in Patterns : IocHot(p) \/ IocGone(p)
    BY <1>3 DEF Halt, IocHot, IocGone
<1>4. CASE Promote \/ \E p \in Patterns : AddCustom(p) \/ Delete(p)
    BY <1>1, <1>4 DEF Promote, AddCustom, Delete
<1>5. CASE \E c \in Cycles : \/ BeginCycle(c) \/ FinishCycle(c)
                             \/ \E p \in Patterns : Synthesise(c, p)
    BY <1>5 DEF BeginCycle, FinishCycle, CanFinish, Synthesise
<1> QED BY <1>2, <1>3, <1>4, <1>5 DEF Next

\* A file that a failed save cut short stays cut short, and nothing is saved any more,
\* for any number of patterns and of overlapping cycles.
THEOREM PatternTornIsTerminal == Spec => TornIsTerminal
<1>1. Init => TornInv
    BY DEF Init, TornInv
<1>2. TornInv /\ [Next]_vars =>
          [file.state = "torn" /\ save = NoSave => save' = NoSave /\ file' = file]_vars
    BY TornStep
<1> QED BY <1>1, <1>2, TornInvStep, PTL DEF Spec, TornIsTerminal
=============================================================================
