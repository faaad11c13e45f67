------------------------------ MODULE AuditLog ------------------------------
(***************************************************************************)
(* What the ledger of one process promises, without blocks: an append-only *)
(* log with a commit point.  A save writes exactly the committed prefix.   *)
(* While a save is under way, and after one that was cut short, the disk   *)
(* is unreadable.  A process resumes from exactly what the disk holds, and *)
(* never from an unreadable disk.                                          *)
(***************************************************************************)
EXTENDS Integers, Sequences

CONSTANT Entries

VARIABLES
    running,   \* is there a process
    log,       \* the entries it holds, in order
    committed, \* how many of them the next save writes
    disk       \* [state : {"absent", "torn", "whole"}, log : Seq(Entries)]

vars == <<running, log, committed, disk>>

Init ==
    /\ running = FALSE
    /\ log = <<>>
    /\ committed = 0
    /\ disk = [state |-> "absent", log |-> <<>>]

Start ==
    /\ ~running
    /\ disk.state # "torn"
    /\ running' = TRUE
    /\ log' = disk.log
    /\ committed' = Len(disk.log)
    /\ UNCHANGED disk

\* An entry is appended at the end, once; the commit point may advance over it.
Add ==
    /\ running
    /\ \E e \in Entries :
        /\ \A i \in DOMAIN log : log[i] # e
        /\ log' = Append(log, e)
    /\ committed' \in {committed, Len(log')}
    /\ UNCHANGED <<running, disk>>

Commit ==
    /\ running
    /\ committed' = Len(log)
    /\ UNCHANGED <<running, log, disk>>

BeginSave ==
    /\ running
    /\ disk' = [state |-> "torn", log |-> <<>>]
    /\ UNCHANGED <<running, log, committed>>

Halted == running' = FALSE /\ log' = <<>> /\ committed' = 0

\* A save completes; it may be the last thing the process does.
Save ==
    /\ running
    /\ disk' = [state |-> "whole", log |-> SubSeq(log, 1, committed)]
    /\ UNCHANGED <<running, log, committed>> \/ Halted

Halt == running /\ Halted /\ UNCHANGED disk

Next == Start \/ Add \/ Commit \/ BeginSave \/ Save \/ Halt

Spec == Init /\ [][Next]_vars
=============================================================================
