-------------------------- MODULE LedgerRefinesLog --------------------------
(***************************************************************************)
(* The ledger of a single worker implements AuditLog: its log is the       *)
(* events of its blocks followed by its buffer, the commit point is the    *)
(* end of the last block.                                                  *)
(***************************************************************************)
EXTENDS Ledger

Seqs == INSTANCE SequencesExt

TheWorker == CHOOSE w \in Workers : TRUE

EventLog(c) == Seqs!FlattenSeq([i \in DOMAIN c |-> c[i].events])

Log == INSTANCE AuditLog WITH
    Entries   <- Events,
    running   <- Running(TheWorker),
    log       <- EventLog(chain[TheWorker]) \o pending[TheWorker],
    committed <- Len(EventLog(chain[TheWorker])),
    disk      <- [state |-> file.state, log |-> EventLog(file.blocks)]

\* Every step of the worker is a step of the abstract log or a stutter: order is
\* kept, nothing is lost but by a halt, nothing is saved that was not mined, and
\* a restart resumes with exactly what the file holds.
ImplementsAuditLog == Log!Spec
=============================================================================
