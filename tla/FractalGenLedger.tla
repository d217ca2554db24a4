-------------------------- MODULE FractalGenLedger --------------------------
(***************************************************************************)
(* The scheduler implements JobLedger when the jobs are stills: the row's  *)
(* status is the ledger's row, and the list that holds the job its stage.  *)
(***************************************************************************)
EXTENDS FractalGen

LedgerRow == [id \in Ids |-> db[id].status]
LedgerStage ==
  [id \in Ids |-> IF id > lastID THEN "unused"
                  ELSE IF Waiting(id) THEN "waiting"
                  ELSE IF Running(id) THEN "active" ELSE "over"]
LedgerPending == IF inserting = NoId THEN {} ELSE {inserting}

Ledger == INSTANCE JobLedger
            WITH row <- LedgerRow, stage <- LedgerStage, pending <- LedgerPending

\* Every behaviour of the scheduler on stills is one of the ledger: starting,
\* cancelling, reaping, deleting, late inserts and restarts included.
ImplementsLedger == Ledger!Spec
=============================================================================
