----------------------------- MODULE JobLedger -----------------------------
(***************************************************************************)
(* What the server promises about a job, without its threads and queues:   *)
(* every job has a stage, every fractal a row in the table, and the two    *)
(* change together.  FractalGenLedger shows that the scheduler implements  *)
(* this specification for stills.                                          *)
(***************************************************************************)
EXTENDS Integers

CONSTANT MaxJobs
ASSUME MaxJobsAssumption == MaxJobs \in Nat

VARIABLES
  row,      \* status of the fractal in the table, or "NONE"
  stage,    \* where its job is
  pending   \* jobs submitted whose row has still to be inserted

vars == <<row, stage, pending>>

Ids == 1..MaxJobs
Verdicts == {"COMPLETE", "TIMEOUT", "CANCEL", "ERR"}
RowStatus == Verdicts \cup {"NONE", "QUEUED", "RENDERING"}
Stages == {"unused", "waiting", "active", "over"}

Present(id) == row[id] # "NONE"
\* A row is updated only if it is there.
WriteRow(id, s) == row' = IF Present(id) THEN [row EXCEPT ![id] = s] ELSE row
MoveTo(id, s) == stage' = [stage EXCEPT ![id] = s]

Init ==
  /\ row = [id \in Ids |-> "NONE"]
  /\ stage = [id \in Ids |-> "unused"]
  /\ pending = {}

\* Ids are handed out in order.
Submit(id) ==
  /\ stage[id] = "unused" /\ \A j \in 1..(id - 1) : stage[j] # "unused"
  /\ pending = {}
  /\ MoveTo(id, "waiting") /\ pending' = {id}
  /\ UNCHANGED row

\* The row may come late: the job may already be active, or over.
Insert(id) ==
  /\ id \in pending
  /\ row' = [row EXCEPT ![id] = "QUEUED"] /\ pending' = pending \ {id}
  /\ UNCHANGED stage

Start(id) ==
  /\ stage[id] = "waiting"
  /\ MoveTo(id, "active") /\ WriteRow(id, "RENDERING")
  /\ UNCHANGED pending

\* A waiting job is cancelled for good ...
CancelWaiting(id) ==
  /\ stage[id] = "waiting"
  /\ MoveTo(id, "over") /\ WriteRow(id, "CANCEL")
  /\ UNCHANGED pending

\* ... an active one is only asked to stop.
CancelActive(id) ==
  /\ stage[id] = "active"
  /\ WriteRow(id, "CANCEL")
  /\ UNCHANGED <<stage, pending>>

Close(id, verdict) ==
  /\ stage[id] = "active"
  /\ MoveTo(id, "over") /\ WriteRow(id, verdict)
  /\ UNCHANGED pending

Delete(id) ==
  /\ Present(id)
  /\ row' = [row EXCEPT ![id] = "NONE"]
  /\ UNCHANGED <<stage, pending>>

\* A restart loses every job; ids above the last row are handed out again.
LostQueued(s) == IF s = "QUEUED" THEN "ERR" ELSE s   \* mutant: RENDERING is kept
Lost(s) == IF s \in {"QUEUED", "RENDERING"} THEN "ERR" ELSE s
Reusable(id) == \A j \in id..MaxJobs : ~Present(j)
Restart ==
  /\ row' = [id \in Ids |-> Lost(row[id])]
  /\ stage' = [id \in Ids |-> IF Reusable(id) THEN "unused" ELSE "over"]
  /\ pending' = {}

Next ==
  \/ \E id \in Ids :
       \/ Submit(id) \/ Insert(id) \/ Start(id)
       \/ CancelWaiting(id) \/ CancelActive(id)
       \/ \E v \in Verdicts : Close(id, v)
       \/ Delete(id)
  \/ Restart

Spec == Init /\ [][Next]_vars

-----------------------------------------------------------------------------

\* The ledger's variables have their types.
TypeOK ==
  /\ row \in [Ids -> RowStatus]
  /\ stage \in [Ids -> Stages]
  /\ pending \subseteq Ids

\* A row never tells of a job that is not there: RENDERING only while the job
\* is active, a verdict only once it is over, CANCEL never while it waits.
RowMatchesStage ==
  \A id \in Ids :
    /\ row[id] = "RENDERING" => stage[id] = "active"
    /\ row[id] \in {"COMPLETE", "TIMEOUT", "ERR"} => stage[id] = "over"
    /\ row[id] = "CANCEL" => stage[id] \in {"active", "over"}

\* A job whose row has not been inserted was submitted, and has no row yet.
PendingHasNoRow ==
  \A id \in Ids : /\ id \in pending => stage[id] # "unused" /\ ~Present(id)
                  /\ stage[id] = "unused" => ~Present(id)

\* A row and the stage of its job agree, from the submission to the deletion.
RowsAgree == RowMatchesStage /\ PendingHasNoRow
=============================================================================
