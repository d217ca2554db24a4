---------------------- MODULE FractalGenLedger_proofs ----------------------
(***************************************************************************)
(* When all jobs are stills the scheduler implements JobLedger: every step *)
(* of its threads is one step of the ledger, or none.  The job board then  *)
(* shows what runs.                                                        *)
(***************************************************************************)
EXTENDS FractalGenJobs_proofs, FractalGenLedger

AllStill == \A id \in Ids : Still(id)
StillInv == RowInv /\ AllStill

-----------------------------------------------------------------------------
(* With stills only there are no frames, no animations and no muxers.      *)

LEMMA NoAnimations ==
  ASSUME StillInv
  PROVE  /\ A = <<>> /\ MuxedKnown /\ \A id \in Ids : ~Muxed(id)
         /\ \A k \in 1..Len(R) : /\ R[k].id \in Ids /\ R[k].frameID = 0
                                 /\ R[k].pc \notin {"spawn", "enqueue"}
<1>1. /\ TypeOK /\ KnownAnims /\ KnownThreads /\ MuxedKnown /\ AllStill
  BY DEF StillInv, RowInv, OrderInv, ThreadInv, Safe, AllKnown, JobPlaces
<1>2. A = <<>>
  <2>1. A \in Seq(Animation)
    BY <1>1 DEF TypeOK, AnimTypes
  <2>2. \A k \in 1..Len(A) : FALSE
    BY <1>1, Entries DEF KnownAnims, Known, AllStill
  <2>3. Len(A) \in Nat
    BY <2>1, LenProperties
  <2>4. Len(A) = 0
    BY <2>2, <2>3
  <2>5. QED
    BY <2>1, <2>4, EmptySeq
<1>3. \A id \in Ids : ~Muxed(id)
  BY <1>1 DEF MuxedKnown, AllStill
<1>4. \A k \in 1..Len(R) : /\ R[k].id \in Ids /\ R[k].frameID = 0
                           /\ R[k].pc \notin {"spawn", "enqueue"}
  BY <1>1, Entries DEF KnownThreads, Known, Spawning, AllStill
<1>5. QED
  BY <1>1, <1>2, <1>3, <1>4

\* Stills are all that is submitted, and nothing changes what a job is.
LEMMA StillStep ==
  ASSUME \A k \in Kinds : k.frames = 0
  PROVE  /\ Init => AllStill
         /\ TypeOK /\ AllStill /\ [Next]_vars => AllStill'
<1>1. Init => AllStill
  BY DEF Init, AllStill, Still, NoKind
<1> SUFFICES ASSUME TypeOK, AllStill, [Next]_vars PROVE AllStill'
  BY <1>1
<1>2. CASE UNCHANGED params
  BY <1>2 DEF AllStill, Still
<1>3. ASSUME NEW kind \in Kinds, SubmitJob(kind) PROVE AllStill'
  <2>1. params' = [params EXCEPT ![lastID'] = kind] /\ params \in [Ids -> Kind]
    BY <1>3 DEF SubmitJob, TypeOK, IntakeTypes
  <2>2. QED
    BY <2>1 DEF AllStill, Still
<1>4. CASE CrashRestart
  BY <1>4 DEF CrashRestart, AllStill, Still, NoKind
<1>5. CASE MainStep
  <2>1. UNCHANGED params
    BY <1>5
    DEF MainStep, ReapBusy, ReapStill, ReapFrame, ReapEnd, AnimationTimeout,
        LockAnimations, QueueFrames, CheckProgress, UnlockAnimations, Dispatch,
        FetchSubmittedJobs, PostJob, NoCommand, CommandCancel, CommandDelete,
        CommandRename, WriteRename, AtCommand, intake
  <2>2. QED
    BY <1>2, <2>1
<1>6. ASSUME NEW i \in DOMAIN R, RenderStep(i) PROVE AllStill'
  <2>1. CASE AddAnimationToQueue(i)
    BY <1>2, <2>1 DEF AddAnimationToQueue, RenderFrame, intake
  <2>2. CASE ThreadMoves(i) \/ SaveImage(i)
    BY <1>2, <2>2, ThreadMovesFacts DEF SaveImage, RenderFrame, intake, TypeOK
  <2>3. QED
    BY <1>6, <2>1, <2>2 DEF RenderStep, ThreadMoves
<1>7. CASE MuxStep
  BY <1>2, <1>7 DEF MuxStep, MuxRead, MuxWrite, MuxCopyJobs, MuxPostJobs,
                    MuxerFrame, intake
<1>8. CASE InsertFractal \/ ClientStep \/ DeliverStep
  <2>1. CASE \E kind \in Kinds : SubmitJob(kind)
    BY <1>3, <2>1
  <2>2. CASE NetworkAnswers
    BY <1>2, <2>2 DEF NetworkAnswers, InsertFractal, PostRequest, QueryFractal,
                      DeliverStep, DeliverReport, DeliverDeletion, intake
  <2>3. QED
    BY <1>8, <2>1, <2>2 DEF ClientStep, NetworkAnswers
<1>9. CASE UNCHANGED vars
  BY <1>2, <1>9 DEF vars, intake
<1>10. QED
  BY <1>4, <1>5, <1>6, <1>7, <1>8, <1>9 DEF Next

LEMMA AlwaysStill ==
  ASSUME \A k \in Kinds : k.frames = 0
  PROVE  Spec => []StillInv
<1>1. Init => AllStill
  BY StillStep
<1>2. RowInv /\ AllStill /\ [Next]_vars => AllStill'
  BY StillStep DEF RowInv, OrderInv, ThreadInv, Safe
<1>3. QED
  BY <1>1, <1>2, AlwaysRows, PTL DEF Spec, StillInv
-----------------------------------------------------------------------------
(* The ledger's view of a step.                                            *)

LEMMA StageOf ==
  ASSUME NEW id \in Ids
  PROVE  LedgerStage[id] = IF id > lastID THEN "unused"
                           ELSE IF Waiting(id) THEN "waiting"
                           ELSE IF Running(id) THEN "active" ELSE "over"
  BY DEF LedgerStage

LEMMA StageFunction ==
  /\ LedgerStage = [w \in Ids |-> LedgerStage[w]]
  /\ LedgerStage' = [w \in Ids |-> LedgerStage'[w]]
  BY DEF LedgerStage

\* The stage of a job is the list that holds it.
StagesShown ==
  \A id \in Ids :
    /\ id > lastID => ~InLine(id) /\ ~Running(id) /\ LedgerStage[id] = "unused"
    /\ InLine(id) => ~Running(id) /\ LedgerStage[id] = "waiting"
    /\ Running(id) => LedgerStage[id] = "active"
    /\ id <= lastID /\ ~InLine(id) /\ ~Running(id) => LedgerStage[id] = "over"

LEMMA StagesNow == StillInv => StagesShown
<1> SUFFICES ASSUME StillInv, NEW id \in Ids
             PROVE  /\ id > lastID => /\ ~InLine(id) /\ ~Running(id)
                                      /\ LedgerStage[id] = "unused"
                    /\ InLine(id) => ~Running(id) /\ LedgerStage[id] = "waiting"
                    /\ Running(id) => LedgerStage[id] = "active"
                    /\ id <= lastID /\ ~InLine(id) /\ ~Running(id)
                         => LedgerStage[id] = "over"
  BY DEF StagesShown
<1>1. RowInv /\ OrderInv /\ TypeOK /\ Still(id)
  BY DEF StillInv, RowInv, OrderInv, ThreadInv, Safe, AllStill
<1>2. Waiting(id) <=> InLine(id)
  <2>1. InLine(id) => Waiting(id)
    BY <1>1, Lengths DEF InLine, Waiting, ZeroIn, Holds
  <2>2. QED
    BY <1>1, <2>1, WaitingInLine
<1>3. InLine(id) => ~Running(id)
  BY <1>1, OpenRows DEF Begun
<1>4. InLine(id) \/ Running(id) => id <= lastID
  BY <1>1, PlacesKnown DEF Begun
<1>5. lastID \in Int /\ id \in Int
  BY <1>1 DEF TypeOK, IntakeTypes, Ids
<1>6. id > lastID => ~(id <= lastID)
  BY <1>5
<1>7. QED
  BY <1>2, <1>3, <1>4, <1>5, <1>6, StageOf

LEMMA StagesThen == StillInv' => StagesShown'
  BY StagesNow, PTL
\* A step that moves one job changes one stage, one that moves none changes none.
JobStays(w) == (InLine(w)' <=> InLine(w)) /\ (Running(w)' <=> Running(w))

LEMMA StagesStay ==
  ASSUME StillInv, StillInv', UNCHANGED lastID
  PROVE  \A w \in Ids : JobStays(w) => LedgerStage'[w] = LedgerStage[w]
<1>1. StagesShown /\ StagesShown'
  BY StagesNow, StagesThen
<1>2. lastID \in Int /\ \A w \in Ids : w \in Int
  BY DEF StillInv, RowInv, OrderInv, ThreadInv, Safe, TypeOK, IntakeTypes, Ids
<1> SUFFICES ASSUME NEW w \in Ids, JobStays(w) PROVE LedgerStage'[w] = LedgerStage[w]
  OBVIOUS
<1>3. CASE w > lastID
  BY <1>1, <1>3 DEF StagesShown
<1>4. CASE InLine(w)
  BY <1>1, <1>4 DEF StagesShown, JobStays
<1>5. CASE Running(w)
  BY <1>1, <1>5 DEF StagesShown, JobStays
<1>6. CASE w <= lastID /\ ~InLine(w) /\ ~Running(w)
  BY <1>1, <1>6 DEF StagesShown, JobStays
<1>7. QED
  BY <1>2, <1>3, <1>4, <1>5, <1>6

LEMMA StagesKept ==
  ASSUME StillInv, StillInv', UNCHANGED lastID, \A w \in Ids : JobStays(w)
  PROVE  LedgerStage' = LedgerStage
<1>1. \A w \in Ids : LedgerStage'[w] = LedgerStage[w]
  BY StagesStay
<1>2. /\ LedgerStage = [w \in Ids |-> LedgerStage[w]]
      /\ LedgerStage' = [w \in Ids |-> LedgerStage'[w]]
  BY StageFunction
<1>3. QED
  BY <1>1, <1>2

LEMMA StageMoved ==
  ASSUME StillInv, StillInv', UNCHANGED lastID, NEW id \in Ids,
         \A w \in Ids : w # id => JobStays(w)
  PROVE  Ledger!MoveTo(id, LedgerStage'[id])
<1>1. \A w \in Ids : w # id => LedgerStage'[w] = LedgerStage[w]
  BY StagesStay
<1>2. /\ LedgerStage = [w \in Ids |-> LedgerStage[w]]
      /\ LedgerStage' = [w \in Ids |-> LedgerStage'[w]]
  BY StageFunction
<1>3. LedgerStage' = [LedgerStage EXCEPT ![id] = LedgerStage'[id]]
  BY <1>1, <1>2
<1>4. QED
  BY <1>3 DEF Ledger!MoveTo

\* A row is written if it is there.
LEMMA RowWritten ==
  ASSUME NEW id \in Ids, NEW s, Rewrites(id, s)
  PROVE  Ledger!WriteRow(id, s)
<1>1. /\ LedgerRow = [w \in Ids |-> db[w].status]
      /\ LedgerRow' = [w \in Ids |-> db'[w].status]
  BY DEF LedgerRow
<1>2. \A w \in Ids : db'[w].status = IF w = id /\ db[w].status # "NONE"
                                     THEN s ELSE db[w].status
  BY DEF Rewrites
<1>3. CASE db[id].status # "NONE"
  <2>1. LedgerRow' = [LedgerRow EXCEPT ![id] = s]
    BY <1>1, <1>2, <1>3
  <2>2. LedgerRow[id] # "NONE"
    BY <1>1, <1>3
  <2>3. QED
    BY <2>1, <2>2 DEF Ledger!WriteRow, Ledger!Present
<1>4. CASE db[id].status = "NONE"
  <2>1. LedgerRow' = LedgerRow
    BY <1>1, <1>2, <1>4
  <2>2. LedgerRow[id] = "NONE"
    BY <1>1, <1>4
  <2>3. QED
    BY <2>1, <2>2 DEF Ledger!WriteRow, Ledger!Present
<1>5. QED
  BY <1>3, <1>4

LEMMA RowsStay ==
  ASSUME \A w \in Ids : db'[w].status = db[w].status
  PROVE  LedgerRow' = LedgerRow
<1>1. /\ LedgerRow = [w \in Ids |-> db[w].status]
      /\ LedgerRow' = [w \in Ids |-> db'[w].status]
  BY DEF LedgerRow
<1>2. QED
  BY <1>1

\* What the steps that the ledger does not see have in common.
Unseen ==
  /\ UNCHANGED <<lastID, inserting>>
  /\ \A w \in Ids : db'[w].status = db[w].status /\ JobStays(w)

LEMMA UnseenStutters ==
  ASSUME StillInv, StillInv', Unseen
  PROVE  UNCHANGED Ledger!vars
<1>1. LedgerRow' = LedgerRow
  BY RowsStay DEF Unseen
<1>2. LedgerStage' = LedgerStage
  BY StagesKept DEF Unseen
<1>3. LedgerPending' = LedgerPending
  BY DEF LedgerPending, Unseen
<1>4. QED
  BY <1>1, <1>2, <1>3 DEF Ledger!vars
-----------------------------------------------------------------------------
(* Cancelling, reaping and starting.                                       *)

\* A still that waits is in line.
LinesShown == \A id \in Ids : Waiting(id) <=> InLine(id)

LEMMA LinesNow == StillInv => LinesShown
<1> SUFFICES ASSUME StillInv, NEW id \in Ids PROVE Waiting(id) <=> InLine(id)
  BY DEF LinesShown
<1>1. OrderInv /\ TypeOK /\ Still(id)
  BY DEF StillInv, RowInv, OrderInv, ThreadInv, Safe, AllStill
<1>2. InLine(id) => Waiting(id)
  BY <1>1, Lengths DEF InLine, Waiting, ZeroIn, Holds
<1>3. QED
  BY <1>1, <1>2, WaitingInLine

LEMMA LinesThen == StillInv' => LinesShown'
  BY LinesNow, PTL

\* A job that leaves the line without a thread is over, and so is one that
\* loses its thread.
LEMMA JobOver ==
  ASSUME StillInv, StillInv', UNCHANGED lastID, NEW id \in Ids,
         InLine(id) \/ Running(id), ~InLine(id)', ~Running(id)'
  PROVE  LedgerStage'[id] = "over"
<1>1. StagesShown /\ StagesShown'
  BY StagesNow, StagesThen
<1>2. lastID \in Int /\ id \in Int
  BY DEF StillInv, RowInv, OrderInv, ThreadInv, Safe, TypeOK, IntakeTypes, Ids
<1>3. id <= lastID
  BY <1>1, <1>2 DEF StagesShown
<1>4. QED
  BY <1>1, <1>3 DEF StagesShown

LEMMA CancelSeen ==
  ASSUME StillInv, StillInv', NEW id \in Ids, CancelJob(id), R' = CancelRunning(id),
         newJobs = <<>>,
         UNCHANGED <<lastID, params, inserting, Submitted, newJobs>>
  PROVE  Ledger!CancelActive(id) \/ Ledger!CancelWaiting(id) \/ UNCHANGED Ledger!vars
<1>1. /\ RowInv /\ TypeOK /\ ThreadTypes /\ StoreTypes /\ TypeOK' /\ LinesShown
      /\ LinesShown' /\ StagesShown /\ StagesShown'
  BY LinesNow, LinesThen, StagesNow, StagesThen
  DEF StillInv, RowInv, OrderInv, ThreadInv, Safe, TypeOK
<1>2. SameJobs
  BY <1>1, CancelRunningFacts DEF SameJobs
<1>3. Leaving
  BY <1>1, <1>2, CancelLeft, SameLeft DEF Leaving, LineLeaving
<1>4. \A w : Running(w)' <=> Running(w)
  BY <1>1, <1>2, JobsKept
<1>5. \A w : InLine(w)' => InLine(w)
  BY <1>1, <1>3, LeavingPlaces
<1>6. \A w \in Ids : w # id => JobStays(w)
  <2> SUFFICES ASSUME NEW w \in Ids, w # id, Waiting(w) PROVE Waiting(w)'
    BY <1>1, <1>4, <1>5 DEF LinesShown, JobStays
  <2>1. /\ Holds(JQ, w) => Holds(JQ, w)'
        /\ Holds(JQManual, w) => Holds(JQManual, w)'
    BY <1>1, CancelOthers
  <2>2. QED
    BY <2>1 DEF Waiting, ListedIn
<1>7. CASE UNCHANGED <<db, reports, queues>>
  <2>1. \A w \in Ids : JobStays(w)
    BY <1>4, <1>7 DEF JobStays, InLine, ListedIn, ZeroIn, queues
  <2>2. QED
    BY <1>7, <2>1, UnseenStutters DEF Unseen
<1>8. CASE /\ db' = SetStatus(id, "CANCEL") /\ ~InLine(id)'
           /\ Running(id) /\ UNCHANGED queues
  <2>1. Ledger!WriteRow(id, "CANCEL")
    BY <1>1, <1>8, RowWrites, RowWritten DEF Status, Verdicts
  <2>2. \A w \in Ids : JobStays(w)
    BY <1>4, <1>8 DEF JobStays, InLine, ListedIn, ZeroIn, queues
  <2>3. LedgerStage' = LedgerStage /\ LedgerPending' = LedgerPending
    BY <2>2, StagesKept DEF LedgerPending
  <2>4. LedgerStage[id] = "active"
    BY <1>1, <1>8 DEF StagesShown
  <2>5. QED
    BY <2>1, <2>3, <2>4 DEF Ledger!CancelActive
<1>9. CASE /\ db' = SetStatus(id, "CANCEL") /\ ~InLine(id)' /\ Waiting(id)
  <2>1. Ledger!WriteRow(id, "CANCEL")
    BY <1>1, <1>9, RowWrites, RowWritten DEF Status, Verdicts
  <2>2. InLine(id) /\ ~Running(id) /\ LedgerStage[id] = "waiting"
    BY <1>1, <1>9 DEF LinesShown, StagesShown
  <2>3. LedgerStage'[id] = "over"
    BY <1>4, <1>9, <2>2, JobOver
  <2>4. Ledger!MoveTo(id, "over")
    BY <1>6, <2>3, StageMoved
  <2>5. LedgerPending' = LedgerPending
    BY DEF LedgerPending
  <2>6. QED
    BY <2>1, <2>2, <2>4, <2>5 DEF Ledger!CancelWaiting
<1>10. QED
  BY <1>1, <1>3, <1>7, <1>8, <1>9, CancelFinds
LEMMA ReapSeen ==
  ASSUME StillInv, StillInv', ReapBusy \/ ReapStill \/ ReapFrame \/ ReapEnd
  PROVE  \/ \E id \in Ids : \E v \in Ledger!Verdicts : Ledger!Close(id, v)
         \/ UNCHANGED Ledger!vars
<1>1. /\ RowInv /\ OrderInv /\ ThreadInv /\ TypeOK /\ RunOnce /\ TypeOK' /\ StoreTypes
      /\ ThreadTypes /\ StagesShown /\ StagesShown'
      /\ UNCHANGED <<lastID, params, inserting, Submitted, newJobs>>
  <2>1. UNCHANGED <<lastID, params, inserting, Submitted, newJobs>>
    BY DEF ReapBusy, ReapStill, ReapFrame, ReapEnd, intake
  <2>2. QED
    BY <2>1, StagesNow, StagesThen
    DEF StillInv, RowInv, OrderInv, ThreadInv, Safe, JobPlaces, Placed, TypeOK
<1>2. CASE ReapBusy \/ ReapEnd
  <2>1. UNCHANGED <<db, queues, R>>
    BY <1>2 DEF ReapBusy, ReapEnd, store
  <2>2. \A w \in Ids : JobStays(w)
    BY <1>1, <2>1 DEF JobStays, InLine, ListedIn, ZeroIn, Running, Holds, queues
  <2>3. QED
    BY <1>1, <2>1, <2>2, UnseenStutters DEF Unseen
<1>3. CASE ReapStill
  <2> DEFINE v == Verdict(R[it].fract)
  <2>1. PICK id \in Ids : /\ id = R[it].id /\ Running(id) /\ ~Running(id)'
                          /\ db' = SetStatus(id, v)
    BY <1>1, <1>3, ReapEnds
  <2>2. v \in Verdicts
    BY DEF Verdict, Verdicts
  <2>3. it \in 1..Len(R) /\ R' = RemoveAt(R, it) /\ UNCHANGED queues
    BY <1>1, <1>3, Lengths DEF ReapStill, TypeOK, LoopTypes
  <2> HIDE DEF v
  <2>4. Ledger!WriteRow(id, v)
    BY <1>1, <2>1, <2>2, RowWrites, RowWritten DEF Status
  <2>5. \A w : InLine(w)' <=> InLine(w)
    BY <1>1, <2>3 DEF InLine, ListedIn, ZeroIn, queues
  <2>6. \A w : Running(w)' => Running(w)
    BY <1>1, <1>3, ReapLeaves, LeavingPlaces DEF Leaves
  <2>7. \A w : Running(w) /\ w # id => Running(w)'
    BY <1>1, <2>1, <2>3, ReapKnown DEF ThreadTypes
  <2>8. \A w \in Ids : w # id => JobStays(w)
    BY <2>5, <2>6, <2>7 DEF JobStays
  <2>9. LedgerStage[id] = "active" /\ ~InLine(id)
    BY <1>1, <2>1 DEF StagesShown
  <2>10. LedgerStage'[id] = "over"
    BY <1>1, <2>1, <2>5, <2>9, JobOver
  <2>11. Ledger!MoveTo(id, "over")
    BY <1>1, <2>8, <2>10, StageMoved
  <2>12. LedgerPending' = LedgerPending
    BY <1>1 DEF LedgerPending
  <2>13. Ledger!Close(id, v)
    BY <2>4, <2>9, <2>11, <2>12 DEF Ledger!Close
  <2>14. QED
    BY <2>2, <2>13 DEF Ledger!Verdicts, Verdicts
<1>4. CASE ReapFrame
  BY <1>1, <1>4, NoAnimations, Lengths DEF ReapFrame, TypeOK, LoopTypes
<1>5. QED
  BY <1>2, <1>3, <1>4

\* A job that is started was in line; then it has a thread.
LEMMA DispatchSeen ==
  ASSUME StillInv, StillInv', Dispatch
  PROVE  (\E id \in Ids : Ledger!Start(id)) \/ UNCHANGED Ledger!vars
<1>1. /\ RowInv /\ OrderInv /\ TypeOK /\ TypeOK' /\ StoreTypes /\ AllStill
      /\ StagesShown /\ StagesShown'
      /\ UNCHANGED <<lastID, params, inserting, Submitted, newJobs>>
  <2>1. UNCHANGED <<lastID, params, inserting, Submitted, newJobs>>
    BY DEF Dispatch, intake
  <2>2. QED
    BY <2>1, StagesNow, StagesThen
    DEF StillInv, RowInv, OrderInv, ThreadInv, Safe, TypeOK
<1>2. ASSUME NEW task \in Task, NEW manual \in BOOLEAN, Start(task, manual),
             RunThread(task)
      PROVE  \E id \in Ids : Ledger!Start(id)
  <2>1. PICK id \in Ids : id = task.id
    BY DEF Task
  <2>2. InLine(id)
    BY <1>1, <1>2, <2>1, StartsFromLine DEF AllStill
  <2>3. Running(id)' /\ \A w : Running(w) => Running(w)'
    <3>1. Running(task.id)' /\ \A w : Running(w) => Running(w)'
      BY <1>1, <1>2, StartRuns
    <3>2. QED
      BY <2>1, <3>1 DEF Running, Holds
  <2>4. \A w \in Ids : w # id => JobStays(w)
    BY <1>1, <1>2, <2>1, <2>3, StartPlaced, StartKeepsLine DEF JobStays
  <2>5. LedgerStage[id] = "waiting" /\ LedgerStage'[id] = "active"
    BY <1>1, <2>2, <2>3 DEF StagesShown
  <2>6. Ledger!MoveTo(id, "active")
    BY <1>1, <2>4, <2>5, StageMoved
  <2>7. Ledger!WriteRow(id, "RENDERING")
    BY <1>1, <1>2, <2>1, RowWrites, RowWritten DEF RunThread, Status
  <2>8. LedgerPending' = LedgerPending
    BY <1>1 DEF LedgerPending
  <2>9. QED
    BY <2>5, <2>6, <2>7, <2>8 DEF Ledger!Start
<1>3. CASE UNCHANGED <<db, R, queues>>
  <2>1. \A w \in Ids : JobStays(w)
    BY <1>1, <1>3 DEF JobStays, InLine, ListedIn, ZeroIn, Running, Holds, queues
  <2>2. QED
    BY <1>1, <1>3, <2>1, UnseenStutters DEF Unseen
<1>4. QED
  BY <1>1, <1>2, <1>3, DispatchStarts
-----------------------------------------------------------------------------
(* The other steps.                                                        *)

\* The lists of jobs are as they were.
SameLists == UNCHANGED <<lastID, inserting, Submitted, newJobs, queues>>

LEMMA SameListsUnseen ==
  ASSUME StillInv, StillInv', SameLists, \A w \in Ids : Running(w)' <=> Running(w),
         \A w \in Ids : db'[w].status = db[w].status
  PROVE  UNCHANGED Ledger!vars
<1>1. \A w : InLine(w)' <=> InLine(w)
  BY DEF SameLists, InLine, ListedIn, ZeroIn, queues
<1>2. Unseen
  BY <1>1 DEF SameLists, Unseen, JobStays
<1>3. QED
  BY <1>2, UnseenStutters

LEMMA AnimationsSeen ==
  ASSUME StillInv, StillInv',
         \/ AnimationTimeout \/ LockAnimations \/ QueueFrames
         \/ CheckProgress \/ UnlockAnimations
  PROVE  UNCHANGED Ledger!vars
<1>1. TypeOK /\ A = <<>> /\ DOMAIN A = {} /\ Len(A) = 0
  BY NoAnimations, EmptySeq DEF StillInv, RowInv, OrderInv, ThreadInv, Safe
<1>2. UNCHANGED <<db, lastID, inserting, Submitted, newJobs, queues, R>>
  <2>1. CASE LockAnimations \/ CheckProgress \/ UnlockAnimations
    BY <2>1 DEF LockAnimations, CheckProgress, UnlockAnimations, store, intake
  <2>2. CASE AnimationTimeout
    BY <1>1, <2>2 DEF AnimationTimeout
  <2>3. CASE QueueFrames
    <3>1. it \in Nat \ {0}
      BY <1>1 DEF TypeOK, LoopTypes
    <3>2. ~(count > 0 /\ it <= Len(A))
      BY <1>1, <3>1
    <3>3. QED
      BY <2>3, <3>2 DEF QueueFrames, store, intake
  <2>4. QED
    BY <2>1, <2>2, <2>3
<1>3. QED
  BY <1>2, SameListsUnseen DEF SameLists, Running, Holds

LEMMA IntakeSeen ==
  ASSUME StillInv, StillInv', FetchSubmittedJobs \/ PostJob
  PROVE  UNCHANGED Ledger!vars
<1>1. /\ OrderInv /\ LineRows /\ TypeOK' /\ UNCHANGED <<lastID, inserting, R>>
  BY DEF StillInv, RowInv, RowsKnown, OrderInv, ThreadInv, Safe, FetchSubmittedJobs,
         PostJob, intake
<1>2. \A w : Running(w)' <=> Running(w)
  BY <1>1 DEF Running, Holds
<1>3. \A w \in Ids : InLine(w)' <=> InLine(w)
  BY <1>1, FetchPlaced, PostPlaced, PostKeepsLine
<1>4. \A w \in Ids : db'[w].status = db[w].status
  <2>1. CASE FetchSubmittedJobs
    BY <2>1 DEF FetchSubmittedJobs, store
  <2>2. CASE PostJob
    <3>1. PICK id \in Ids : InLine(id) /\ Rewrites(id, "QUEUED")
      BY <1>1, <2>2, PostKeepsLine
    <3>2. QED
      BY <1>1, <3>1 DEF LineRows, Rewrites
  <2>3. QED
    BY <2>1, <2>2
<1>5. QED
  BY <1>1, <1>2, <1>3, <1>4, UnseenStutters DEF Unseen, JobStays

LEMMA RequestsSeen ==
  ASSUME StillInv, StillInv',
         NoCommand \/ CommandCancel \/ CommandDelete \/ CommandRename \/ WriteRename
  PROVE  \/ \E id \in Ids : \/ Ledger!CancelActive(id) \/ Ledger!CancelWaiting(id)
                            \/ Ledger!Delete(id)
         \/ UNCHANGED Ledger!vars
<1>1. /\ OrderInv /\ TypeOK /\ StoreTypes /\ RenameRow /\ AllStill
      /\ UNCHANGED <<lastID, params, inserting, Submitted, newJobs>> /\ newJobs = <<>>
  <2>1. OrderInv /\ TypeOK /\ StoreTypes /\ RenameRow /\ AllStill
    BY DEF StillInv, RowInv, OrderInv, ThreadInv, Safe, TypeOK
  <2>2. UNCHANGED <<inserting, Submitted>> /\ (mainpc # "post" \/ newJobs = <<>>)
    BY DEF NoCommand, CommandCancel, CommandDelete, CommandRename, WriteRename,
           AtCommand, intake
  <2>3. newJobs = <<>>
    BY <2>1, <2>2 DEF OrderInv, JobPlaces, PostHasJobs
  <2>4. QED
    BY <2>1, <2>2, <2>3, RequestsLeave DEF Leaves
<1>2. ASSUME requests # <<>> PROVE Head(requests).id \in Ids
  <2>1. Head(requests) \in Request
    BY <1>1, <1>2, HeadTailProperties DEF TypeOK, MailboxTypes
  <2>2. QED
    BY <2>1 DEF Request
<1>3. ASSUME UNCHANGED <<queues, R>>, \A w \in Ids : db'[w].status = db[w].status
      PROVE  UNCHANGED Ledger!vars
  BY <1>1, <1>3, SameListsUnseen DEF SameLists, Running, Holds
<1>4. CASE NoCommand \/ CommandRename
  BY <1>3, <1>4 DEF NoCommand, CommandRename, store
<1>5. CASE CommandCancel
  <2>1. PICK id \in Ids : id = Head(requests).id
    BY <1>2, <1>5 DEF CommandCancel, AtCommand
  <2>2. CancelJob(id) /\ R' = CancelRunning(id)
    BY <1>5, <2>1 DEF CommandCancel
  <2>3. QED
    BY <1>1, <2>2, CancelSeen
<1>6. CASE CommandDelete
  <2>1. PICK id \in Ids : id = Head(requests).id
    BY <1>2, <1>6 DEF CommandDelete, AtCommand
  <2>2. UNCHANGED <<queues, R>>
    BY <1>6 DEF CommandDelete
  <2>3. CASE Exists(id)
    <3>1. db' = [db EXCEPT ![id] = NoRow] /\ db[id].status # "NONE"
      BY <1>6, <2>1, <2>3 DEF CommandDelete, Exists
    <3>2. LedgerRow' = [LedgerRow EXCEPT ![id] = "NONE"] /\ LedgerRow[id] # "NONE"
      BY <1>1, <3>1 DEF LedgerRow, StoreTypes, NoRow
    <3>3. \A w \in Ids : JobStays(w)
      BY <1>1, <2>2 DEF JobStays, InLine, ListedIn, ZeroIn, Running, Holds, queues
    <3>4. LedgerStage' = LedgerStage /\ LedgerPending' = LedgerPending
      BY <1>1, <3>3, StagesKept DEF LedgerPending
    <3>5. QED
      BY <3>2, <3>4 DEF Ledger!Delete, Ledger!Present
  <2>4. CASE ~Exists(id)
    <3>1. UNCHANGED db
      BY <1>6, <2>1, <2>4 DEF CommandDelete, store
    <3>2. QED
      BY <1>3, <2>2, <3>1
  <2>5. QED
    BY <2>3, <2>4
\* The row read for a rename is the row it is written back to.
<1>7. CASE WriteRename
  <2>1. mainpc = "rename" /\ db' = updateFractal(meta) /\ UNCHANGED <<queues, R>>
    BY <1>7 DEF WriteRename
  <2>2. PICK id \in Ids : id = meta.id
    BY <1>1, <2>1 DEF TypeOK, LoopTypes
  <2>3. meta \in FractalMeta
    BY <1>1 DEF TypeOK, LoopTypes
  <2>4. Rewrites(id, meta.status)
    BY <1>1, <2>1, <2>2, <2>3, RowWrites
  <2>5. meta.status = db[id].status
    BY <1>1, <2>1, <2>2 DEF RenameRow, AllStill
  <2>6. QED
    BY <1>3, <2>1, <2>4, <2>5 DEF Rewrites
<1>8. QED
  BY <1>4, <1>5, <1>6, <1>7
LEMMA RenderSeen ==
  ASSUME StillInv, StillInv', NEW i \in DOMAIN R, RenderStep(i)
  PROVE  UNCHANGED Ledger!vars
<1>1. TypeOK /\ ThreadTypes /\ i \in 1..Len(R)
  BY Lengths DEF StillInv, RowInv, OrderInv, ThreadInv, Safe, TypeOK
<1>2. ~AddAnimationToQueue(i)
  BY <1>1, NoAnimations DEF AddAnimationToQueue, At
<1>3. CASE SaveImage(i)
  <2>1. SameJobs
    <3>1. PICK pc \in RenderPC : Goto(i, pc)
      BY <1>3 DEF SaveImage, RenderPC
    <3>2. QED
      BY <1>1, <3>1, ThreadSteps
  <2>2. \A w : Running(w)' <=> Running(w)
    BY <1>1, <2>1, JobsKept
  <2>3. UNCHANGED db /\ SameLists
    BY <1>3 DEF SaveImage, SameLists, intake, loop
  <2>4. QED
    BY <2>2, <2>3, SameListsUnseen
<1>4. CASE ThreadMoves(i)
  <2>1. SameJobs /\ UNCHANGED RenderFrame
    BY <1>1, <1>4, ThreadMovesFacts
  <2>2. \A w : Running(w)' <=> Running(w)
    BY <1>1, <2>1, JobsKept
  <2>3. UNCHANGED db /\ SameLists
    BY <2>1 DEF RenderFrame, SameLists, store, intake, loop
  <2>4. QED
    BY <2>2, <2>3, SameListsUnseen
<1>5. QED
  BY <1>2, <1>3, <1>4 DEF RenderStep, ThreadMoves

\* A muxer thread writes rows of animations only.
LEMMA MuxSeen ==
  ASSUME StillInv, StillInv', MuxStep
  PROVE  UNCHANGED Ledger!vars
<1>1. RowInv /\ TypeOK' /\ AllStill
  BY DEF StillInv, RowInv, OrderInv, ThreadInv, Safe
<1>2. UNCHANGED MuxerFrame
  BY DEF MuxStep, MuxRead, MuxWrite, MuxCopyJobs, MuxPostJobs
<1>3. PICK j, s : Writes(j, s) /\ (j \in Ids => ~Still(j))
  BY <1>1, MuxWrites
<1>4. \A w \in Ids : db'[w].status = db[w].status
  BY <1>1, <1>3 DEF Writes, Rewrites, AllStill
<1>5. QED
  BY <1>2, <1>4, SameListsUnseen
  DEF MuxerFrame, SameLists, Running, Holds, intake, loop

\* A new job joins the line under the next id, and its row is due.
LEMMA SubmitSeen ==
  ASSUME StillInv, StillInv', NEW kind \in Kinds, SubmitJob(kind)
  PROVE  \E id \in Ids : Ledger!Submit(id)
<1>1. /\ OrderInv /\ TypeOK /\ StagesShown /\ StagesShown' /\ lastID \in Nat
  BY StagesNow, StagesThen
  DEF StillInv, RowInv, OrderInv, ThreadInv, Safe, TypeOK, IntakeTypes
<1>2. /\ inserting = NoId /\ lastID < MaxJobs /\ lastID' = lastID + 1
      /\ Submitted' = Append(Submitted, lastID') /\ inserting' = lastID'
      /\ UNCHANGED <<db, newJobs, queues, R>>
  BY DEF SubmitJob, NetworkFrame, loop
<1>3. PICK id \in Ids : id = lastID'
  BY <1>1, <1>2, BoundsAssumption DEF Ids
<1>4. /\ Submitted \in Seq(Ids) /\ DOMAIN Submitted = 1..Len(Submitted)
      /\ DOMAIN Append(Submitted, id) = 1..(Len(Submitted) + 1)
      /\ \A k \in 1..Len(Submitted) : Append(Submitted, id)[k] = Submitted[k]
      /\ Append(Submitted, id)[Len(Submitted) + 1] = id /\ Len(Submitted) \in Nat
  <2>1. Submitted \in Seq(Ids)
    BY <1>1 DEF TypeOK, IntakeTypes
  <2>2. /\ Append(Submitted, id) \in Seq(Ids)
        /\ Len(Append(Submitted, id)) = Len(Submitted) + 1
        /\ \A k \in 1..Len(Submitted) : Append(Submitted, id)[k] = Submitted[k]
        /\ Append(Submitted, id)[Len(Submitted) + 1] = id
    BY <2>1, AppendProperties
  <2>3. QED
    BY <2>1, <2>2, LenProperties
<1>5. InLine(id)' /\ \A w : InLine(w) => InLine(w)'
  <2>1. \A w : ListedIn(Submitted, w) => ListedIn(Append(Submitted, id), w)
    BY <1>4 DEF ListedIn
  <2>2. ListedIn(Append(Submitted, id), id)
    BY <1>4 DEF ListedIn
  <2>3. Submitted' = Append(Submitted, id)
    BY <1>2, <1>3
  <2>4. QED
    BY <1>2, <2>1, <2>2, <2>3 DEF InLine, ListedIn, ZeroIn, queues
<1>6. \A w \in Ids : w # id => JobStays(w)
  BY <1>1, <1>2, <1>3, <1>5, SubmitPlaced DEF JobStays, Running, Holds
<1>7. \A w \in Ids : w # id => LedgerStage'[w] = LedgerStage[w]
  <2> SUFFICES ASSUME NEW w \in Ids, w # id PROVE LedgerStage'[w] = LedgerStage[w]
    OBVIOUS
  <2>1. w \in Int /\ (w > lastID <=> w > lastID')
    BY <1>1, <1>2, <1>3 DEF Ids
  <2>2. JobStays(w)
    BY <1>6
  <2>3. CASE w > lastID
    BY <1>1, <2>1, <2>3 DEF StagesShown
  <2>4. CASE InLine(w)
    BY <1>1, <2>2, <2>4 DEF StagesShown, JobStays
  <2>5. CASE Running(w)
    BY <1>1, <2>2, <2>5 DEF StagesShown, JobStays
  <2>6. CASE w <= lastID /\ ~InLine(w) /\ ~Running(w)
    <3>1. w <= lastID'
      BY <1>1, <1>2, <2>1, <2>6
    <3>2. QED
      BY <1>1, <2>2, <2>6, <3>1 DEF StagesShown, JobStays
  <2>7. QED
    BY <1>1, <2>1, <2>3, <2>4, <2>5, <2>6
<1>8. Ledger!MoveTo(id, "waiting")
  <2>1. LedgerStage'[id] = "waiting"
    BY <1>1, <1>5 DEF StagesShown
  <2>2. /\ LedgerStage = [w \in Ids |-> LedgerStage[w]]
        /\ LedgerStage' = [w \in Ids |-> LedgerStage'[w]]
    BY StageFunction
  <2>3. LedgerStage' = [LedgerStage EXCEPT ![id] = "waiting"]
    BY <1>7, <2>1, <2>2
  <2>4. QED
    BY <2>3 DEF Ledger!MoveTo
<1>9. LedgerStage[id] = "unused" /\ \A j \in 1..(id - 1) : LedgerStage[j] # "unused"
  <2>1. id > lastID
    BY <1>1, <1>2, <1>3
  <2>2. \A j \in 1..(id - 1) : j \in Ids /\ j <= lastID
    BY <1>1, <1>2, <1>3, BoundsAssumption DEF Ids
  <2>3. QED
    BY <1>1, <2>1, <2>2 DEF StagesShown
<1>10. LedgerPending = {} /\ LedgerPending' = {id}
  BY <1>2, <1>3, NullTypes DEF LedgerPending
<1>11. LedgerRow' = LedgerRow
  BY <1>2 DEF LedgerRow
<1>12. QED
  BY <1>8, <1>9, <1>10, <1>11 DEF Ledger!Submit

LEMMA NetworkSeen ==
  ASSUME StillInv, StillInv', NetworkAnswers
  PROVE  (\E id \in Ids : Ledger!Insert(id)) \/ UNCHANGED Ledger!vars
<1>1. UNCHANGED NetworkFrame /\ UNCHANGED <<lastID, Submitted>> /\ StoreTypes
  BY DEF NetworkAnswers, InsertFractal, PostRequest, QueryFractal, DeliverStep,
         DeliverReport, DeliverDeletion, intake, StillInv, RowInv, OrderInv, ThreadInv,
         Safe, TypeOK
<1>2. CASE InsertFractal
  <2>1. inserting \in Ids
    BY <1>2 DEF InsertFractal, StillInv, RowInv, OrderInv, ThreadInv, Safe, TypeOK,
                IntakeTypes
  <2>2. LedgerRow' = [LedgerRow EXCEPT ![inserting] = "QUEUED"]
    BY <1>1, <1>2, <2>1 DEF InsertFractal, LedgerRow, StoreTypes
  <2>3. LedgerPending = {inserting} /\ LedgerPending' = {}
    BY <1>2 DEF InsertFractal, LedgerPending
  <2>4. \A w \in Ids : JobStays(w)
    BY <1>1 DEF NetworkFrame, JobStays, InLine, ListedIn, ZeroIn, Running, Holds,
                queues, loop
  <2>5. LedgerStage' = LedgerStage
    BY <1>1, <2>4, StagesKept
  <2>6. Ledger!Insert(inserting)
    BY <2>2, <2>3, <2>5 DEF Ledger!Insert
  <2>7. QED
    BY <2>1, <2>6
<1>3. CASE UNCHANGED <<db, inserting>>
  BY <1>1, <1>3, SameListsUnseen DEF NetworkFrame, SameLists, Running, Holds, loop
<1>4. QED
  BY <1>2, <1>3 DEF NetworkAnswers, PostRequest, QueryFractal, DeliverStep,
                    DeliverReport, DeliverDeletion, intake
\* A restart empties the lists, and gives the lost jobs their verdict.
LEMMA RestartSeen ==
  ASSUME StillInv, StillInv', CrashRestart
  PROVE  Ledger!Restart
<1>1. /\ db' = [w \in Ids |-> Recovered(db[w])] /\ inserting' = NoId
      /\ Submitted' = <<>> /\ newJobs' = <<>> /\ JQ' = <<>> /\ JQManual' = <<>>
      /\ R' = <<>>
  BY DEF CrashRestart
<1>2. PICK n \in 0..MaxJobs : IsLastID(n) /\ lastID' = n
  BY DEF CrashRestart
<1>3. \A w \in Ids : ~InLine(w)' /\ ~Running(w)'
  BY <1>1, EmptySeq DEF InLine, ListedIn, ZeroIn, Running, Holds
<1>4. \A w \in Ids : Ledger!Reusable(w) <=> w > n
  <2> SUFFICES ASSUME NEW w \in Ids PROVE Ledger!Reusable(w) <=> w > n
    OBVIOUS
  <2>1. w..MaxJobs \subseteq Ids /\ n \in Nat /\ w \in Nat
    BY BoundsAssumption DEF Ids
  <2>2. Ledger!Reusable(w) <=> \A j \in w..MaxJobs : ~Exists(j)
    BY <2>1 DEF Ledger!Reusable, Ledger!Present, LedgerRow, Exists
  <2>3. w > n => \A j \in w..MaxJobs : ~Exists(j)
    BY <1>2, <2>1 DEF IsLastID
  <2>4. ~(w > n) => n \in w..MaxJobs /\ Exists(n)
    BY <1>2, <2>1, BoundsAssumption DEF IsLastID, Ids
  <2>5. QED
    BY <2>2, <2>3, <2>4
<1>5. LedgerStage' = [w \in Ids |-> IF Ledger!Reusable(w) THEN "unused" ELSE "over"]
  <2>1. StagesShown'
    BY StagesThen
  <2>2. \A w \in Ids : w > n \/ w <= n
    BY <1>2 DEF Ids
  <2>3. \A w \in Ids : LedgerStage'[w] = IF w > n THEN "unused" ELSE "over"
    BY <1>2, <1>3, <2>1, <2>2 DEF StagesShown
  <2>4. QED
    BY <1>4, <2>3, StageFunction
<1>6. LedgerRow' = [w \in Ids |-> Ledger!Lost(LedgerRow[w])]
  <2>1. db \in [Ids -> Row]
    BY DEF StillInv, RowInv, OrderInv, ThreadInv, Safe, TypeOK, StoreTypes
  <2>2. \A w \in Ids : Recovered(db[w]).status = Ledger!Lost(db[w].status)
    BY <2>1 DEF Recovered, Ledger!Lost, Row
  <2>3. QED
    BY <1>1, <2>2 DEF LedgerRow
<1>7. LedgerPending' = {}
  BY <1>1 DEF LedgerPending
<1>8. QED
  BY <1>5, <1>6, <1>7 DEF Ledger!Restart, Ledger!Ids, Ids

-----------------------------------------------------------------------------
(* The refinement.                                                         *)

LEMMA LedgerInit == Init => Ledger!Init
<1> SUFFICES ASSUME Init PROVE Ledger!Init
  OBVIOUS
<1>1. LedgerRow = [w \in Ids |-> "NONE"]
  BY DEF Init, LedgerRow, NoRow
<1>2. LedgerStage = [w \in Ids |-> "unused"]
  <2>1. \A w \in Ids : w > lastID /\ ~(w <= lastID)
    BY DEF Init, Ids
  <2>2. ASSUME NEW w \in Ids PROVE LedgerStage[w] = "unused"
    BY <2>1, StageOf
  <2>3. QED
    BY <2>2, StageFunction
<1>3. LedgerPending = {}
  BY DEF Init, LedgerPending
<1>4. QED
  BY <1>1, <1>2, <1>3 DEF Ledger!Init, Ledger!Ids, Ids

LEMMA LedgerStep == StillInv /\ StillInv' /\ [Next]_vars => [Ledger!Next]_(Ledger!vars)
<1> SUFFICES ASSUME StillInv, StillInv', [Next]_vars
             PROVE  Ledger!Next \/ UNCHANGED Ledger!vars
  OBVIOUS
<1> USE DEF Ledger!Next, Ledger!Ids, Ids
<1>1. CASE MainStep
  <2>1. CASE ReapBusy \/ ReapStill \/ ReapFrame \/ ReapEnd
    BY <2>1, ReapSeen
  <2>2. CASE AnimationTimeout \/ LockAnimations \/ QueueFrames \/ CheckProgress
             \/ UnlockAnimations
    BY <2>2, AnimationsSeen
  <2>3. CASE Dispatch
    BY <2>3, DispatchSeen
  <2>4. CASE FetchSubmittedJobs \/ PostJob
    BY <2>4, IntakeSeen
  <2>5. CASE NoCommand \/ CommandCancel \/ CommandDelete \/ CommandRename \/ WriteRename
    BY <2>5, RequestsSeen
  <2>6. QED
    BY <1>1, <2>1, <2>2, <2>3, <2>4, <2>5 DEF MainStep
<1>2. ASSUME NEW i \in DOMAIN R, RenderStep(i) PROVE UNCHANGED Ledger!vars
  BY <1>2, RenderSeen
<1>3. CASE MuxStep
  BY <1>3, MuxSeen
<1>4. CASE InsertFractal \/ ClientStep \/ DeliverStep
  <2>1. CASE \E kind \in Kinds : SubmitJob(kind)
    BY <2>1, SubmitSeen
  <2>2. CASE NetworkAnswers
    BY <2>2, NetworkSeen
  <2>3. QED
    BY <1>4, <2>1, <2>2 DEF ClientStep, NetworkAnswers
<1>5. CASE CrashRestart
  BY <1>5, RestartSeen
<1>6. CASE UNCHANGED vars
  <2>1. UNCHANGED db /\ SameLists /\ UNCHANGED R
    BY <1>6 DEF vars, store, intake, queues, loop, SameLists
  <2>2. QED
    BY <2>1, SameListsUnseen DEF Running, Holds
<1>7. QED
  BY <1>1, <1>2, <1>3, <1>4, <1>5, <1>6 DEF Next

\* When every job is a still, the scheduler with all its threads implements the
\* ledger: whatever they do to rows and lists is one of the ledger's changes,
\* in which a job's row and its stage change together.
THEOREM SchedulerImplementsLedger ==
  ASSUME \A k \in Kinds : k.frames = 0
  PROVE  Spec => ImplementsLedger
<1>1. Spec => []StillInv
  BY AlwaysStill
<1>2. QED
  BY <1>1, LedgerInit, LedgerStep, PTL DEF Spec, ImplementsLedger, Ledger!Spec
-----------------------------------------------------------------------------
(* The job board.  Only main posts to it: no muxer thread ends a video.    *)

BoardInv == StillInv /\ finisher.pc = "idle" /\ BoardShowsRunning

LEMMA IdsKept ==
  ASSUME ThreadTypes, SameJobs
  PROVE  IdsOf(R') = IdsOf(R)
<1>1. DOMAIN R = 1..Len(R) /\ DOMAIN R' = 1..Len(R)
  BY LenProperties DEF ThreadTypes, SameJobs
<1>2. QED
  BY <1>1 DEF IdsOf, SameJobs

\* Steps that change no thread's job and neither the board nor its flag.
LEMMA BoardKept ==
  ASSUME BoardInv, SameJobs, UNCHANGED <<Jcurrent, changeOccured, finisher>>
  PROVE  finisher'.pc = "idle" /\ BoardShowsRunning'
<1>1. IdsOf(R') = IdsOf(R)
  BY IdsKept DEF BoardInv, StillInv, RowInv, OrderInv, ThreadInv, Safe, TypeOK
<1>2. QED
  BY <1>1 DEF BoardInv, BoardShowsRunning

LEMMA BoardMain ==
  ASSUME BoardInv, MainStep
  PROVE  finisher'.pc = "idle" /\ BoardShowsRunning'
<1>1. /\ ThreadTypes /\ finisher.pc = "idle" /\ finisher' = finisher
      /\ A = <<>> /\ DOMAIN A = {}
  <2>1. StillInv /\ TypeOK /\ ThreadTypes /\ finisher.pc = "idle"
    BY DEF BoardInv, StillInv, RowInv, OrderInv, ThreadInv, Safe, TypeOK
  <2>2. finisher' = finisher
    BY DEF MainStep, ReapBusy, ReapStill, ReapFrame, ReapEnd, AnimationTimeout,
           LockAnimations, QueueFrames, CheckProgress, UnlockAnimations, Dispatch,
           FetchSubmittedJobs, PostJob, NoCommand, CommandCancel, CommandDelete,
           CommandRename, WriteRename, AtCommand, muxer
  <2>3. QED
    BY <2>1, <2>2, NoAnimations, EmptySeq
<1>2. UNCHANGED R => SameJobs
  BY <1>1 DEF SameJobs, ThreadTypes
<1>3. CASE ReapStill \/ ReapFrame
  BY <1>1, <1>3 DEF ReapStill, ReapFrame, BoardShowsRunning
<1>4. CASE ReapBusy \/ ReapEnd \/ LockAnimations \/ QueueFrames \/ CheckProgress
           \/ UnlockAnimations \/ FetchSubmittedJobs \/ PostJob
  BY <1>1, <1>2, <1>4, BoardKept
  DEF ReapBusy, ReapEnd, LockAnimations, QueueFrames, CheckProgress, UnlockAnimations,
      FetchSubmittedJobs, PostJob, board
<1>5. CASE NoCommand \/ CommandDelete \/ CommandRename \/ WriteRename
  BY <1>1, <1>2, <1>5, BoardKept
  DEF NoCommand, CommandDelete, CommandRename, WriteRename, AtCommand, board
<1>6. CASE CommandCancel
  <2>1. SameJobs
    BY <1>1, <1>6, CancelRunningFacts DEF CommandCancel, SameJobs
  <2>2. QED
    BY <1>1, <1>6, <2>1, BoardKept DEF CommandCancel, AtCommand, board
<1>7. CASE AnimationTimeout
  BY <1>1, <1>7 DEF AnimationTimeout
<1>8. CASE Dispatch
  <2>1. UNCHANGED R /\ ~changeOccured => Jcurrent = IdsOf(R)
    BY DEF BoardInv, BoardShowsRunning
  <2>2. Jcurrent' = IdsOf(R')
    BY <1>8, <2>1 DEF Dispatch, SendUpdateToTracker, board
  <2>3. QED
    BY <1>1, <2>2 DEF BoardShowsRunning
<1>9. QED
  BY <1>3, <1>4, <1>5, <1>6, <1>7, <1>8 DEF MainStep

LEMMA BoardStep == BoardInv /\ StillInv' /\ [Next]_vars => BoardInv'
<1> SUFFICES ASSUME BoardInv, StillInv', [Next]_vars
             PROVE  finisher'.pc = "idle" /\ BoardShowsRunning'
  BY DEF BoardInv
<1>1. ThreadTypes /\ StillInv /\ finisher.pc = "idle"
  BY DEF BoardInv, StillInv, RowInv, OrderInv, ThreadInv, Safe, TypeOK
<1>2. UNCHANGED R => SameJobs
  BY <1>1 DEF SameJobs, ThreadTypes
<1>3. ASSUME NEW i \in DOMAIN R, RenderStep(i) PROVE finisher'.pc = "idle" /\ BoardShowsRunning'
  <2>1. ~AddAnimationToQueue(i)
    <3>1. TypeOK
      BY <1>1 DEF StillInv, RowInv, OrderInv, ThreadInv, Safe
    <3>2. QED
      BY <1>1, <3>1, NoAnimations, Lengths DEF AddAnimationToQueue, At
  <2>2. CASE SaveImage(i)
    <3>1. PICK pc \in RenderPC : Goto(i, pc)
      BY <2>2 DEF SaveImage, RenderPC
    <3>2. SameJobs
      BY <1>1, <3>1, ThreadSteps
    <3>3. QED
      BY <2>2, <3>2, BoardKept DEF SaveImage, board, loop, muxer
  <2>3. CASE ThreadMoves(i)
    BY <1>1, <2>3, ThreadMovesFacts, BoardKept DEF RenderFrame, board, loop, muxer
  <2>4. QED
    BY <1>3, <2>1, <2>2, <2>3 DEF RenderStep, ThreadMoves
<1>4. CASE MuxStep
  <2>1. \A id \in Ids : ~MuxRead(id)
    BY <1>1, NoAnimations DEF MuxRead, Muxed
  <2>2. QED
    BY <1>1, <1>4, <2>1 DEF MuxStep, MuxWrite, MuxCopyJobs, MuxPostJobs
<1>5. CASE InsertFractal \/ ClientStep \/ DeliverStep
  <2>1. UNCHANGED NetworkFrame
    BY <1>5 DEF InsertFractal, ClientStep, DeliverStep, SubmitJob, PostRequest,
                QueryFractal, DeliverReport, DeliverDeletion
  <2>2. QED
    BY <1>2, <2>1, BoardKept DEF NetworkFrame, board, loop, muxer
<1>6. CASE CrashRestart
  <2>1. Jcurrent' = <<>> /\ R' = <<>> /\ finisher' = NoFinisher
    BY <1>6 DEF CrashRestart
  <2>2. IdsOf(<<>>) = <<>>
    <3>1. <<>> \in Seq(Task) /\ Len(<<>>) = 0
      BY EmptySeq
    <3>2. IdsOf(<<>>) \in Seq(Ids) /\ Len(IdsOf(<<>>)) = 0
      BY <3>1, IdsOfFacts, LenProperties DEF IdsOf
    <3>3. QED
      BY <3>2, EmptySeq
  <2>3. QED
    BY <2>1, <2>2 DEF BoardShowsRunning, NoFinisher
<1>7. CASE UNCHANGED vars
  BY <1>2, <1>7, BoardKept DEF vars, board, loop, muxer
<1>8. QED
  BY <1>3, <1>4, <1>5, <1>6, <1>7, BoardMain DEF Next

\* With stills only, the board that clients ask for shows exactly the running
\* jobs whenever update() has no change of them left to post.
THEOREM BoardTellsRunning ==
  ASSUME \A k \in Kinds : k.frames = 0
  PROVE  Spec => []BoardShowsRunning
<1>1. Spec => []StillInv
  BY AlwaysStill
<1>2. Init /\ StillInv => BoardInv
  BY EmptySeq DEF Init, BoardInv, BoardShowsRunning, NoFinisher, IdsOf
<1>3. BoardInv => BoardShowsRunning
  BY DEF BoardInv
<1>4. QED
  BY <1>1, <1>2, <1>3, BoardStep, PTL DEF Spec

=============================================================================
