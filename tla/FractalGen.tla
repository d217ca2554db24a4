----------------------------- MODULE FractalGen -----------------------------
(***************************************************************************)
(* The job scheduler of the server (Server/src/FractalGen.cpp) with every  *)
(* thread that shares its state:                                           *)
(*                                                                         *)
(*   - the main thread, which repeats FractalGen::update();                *)
(*   - the network thread, which submits jobs to DBManager, posts requests *)
(*     to FractalGenTrackManager and delivers its reports to the clients;  *)
(*   - one detached render thread (runGen) per entry of R;                 *)
(*   - one detached muxer thread (AnimationBuilder::muxFrames) for each    *)
(*     animation whose frames are rendered;                                *)
(*   - the operating system, which may stop and restart the process.       *)
(*                                                                         *)
(* A step is the code one thread runs between two points at which another  *)
(* thread can observe or change what it uses.                              *)
(***************************************************************************)
EXTENDS Integers, Sequences, SequencesExt

CONSTANTS
  MaxJobs,      \* bound: ids handed out by DBManager::submitJob
  maxThreads,   \* configuration value "maxthreads"
  MaxRequests,  \* bound: client requests waiting in the mailbox
  Kinds,        \* submitted jobs: [frames, manual], frames = 0 for a still
  Commands,     \* request types the clients use
  Clients,      \* connected clients
  MayCrash      \* may the process stop and restart?

Kind == [frames : Nat, manual : BOOLEAN]
CommandType == {"ART_CANCEL", "ART_DELETE", "ART_CHANGE_NAME"}

ASSUME BoundsAssumption ==
  MaxJobs \in Nat /\ maxThreads \in Nat \ {0} /\ MaxRequests \in Nat
ASSUME KindsAssumption == Kinds \subseteq Kind
ASSUME CommandsAssumption == Commands \subseteq CommandType
ASSUME SwitchAssumption == MayCrash \in BOOLEAN

VARIABLES
  \* the database file and the render directory: they survive a crash
  db,           \* row of each fractal id (table fract)
  pngs,         \* image files, <<id, frame>>; frame 0 is <id>.png
  \* DBManager
  lastID, params, Submitted,
  inserting,    \* the id submitJob has queued but not inserted, or NoId
  \* FractalGenTrackManager: mailbox by type, and the job board
  requests, reports, deletions, Jcurrent, Jqueue,
  told,         \* the status each client was last sent for each fractal
  \* FractalGen
  JQ, JQManual, R, A, animLock,
  \* local variables of update() and the functions it calls
  mainpc, it, count, newJobs, changeOccured, meta,
  \* muxer threads: those encoding, and the one inside finishedMuxingFrames
  muxing, finisher

store    == <<db, pngs>>
intake   == <<lastID, params, Submitted, inserting>>
mailbox  == <<requests, reports, deletions, told>>
board    == <<Jcurrent, Jqueue>>
queues   == <<JQ, JQManual>>
anim     == <<A, animLock>>
loop     == <<mainpc, it, count, newJobs, changeOccured, meta>>
muxer    == <<muxing, finisher>>
vars     == <<store, intake, mailbox, board, queues, R, anim, loop, muxer>>

-----------------------------------------------------------------------------
(* Types.                                                                  *)

Ids  == 1..MaxJobs
NoId == -1

\* FractalDBState; "NONE": the table has no row for the id
Verdicts == {"COMPLETE", "TIMEOUT", "CANCEL", "ERR"}
Status   == Verdicts \cup {"QUEUED", "RENDERING"}
Title    == {"", "submitted", "renamed"}
Row      == [status : Status \cup {"NONE"}, title : Title]
NoRow    == [status |-> "NONE", title |-> ""]

\* FractalState, and "NULL" before runGen assigns r->fract
FractalState == {"NULL", "PARAMS_PROCESSED", "RENDERING", "DONE", "ERR",
                 "TIMEOUT", "CANCEL"}
RenderPC == {"validate", "spawn", "enqueue", "construct", "process",
             "processed", "pass", "expire", "save", "finishing", "status",
             "expireLate", "complete"}
Task         == [id : Ids, frame : Nat]
RenderingJob == [id : Ids, frameID : Nat, pc : RenderPC, fract : FractalState]
Animation    == [id : Ids, manualQueue : BOOLEAN, frameQueue : Seq(Nat),
                 framesRendering : SUBSET Nat]
Request      == [type : CommandType, id : Ids]
FractalMeta  == [id : Ids \cup {NoId}, status : Status \cup {"NONE"},
                 title : Title]
NoMeta       == [id |-> NoId, status |-> "NONE", title |-> ""]
Finisher     == [pc : {"idle", "update", "copy", "post"}, meta : FractalMeta,
                 current : Seq(Ids), queued : Seq(Ids)]
NoFinisher   == [pc |-> "idle", meta |-> NoMeta, current |-> <<>>,
                 queued |-> <<>>]
NoKind       == [frames |-> 0, manual |-> TRUE]

-----------------------------------------------------------------------------
(* DBManager: getFractal and updateFractal, each atomic under mtx.         *)

Exists(id) == id \in Ids /\ db[id].status # "NONE"

\* A row that is not there is returned with jobID = -1.
getFractal(id) ==
  IF Exists(id)
  THEN [id |-> id, status |-> db[id].status, title |-> db[id].title]
  ELSE NoMeta

\* UPDATE ... WHERE ID = jobID changes nothing when there is no such row.
updateFractal(m) ==
  IF Exists(m.id)
  THEN [db EXCEPT ![m.id] = [status |-> m.status, title |-> m.title]]
  ELSE db

SetStatus(id, s) == updateFractal([getFractal(id) EXCEPT !.status = s])

NoReport(id) == reports       \* mutant: the change is not reported
\* A report about jobID = -1 reaches the clients as no message at all.
PostStatusChange(id) == IF Exists(id) THEN reports \cup {id} ELSE reports

IdsOf(q) == [i \in DOMAIN q |-> q[i].id]

\* mutant: the board is refreshed before the job starts
SendUpdateEarly(r, manual, auto) ==
  Jcurrent' = IdsOf(R) /\ Jqueue' = IdsOf(manual) \o IdsOf(auto)
\* sendUpdateToTracker with the given running jobs and queues
SendUpdateToTracker(r, manual, auto) ==
  /\ Jcurrent' = IdsOf(r)
  /\ Jqueue' = IdsOf(manual) \o IdsOf(auto)

-----------------------------------------------------------------------------
(* cancelJob: forgets the animation, then cancels the first thing it finds *)
(* among the running jobs, the manual queue and the automatic queue.       *)

LockIgnored == TRUE                     \* mutant: animLock is not waited for
AnimLockFree == animLock = "free"

FirstOf(q, id) == SelectInSeq(q, LAMBDA t : t.id = id)
FirstRunning(id) == SelectInSeq(R, LAMBDA r : r.id = id /\ r.fract # "NULL")

\* The entry at i is erased, if there is one.
WithoutErase(q, i) == q       \* mutant: the cancelled entry is left in place
Without(q, i) == IF i = 0 THEN q ELSE RemoveAt(q, i)

\* The vector R once cancelJob(id) has called doCancel.
CancelRunning(id) ==
  LET i == FirstRunning(id)
  IN IF i = 0 THEN R ELSE [R EXCEPT ![i].fract = "CANCEL"]

\* canceled() is called for whatever was found.
HitRunningOnly(run, man, aut) == run # 0     \* mutant: not called for queues
Hit(run, man, aut) == run # 0 \/ man # 0 \/ aut # 0

CancelJob(id) ==
  LET run == FirstRunning(id)
      man == IF run = 0 THEN FirstOf(JQManual, id) ELSE 0
      aut == IF run = 0 /\ man = 0 THEN FirstOf(JQ, id) ELSE 0
      hit == Hit(run, man, aut)
  IN /\ AnimLockFree
     /\ A' = Without(A, FirstOf(A, id))
     /\ JQManual' = Without(JQManual, man)
     /\ JQ' = Without(JQ, aut)
     /\ db' = IF hit THEN SetStatus(id, "CANCEL") ELSE db
     /\ reports' = IF hit THEN PostStatusChange(id) ELSE reports
     /\ UNCHANGED <<animLock, pngs, deletions, told>>

-----------------------------------------------------------------------------
(* The main thread: one round of FractalGen::update().                     *)

\* mutant: a fractal's state is taken for a status of the table
StateAsVerdict(fract) == IF fract = "NULL" THEN "ERR" ELSE fract
\* The status written for a finished job.
Verdict(fract) ==
  CASE fract = "TIMEOUT" -> "TIMEOUT"
    [] fract = "CANCEL"  -> "CANCEL"
    [] fract = "DONE"    -> "COMPLETE"
    [] OTHER             -> "ERR"

CompletedFractal(r) == r.pc = "complete" /\ r.fract # "NULL"   \* mutant: a job
                                            \* that failed early is not reaped
Completed(r) == r.pc = "complete"     \* timeStart = TIMESTART_COMPLETE

ReapBusy ==
  /\ mainpc = "reap" /\ it <= Len(R) /\ ~Completed(R[it])
  /\ it' = it + 1
  /\ UNCHANGED <<store, intake, mailbox, board, queues, R, anim, muxer,
                 mainpc, count, newJobs, changeOccured, meta>>

\* A still (or an animation that failed before its frames were queued).
ReapStill ==
  /\ mainpc = "reap" /\ it <= Len(R) /\ Completed(R[it]) /\ R[it].frameID = 0
  /\ db' = SetStatus(R[it].id, Verdict(R[it].fract))
  /\ reports' = PostStatusChange(R[it].id)
  /\ R' = RemoveAt(R, it)
  /\ changeOccured' = TRUE
  /\ UNCHANGED <<pngs, intake, requests, deletions, told, board, queues, anim,
                 muxer, mainpc, it, count, newJobs, meta>>

\* A frame leaves the row alone, unless it failed: then the job is cancelled.
ReapFrame ==
  /\ mainpc = "reap" /\ it <= Len(R) /\ Completed(R[it]) /\ R[it].frameID # 0
  /\ \/ /\ Verdict(R[it].fract) = "COMPLETE"
        /\ R' = RemoveAt(R, it)
        /\ UNCHANGED <<store, mailbox, queues, anim>>
     \/ /\ Verdict(R[it].fract) # "COMPLETE"
        /\ CancelJob(R[it].id)
        /\ R' = RemoveAt(CancelRunning(R[it].id), it)
        /\ UNCHANGED requests
  /\ changeOccured' = TRUE
  /\ UNCHANGED <<intake, board, muxer, mainpc, it, count, newJobs, meta>>

ReapEnd ==
  /\ mainpc = "reap" /\ it > Len(R)
  /\ mainpc' = "timeouts"
  /\ UNCHANGED <<store, intake, mailbox, board, queues, R, anim, muxer,
                 it, count, newJobs, changeOccured, meta>>

\* At most one animation whose time is over is cancelled per round.
AnimationTimeout ==
  /\ mainpc = "timeouts"
  /\ \E a \in DOMAIN A : CancelJob(A[a].id) /\ R' = CancelRunning(A[a].id)
  /\ mainpc' = "lock"
  /\ UNCHANGED <<intake, requests, board, muxer, it, count, newJobs,
                 changeOccured, meta>>

\* The section under animLock has no effect when A is empty.
LockAnimations ==
  /\ mainpc \in {"timeouts", "lock"} /\ AnimLockFree
  /\ IF A = <<>>
     THEN mainpc' = "dispatch" /\ UNCHANGED <<animLock, it, count>>
     ELSE /\ mainpc' = "frames" /\ animLock' = "main"
          /\ it' = 1 /\ count' = maxThreads - Len(R)
  /\ UNCHANGED <<store, intake, mailbox, board, queues, R, A, muxer,
                 newJobs, changeOccured, meta>>

\* Up to count frames move from the front of A[it].frameQueue to a job queue.
QueueFrames ==
  /\ mainpc = "frames"
  /\ IF count > 0 /\ it <= Len(A)
     THEN LET a == A[it]
              n == IF count < Len(a.frameQueue) THEN count ELSE Len(a.frameQueue)
              tasks == [k \in 1..n |-> [id |-> a.id, frame |-> a.frameQueue[k]]]
          IN /\ A' = [A EXCEPT
                   ![it].frameQueue = SubSeq(@, n + 1, Len(@)),
                   ![it].framesRendering = @ \cup {tasks[k].frame : k \in 1..n}]
             /\ JQManual' = IF a.manualQueue THEN JQManual \o tasks ELSE JQManual
             /\ JQ' = IF a.manualQueue THEN JQ ELSE JQ \o tasks
             /\ count' = count - n
             /\ it' = it + 1
             /\ UNCHANGED mainpc
     ELSE /\ mainpc' = "progress" /\ it' = 1
          /\ UNCHANGED <<A, queues, count>>
  /\ UNCHANGED <<store, intake, mailbox, board, R, animLock, muxer,
                 newJobs, changeOccured, meta>>

\* mutant: only the queue is searched
StillQueued(a, f) ==
  LET q == IF a.manualQueue THEN JQManual ELSE JQ
  IN \E i \in DOMAIN q : q[i].id = a.id /\ q[i].frame = f
StillBusy(a, f) ==
  LET q == IF a.manualQueue THEN JQManual ELSE JQ
  IN \/ \E i \in DOMAIN q : q[i].id = a.id /\ q[i].frame = f
     \/ \E i \in DOMAIN R : R[i].id = a.id /\ R[i].frameID = f

\* One animation: frames that left queue and R are done; with none left the
\* animation is handed to a muxer thread.
CheckProgress ==
  /\ mainpc = "progress" /\ it <= Len(A)
  /\ LET busy == {f \in A[it].framesRendering : StillBusy(A[it], f)}
     IN IF A[it].frameQueue = <<>> /\ busy = {}
        THEN /\ muxing' = muxing \cup {A[it].id}
             /\ A' = RemoveAt(A, it)
             /\ UNCHANGED it
        ELSE /\ A' = [A EXCEPT ![it].framesRendering = busy]
             /\ it' = it + 1
             /\ UNCHANGED muxing
  /\ UNCHANGED <<store, intake, mailbox, board, queues, R, animLock, finisher,
                 mainpc, count, newJobs, changeOccured, meta>>

UnlockAnimations ==
  /\ mainpc = "progress" /\ it > Len(A)
  /\ animLock' = "free" /\ mainpc' = "dispatch"
  /\ UNCHANGED <<store, intake, mailbox, board, queues, R, A, muxer,
                 it, count, newJobs, changeOccured, meta>>

FreeThread == Len(R) < maxThreads

\* runThread: the row turns RENDERING and a render thread is started.
RunThread(task) ==
  /\ db' = SetStatus(task.id, "RENDERING")
  /\ reports' = PostStatusChange(task.id)
  /\ R' = Append(R, [id |-> task.id, frameID |-> task.frame,
                     pc |-> "validate", fract |-> "NULL"])

\* At most one job per round, the manual queue first; then the job board is
\* refreshed if anything was reaped or started.
Dispatch ==
  /\ mainpc = "dispatch"
  /\ IF FreeThread /\ (JQManual # <<>> \/ JQ # <<>>)
     THEN /\ IF JQManual # <<>>
             THEN /\ RunThread(Head(JQManual))
                  /\ JQManual' = Tail(JQManual) /\ UNCHANGED JQ
             ELSE /\ RunThread(Head(JQ))
                  /\ JQ' = Tail(JQ) /\ UNCHANGED JQManual
          /\ SendUpdateToTracker(R', JQManual', JQ')
     ELSE /\ UNCHANGED <<db, reports, R, queues>>
          /\ IF changeOccured THEN SendUpdateToTracker(R, JQManual, JQ)
                              ELSE UNCHANGED board
  /\ changeOccured' = FALSE
  /\ mainpc' = "fetch"
  /\ UNCHANGED <<pngs, intake, requests, deletions, told, anim, muxer,
                 it, count, newJobs, meta>>

\* fetchSubmittedJobs: the list is copied and cleared
KeptSubmitted == Submitted              \* mutant: it is not cleared
ClearedSubmitted == <<>>
FetchSubmittedJobs ==
  /\ mainpc = "fetch"
  /\ newJobs' = Submitted /\ Submitted' = ClearedSubmitted
  /\ mainpc' = "post"
  /\ UNCHANGED <<store, lastID, params, inserting, mailbox, board, queues, R,
                 anim, muxer, it, count, changeOccured, meta>>

PushFront(q, task) == <<task>> \o q     \* mutant: the wrong end of the queue
PushBack(q, task) == Append(q, task)

\* postJob: status, name and author of the row, and the job's queue.
PostJob ==
  /\ mainpc = "post" /\ newJobs # <<>>
  /\ LET id == Head(newJobs)
         task == [id |-> id, frame |-> 0]
     IN /\ db' = updateFractal([id |-> id, status |-> "QUEUED",
                                title |-> "submitted"])
        /\ JQManual' = IF params[id].manual THEN PushBack(JQManual, task)
                                            ELSE JQManual
        /\ JQ' = IF params[id].manual THEN JQ ELSE PushBack(JQ, task)
  /\ newJobs' = Tail(newJobs)
  /\ UNCHANGED <<pngs, intake, mailbox, board, R, anim, muxer,
                 mainpc, it, count, changeOccured, meta>>

\* One request of the clients per round; then the next round begins.
NextRound == mainpc' = "reap" /\ it' = 1
AtCommand(type) ==
  /\ mainpc = "post" /\ newJobs = <<>>
  /\ requests # <<>> /\ Head(requests).type = type
  /\ UNCHANGED <<intake, board, muxer, count, newJobs, changeOccured>>

NoCommand ==
  /\ mainpc = "post" /\ newJobs = <<>> /\ requests = <<>>
  /\ NextRound
  /\ UNCHANGED <<store, intake, mailbox, board, queues, R, anim, muxer,
                 count, newJobs, changeOccured, meta>>

CommandCancel ==
  /\ AtCommand("ART_CANCEL")
  /\ CancelJob(Head(requests).id)
  /\ R' = CancelRunning(Head(requests).id)
  /\ requests' = Tail(requests)
  /\ NextRound
  /\ UNCHANGED meta

\* deleteFractal removes the row and <id>.png; the job itself is not touched.
CommandDelete ==
  /\ AtCommand("ART_DELETE")
  /\ LET id == Head(requests).id
     IN IF Exists(id)
        THEN /\ db' = [db EXCEPT ![id] = NoRow]
             /\ pngs' = pngs \ {<<id, 0>>}
             /\ deletions' = deletions \cup {id}
        ELSE UNCHANGED <<store, deletions>>
  /\ requests' = Tail(requests)
  /\ NextRound
  /\ UNCHANGED <<reports, told, queues, R, anim, meta>>

\* A change of name (or author) reads the row here ...
CommandRename ==
  /\ AtCommand("ART_CHANGE_NAME")
  /\ LET id == Head(requests).id
     IN IF Exists(id)
        THEN /\ meta' = [getFractal(id) EXCEPT !.title = "renamed"]
             /\ mainpc' = "rename" /\ UNCHANGED it
        ELSE NextRound /\ UNCHANGED meta
  /\ requests' = Tail(requests)
  /\ UNCHANGED <<store, reports, deletions, told, queues, R, anim>>

\* ... and writes all of it back here.
WriteRename ==
  /\ mainpc = "rename"
  /\ db' = updateFractal(meta)
  /\ reports' = reports \cup {meta.id}
  /\ meta' = NoMeta
  /\ NextRound
  /\ UNCHANGED <<pngs, intake, requests, deletions, told, board, queues, R,
                 anim, muxer, count, newJobs, changeOccured>>

MainStep ==
  \/ ReapBusy \/ ReapStill \/ ReapFrame \/ ReapEnd
  \/ AnimationTimeout \/ LockAnimations \/ QueueFrames \/ CheckProgress
  \/ UnlockAnimations \/ Dispatch \/ FetchSubmittedJobs \/ PostJob
  \/ NoCommand \/ CommandCancel \/ CommandDelete \/ CommandRename
  \/ WriteRename

-----------------------------------------------------------------------------
(* Render threads: runGen for the job in slot i of R.                      *)

RenderFrame == <<store, intake, mailbox, board, queues, loop, muxer>>

\* The thread moves on; its fractal keeps its state.
Goto(i, pc) == R' = [R EXCEPT ![i].pc = pc]
\* The thread writes the state of its fractal, whatever is there.
SetState(i, fract, pc) == R' = [R EXCEPT ![i].fract = fract, ![i].pc = pc]

At(i, pc) == R[i].pc = pc

Validate(i) ==
  /\ At(i, "validate")
  /\ \/ Goto(i, "complete")
     \/ Goto(i, IF R[i].frameID = 0 /\ params[R[i].id].frames > 0
                THEN "spawn" ELSE "construct")
  /\ UNCHANGED <<RenderFrame, anim>>

\* spawnJobs writes the files of frames 2 .. n, or fails.
SpawnJobs(i) ==
  /\ At(i, "spawn")
  /\ \E pc \in {"enqueue", "complete"} : Goto(i, pc)
  /\ UNCHANGED <<RenderFrame, anim>>

\* addAnimationToQueue takes manualQueue from the row, and getFractal leaves
\* it at FractalMeta's default.
AnimationManualQueue(id) == TRUE

AddAnimationToQueue(i) ==
  /\ At(i, "enqueue") /\ AnimLockFree
  /\ LET id == R[i].id
     IN A' = Append(A, [id |-> id, manualQueue |-> AnimationManualQueue(id),
                        frameQueue |-> [k \in 1..(params[id].frames - 1) |-> k + 1],
                        framesRendering |-> {}])
  /\ R' = [R EXCEPT ![i].frameID = 1, ![i].pc = "construct"]
  /\ UNCHANGED <<RenderFrame, animLock>>

\* Only the finished object is stored in r->fract; an unknown type ends here.
Construct(i) ==
  /\ At(i, "construct")
  /\ \/ Goto(i, "complete")
     \/ \E s \in {"PARAMS_PROCESSED", "ERR"} : SetState(i, s, "process")
  /\ UNCHANGED <<RenderFrame, anim>>

ProcessParams(i) ==
  /\ At(i, "process")
  /\ SetState(i, "PARAMS_PROCESSED", "processed")
  /\ UNCHANGED <<RenderFrame, anim>>

BeginRender(i) ==
  /\ At(i, "processed")
  /\ SetState(i, "ERR", "complete") \/ SetState(i, "RENDERING", "pass")
  /\ UNCHANGED <<RenderFrame, anim>>

\* The five passes poll updateStatus: an error or a cancel seen there ends
\* them early, and so does a deadline, unless the state is already one of those.
RenderPasses(i) ==
  /\ At(i, "pass")
  /\ \/ Goto(i, "save")
     \/ SetState(i, "ERR", "save")
     \/ R[i].fract \notin {"ERR", "CANCEL"} /\ Goto(i, "expire")
  /\ UNCHANGED <<RenderFrame, anim>>

Expire(i) ==
  /\ At(i, "expire")
  /\ SetState(i, "TIMEOUT", "save")
  /\ UNCHANGED <<RenderFrame, anim>>

\* Frame 1 is saved both as the still and as its own frame.
Images(r) == {<<r.id, r.frameID>>} \cup
             (IF r.frameID = 1 THEN {<<r.id, 0>>} ELSE {})

\* The image is saved unless the state is ERR; then postRender looks at it.
SaveImage(i) ==
  /\ At(i, "save")
  /\ pngs' = IF R[i].fract # "ERR" THEN pngs \cup Images(R[i]) ELSE pngs
  /\ Goto(i, IF R[i].fract = "RENDERING" THEN "finishing" ELSE "status")
  /\ UNCHANGED <<db, intake, mailbox, board, queues, loop, muxer, anim>>

PostRender(i) ==
  /\ At(i, "finishing")
  /\ SetState(i, "DONE", "status")
  /\ UNCHANGED <<RenderFrame, anim>>

\* The last updateStatus compares the clock with the deadline once more.
LastStatus(i) ==
  /\ At(i, "status")
  /\ \/ Goto(i, "complete")
     \/ R[i].fract = "DONE" /\ Goto(i, "expireLate")
  /\ UNCHANGED <<RenderFrame, anim>>

ExpireLate(i) ==
  /\ At(i, "expireLate")
  /\ SetState(i, "TIMEOUT", "complete")
  /\ UNCHANGED <<RenderFrame, anim>>

\* runGen catches every exception and only marks the job completed.
Exception(i) ==
  /\ R[i].pc \in {"validate", "spawn", "construct", "process", "processed",
                  "pass", "save"}
  /\ Goto(i, "complete")
  /\ UNCHANGED <<RenderFrame, anim>>

RenderStep(i) ==
  \/ Validate(i) \/ SpawnJobs(i) \/ AddAnimationToQueue(i) \/ Construct(i)
  \/ ProcessParams(i) \/ BeginRender(i) \/ RenderPasses(i) \/ Expire(i)
  \/ SaveImage(i) \/ PostRender(i) \/ LastStatus(i) \/ ExpireLate(i)
  \/ Exception(i)

-----------------------------------------------------------------------------
(* Muxer threads: finishedMuxingFrames once the encoder has ended.         *)

MuxerFrame == <<intake, queues, R, loop, A, pngs, requests, deletions, told>>

\* The encoder has returned: the lock is taken and the row is read.
MuxRead(id) ==
  /\ id \in muxing /\ AnimLockFree
  /\ animLock' = "muxer" /\ muxing' = muxing \ {id}
  /\ finisher' = [NoFinisher EXCEPT !.pc = "update", !.meta = getFractal(id)]
  /\ UNCHANGED <<MuxerFrame, db, reports, board>>

MuxWrite ==
  /\ finisher.pc = "update"
  /\ db' = updateFractal([finisher.meta EXCEPT !.status = "COMPLETE"])
  /\ reports' = IF finisher.meta.id = NoId THEN reports
                                           ELSE reports \cup {finisher.meta.id}
  /\ finisher' = [finisher EXCEPT !.pc = "copy"]
  /\ UNCHANGED <<MuxerFrame, muxing, animLock, board>>

\* sendUpdateToTracker reads R and the queues while main may change them.
MuxCopyJobs ==
  /\ finisher.pc = "copy"
  /\ finisher' = [finisher EXCEPT !.pc = "post", !.current = IdsOf(R),
                                  !.queued = IdsOf(JQManual) \o IdsOf(JQ)]
  /\ UNCHANGED <<MuxerFrame, muxing, animLock, db, reports, board>>

MuxPostJobs ==
  /\ finisher.pc = "post"
  /\ Jcurrent' = finisher.current /\ Jqueue' = finisher.queued
  /\ finisher' = NoFinisher /\ animLock' = "free"
  /\ UNCHANGED <<MuxerFrame, muxing, db, reports>>

MuxStep == (\E id \in Ids : MuxRead(id)) \/ MuxWrite \/ MuxCopyJobs \/ MuxPostJobs

-----------------------------------------------------------------------------
(* The network thread.  While it is inside submitJob it does nothing else. *)

NetworkFrame == <<pngs, board, queues, R, anim, loop, muxer>>

\* submitJob: a new id, and the job is visible to fetchSubmittedJobs ...
SubmitJob(kind) ==
  /\ inserting = NoId /\ lastID < MaxJobs
  /\ lastID' = lastID + 1
  /\ params' = [params EXCEPT ![lastID'] = kind]
  /\ Submitted' = Append(Submitted, lastID')
  /\ inserting' = lastID'
  /\ UNCHANGED <<NetworkFrame, db, mailbox>>

\* ... before its row is inserted, with an empty name.
InsertFractal ==
  /\ inserting # NoId
  /\ db' = [db EXCEPT ![inserting] = [status |-> "QUEUED", title |-> ""]]
  /\ inserting' = NoId
  /\ UNCHANGED <<NetworkFrame, lastID, params, Submitted, mailbox>>

\* CJOB, DELF, SFTI and SFAU are posted when the row exists.
PostRequest(type, id) ==
  /\ inserting = NoId /\ Exists(id)
  /\ Len(requests) < MaxRequests
  /\ requests' = Append(requests, [type |-> type, id |-> id])
  /\ UNCHANGED <<NetworkFrame, db, intake, reports, deletions, told>>

\* RJIF: a client asks for the row.
QueryFractal(c, id) ==
  /\ inserting = NoId /\ Exists(id)
  /\ told' = [told EXCEPT ![c][id] = db[id].status]
  /\ UNCHANGED <<NetworkFrame, db, intake, requests, reports, deletions>>

\* A status report: the row as it is now goes to every client.
DeliverReport(id) ==
  /\ inserting = NoId /\ id \in reports
  /\ reports' = reports \ {id}
  /\ told' = IF Exists(id)
             THEN [c \in Clients |-> [told[c] EXCEPT ![id] = db[id].status]]
             ELSE told
  /\ UNCHANGED <<NetworkFrame, db, intake, requests, deletions>>

DeliverDeletion(id) ==
  /\ inserting = NoId /\ id \in deletions
  /\ deletions' = deletions \ {id}
  /\ told' = [c \in Clients |-> [told[c] EXCEPT ![id] = "NONE"]]
  /\ UNCHANGED <<NetworkFrame, db, intake, requests, reports>>

ClientStep ==
  \/ \E kind \in Kinds : SubmitJob(kind)
  \/ \E type \in Commands, id \in Ids : PostRequest(type, id)
  \/ \E c \in Clients, id \in Ids : QueryFractal(c, id)

DeliverStep == \E id \in Ids : DeliverReport(id) \/ DeliverDeletion(id)

-----------------------------------------------------------------------------
(* Start, stop and restart.                                                *)

Init ==
  /\ db = [id \in Ids |-> NoRow] /\ pngs = {} /\ lastID = 0
  /\ params = [id \in Ids |-> NoKind]
  /\ Submitted = <<>> /\ inserting = NoId
  /\ requests = <<>> /\ reports = {} /\ deletions = {}
  /\ Jcurrent = <<>> /\ Jqueue = <<>>
  /\ told = [c \in Clients |-> [id \in Ids |-> "NONE"]]
  /\ JQ = <<>> /\ JQManual = <<>> /\ R = <<>>
  /\ A = <<>> /\ animLock = "free"
  /\ mainpc = "reap" /\ it = 1 /\ count = 0 /\ newJobs = <<>>
  /\ changeOccured = FALSE /\ meta = NoMeta
  /\ muxing = {} /\ finisher = NoFinisher

\* DBManager::initialize: rows of jobs that were lost become ERR.
\* mutants: RENDERING rows are forgotten; every row becomes ERR
RecoveredQueued(row) ==
  IF row.status = "QUEUED" THEN [row EXCEPT !.status = "ERR"] ELSE row
RecoveredAll(row) ==
  IF row.status # "NONE" THEN [row EXCEPT !.status = "ERR"] ELSE row
Recovered(row) ==
  IF row.status \in {"RENDERING", "QUEUED"} THEN [row EXCEPT !.status = "ERR"]
                                            ELSE row

\* The last id is read back from the table: the greatest one in it, or 0.
IsLastID(n) == (n = 0 \/ Exists(n)) /\ (\A id \in Ids : Exists(id) => id <= n)

\* The database and the images survive; everything in memory starts afresh.
CrashRestart ==
  /\ MayCrash
  /\ db' = [id \in Ids |-> Recovered(db[id])]
  /\ \E n \in 0..MaxJobs : IsLastID(n) /\ lastID' = n
  /\ params' = [id \in Ids |-> NoKind]
  /\ Submitted' = <<>> /\ inserting' = NoId
  /\ requests' = <<>> /\ reports' = {} /\ deletions' = {}
  /\ Jcurrent' = <<>> /\ Jqueue' = <<>>
  /\ told' = [c \in Clients |-> [id \in Ids |-> "NONE"]]
  /\ JQ' = <<>> /\ JQManual' = <<>> /\ R' = <<>>
  /\ A' = <<>> /\ animLock' = "free"
  /\ mainpc' = "reap" /\ it' = 1 /\ count' = 0 /\ newJobs' = <<>>
  /\ changeOccured' = FALSE /\ meta' = NoMeta
  /\ muxing' = {} /\ finisher' = NoFinisher
  /\ UNCHANGED pngs

-----------------------------------------------------------------------------

Next ==
  \/ MainStep
  \/ \E i \in DOMAIN R : RenderStep(i)
  \/ MuxStep
  \/ InsertFractal \/ ClientStep \/ DeliverStep
  \/ CrashRestart

Spec == Init /\ [][Next]_vars

\* Every thread of the running process is scheduled again and again; clients
\* need not ask for anything, and the process need not crash.
RenderThread(i) == i \in DOMAIN R /\ RenderStep(i)
Fairness ==
  /\ WF_vars(MainStep)
  /\ \A i \in 1..maxThreads : WF_vars(RenderThread(i))
  /\ WF_vars(MuxStep)
  /\ WF_vars(InsertFractal)
  /\ \A id \in Ids : WF_vars(DeliverReport(id)) /\ WF_vars(DeliverDeletion(id))

FairSpec == Spec /\ Fairness

-----------------------------------------------------------------------------
(* Where a job or one of its frames can be.                                *)

Holds(q, id) == \E i \in DOMAIN q : q[i].id = id
ListedIn(q, id) == \E i \in DOMAIN q : q[i] = id
Waiting(id) == \/ ListedIn(Submitted, id) \/ ListedIn(newJobs, id)
               \/ Holds(JQ, id) \/ Holds(JQManual, id)
Running(id) == Holds(R, id)
Live(id) == Waiting(id) \/ Running(id)
Still(id) == params[id].frames = 0

-----------------------------------------------------------------------------
(* Invariants.                                                             *)

StoreTypes == db \in [Ids -> Row] /\ pngs \subseteq (Ids \X Nat)
IntakeTypes ==
  /\ lastID \in 0..MaxJobs /\ params \in [Ids -> Kind]
  /\ Submitted \in Seq(Ids) /\ inserting \in Ids \cup {NoId}
MailboxTypes ==
  /\ requests \in Seq(Request)
  /\ reports \subseteq Ids /\ deletions \subseteq Ids
  /\ told \in [Clients -> [Ids -> Status \cup {"NONE"}]]
BoardTypes  == Jcurrent \in Seq(Ids) /\ Jqueue \in Seq(Ids)
QueueTypes  == JQ \in Seq(Task) /\ JQManual \in Seq(Task)
ThreadTypes == R \in Seq(RenderingJob)
AnimTypes   == A \in Seq(Animation) /\ animLock \in {"free", "main", "muxer"}
LoopTypes ==
  /\ mainpc \in {"reap", "timeouts", "lock", "frames", "progress", "dispatch",
                 "fetch", "post", "rename"}
  /\ it \in Nat \ {0} /\ count \in Nat /\ newJobs \in Seq(Ids)
  /\ changeOccured \in BOOLEAN
  /\ meta \in FractalMeta
  /\ (mainpc = "rename") <=> (meta.id \in Ids)
MuxerTypes  == muxing \subseteq Ids /\ finisher \in Finisher

\* Every variable has its type, whatever the interleaving of the threads.
TypeOK ==
  /\ StoreTypes /\ IntakeTypes /\ MailboxTypes /\ BoardTypes /\ QueueTypes
  /\ ThreadTypes /\ AnimTypes /\ LoopTypes /\ MuxerTypes

\* animLock: main is never inside addAnimationFramesToRenderQueue while a
\* muxer thread is inside finishedMuxingFrames, and the lock knows its owner.
AnimLockExclusion ==
  /\ (animLock = "main") <=> (mainpc \in {"frames", "progress"})
  /\ (animLock = "muxer") <=> (finisher.pc # "idle")

\* A job or a frame of one is never rendered twice and never lost and found:
\* it is in at most one slot of one list, from submitJob until it is reaped.
AllTasks ==
  LET asTasks(q) == [i \in DOMAIN q |-> [id |-> q[i], frame |-> 0]]
      running == [i \in DOMAIN R |-> [id |-> R[i].id, frame |-> R[i].frameID]]
  IN asTasks(Submitted) \o asTasks(newJobs) \o JQManual \o JQ \o running
OneHome ==
  /\ IsInjective(AllTasks)
  /\ \A a \in DOMAIN A :
       /\ IsInjective(A[a].frameQueue)
       /\ \A k \in DOMAIN A[a].frameQueue, i \in DOMAIN AllTasks :
            AllTasks[i] # [id |-> A[a].id, frame |-> A[a].frameQueue[k]]

\* A still whose row says RENDERING has a render thread in R: no interleaving
\* of reaping, cancelling, renaming, inserting or restarting strands the row.
RenderingHasThread ==
  \A id \in Ids : Still(id) /\ db[id].status = "RENDERING" => Running(id)

\* A row that says QUEUED although no list and no thread has its job.
Stranded(id) == Still(id) /\ db[id].status = "QUEUED" /\ ~Live(id)

\* Once a verdict other than CANCEL is in the row of a still, its job is
\* nowhere any more; with CANCEL it may still be winding down, but no queue
\* holds it, so a cancelled job never starts.
VerdictClosesJob ==
  \A id \in Ids : Still(id) =>
    /\ db[id].status \in {"COMPLETE", "TIMEOUT", "ERR"} => ~Live(id)
    /\ db[id].status = "CANCEL" => ~Waiting(id)

\* The job board shows exactly the running jobs whenever no change is pending.
BoardShowsRunning == ~changeOccured => Jcurrent = IdsOf(R)

\* What a client was last sent is what the table says, or the report that
\* corrects it is still in the mailbox: updates cannot be missed for good.
ClientsCatchUp ==
  \A c \in Clients, id \in Ids : told[c][id] # "NONE" =>
    \/ told[c][id] = db[id].status
    \/ IF Exists(id) THEN id \in reports ELSE id \in deletions

-----------------------------------------------------------------------------
(* What a step may never do.                                               *)

\* A row of a still that reached a verdict other than CANCEL keeps it until
\* the fractal is deleted, across renames, late inserts and restarts.
VerdictsAreFinal ==
  [][\A id \in Ids :
       Still(id) /\ db[id].status \in {"COMPLETE", "TIMEOUT", "ERR"}
       => db'[id].status \in {db[id].status, "NONE"}]_vars

\* The only step that leaves a row QUEUED for ever is submitJob inserting it
\* after its job came to its end: no cancel, failure, expiry, reaping, renaming
\* or restart takes a queued job out of the lists and leaves its row QUEUED.
StrandedOnlyByLateInsert ==
  [][\A id \in Ids :
       ~Stranded(id) /\ Stranded(id)'
       => InsertFractal /\ inserting = id /\ db[id].status = "NONE"]_vars

\* Jobs of one queue start in the order they were submitted, whatever list
\* each of them has reached: the submissions, the fetched ones, or the queue.
Starts(id) == ~Running(id) /\ Holds(R', id)
StartsInOrder ==
  [][\A id, w \in Ids :
       /\ Starts(id) /\ Waiting(w) /\ Still(w)
       /\ params[w].manual = params[id].manual
       => w >= id]_vars

\* An animation is handed to the muxer only with the image of every frame
\* that was queued for it: a failed frame ends the animation instead.
MuxesQueuedFrames ==
  [][\A id \in muxing' \ muxing :
       \A f \in 2..params[id].frames : <<id, f>> \in pngs]_vars

\* A failed frame ends its animation: once it is reaped, the row that said
\* RENDERING says CANCEL.
FailedFrameCancels ==
  [][\A i \in DOMAIN R :
       /\ ReapFrame /\ it = i /\ Verdict(R[i].fract) # "COMPLETE"
       /\ db[R[i].id].status = "RENDERING"
       => db'[R[i].id].status = "CANCEL"]_vars

-----------------------------------------------------------------------------
(* Liveness.                                                               *)

\* Every submitted still is eventually rendered, cancelled, failed or lost to
\* a restart: it leaves every list, and its row never stays RENDERING.
JobsEnd ==
  \A id \in Ids : /\ (Still(id) /\ Waiting(id)) ~> ~Live(id)
                  /\ (Still(id) /\ db[id].status = "RENDERING")
                       ~> db[id].status # "RENDERING"

=============================================================================
