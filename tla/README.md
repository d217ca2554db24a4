# A formal model of JSFractalEngine

JSFractalEngine renders fractals (stills and animations) on a server for several
clients. This directory holds TLA+ modules of the logic of the server and of its Java client, the TLC
configurations that check them, and proofs checked by TLAPS. Paths below are
relative to `src/Server/src/` unless they start with `src/`; Java files are in
`src/Client/src/org/jeffreysanti/fractalengine/`.

    tlc -config Races.cfg MCFractalGen.tla      # each run of PROJECT.json
    tlapm FractalGen_proofs.tla                  # each *_proofs.tla

## 1. Inventory

### Threads

| Thread | Code | What it does |
|---|---|---|
| main | `main.cpp:46`, `FractalGen::update` | every 100 ms: reaps finished jobs, moves frames, starts at most one job, fetches submissions, handles one client request; every 6000 rounds flushes the .info cache |
| network | `ConnectionManager::threadMain` | accepts clients, runs each client's packets, delivers reports |
| render, one per entry of `R` | `runGen` (`FractalGen.cpp:470`) | validates, spawns frames, renders, saves, marks the entry completed |
| muxer, one per finished animation | `AnimationBuilder::muxFrames` | runs the encoder, then `finishedMuxingFrames` |

None is ever joined; the process ends only by being stopped.

### Components, their state and operations

| Component | State | Operations | Hard part |
|---|---|---|---|
| Scheduler `FractalGen` | `R`, `JQ`, `JQManual`, `A`, `animLock` | `update`, `cancelJob`, `runThread`, `postJob`, `addAnimationToQueue`, `addAnimationFramesToRenderQueue`, `finishedMuxingFrames`, `sendUpdateToTracker` | render threads and muxers share its lists with main; only `A` has a lock |
| Job table `DBManager` | SQLite table `fract`, `lastID`, `Submitted`, `mtx` | submit, insert, get, update, delete, fetch, search, recovery at start | each call is atomic, the sequences of calls are not |
| Mailbox `FractalGenTrackManager` | a list of exchanges, two job boards | `postExchange`, `getExchange` (first of a type), `postCurrentJobs`, `postQueuedJobs` | carries ids, not data; read later |
| `Fractal` and `FractalMandleJulia` | `state`, deadline, image | `processParams`, `render`, the passes, `postRender`, `updateStatus`, `doCancel` | `state` is written by main and by the render thread without a lock |
| `AnimationBuilder` | per parameter its key frames and how far they have been reached | `spawnJobs`, `buildAnimatedParams`, `interpolateFrame`, `muxFrames` | one frame failing among many; key frames in any order, or twice the same; frames nobody checks |
| `SchemaManager`, `SchemaElement` | the schema | `validateParamaters`, `validateAnimationParam` | groups that the choices in other groups make necessary |
| `FractalLogger` | 12 buckets of .info values, 12 of log files | `outParams`, `unlockOutParams`, `forceFlushAll`, `write` | a bucket is checked before it is locked |
| `Client`, `ConnectionManager` | sessions, user | one handler per packet type, reports to all clients | reports race queries |
| `ClientCommunicator` | the packet being received, the packet being sent, two queues | `update`, `addPacketToQueue`, `hasNextPacket` | non-blocking sockets, partial reads and writes; a link through lock files |
| `ParamsFile`, `ColorPalette`, `ImageWriter`, `ArtifactDistributer`, `UserManager`, `DirectoryManager`, `FTPServer` | configuration or data | sequential | no shared state |
| Java `ServerConnection`, `ServerPacket` | phase of the connection, two queues, replyers | connect and log in, `readSocket`, `writeSocket`, `addPacketToQueue`, `handleReceivingQueue`, `connectionDropped` | one thread that reads and writes by turns, its lists shared with the user interface; queues cleared but replyers kept |
| Java library: `PanelLibrary`, `LibraryTile`, `PanelContextLibrary` | a tile per fractal found, contexts of open jobs | search and ask again by timers, handle reports and answers | reports lost, late, handled in reverse, or older than the search that follows |
| Java editor: `PanelProperties`, `ParamsElement*`, `AnimationWindow` | groups on display, the job, its key frames, the selected one | choose, type, set, move and delete key frames, submit | hides and shows groups while building them; must agree with the server's rules |

### Interactions

A client's `SJOB` makes the network thread call `submitJob`: the job enters
`Submitted`, and only then is its row inserted. Main fetches `Submitted`, sets the
row to QUEUED and queues the job; later it starts a render thread and sets
RENDERING; when the thread has marked its entry completed, main writes the
verdict. The job of an animation queues frames 2..n in `A`, renders frame 1
itself, and main moves the frames to the queues as threads become free; when all
have left, a muxer thread encodes the film and writes COMPLETE. Cancel, delete and
rename requests go through the mailbox to main. Every change of a row posts a
report with the id, and the network thread sends the row, as it is then, to all
clients. All threads that render or mux store values through `FractalLogger`.

A client on the server's machine may use files instead of sockets: `sin.sck` for its
packets and `sout.sck` for the server's, each with a lock file that says there is
one to be read. The library searches every minute, asks about every tile it does not
know, and changes tiles and contexts as reports come in. The editor builds a job by
the same schema by which the server checks it, and sends it as it is.

### What makes each part correct

- Scheduler: no job in two places, no lost thread slot, at most `maxthreads`
  threads, order of submission kept, the lock on animations exclusive, no animation
  muxed with frames missing, every job ends.
- Job table: a row tells the truth about its job, verdicts are final, a restart
  strands nothing.
- Mailbox and clients: a client that has been told something old will be corrected.
- .info cache: a caller gets its own job's bucket and nothing stored is lost, but for races
  and a swapped file that are named.
- Packet transport: packets arrive whole, once and in order; a partial write changes nothing.
- Link over files: requests are handled once and in order, answers reach the client that
  asked, nothing is overwritten before it has been read.
- Library: what a tile shows is true or will be corrected, whatever is lost.
- Editor and schema: the groups the server looks at are in the job and on display.
- Key frames: every frame gets the value they define, and one that passes the checks.

The hazards, at their lines, are listed in `PROJECT.json`.

## 2. Modules

| Module | Models |
|---|---|
| `FractalGen` | the scheduler with main, render, muxer and network threads, job table, mailbox, boards, crash and restart |
| `JobLedger` | the abstract specification: a job's stage and its row |
| `FractalGenLedger` | the refinement mapping from `FractalGen` to `JobLedger` |
| `InfoCache` | the .info cache of `FractalLogger` |
| `PacketLink` | one client and its connection: `ServerConnection`, `ServerPacket`, `ClientCommunicator`, `Client::updateClient`, `ConnectionManager::threadMain` |
| `FileLink` | the same over files: `authenticate`, `readSocket` and `writeSocket` without a socket, `ClientCommunicator::update` and `ConnectionManager::init` |
| `Library` | the library and the contexts of a client, on top of `JobLedger`: `PanelLibrary`, `LibraryTile`, `PanelContextLibrary`, `DBManager::getJobSearchResult` |
| `KeyFrames` | `AnimationBuilder`: key frames and interpolation of one integer |
| `Schema` | `SchemaManager::validateParamaters`: groups, selectors and integers |
| `JobEditor` | editor and animation window of the client, and `runGen` and `spawnJobs` up to the frames of the animation; extends `Schema`, which extends `KeyFrames` |
| `MCJobEditor` | the part of `etc/schema.json` for the TLC runs of `JobEditor` |
| `MCPacketLink` | lengths of packets for the TLC runs of `PacketLink` |
| `MCFractalGen` | kinds of jobs for the TLC runs of `FractalGen` |
| `FractalGen_proofs` | proofs about the scheduler: types, limits, the lock, threads behind rows |
| `FractalGenJobs_proofs` | where jobs are, what rows, clients and frames know of them |
| `FractalGenLedger_proofs` | the refinement of `JobLedger`, the job board |
| `Library_proofs` | proofs about `JobLedger` and about `Library`, which extends it |
| `InfoCache_proofs`, `PacketLink_proofs`, `FileLink_proofs` | proofs about the module of that name |
| `JobEditor_proofs` | proofs about `JobEditor` and the two modules it extends |

Definitions marked *mutant* are plausible bugs of the definition that follows them;
`PROJECT.json` names the property that each breaks. They are used nowhere else.

### FractalGen

A step is the code one thread runs between two points where another thread can
see or change what it uses. Main's position in `update()` is `mainpc`, with the
loop variable `it`, the free threads `count`, the fetched `newJobs`, and `meta`,
the row a rename has read. A render thread is its entry of `R`, with its position
`pc` and the state `fract` of its fractal ("NULL" until `runGen` assigns it).
`muxing` holds the animations being encoded, `finisher` the one muxer thread inside
`finishedMuxingFrames`. The network thread is between two handlers except while
`inserting` is an id. `db` and `pngs` survive a crash, the rest does not.

Decisions a reader should know:

- Main reads and writes a row in one step, except for a rename. Between the two
  calls only the muxer and an insertion could write; an insertion cannot hit a row
  that was found, and a muxer only writes rows of animations, with the same
  outcomes in another order.
- A rename is two steps, because a muxer's COMPLETE may come between.
- Reports are a set of ids: a report carries an id, the row is read when it is
  delivered. A report about a row that was not found has id -1 and sends nothing.
- While main holds `animLock` (`frames`, `progress`), others can only wait for it
  or run code that does not use the lists main changes.
- A deadline may pass at every poll. The clock itself is not modelled.
- The five passes are one step that ends normally, by an error, or at a deadline;
  rendered pixels are not modelled (`FractalMandleJulia`).
- `addAnimationToQueue` takes the queue from a row that does not store it, so
  `AnimationManualQueue` is TRUE, as in the code.
- Validation (schema, parameters), spawning and construction may fail or raise an
  exception; `runGen` catches it and only marks the job completed.
- The unlocked reads of `A` (timeout loop) and of `R` (muxer) are data races in the
  code; they are modelled as atomic reads. A crash they might cause is `CrashRestart`.
- Requests of clients are posted when the row exists, as in `Client.cpp`. With the
  mailbox at its bound `MaxRequests` a client waits; the code's mailbox has no bound.
- The row of a job may be inserted after main has fetched, started or even reaped it
  (`DBManager.cpp:443` calls the lock "not needed anymore"). Every update until then finds
  no row, and the row that comes at last says QUEUED for ever.
  `StrandedOnlyByLateInsert` says that nothing else strands a row.

What the properties deliberately do not claim, because the code does otherwise:

- A cancel is not always honoured. `cancelJob` skips running jobs without a fractal
  object (`FractalGen.cpp:73`) and does not see jobs still in `Submitted` or
  `newJobs`; `Fractal::render` and `postRender` overwrite the state
  (`Fractal.cpp:126`, `:144`), so the row may go from CANCEL to COMPLETE. Hence
  `VerdictsAreFinal` is about the other verdicts, and `VerdictClosesJob` promises
  of CANCEL only that the job is in no queue.
- `cancelJob` stops at the first entry it finds (`FractalGen.cpp:76`), so further
  frames of a cancelled animation are still rendered. Properties of rows are stated
  for stills, where id and job are one.
- A rename that overlaps the end of muxing writes the old status back
  (`FractalGen.cpp:281`).
- The progress check looks at queued frames only; frame 1, which the base job
  renders, may be unfinished when the muxer starts (`FractalGen.cpp:416`).
  `MuxesQueuedFrames` is about frames 2..n.
- A muxer posts a snapshot of the running jobs that may be older than main's
  (`FractalGen.cpp:302`); `BoardShowsRunning` is checked for stills.
- Deleting a fractal removes its row and image but not its job, which may write the
  image again (`DBManager.cpp:272`).

### JobLedger and FractalGenLedger

`JobLedger` has one action for each thing that can happen to a job: Submit, Insert,
Start, CancelWaiting, CancelActive, Close, Delete, Restart. The mapping takes the
status in `db` as the ledger's row; a job is waiting while it is in `Submitted`,
`newJobs` or a queue, active while it is in `R`, over afterwards.
It is stated for stills: an animation's id stands for many tasks at once.

### InfoCache

`P[b]` is bucket `b`; the values of a key record whose value it is (a job's id).
`outParams` is up to three steps: the comparison with the job's id, after a miss the look
whether the bucket is open (`MissBranch`), both without the lock, and the locked rest
(`LockBucket`). What the caller does with the reference, and `unlockOutParams`, is
one step. `forceFlushAll` looks at a bucket without its lock and writes whatever it holds
once locked. The eviction writes the old values to the new job's file, as the code
does (`FractalLogger.cpp:89-94`), and reads them back as the new job's; run `WriteOld` shows
it. So a caller is never promised its own job's values, only the bucket that is marked as its job's.

Nothing keeps two live jobs from sharing a bucket, or two threads from making a job's
first call together, and the model has both:

- Between its comparison and its lock a thread may lose the bucket to another live job. It is
  then handed that job's bucket, and `unlockOutParams` leaves it locked for
  ever. `ForeignOnlyByRace` says that this takes exactly such a third party, and that no thread
  loses its bucket while it holds the reference.
- A value that was stored stays in the bucket while that holds the job, and in the file once
  flushed, unless a thread fills the bucket from the file once more (two first
  calls, or a return after eviction) or a thread with a foreign reference stores there
  (`LostOnlyByReload`).

### PacketLink

A byte is the packet it belongs to and its place in it, so bytes are never mixed up
silently: a reader that loses its place sees it (`InSync`, the magic number). `up` and
`down` are the bytes on their way, at most `Cap`. The network thread's position is
`pc`: the four calls of `ClientCommunicator::update` are one step each, since the
socket may change between them; handling the packets, the second update and the pause
follow. `Pin`, `Pout`, `bytesOut`, `O`, `R` are the code's; `order` is the byte order
of the length in `Pout`. The client's thread is `cphase`, `cpc` and the rest of a
blocking write in `cPout`; its lists are the code's, with a `c` before them where the
server has one of that name. `sent`, `handled`, `queued`, `arrived` record the session
for the properties.

- Whatever can be read arrives in pieces: a write puts in any number of bytes that
  fit, and the server, whose sockets do not block, takes what is there.
- The client's write holds the monitor that the user interface needs, so requests and
  the handling of answers wait for it (`Monitor`). Reading takes what is available;
  `available()` never tells of the end of a stream, so the client notices a drop only
  when a write fails, its log-in takes too long or a header is wrong (`Drop`, `ReadRefused`).
- One connection at a time: a new session begins when the server has dropped the old
  one. Each has a `Client` of its own in the code, with nothing shared.
- A connection dropped between reading and writing leaves no stream; a packet queued
  then ends the client's thread by an exception (phase `dead`).
- Received packets are put in front of the list they are taken from, so those that
  came together are handled last first, as in the code.
- A log-in with a known name and a wrong password is refused, but the session has its
  user all the same (`HandleAuth`), as in `Client.cpp:56`. A report may come before the
  answer to a log-in and make it fail.
- An RCTX about a fractal without a row is not answered (`Client.cpp:111`).
- The length of a packet being sent is turned from network to host order in each
  update that finds exactly the header sent, so a send that stops there turns it twice
  (run `LengthTwice`). The bytes sent are the packet's all the same, as long as the wrong length
  does not carry the send past the packet's end (`Overrun`): then the server sends the memory
  behind it and never ends. `WholeDown` holds up to that point, the stop right after the header
  included.
- Not modelled: packets read from a file (the server never queues one), the refusal of
  packets above `MAXSZ`, several clients at once, and `SIGPIPE`, which ends the process
  when the peer is gone; the error path behind it is modelled.

### FileLink

One step is one operation on a file of either process (open, write, remove, look), since
the other may do anything between two of them; the files behave as POSIX files do, and a
packet is written and read in one call. `sinLck`, `sinSck`, `soutLck`, `soutSck` are the files,
`cpc` and `spc` the two threads' positions; `cO`, `cR`, `O`, `R` and `REP` are the queues
and replyers of the code. Each packet carries the session of the client it is from or for,
and those of the server a number, which only the properties look at.

- `pinLen` is the length in `Pin`, which the server never sets on this link but tests
  (`ClientCommunicator.cpp:311`): 0 or not, anew with each start of the server. With 0
  the data of a packet is not read, and the first packet ends the server.
- `sin.lck` may be left by an earlier client: `ConnectionManager::init` removes `sin.sck`
  twice and `sin.lck` never.
- A client that gives up waiting for the answer to its log-in goes on all the same, and
  never logs in again (`GiveUp`); nor does it after a restart of the server, which then
  serves it no longer. The properties are about clients whose log-in was answered by
  a server that has been running since (`Undisturbed`).
- The log-in does not look at the lock, so it may be truncated by a server that is
  still at work on an older packet; then it is not answered. The answer goes to nobody: no
  replyer has address 1. A client may take the answer to an earlier client's log-in
  for its own, and then get that client's answers; `OwnAnswers` excludes this.
- The server takes a packet from its queue and drops it when the lock is there
  (`ClientCommunicator.cpp:352`). Hence no property says that answers arrive.
- After a restart in the middle of a read, a packet may be read twice or the lock of an
  unread one removed; `ReadInOrder` is about servers that keep running.
- Not modelled: packets without data (STAT), and a client under Windows, where an open
  file cannot be removed.

### Library

`LibNext` is the ledger, whose changes become reports (`Report`), and the network thread,
the link, the client's thread and the user interface on top of it. `T[id]` is the status
a tile shows, `C` the contexts that still wait; `up` is the set of requests not answered yet (order
does not matter, as answers are about rows as they are then), `down` the packets on
their way, `R` those received, which are handled last first.

Opening a context is two actions. `UserAsks` is the press on a tile, which checks that its
status is known and shows a modal dialog (`LibraryTile.java:235-244`); packets are
handled and timers run while it is there. `UserOpens` reads the status of
the tile that was pressed (`PanelContextLibrary.java:54-56`). The tile may have been taken
out of the library by then, or replaced by a new one in the answer to a search, and a tile taken
out keeps what it said: `D` holds the tile asked about and those words. `late` is a
history variable: the fractals a context of which was opened from such a tile when they were over.

Three weathers are chosen at the start. *Calm*: the link holds, the server runs, and the user
interface keeps up, so packets are handled in order. *Late*: it does not. *Rough*: links
break and the server is restarted; what was on its way may be lost from any point. Late and
rough are not combined. What each shows:

- Calm: a tile shows the truth, or the last packet about it will tell it, or a report is
  still to come (`TilesTold`); a verdict stays (`VerdictsStay`); a context does not wait for
  ever for a fractal that is over, except in `late` (`ContextsSettle`).
- Always: a tile does not show a live or unknown state of a finished fractal for ever
  (`LiveTilesSettle`), because searches ask anew about exactly these tiles.

What is not claimed, because the code does otherwise: a tile with a verdict that is no
longer true (two reports handled in reverse, a report lost) is never corrected; the tile of the last
fractal stays when it is deleted, since an empty answer to a search is skipped; tiles
beyond the `SearchLimit` newest disappear; an insertion posts no report, so a new tile
waits for a search; a context whose report is
lost waits on; a context opened from a replaced tile after the fractal's end waits for ever,
since no more is reported of it and nobody asks for a context.

Other clients only submit jobs, whose rows come without an answer to this one (`ServeOther`).
The search text is empty; contexts of finished fractals are left out of `C`.

### KeyFrames, Schema and JobEditor

`KeyFrames` is `AnimationBuilder` for one integer parameter: `F` is its list of key frames,
with the base value in front, `lastSetIndex` the one reached last (from 1, in the code from
0), `param` the value in the JSON document that all frames are saved from. One step is
one frame. `FollowsKeys` states what the value of each frame should be without any state.
`Schema` is the server's check of a job: a queue of groups, begun with the unconditional
ones; choices of selectors queue other groups or mark them as parsed. A job is the groups
that are in it (`job`) and what each selector is set to (`choice`, its default while its
group is not in the job). `JobEditor` is the
editor, the submission, and the server up to the frames. Loops over lists (`Each`) and
`addGroup`, which calls itself through the selectors of the group it builds, are recursive
functions, so that the prover can take them; `add[d]` is `addGroup` with `d` calls to go.

- The editor submits whatever it holds: a field marked red is sent as it is, and only the
  server checks. A field that is no number becomes the default (`Verified`).
- `SchemaIsTree` is a fact of `etc/schema.json`: what a selector hides and shows (`type`
  the groups `type.*`, `shading` the groups `jmshader.*`) no other selector does, and no
  unconditional group is among it; a shown group is less deep than the one that shows it, so
  `addGroup` ends. Nothing in the code asks this of a schema. Without it `GroupsShown` fails: let
  `type` show a shader's group and then one whose selector hides that group again, and the server
  looks at the shader's group before it hears of the hiding, while the editor no longer displays it.
- Groups are hidden and shown while they are built, before the group being built
  itself counts as displayed. Groups stay displayed which the server does not look at (after
  the type `none` the shading's groups do), so `GroupsShown` says that what the server looks at is
  displayed, not the converse.
- The number of a group that is not looked at is not checked either. If it is no
  number, `interpolateFrame` raises an exception (`Throw`), and the job ends without a verdict.
- The list keeps the order in which key frames were entered: `buildAnimatedParams` sorts
  copies. The walk reaches a key frame only at its own frame, so it never gets past one
  that does not ascend, and interpolates beyond it.
- A lowered frame count moves key frames to the last frame, so two may have the same; a
  raised one leaves them there. Between two of the same frame the slope is a division by
  zero. `Garbage` is the int made of an infinity or of no number (INT_MIN in this build,
  below every minimum); such frames are queued, and fail when they are started. So do
  frames that the methods `square` and `cube` carry beyond the bounds, since they scale the
  slope of one frame by the square or cube of the distance.
- Doubles are exact in the model: slope and result are cut off after the point, as the
  conversion to int does, and roots are those of integers.
- Deleting takes the first key frame that equals the selected one; with twins that is not the selected
  one itself, but an equal one.
- Bounds: one animated integer (`type.juliamandle:iters`), and of `etc/schema.json` the part whose
  choices hide or show groups. A key frame without a method is left out, as the
  editor never makes one, and so is a key frame dialog left open while the frame count changes.
  Jobs always ask for an animation.

## 3. Runs

| Run | Instance | Shows |
|---|---|---|
| `Races` | 2 manual stills, 1 thread, cancel, delete, late insert, restart | `FractalGen` implements `JobLedger`; RENDERING has a thread, the board is accurate; verdicts close jobs and are final; order kept; only a late insert strands a row QUEUED |
| `Animations` | a still on either queue, or an animation of 3 frames; 2 threads, cancel | lock exclusion, one home per task, complete muxing |
| `Life` | one job, still or animation of 2 frames, one client, all commands, fairness | types; stills end; clients catch up |
| `Library` | 1 fractal, submitted by this client or another, and at most 1 older one, searches that find 1, 2 packets on their way, 1 context, the dialog, all weathers, fairness | the ledger keeps its promises; tiles are told, verdicts stay; live and deleted tiles and contexts settle |
| `InfoCache` | 3 threads, 2 jobs that share 1 bucket, 1 key | a foreign bucket only by a race; values lost only by a reload or through a foreign reference |
| `Link` | 2 sessions, 2 requests, each a search or a status, 1 report, fairness | packets whole, once, in order, both ways; one answer to a search, in the end |
| `FileLink` | 2 clients one after the other, 1 and 2 requests, 1 report, 1 restart of the server, fairness | requests once, in order and in the end; own answers; nothing read twice or overwritten |
| `JobEditor` | 8 operations of the user, 2 key frames, up to 4 frames, 3 methods beside `linear` | displayed groups suffice; frames follow the key frames and will pass the checks |
| `FailedFrame` (violation) | 1 animation | a failed frame without a fractal object cancels nothing, although `FractalGen.cpp:220` says it cancels the job |
| `WriteOld` (violation) | as `InfoCache` | an evicted job's values go to the new job's file, although `FractalLogger.cpp:89` says "write old" |
| `LengthTwice` (violation) | 1 session, searches | data is sent with the length in network order, although `ClientCommunicator.cpp:247` says it is turned to host order |
| `KeysSorted` (violation) | 2 key frames | key frames entered in descending order stay so, although `AnimationBuilder.cpp:154` says they are sorted |

**Bounds.** Two stills suffice for every race between two jobs: a slot freed and
taken, an entry erased before another, a cancel that hits the other queue. One
thread makes the second job wait; two threads are used where frames must overlap.
Three frames are the least with two queued frames, one rendering while the other
waits, beside frame 1 of the base job. `MaxRequests = 1` still lets a request
overlap every step of main. Buckets do not meet, so in `InfoCache` one is enough: two jobs
evict each other again and again, and three threads let one lose the bucket between its
comparison and its lock while another holds it, and main flush.
Ids are finite, so a client cannot flood the manual queue: starvation of the
automatic queue is outside `JobsEnd`.
In `Link` the header has two bytes and the sockets hold three, so headers and data
are cut at every place, and the longest packet (4 bytes) never fits; one packet has
no data. Two requests and a report meet in the queues, and a second session meets
what the first has left. Sizes of packets are given by type. RCTX, which may go without an
answer, is left to the proofs: they hold for every set of requests.

In `FileLink` the first client makes one request and the second two, so that an
answer to the first, its request and its lock file may all be left for the second.
The server restarts only under the first client: a restart leaves the files as they
are at any step, and what comes after it is another client or none. A client is
closed at any step, too.

In `Library` one fractal and an older one fight for the one place in the answer to a
search, so tiles come and go; two packets are enough for a report behind, before and
between the answers to a search and to a question. The properties speak of one fractal
at a time. Another client's jobs and the dialog are only there in calm weather (`Company`): they
change no tile otherwise than by the row, and contexts are promised nothing in other weather.

In `JobEditor` eight operations open the window, set two key frames with their values
and methods and still change the frame count, the number or a choice; with at most
four frames, one lies between, before and behind the key frames in every order.
Numbers are 1 to 7 with default 4; 9 is out of range. Two key frames and
the base value give segments that rise, fall and stay. `MaxDepth = 3` is one more than
the schema needs (a type, its shading), `MaxPops = 8` more than the server ever takes
from its queue.

**Deadlock** is checked in all runs of `FractalGen`, in `Library` and in `FileLink`:
main, the timers and both ends of the files never stop. In `InfoCache` and `WriteOld` jobs are bounded and the system stops when all have ended.
In `Link` and `LengthTwice` the sessions and requests are bounded, and the system stops
when the last connection has gone. In `JobEditor` and `KeysSorted` it stops when the job
is queued, rejected or failed.

**Fairness** (`FairSpec`, run `Life`): weak fairness of main, of every render
thread, of the muxers, of the insertion and of every report. Main and the network
thread are endless loops with a sleep, render and muxer threads are threads of the
operating system, and no step of theirs waits for anything but `animLock`. Clients
need not ask for anything and nothing forces a crash. Render threads are fair by
slot of `R`, since slots move when an entry is erased.

In `Link`: weak fairness of the network thread, of the client's thread and of the user
interface's handling of what arrived. The first two are endless loops, and Swing
runs what was posted to it. No fairness is asked of connecting, of dropping or of the user.

In `FileLink`: weak fairness of the client's thread, of the network thread and of the
handling of what arrived, for the same reasons. Nothing is asked of `Report`, of requests or of restarts.

In `Library`: weak fairness of what the client does (receiving and handling, the timer
of the searches) and of the insertion of a row; strong fairness of each kind of answer
and of each report, because whether the server can write it depends on the bound on
packets that are on their way. The server works through its list of requests and of
reports in order, so none is passed over for ever. The second timer, deletion
reports, other clients, the dialog and every cancel, deletion or restart may or may not come.

## 4. Proofs

All theorems hold for every value of the constants under the modules' assumptions
(naturals for bounds, at least one thread, kinds and commands of the right form). What a
theorem assumes beyond that stands before its statement.

| Theorem | Statement |
|---|---|
| `FractalGen_proofs!SchedulerTyped` | `Spec => []TypeOK` |
| `FractalGen_proofs!AnimLockExcludes` | `Spec => []AnimLockExclusion` |
| `FractalGen_proofs!RenderingRowsHaveThreads` | `Spec => []RenderingHasThread` |
| `FractalGenJobs_proofs!JobsHaveOneHome` | `Spec => []OneHome` |
| `FractalGenJobs_proofs!JobsStartInOrder` | `Spec => StartsInOrder` |
| `FractalGenJobs_proofs!VerdictsCloseJobs` | `Spec => []VerdictClosesJob` |
| `FractalGenJobs_proofs!VerdictsNeverChange` | `Spec => VerdictsAreFinal` |
| `FractalGenJobs_proofs!ClientsAreToldAll` | `Spec => []ClientsCatchUp` |
| `FractalGenJobs_proofs!OnlyLateInsertStrands` | `Spec => StrandedOnlyByLateInsert` |
| `FractalGenJobs_proofs!MuxedFramesHaveImages` | `Spec => MuxesQueuedFrames` |
| `FractalGenLedger_proofs!SchedulerImplementsLedger` | all kinds are stills: `Spec => ImplementsLedger` |
| `FractalGenLedger_proofs!BoardTellsRunning` | all kinds are stills: `Spec => []BoardShowsRunning` |
| `Library_proofs!LedgerTyped`, `RowsAgreeWithStages` | the ledger's `TypeOK`, `RowsAgree` |
| `Library_proofs!LibraryKeepsLedger` | `LibSpec` implies the ledger's `Spec` |
| `Library_proofs!LibraryTyped` | `LibSpec => []LibTypeOK` |
| `Library_proofs!TilesAreTold` | `LibSpec => []TilesTold` |
| `Library_proofs!VerdictsAreKept` | `LibSpec => VerdictsStay` |
| `InfoCache_proofs!CacheRaces` | `Spec => ForeignOnlyByRace` |
| `InfoCache_proofs!CacheKeeps` | `Spec => LostOnlyByReload` |
| `PacketLink_proofs!LinkTypesKept` | `Spec => []TypeOK` |
| `PacketLink_proofs!WholePacketsUp`, `WholePacketsDown` | `Spec => []WholeUp`, `Spec => []WholeDown` |
| `PacketLink_proofs!SearchesAnsweredOnce` | `Spec => []OneAnswer` |
| `FileLink_proofs!FilesTyped` | `Spec => []TypeOK` |
| `FileLink_proofs!PacketsReadInOrder` | `Spec => ReadInOrder` |
| `FileLink_proofs!UnreadPacketsStay` | `Spec => NotOverwritten` |
| `FileLink_proofs!RequestsHandledOnce` | `Spec => []RequestsOnce` |
| `FileLink_proofs!AnswersAreOwn` | `Spec => []OwnAnswers` |
| `JobEditor_proofs!KeysInvariant`, `FramesFollowKeys` | `KeysSpec => []KeyInv`, `KeysSpec => []FollowsKeys` |
| `JobEditor_proofs!EditorInvariant` | `Spec => []EditInv` |
| `JobEditor_proofs!EditorDrivesBuilder` | `Spec => KeysSpec` |
| `JobEditor_proofs!SubmittedFramesFollow` | `Spec => []FollowsKeys` |
| `JobEditor_proofs!EditorTypesHold` | `Spec => []JobTypeOK` |
| `JobEditor_proofs!JobsComplete` | `Spec => []GroupsShown` |
| `JobEditor_proofs!FramesAccepted` | `Spec => []FramesValid` |

**Scheduler.** The invariants are layers, each inductive together with those below it.

- *Types and limits*: `Safe == TypeOK /\ Capacity /\ AnimLockExclusion`, where `Capacity`
  is that `R` has at most `maxThreads` entries. The
  three need each other: the type of `count` (a natural) needs the thread limit, and
  the section under the lock needs the types. Lemmas about `RemoveAt` and `SelectInSeq`
  carry the queues; then one lemma per group of actions.
- *Rows and threads*: `RenderingHasThread` is not inductive. An id that was never
  handed out must be in no list (`AllKnown`), or a start could revive it; a
  rename must not hold a stale RENDERING of a job already reaped
  (`RenameHasThread`); and a thread that is spawning frames has an id that was handed out
  (in `KnownThreads`), or the frames it queues would be nobody's. Their conjunction with
  `Safe` is `ThreadInv`.
- *Places*: `OrderInv == ThreadInv /\ JobPlaces`. Each queue, the list main has
  fetched and the mailbox behind it hold new jobs by ascending id (`LineOrder`); what has
  begun is no longer in line (`BegunFirst`); no task is queued, run, or kept as an animation
  twice (`QueuedOnce`, `RunOnce`, `AnimatedOnce`); and the fetched list is empty except while main
  posts from it (`PostHasJobs`), without which two fetches could overtake each other. Most
  actions only take tasks out of lists. `Leaving` says so with an ascending map from
  places after the step to places before it, and one lemma (`Leaves`) covers them all.
  `OneHome` and `StartsInOrder` follow.
- *Rows*: `RowInv` adds that a row being inserted is not there yet, that jobs in line
  have no row or a QUEUED one, that what runs has no verdict (`RowsKnown`), and
  `RenameRow`: what a rename has read of a still is true until it writes it back. A
  verdict is then never overwritten, neither by a late insertion, which main cannot have
  overtaken with a row present, nor by a rename.
- *Queued rows*: with `RowInv`, each kind of step is shown to leave no row QUEUED without
  its job (`StepStrandsNone`): what takes a job from a queue writes its row or hands it on, a
  rename puts back only what is still true, a restart cancels what it drops. Only the insertion
  remains, and it does so only for its own row (`InsertStrandsOnlyItsRow`).
- *Frames*: a frame whose thread is past saving has its image (`SavedFrames`), and every
  frame of an animation is queued, in a thread or saved (`AnimFrames`).
- *Refinement*: each step of the scheduler is a step of the ledger or a stutter; the steps
  that cross are starting, cancelling, reaping, insertion, deletion, the crash. It is stated
  for stills, as is `BoardShowsRunning`: an animation's id stands for many tasks at once, and the
  ledger has one stage per id; a muxer's COMPLETE would come for an id whose base job is over. For
  the board, no frames also means no muxer posting what it read before.

**Ledger and library.** The ledger's type invariant and its two row invariants together are
inductive. `LibraryKeepsLedger` shows that the library's
server is the ledger: every step changes the ledger's variables as an action of the ledger
does, or not at all. Hence all theorems of the ledger hold for the library. `TilesTold` needs the
order of packets: in calm weather what is on its way and what was received are one
queue, `Line == R \o down`. For every fractal, if the last packet about it in `Line`
is its true state, or a report is due, the tile will be told (`Telling`); a deletion, reported or on
its way, is of a fractal that is gone for good (`Deaths`); behind a packet with a verdict, and
for a tile with one, only verdicts and deletions follow (`Final`). `LibInv` is these with the types and the
ledger's invariant.

**Cache.** Inductive (`Inv`) are the types, that callers work for living jobs (`CallersAlive`), that
an open bucket holds a job it is the bucket of (`OpenHasJob`), and that a thread with a
reference has the lock of its bucket (`HoldersLock`). The last one makes the first property:
who is inside cannot lose its bucket, so only a thread between comparison and lock can, and only to
one that fills the bucket (`Supplanted`). For the second, each step that changes a bucket or a file is
compared with what it does to the values of one job: an eviction of the job moves them nowhere but
does not keep the job in the bucket either, another job's eviction writes only that job's file, and a flush
writes the job that is in the bucket.

**Link.** No assumption is made about where a send stops.

- `PartsInv` is `LinkTypes` (a header received badly would be anybody's packet) and the rest of `TypeOK`: what states of client, server and connection go
  together (`LinkState`), and what a half-received or half-sent packet can be (`Pieces`,
  `SentPart`), so `InSync` never fails.
- *Whole packets*: `Carried(in, out, bytes, waiting)`. The packets put in are those that
  came out, then the packets whose bytes are on their way, piece after piece, then those that wait. `FlowInv` is
  that for both directions. Each send and each read moves a piece over one of the borders. On the
  way down, a send may also put memory behind the packet's bytes (`Sends`), in which case it has
  overrun its packet and goes on doing so; `DownFlow` splits what is in the socket into the bytes
  of packets and that memory, and as the client never completes a packet from it, the
  flow of packets and `OneAnswer` hold even then.
- *Answers*: `FreshInv` says that reply addresses in queues are each used once and are below the
  counter; `LoginInv` that no search is sent before the server has said YES,
  and a log-in is asked for once; with them and the flow, `AnswersOf` says of each address that as many answers were queued as
  requests handled, and that its replyer waits until the answer is read. `OneAnswer` follows.

**Files.** Five layers, for any number of clients one after the other, of requests, reports and
restarts of the server.

- *Types* (`Base`): besides the types, no packet holds a request that was not made, or is of a
  session that has not begun, which is what the bound on addresses needs.
- *Locks* (`LockInv`): who works on a file finds its lock as it left it. The client fills
  `sin.sck` only without the lock and the server reads it only with it (`UpLock`), except for
  the log-in, which writes over everything; so what a server finds at "unlock" in a file that
  is not empty is an AUTH. `DownLock` is the same for `sout.sck`; there a client
  that has taken the packet finds the lock until it removes it, unless the server starts anew. A
  server whose `Pin` has no length dies of the first packet and grants nothing (`PinInv`).
- *Numbers* (`OrderKept`, `Newer`): the packets in the file, being written and in the queue have ascending
  numbers, and what is still to be read is newer than what was read.
  `ReadInOrder` and `NotOverwritten` are steps of it.
- *Requests* (`RequestsKept`): the requests of this session in the server, in the file, in the packet being
  written and in the queue are exactly those not handled, in order. Each step
  hands one on (`TakeLine`, `WriteLine`, `HandledIsFirst`); it does so from the first request, so the theorem needs
  no word about what an earlier client left behind.
- *Answers* (`AnswersKept`): packets of an earlier session come to the server before those of a later one
  (`UpKept`), and the answer to a log-in clears the queue, so nothing for an earlier client comes
  after it (`DownKept`). From the moment the client reads it, each replyer waits
  for one answer at most, and for one that carries its own address (`GrantedKept`): an answer for a request
  is new because addresses of requests handled are smaller.

**Key frames.** `FollowsKeys` compares each frame with a definition that has no state:
the key frame in force is the last up to that frame in the part of the list that
ascends from its start. Inductive is that the key frame reached last is in force for
the frame just built (`Reached`), and that while the next one has method `none` the
parameter still holds its value (`HoldsLast`). `InForceUnique` shows there is only
one in force, which is what makes the definition comparable with the walk. It
holds for every list, base value and number of frames, so also for lists the editor
cannot make. `KeyTypes` belongs to the invariant (`KeyInv`) and needs the arithmetic: that slopes
and roots are integers. The root is the least natural whose successor's power is too
large (`RootFound`).

**Editor.** `EditInv` has three parts. The types: the selected key frame is one of the list. An
update drops the whole list when the integer has no text field, and a choice updates without
looking at the selection; so the types need `WindowInv` (in an open window without a text field there are no
key frames, and without a window none is selected) and that no choice takes the field's registration away (`Grown`).

What is on display is `Closed`: the unconditional groups, and with every group all that its
choices show. That `addGroup` keeps this is an induction over the calls to go
(`AddKeeps`), since the groups shown by a group being built are less deep: adding a group adds to nobody's
lack (`Lacking`), and takes from the display only what groups of this depth or less own (`Lost`);
so a selector cannot hide what an earlier selector of the same group, or a group further up, has shown
(`OneOwner`). Along the server's queue everything queued or validated is on display (`WalkWithin`), hence
`GroupsShown`.

`EditorDrivesBuilder` shows that the steps which change the builder's variables are steps of the
builder with key frames, a value and a number of frames of the right types. So whatever holds of `KeysSpec`
holds here, `FollowsKeys` first. `FramesAccepted` adds (`AcceptedInv`) that the builder only runs
on what was accepted and that values stay within the bounds: between two key frames that ascend, a method that does
not overshoot gives a value between the two (`InterpolatedBetween`). That needs the arithmetic of the slope
that is cut off (`SlopeBounds`) and of the root of its power (`OnRootBounds`).

Where a proof has to find the first or last place of a sequence with some property, it takes the
least element of a set of naturals (`LeastOf`, from `WFMin` and `NatLessThanWellFounded`), which needs no operator
as parameter. The same gives induction for a set instead of a predicate (`AllNaturals`), and with it what
the recursive functions of `JobEditor` and `Schema` compute: that they exist (`RunExists`,
`DeeperExists`) and that a loop keeps what each round keeps (`EachKeeps`, with a set of
states per round).

**Only model-checked:** the liveness properties `JobsEnd`, `Answered`, `RequestsHandled`,
`LiveTilesSettle`, `GhostsGo` and `ContextsSettle` (fairness and `ENABLED` are out of the prover's
reach). That the server's walk through the groups ends within `MaxPops` rounds, and that doubles are cut off as the
model has it, is assumed.

## 5. Not modelled

- Vendored libraries (CImg, SQLite, JSON, muParser, the FTP server): most of
  the lines in the repository.
- Pure arithmetic on floating-point values: the pixels of the renderer, palettes, the rounding
  of doubles in `animationInterpolate`.
- Pure input and output: images, artifact download, FTP, the text log.
- What is loaded once: configuration and users.
- Layout, viewing panes, other dialogs and the other kinds of fields of the client.
- Several clients at once, and the limit on clients: they share the queue of requests to
  main, which `FractalGen` has, and nothing else.
- Modelled as a step that succeeds or fails in `FractalGen`: schema validation, parameter
  processing, encoding. `JobEditor` has what is behind the first for one integer.

## 6. Plan

Done: `FractalGen`, `JobLedger`, `FractalGenLedger`, `InfoCache`, `PacketLink`, `FileLink`,
`Library`, `KeyFrames`, `Schema`, `JobEditor`. Left, in order of importance:

1. `Shading`: iteration counts, histogram, bounds and palette lookup, as operators
   checked against reference definitions over bounded inputs.
2. `Sessions`: several clients accepted, kicked and dropped; the lock of the job
   table during searches (`DBManager.cpp:97`).
3. The text log of `FractalLogger`, whose buckets have no lock.
