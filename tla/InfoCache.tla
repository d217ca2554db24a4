----------------------------- MODULE InfoCache -----------------------------
(***************************************************************************)
(* The cache of the jobs' .info files in FractalLogger.  A job's values    *)
(* live in bucket fid % MAX_FILE_CACHE; outParams(fid) locks the bucket    *)
(* and returns its values, unlockOutParams(fid) unlocks it.  Render        *)
(* threads, muxer threads and the main thread all use it; the main thread  *)
(* also calls forceFlushAll.                                               *)
(*                                                                         *)
(* outParams looks at the bucket before it takes the lock: it compares the *)
(* bucket with fid, on a miss it looks again whether the bucket is open,   *)
(* and only then it locks, each a step of its own.  Everything between     *)
(* locking and unlocking is done under the lock; the values a caller       *)
(* stores are part of the step that unlocks.                               *)
(***************************************************************************)
EXTENDS Integers

CONSTANTS
  MaxJobs,          \* bound: ids of jobs
  MAX_FILE_CACHE,   \* number of buckets
  Keys,             \* the values of a job that matter
  Threads,          \* the threads of the server that use the cache ...
  MainThread        \* ... and the one that calls forceFlushAll

Unlocked == "unlocked"

ASSUME CacheAssumption ==
  /\ MaxJobs \in Nat /\ MAX_FILE_CACHE \in Nat \ {0}
  /\ MainThread \in Threads /\ Unlocked \notin Threads

VARIABLES
  P,          \* the buckets
  file,       \* the .info file of each job
  caller,     \* what each thread is doing
  flushing,   \* the bucket forceFlushAll waits for; MAX_FILE_CACHE: none
  alive,      \* jobs some thread may work for
  ended,      \* jobs no thread will work for any more
  stored,     \* history: the keys stored for each job ...
  flushed     \* ... and the jobs flushed since they last stored something

vars == <<P, file, caller, flushing, alive, ended, stored, flushed>>

Ids == 1..MaxJobs
Buckets == 0..(MAX_FILE_CACHE - 1)
bucket(fid) == fid % MAX_FILE_CACHE

\* Whose value a key has; NoValue: the key is not there.
NoValue == 0
Values == [Keys -> Ids \cup {NoValue}]
Empty == [k \in Keys |-> NoValue]

OutCache == [open : BOOLEAN, fid : Nat, root : Values, dirty : BOOLEAN,
             lock : Threads \cup {Unlocked}]
Caller == [pc : {"out", "miss", "lock", "in"}, fid : Ids \cup {0},
           branch : {"hit", "evict", "fill"}]
Outside == [pc |-> "out", fid |-> 0, branch |-> "hit"]

Init ==
  /\ P = [b \in Buckets |-> [open |-> FALSE, fid |-> 0, root |-> Empty,
                             dirty |-> FALSE, lock |-> Unlocked]]
  /\ file = [id \in Ids |-> Empty]
  /\ caller = [t \in Threads |-> Outside]
  /\ flushing = MAX_FILE_CACHE
  /\ alive = {} /\ ended = {}
  /\ stored = [id \in Ids |-> {}] /\ flushed = {}

-----------------------------------------------------------------------------
(* Jobs come and go.                                                       *)

\* A new id is greater than those before it.
StartJob(id) ==
  /\ id \notin alive \cup ended /\ \A j \in 1..(id - 1) : j \in alive \cup ended
  /\ alive' = alive \cup {id}
  /\ UNCHANGED <<P, file, caller, flushing, ended, stored, flushed>>

EndJob(id) ==
  /\ id \in alive /\ \A t \in Threads : caller[t].fid # id
  /\ alive' = alive \ {id} /\ ended' = ended \cup {id}
  /\ UNCHANGED <<P, file, caller, flushing, stored, flushed>>

-----------------------------------------------------------------------------
(* outParams and unlockOutParams.                                          *)

Inside(t) == caller[t].pc = "in"
\* The bucket of the job holds the job.
Held(id) == P[bucket(id)].open /\ P[bucket(id)].fid = id

\* The first comparison, without the lock.
outParams(t, fid) ==
  /\ caller[t].pc = "out" /\ fid \in alive
  /\ t = MainThread => flushing = MAX_FILE_CACHE
  /\ caller' = [caller EXCEPT ![t] = [pc |-> IF Held(fid) THEN "lock" ELSE "miss",
                                      fid |-> fid, branch |-> "hit"]]
  /\ UNCHANGED <<P, file, flushing, alive, ended, stored, flushed>>

\* After a miss the bucket is looked at again, still without the lock.
MissBranch(t) ==
  /\ caller[t].pc = "miss"
  /\ LET open == P[bucket(caller[t].fid)].open
     IN caller' = [caller EXCEPT ![t].pc = "lock",
                                 ![t].branch = IF open THEN "evict" ELSE "fill"]
  /\ UNCHANGED <<P, file, flushing, alive, ended, stored, flushed>>

\* The "old" values are written to the new job's file, and read back from it.
FileOnEvict(b, fid) == [file EXCEPT ![fid] = P[b].root]

\* The bucket of fid once its file has been read, locked by t.
EvictedKeepsId(fid, root, t) ==          \* mutant: the bucket keeps the old id
  [open |-> TRUE, fid |-> P[bucket(fid)].fid, root |-> root, dirty |-> TRUE, lock |-> t]
Loaded(fid, root, t) ==
  [open |-> TRUE, fid |-> fid, root |-> root, dirty |-> TRUE, lock |-> t]

\* The lock is taken, and the branch chosen before is carried out.
LockBucket(t) ==
  LET fid == caller[t].fid
      b == bucket(fid)
  IN /\ caller[t].pc = "lock" /\ P[b].lock = Unlocked
     /\ caller' = [caller EXCEPT ![t].pc = "in"]
     /\ \/ /\ caller[t].branch = "hit"
           /\ P' = [P EXCEPT ![b].lock = t, ![b].dirty = TRUE]
           /\ UNCHANGED file
        \/ /\ caller[t].branch = "evict"
           /\ file' = FileOnEvict(b, fid)
           /\ P' = [P EXCEPT ![b] = Loaded(fid, file'[fid], t)]
        \/ /\ caller[t].branch = "fill"
           /\ P' = [P EXCEPT ![b] = Loaded(fid, file[fid], t)]
           /\ UNCHANGED file
     /\ UNCHANGED <<flushing, alive, ended, stored, flushed>>

Stored(root, K, fid) == [k \in Keys |-> IF k \in K THEN fid ELSE root[k]]

NotWritten(fid, root) == file           \* mutant: only the mark is reset
Written(fid, root) == [file EXCEPT ![fid] = root]

\* The caller stores values for fid through the reference it holds, and calls
\* unlockOutParams, which does nothing when the bucket holds another job.
unlockOutParams(t, K, flushNow) ==
  LET fid == caller[t].fid
      b == bucket(fid)
      root == Stored(P[b].root, K, fid)
  IN /\ caller[t].pc = "in"
     /\ caller' = [caller EXCEPT ![t] = Outside]
     /\ IF P[b].open /\ P[b].fid = fid
        THEN /\ P' = [P EXCEPT ![b].root = root, ![b].lock = Unlocked,
                               ![b].dirty = ~flushNow /\ @]
             /\ file' = IF flushNow THEN Written(fid, root) ELSE file
             /\ flushed' = IF flushNow THEN flushed \cup {fid}
                                       ELSE flushed \ {fid}
        ELSE /\ P' = [P EXCEPT ![b].root = root]
             /\ UNCHANGED file
             /\ flushed' = flushed \ {fid}
     /\ stored' = [stored EXCEPT ![fid] = @ \cup K]
     /\ UNCHANGED <<flushing, alive, ended>>

-----------------------------------------------------------------------------
(* forceFlushAll, called by the main thread between two rounds.            *)

\* A bucket is looked at without its lock ...
FlushLook(b) ==
  /\ caller[MainThread].pc = "out" /\ flushing = MAX_FILE_CACHE
  /\ P[b].open /\ P[b].dirty
  /\ flushing' = b
  /\ UNCHANGED <<P, file, caller, alive, ended, stored, flushed>>

\* ... and whatever it holds once it is locked is written.
FlushWrite ==
  /\ flushing \in Buckets /\ P[flushing].lock = Unlocked
  /\ file' = [file EXCEPT ![P[flushing].fid] = P[flushing].root]
  /\ flushing' = MAX_FILE_CACHE
  /\ flushed' = flushed \cup {P[flushing].fid}
  /\ UNCHANGED <<P, caller, alive, ended, stored>>

-----------------------------------------------------------------------------

JobStep == \E id \in Ids : StartJob(id) \/ EndJob(id)
CallerStep(t) ==
  \/ \E fid \in Ids : outParams(t, fid)
  \/ MissBranch(t) \/ LockBucket(t)
  \/ \E K \in SUBSET Keys, flushNow \in BOOLEAN : unlockOutParams(t, K, flushNow)
FlushStep == FlushWrite \/ \E b \in Buckets : FlushLook(b)

Next == JobStep \/ (\E t \in Threads : CallerStep(t)) \/ FlushStep

Spec == Init /\ [][Next]_vars

-----------------------------------------------------------------------------

\* Buckets, files and callers have their types.
TypeOK ==
  /\ P \in [Buckets -> OutCache] /\ file \in [Ids -> Values]
  /\ caller \in [Threads -> Caller] /\ flushing \in 0..MAX_FILE_CACHE
  /\ alive \subseteq Ids /\ ended \subseteq Ids
  /\ stored \in [Ids -> SUBSET Keys] /\ flushed \subseteq Ids

\* A thread has found the bucket to be its job's, or has made it so, but the
\* bucket holds another job.
Foreign(t) ==
  /\ Inside(t) \/ (caller[t].pc = "lock" /\ caller[t].branch = "hit")
  /\ P[bucket(caller[t].fid)].fid # caller[t].fid

\* Another thread puts another job, alive as well, into the bucket t waits for.
Supplanted(t) ==
  \E u \in Threads :
    /\ caller[u].pc = "lock" /\ caller[u].branch # "hit" /\ Inside(u)'
    /\ caller[u].fid \in alive \ {caller[t].fid}
    /\ bucket(caller[u].fid) = bucket(caller[t].fid)

\* outParams hands out the bucket of another job only if, between its comparison
\* and its lock, a thread of another live job of the same bucket comes in
\* between.  Nobody takes the bucket from a thread that holds a reference.
ForeignOnlyByRace ==
  [][\A t \in Threads : ~Foreign(t) /\ Foreign(t)' =>
       /\ caller[t].pc = "lock" /\ UNCHANGED caller[t]
       /\ caller[t].fid \in alive /\ Supplanted(t)]_vars

\* What a job stored is in its bucket while that holds the job, and in its file
\* once it was flushed.
Kept(id, k) == /\ Held(id) => P[bucket(id)].root[k] = id
               /\ id \in flushed => file[id][k] = id

\* The two ways in which it may be lost: a thread reads the job's file again,
\* or a thread that was handed the bucket of another job stores values there.
Reloads(id) ==
  \E t \in Threads : /\ caller[t].pc = "lock" /\ caller[t].branch # "hit"
                     /\ caller[t].fid = id /\ Inside(t)'
StoresAstray(id) ==
  \E t \in Threads : /\ Inside(t) /\ ~Inside(t)' /\ Foreign(t)
                     /\ P[bucket(caller[t].fid)].fid = id

\* Nothing else loses a stored value: not the calls of other jobs, not the
\* eviction of the job, not a flush of one bucket or of all.
LostOnlyByReload ==
  [][\A id \in Ids : \A k \in stored[id] :
       Kept(id, k) /\ ~Kept(id, k)' => Reloads(id) \/ StoresAstray(id)]_vars

\* "write old": a job that is evicted from its bucket has its values in its file.
EvictionWritesOld ==
  [][\A id \in Ids : Held(id) /\ ~Held(id)' =>
       \A k \in stored[id] : P[bucket(id)].root[k] = id => file'[id][k] = id]_vars
=============================================================================
