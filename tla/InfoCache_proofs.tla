-------------------------- MODULE InfoCache_proofs --------------------------
(***************************************************************************)
(* What the cache does with its buckets and with the values stored there,  *)
(* for any number of jobs, buckets and threads and with every race the     *)
(* comparisons outside the lock allow: when a thread is handed another     *)
(* job's bucket, and what can lose a value that was stored.                *)
(***************************************************************************)
EXTENDS InfoCache, TLAPS

\* A thread that calls the cache works for a job that is alive.
CallersAlive ==
  \A t \in Threads : caller[t].pc # "out" => caller[t].fid \in alive

\* An open bucket holds a job that belongs there; only open ones are flushed.
OpenHasJob ==
  /\ \A b \in Buckets : P[b].open => P[b].fid \in Ids /\ bucket(P[b].fid) = b
  /\ flushing \in Buckets => P[flushing].open

\* A thread that holds a reference has the lock of its bucket.
HoldersLock ==
  \A t \in Threads : Inside(t) => P[bucket(caller[t].fid)].lock = t

Inv == TypeOK /\ CallersAlive /\ OpenHasJob /\ HoldersLock

LEMMA BucketType == \A fid \in Ids : bucket(fid) \in Buckets
BY CacheAssumption DEF Ids, bucket, Buckets

LEMMA NoThreadUnlocked == \A t \in Threads : t # Unlocked
BY CacheAssumption

LEMMA InvInit == Init => Inv
<1>1. Empty \in Values
  BY DEF Empty, Values, NoValue
<1>2. SUFFICES ASSUME Init PROVE Inv
  OBVIOUS
<1>3. Outside \in Caller /\ Outside.pc = "out"
  BY DEF Outside, Caller
<1>4. TypeOK
  <2>1. P \in [Buckets -> OutCache]
    BY <1>1, <1>2 DEF Init, OutCache, Buckets
  <2>2. file \in [Ids -> Values] /\ caller \in [Threads -> Caller]
    BY <1>1, <1>2, <1>3 DEF Init
  <2>3. flushing \in 0..MAX_FILE_CACHE
    BY <1>2, CacheAssumption DEF Init
  <2>4. alive \subseteq Ids /\ ended \subseteq Ids /\ flushed \subseteq Ids
    BY <1>2 DEF Init
  <2>5. stored \in [Ids -> SUBSET Keys]
    BY <1>2 DEF Init
  <2>. QED
    BY <2>1, <2>2, <2>3, <2>4, <2>5 DEF TypeOK
<1>5. \A b \in Buckets : P[b].lock = Unlocked /\ ~P[b].open
  BY <1>2 DEF Init
<1>6. \A t \in Threads : caller[t].pc = "out"
  BY <1>2, <1>3 DEF Init
<1>7. CallersAlive /\ HoldersLock
  BY <1>6 DEF CallersAlive, HoldersLock, Inside
<1>8. OpenHasJob
  BY <1>2, <1>5, CacheAssumption DEF Init, OpenHasJob, Buckets
<1>. QED
  BY <1>4, <1>7, <1>8 DEF Inv

-----------------------------------------------------------------------------
(* One lemma for each kind of step.                                        *)

LEMMA JobStepInv ==
  ASSUME Inv, JobStep PROVE Inv'
<1>. USE DEF Inv
<1>1. UNCHANGED <<P, file, caller, flushing, stored, flushed>>
  BY DEF JobStep, StartJob, EndJob
<1>2. PICK id \in Ids : StartJob(id) \/ EndJob(id)
  BY DEF JobStep
<1>3. TypeOK'
  BY <1>1, <1>2 DEF StartJob, EndJob, TypeOK
<1>4. CallersAlive'
  BY <1>1, <1>2 DEF StartJob, EndJob, CallersAlive
<1>5. OpenHasJob' /\ HoldersLock'
  BY <1>1 DEF OpenHasJob, HoldersLock, Inside
<1>. QED
  BY <1>3, <1>4, <1>5

\* The looks without the lock change nothing but the caller.
LEMMA LooksInv ==
  ASSUME Inv, NEW t \in Threads,
         (\E fid \in Ids : outParams(t, fid)) \/ MissBranch(t)
  PROVE  /\ Inv' /\ UNCHANGED <<P, file, alive, stored, flushed>>
         /\ ~Inside(t)'
         /\ \A u \in Threads \ {t} : caller'[u] = caller[u]
<1>. USE DEF Inv
<1>1. UNCHANGED <<P, file, flushing, alive, ended, stored, flushed>>
  BY DEF outParams, MissBranch
<1>2. PICK c \in Caller : /\ caller' = [caller EXCEPT ![t] = c]
                          /\ c.pc \in {"miss", "lock"} /\ c.fid \in alive
  <2>1. CASE \E fid \in Ids : outParams(t, fid)
    <3>1. PICK fid \in Ids : outParams(t, fid)
      BY <2>1
    <3>. DEFINE c == [pc |-> IF Held(fid) THEN "lock" ELSE "miss",
                      fid |-> fid, branch |-> "hit"]
    <3>2. c \in Caller /\ c.pc \in {"miss", "lock"} /\ c.fid \in alive
      BY <3>1 DEF Caller, outParams
    <3>3. caller' = [caller EXCEPT ![t] = c]
      BY <3>1 DEF outParams
    <3>. QED
      BY <3>2, <3>3
  <2>2. CASE MissBranch(t)
    <3>. DEFINE open == P[bucket(caller[t].fid)].open
                c == [caller[t] EXCEPT !.pc = "lock",
                                       !.branch = IF open THEN "evict" ELSE "fill"]
    <3>1. caller[t] \in Caller /\ caller[t].pc = "miss" /\ caller[t].fid \in alive
      BY <2>2 DEF MissBranch, TypeOK, CallersAlive
    <3>2. c \in Caller /\ c.pc = "lock" /\ c.fid \in alive
      BY <3>1 DEF Caller
    <3>3. caller' = [caller EXCEPT ![t] = c]
      BY <2>2 DEF MissBranch, TypeOK, Caller
    <3>. QED
      BY <3>2, <3>3
  <2>. QED
    BY <2>1, <2>2
<1>3. /\ caller' \in [Threads -> Caller] /\ caller'[t] = c
      /\ \A u \in Threads \ {t} : caller'[u] = caller[u]
  BY <1>2 DEF TypeOK
<1>4. TypeOK' /\ CallersAlive'
  BY <1>1, <1>2, <1>3 DEF TypeOK, CallersAlive
<1>5. OpenHasJob' /\ HoldersLock' /\ ~Inside(t)'
  BY <1>1, <1>2, <1>3 DEF OpenHasJob, HoldersLock, Inside
<1>. QED
  BY <1>1, <1>3, <1>4, <1>5

\* What LockBucket does, whatever has happened since the branch was chosen.
LEMMA LockFacts ==
  ASSUME Inv, NEW t \in Threads, LockBucket(t)
  PROVE  LET fid == caller[t].fid
             b == bucket(fid)
         IN /\ fid \in alive /\ fid \in Ids /\ b \in Buckets
            /\ caller[t].pc = "lock" /\ P[b].lock = Unlocked
            /\ UNCHANGED <<flushing, alive, ended, stored, flushed>>
            /\ caller' \in [Threads -> Caller]
            /\ caller'[t] = [caller[t] EXCEPT !.pc = "in"]
            /\ \A u \in Threads \ {t} : caller'[u] = caller[u]
            /\ P' \in [Buckets -> OutCache] /\ P'[b].lock = t
            /\ \A d \in Buckets \ {b} : P'[d] = P[d]
            /\ file' \in [Ids -> Values]
            /\ \A id \in Ids \ {fid} : file'[id] = file[id]
            /\ \/ /\ caller[t].branch = "hit" /\ UNCHANGED file
                  /\ P'[b].open = P[b].open /\ P'[b].fid = P[b].fid
                  /\ P'[b].root = P[b].root
               \/ /\ caller[t].branch # "hit"
                  /\ P'[b].open /\ P'[b].fid = fid
<1>. USE DEF Inv
<1>. DEFINE fid == caller[t].fid
            b == bucket(fid)
<1>1. /\ caller[t].pc = "lock" /\ P[b].lock = Unlocked
      /\ caller' = [caller EXCEPT ![t].pc = "in"]
      /\ UNCHANGED <<flushing, alive, ended, stored, flushed>>
  BY DEF LockBucket
<1>2. fid \in alive /\ fid \in Ids /\ b \in Buckets
  BY <1>1, BucketType DEF CallersAlive, TypeOK
<1>3. /\ caller'[t] = [caller[t] EXCEPT !.pc = "in"]
      /\ \A u \in Threads \ {t} : caller'[u] = caller[u]
      /\ caller' \in [Threads -> Caller]
  BY <1>1 DEF TypeOK, Caller
<1>4. CASE /\ caller[t].branch = "hit"
           /\ P' = [P EXCEPT ![b].lock = t, ![b].dirty = TRUE]
           /\ UNCHANGED file
  <2>1. /\ P' \in [Buckets -> OutCache] /\ P'[b].lock = t
        /\ P'[b].open = P[b].open /\ P'[b].fid = P[b].fid
        /\ P'[b].root = P[b].root
        /\ \A d \in Buckets \ {b} : P'[d] = P[d]
    BY <1>2, <1>4 DEF TypeOK, OutCache
  <2>. QED
    BY <1>1, <1>2, <1>3, <1>4, <2>1 DEF TypeOK
<1>5. ASSUME NEW root \in Values, P' = [P EXCEPT ![b] = Loaded(fid, root, t)]
      PROVE  /\ P' \in [Buckets -> OutCache]
             /\ P'[b].lock = t /\ P'[b].open /\ P'[b].fid = fid
             /\ \A d \in Buckets \ {b} : P'[d] = P[d]
  <2>1. fid \in Nat
    BY <1>2 DEF Ids
  <2>2. Loaded(fid, root, t) \in OutCache
    BY <2>1 DEF OutCache, Loaded
  <2>. QED
    BY <1>2, <1>5, <2>2 DEF TypeOK, Loaded
<1>6. CASE /\ caller[t].branch = "evict"
           /\ file' = FileOnEvict(b, fid)
           /\ P' = [P EXCEPT ![b] = Loaded(fid, file'[fid], t)]
  <2>1. P[b].root \in Values
    BY <1>2 DEF TypeOK, OutCache
  <2>2. /\ file' \in [Ids -> Values] /\ file'[fid] \in Values
        /\ \A id \in Ids \ {fid} : file'[id] = file[id]
    BY <1>2, <1>6, <2>1 DEF FileOnEvict, TypeOK
  <2>. QED
    BY <1>1, <1>2, <1>3, <1>5, <1>6, <2>2
<1>7. CASE /\ caller[t].branch = "fill"
           /\ P' = [P EXCEPT ![b] = Loaded(fid, file[fid], t)]
           /\ UNCHANGED file
  <2>1. file[fid] \in Values
    BY <1>2 DEF TypeOK
  <2>. QED
    BY <1>1, <1>2, <1>3, <1>5, <1>7, <2>1 DEF TypeOK
<1>. QED
  BY <1>4, <1>6, <1>7 DEF LockBucket

LEMMA LockInv ==
  ASSUME Inv, NEW t \in Threads, LockBucket(t) PROVE Inv'
<1>. DEFINE fid == caller[t].fid
            b == bucket(fid)
<1>1. /\ fid \in alive /\ fid \in Ids /\ b \in Buckets /\ P[b].lock = Unlocked
      /\ UNCHANGED <<flushing, alive, ended, stored, flushed>>
      /\ caller' \in [Threads -> Caller]
      /\ caller'[t] = [caller[t] EXCEPT !.pc = "in"]
      /\ \A u \in Threads \ {t} : caller'[u] = caller[u]
      /\ P' \in [Buckets -> OutCache] /\ P'[b].lock = t
      /\ \A d \in Buckets \ {b} : P'[d] = P[d]
      /\ file' \in [Ids -> Values]
      /\ \/ P'[b].open = P[b].open /\ P'[b].fid = P[b].fid
         \/ P'[b].open /\ P'[b].fid = fid
  BY LockFacts
<1>2. caller'[t].fid = fid /\ caller'[t].pc = "in"
  BY <1>1 DEF Inv, TypeOK, Caller
<1>3. TypeOK' /\ CallersAlive'
  BY <1>1, <1>2 DEF Inv, TypeOK, CallersAlive
<1>4. OpenHasJob'
  BY <1>1 DEF Inv, OpenHasJob
<1>5. HoldersLock'
  <2>. SUFFICES ASSUME NEW u \in Threads, Inside(u)'
                PROVE  P'[bucket(caller'[u].fid)].lock = u
    BY DEF HoldersLock
  <2>1. CASE u = t
    BY <1>1, <1>2, <2>1
  <2>2. CASE u # t
    <3>1. caller'[u] = caller[u] /\ Inside(u) /\ P[bucket(caller[u].fid)].lock = u
      BY <1>1, <2>2 DEF Inside, Inv, HoldersLock
    <3>2. bucket(caller[u].fid) \in Buckets \ {b}
      BY <1>1, <3>1, BucketType, NoThreadUnlocked
      DEF Inv, CallersAlive, TypeOK, Inside
    <3>. QED
      BY <1>1, <3>1, <3>2
  <2>. QED
    BY <2>1, <2>2
<1>. QED
  BY <1>3, <1>4, <1>5 DEF Inv

\* What unlockOutParams does to bucket b and to the file of its job fid, when
\* the values are root after what the caller has stored.
Unlocks(t, fid, b, root) ==
  /\ Inside(t) /\ fid \in Ids /\ b \in Buckets
  /\ caller' \in [Threads -> Caller] /\ caller'[t].pc = "out"
  /\ \A u \in Threads \ {t} : caller'[u] = caller[u]
  /\ UNCHANGED <<flushing, alive, ended>>
  /\ P' \in [Buckets -> OutCache] /\ P'[b].root = root
  /\ \A d \in Buckets : P'[d].open = P[d].open /\ P'[d].fid = P[d].fid
  /\ \A d \in Buckets \ {b} : P'[d] = P[d]
  /\ file' \in [Ids -> Values] /\ flushed' \subseteq Ids
  /\ stored' \in [Ids -> SUBSET Keys]
  /\ \A id \in Ids \ {fid} :
       file'[id] = file[id] /\ (id \in flushed' <=> id \in flushed)
  /\ fid \in flushed' => Held(fid) /\ file'[fid] = root

LEMMA UnlockFacts ==
  ASSUME Inv, NEW t \in Threads, NEW K \in SUBSET Keys, NEW flushNow \in BOOLEAN,
         unlockOutParams(t, K, flushNow)
  PROVE  Unlocks(t, caller[t].fid, bucket(caller[t].fid),
                 Stored(P[bucket(caller[t].fid)].root, K, caller[t].fid))
<1>. USE DEF Inv
<1>. DEFINE fid == caller[t].fid
            b == bucket(fid)
            root == Stored(P[b].root, K, fid)
            open == [P[b] EXCEPT !.root = root, !.lock = Unlocked,
                                 !.dirty = ~flushNow /\ @]
            left == [P[b] EXCEPT !.root = root]
<1>1. /\ Inside(t) /\ caller' = [caller EXCEPT ![t] = Outside]
      /\ stored' = [stored EXCEPT ![fid] = @ \cup K]
      /\ UNCHANGED <<flushing, alive, ended>>
  BY DEF unlockOutParams, Inside
<1>2. fid \in Ids /\ b \in Buckets
  BY <1>1, BucketType DEF CallersAlive, TypeOK, Inside
<1>3. root \in Values
  <2>1. P[b].root \in Values
    BY <1>2 DEF TypeOK, OutCache
  <2>. QED
    BY <1>2, <2>1 DEF Stored, Values
<1>4. /\ caller' \in [Threads -> Caller] /\ caller'[t].pc = "out"
      /\ \A u \in Threads \ {t} : caller'[u] = caller[u]
  BY <1>1 DEF TypeOK, Caller, Outside
<1>5. stored' \in [Ids -> SUBSET Keys]
  BY <1>1, <1>2 DEF TypeOK
<1>6. P[b] \in OutCache /\ P \in [Buckets -> OutCache]
  BY <1>2 DEF TypeOK
<1>7. \A n \in {open, left} :
        n \in OutCache /\ n.root = root /\ n.open = P[b].open /\ n.fid = P[b].fid
  BY <1>3, <1>6 DEF OutCache
<1>8. ASSUME NEW n \in {open, left}, P' = [P EXCEPT ![b] = n]
      PROVE  /\ P' \in [Buckets -> OutCache] /\ P'[b].root = root
             /\ \A d \in Buckets : P'[d].open = P[d].open /\ P'[d].fid = P[d].fid
             /\ \A d \in Buckets \ {b} : P'[d] = P[d]
  <2>. HIDE DEF open, left, root
  <2>. QED
    BY <1>2, <1>6, <1>7, <1>8
<1>9. CASE Held(fid)
  <2>1. /\ P' = [P EXCEPT ![b].root = root, ![b].lock = Unlocked,
                          ![b].dirty = ~flushNow /\ @]
        /\ file' = IF flushNow THEN Written(fid, root) ELSE file
        /\ flushed' = IF flushNow THEN flushed \cup {fid} ELSE flushed \ {fid}
    BY <1>9 DEF unlockOutParams, Held
  <2>2. P' = [P EXCEPT ![b] = open]
    BY <1>2, <1>6, <2>1
  <2>3. /\ file' \in [Ids -> Values] /\ flushed' \subseteq Ids
        /\ \A id \in Ids \ {fid} :
             file'[id] = file[id] /\ (id \in flushed' <=> id \in flushed)
        /\ fid \in flushed' => file'[fid] = root
    <3>. HIDE DEF root
    <3>. QED
      BY <1>2, <1>3, <2>1 DEF Written, TypeOK
  <2>. HIDE DEF open, left, root
  <2>. QED
    BY <1>1, <1>2, <1>4, <1>5, <1>8, <1>9, <2>2, <2>3 DEF root, Unlocks
<1>10. CASE ~Held(fid)
  <2>1. /\ P' = [P EXCEPT ![b].root = root] /\ UNCHANGED file
        /\ flushed' = flushed \ {fid}
    BY <1>10 DEF unlockOutParams, Held
  <2>2. P' = [P EXCEPT ![b] = left]
    BY <1>2, <1>6, <2>1
  <2>. HIDE DEF open, left, root
  <2>. QED
    BY <1>1, <1>2, <1>4, <1>5, <1>8, <1>10, <2>1, <2>2 DEF root, Unlocks, TypeOK
<1>. QED
  BY <1>9, <1>10

LEMMA UnlockInv ==
  ASSUME Inv, NEW t \in Threads, NEW K \in SUBSET Keys, NEW flushNow \in BOOLEAN,
         unlockOutParams(t, K, flushNow)
  PROVE  Inv'
<1>. DEFINE fid == caller[t].fid
            b == bucket(fid)
<1>1. /\ Inside(t) /\ fid \in Ids /\ b \in Buckets
      /\ caller' \in [Threads -> Caller] /\ caller'[t].pc = "out"
      /\ \A u \in Threads \ {t} : caller'[u] = caller[u]
      /\ UNCHANGED <<flushing, alive, ended>>
      /\ P' \in [Buckets -> OutCache]
      /\ \A d \in Buckets : P'[d].open = P[d].open /\ P'[d].fid = P[d].fid
      /\ \A d \in Buckets \ {b} : P'[d] = P[d]
      /\ file' \in [Ids -> Values] /\ flushed' \subseteq Ids
      /\ stored' \in [Ids -> SUBSET Keys]
  <2>1. Unlocks(t, fid, b, Stored(P[b].root, K, fid))
    BY UnlockFacts
  <2>. QED
    BY <2>1 DEF Unlocks
<1>2. TypeOK' /\ CallersAlive' /\ OpenHasJob'
  BY <1>1 DEF Inv, TypeOK, CallersAlive, OpenHasJob
<1>3. HoldersLock'
  <2>. SUFFICES ASSUME NEW u \in Threads, Inside(u)'
                PROVE  P'[bucket(caller'[u].fid)].lock = u
    BY DEF HoldersLock
  <2>1. u # t /\ caller'[u] = caller[u] /\ Inside(u)
    BY <1>1 DEF Inside
  <2>2. P[bucket(caller[u].fid)].lock = u /\ P[b].lock = t
    BY <1>1, <2>1 DEF Inv, HoldersLock
  <2>3. bucket(caller[u].fid) \in Buckets \ {b}
    BY <2>1, <2>2, BucketType DEF Inv, CallersAlive, TypeOK, Inside
  <2>. QED
    BY <1>1, <2>1, <2>2, <2>3
<1>. QED
  BY <1>2, <1>3 DEF Inv

LEMMA FlushInv ==
  ASSUME Inv, FlushStep PROVE Inv'
<1>. USE DEF Inv
<1>1. CASE FlushWrite
  <2>1. /\ flushing \in Buckets /\ P[flushing].fid \in Ids
        /\ P[flushing].root \in Values
    BY <1>1 DEF FlushWrite, OpenHasJob, TypeOK, OutCache
  <2>2. MAX_FILE_CACHE \notin Buckets /\ MAX_FILE_CACHE \in 0..MAX_FILE_CACHE
    BY CacheAssumption DEF Buckets
  <2>3. TypeOK'
    BY <1>1, <2>1, <2>2 DEF FlushWrite, TypeOK
  <2>. QED
    BY <1>1, <2>2, <2>3 DEF FlushWrite, CallersAlive, OpenHasJob, HoldersLock, Inside
<1>2. ASSUME NEW b \in Buckets, FlushLook(b) PROVE Inv'
  <2>1. b \in 0..MAX_FILE_CACHE
    BY CacheAssumption DEF Buckets
  <2>. QED
    BY <1>2, <2>1 DEF FlushLook, TypeOK, CallersAlive, OpenHasJob, HoldersLock, Inside
<1>. QED
  BY <1>1, <1>2 DEF FlushStep

LEMMA InvStep ==
  ASSUME Inv, [Next]_vars PROVE Inv'
<1>1. CASE JobStep
  BY <1>1, JobStepInv
<1>2. ASSUME NEW t \in Threads, CallerStep(t) PROVE Inv'
  BY <1>2, LooksInv, LockInv, UnlockInv DEF CallerStep
<1>3. CASE FlushStep
  BY <1>3, FlushInv
<1>4. CASE UNCHANGED vars
  BY <1>4 DEF vars, Inv, TypeOK, CallersAlive, OpenHasJob, HoldersLock, Inside
<1>. QED
  BY <1>1, <1>2, <1>3, <1>4 DEF Next

LEMMA AlwaysInv == Spec => []Inv
  BY InvInit, InvStep, PTL DEF Spec

-----------------------------------------------------------------------------
(* Who is handed the bucket of another job.                                 *)

\* What ForeignOnlyByRace says of one thread and one step.
RacedOnly(t) ==
  ~Foreign(t) /\ Foreign(t)' =>
    /\ caller[t].pc = "lock" /\ UNCHANGED caller[t]
    /\ caller[t].fid \in alive /\ Supplanted(t)

\* A step that gives no bucket to another job and moves no other caller.
LEMMA SameBuckets ==
  ASSUME Inv, NEW t \in Threads, NEW u \in Threads, t # u,
         caller'[t] = caller[t],
         \A d \in Buckets : P'[d].fid = P[d].fid
  PROVE  RacedOnly(t)
<1>1. Foreign(t)' => caller[t].pc # "out"
  BY DEF Foreign, Inside
<1>2. caller[t].pc # "out" => bucket(caller[t].fid) \in Buckets
  BY BucketType DEF Inv, CallersAlive, TypeOK
<1>. QED
  BY <1>1, <1>2 DEF RacedOnly, Foreign, Inside

LEMMA LooksRace ==
  ASSUME Inv, NEW t \in Threads, NEW u \in Threads,
         (\E fid \in Ids : outParams(u, fid)) \/ MissBranch(u)
  PROVE  RacedOnly(t)
<1>1. UNCHANGED P /\ \A w \in Threads \ {u} : caller'[w] = caller[w]
  BY LooksInv
<1>2. CASE t # u
  BY <1>1, <1>2, SameBuckets
<1>3. ASSUME t = u, NEW fid \in Ids, outParams(u, fid) PROVE ~Foreign(t)'
  <2>1. caller'[t] = [pc |-> IF Held(fid) THEN "lock" ELSE "miss",
                      fid |-> fid, branch |-> "hit"]
    BY <1>3 DEF outParams, Inv, TypeOK
  <2>2. CASE Held(fid)
    BY <1>1, <2>1, <2>2 DEF Foreign, Inside, Held
  <2>3. CASE ~Held(fid)
    BY <2>1, <2>3 DEF Foreign, Inside
  <2>. QED
    BY <2>2, <2>3
<1>4. ASSUME t = u, MissBranch(u) PROVE ~Foreign(t)'
  <2>1. caller'[t].pc = "lock" /\ caller'[t].branch # "hit"
    BY <1>4 DEF MissBranch, Inv, TypeOK, Caller
  <2>. QED
    BY <2>1 DEF Foreign, Inside
<1>. QED
  BY <1>2, <1>3, <1>4 DEF RacedOnly

LEMMA LockRace ==
  ASSUME Inv, NEW t \in Threads, NEW u \in Threads, LockBucket(u)
  PROVE  RacedOnly(t)
<1>. DEFINE fid == caller[u].fid
            b == bucket(fid)
<1>1. /\ fid \in alive /\ fid \in Ids /\ b \in Buckets
      /\ caller[u].pc = "lock" /\ P[b].lock = Unlocked
      /\ caller'[u] = [caller[u] EXCEPT !.pc = "in"]
      /\ \A w \in Threads \ {u} : caller'[w] = caller[w]
      /\ \A d \in Buckets \ {b} : P'[d] = P[d]
      /\ \/ caller[u].branch = "hit" /\ P'[b].fid = P[b].fid
         \/ caller[u].branch # "hit" /\ P'[b].fid = fid
  BY LockFacts
<1>2. caller'[u].fid = fid /\ caller'[u].pc = "in"
  BY <1>1 DEF Inv, TypeOK, Caller
<1>3. CASE caller[u].branch = "hit"
  <2>1. \A d \in Buckets : P'[d].fid = P[d].fid
    BY <1>1, <1>3
  <2>2. CASE t = u
    BY <1>1, <1>2, <1>3, <2>1, <2>2 DEF RacedOnly, Foreign, Inside
  <2>. QED
    BY <1>1, <2>1, <2>2, SameBuckets
<1>4. CASE caller[u].branch # "hit"
  <2>1. P'[b].fid = fid
    BY <1>1, <1>4
  <2>. SUFFICES ASSUME ~Foreign(t), Foreign(t)'
                PROVE  /\ caller[t].pc = "lock" /\ UNCHANGED caller[t]
                       /\ caller[t].fid \in alive /\ Supplanted(t)
    BY DEF RacedOnly
  <2>2. t # u /\ caller'[t] = caller[t]
    BY <1>1, <1>2, <2>1 DEF Foreign
  <2>3. caller[t].pc \in {"lock", "in"} /\ caller[t].fid \in alive \cap Ids
    BY <2>2 DEF Foreign, Inside, Inv, CallersAlive, TypeOK
  <2>4. bucket(caller[t].fid) = b
    <3>1. bucket(caller[t].fid) \in Buckets
      BY <2>3, BucketType
    <3>. QED
      BY <1>1, <2>2, <3>1 DEF Foreign, Inside
  <2>5. caller[t].fid # fid
    BY <2>1, <2>2, <2>4 DEF Foreign
  <2>6. ~Inside(t)
    BY <1>1, <2>4, NoThreadUnlocked DEF Inv, HoldersLock
  <2>7. Supplanted(t)
    BY <1>1, <1>2, <1>4, <2>4, <2>5 DEF Supplanted, Inside
  <2>. QED
    BY <2>2, <2>3, <2>6, <2>7 DEF Inside
<1>. QED
  BY <1>3, <1>4

LEMMA UnlockRace ==
  ASSUME Inv, NEW t \in Threads, NEW u \in Threads,
         NEW K \in SUBSET Keys, NEW flushNow \in BOOLEAN,
         unlockOutParams(u, K, flushNow)
  PROVE  RacedOnly(t)
<1>1. /\ caller'[u].pc = "out"
      /\ \A w \in Threads \ {u} : caller'[w] = caller[w]
      /\ \A d \in Buckets : P'[d].fid = P[d].fid
  BY UnlockFacts DEF Unlocks
<1>2. CASE t = u
  BY <1>1, <1>2 DEF RacedOnly, Foreign, Inside
<1>. QED
  BY <1>1, <1>2, SameBuckets

\* FractalLogger::outParams: a thread is handed the bucket of another job only
\* if a thread of another live job of the same bucket comes between the
\* comparison and the lock; once a thread is inside, its bucket stays its own.
THEOREM CacheRaces == Spec => ForeignOnlyByRace
<1>1. ASSUME Inv, [Next]_vars, NEW t \in Threads PROVE RacedOnly(t)
  <2>1. CASE UNCHANGED <<P, caller>>
    BY <2>1 DEF RacedOnly, Foreign, Inside
  <2>2. ASSUME NEW u \in Threads, CallerStep(u) PROVE RacedOnly(t)
    BY <1>1, <2>2, LooksRace, LockRace, UnlockRace DEF CallerStep
  <2>3. (JobStep \/ FlushStep \/ UNCHANGED vars) => UNCHANGED <<P, caller>>
    BY DEF JobStep, StartJob, EndJob, FlushStep, FlushWrite, FlushLook, vars
  <2>. QED
    BY <1>1, <2>1, <2>2, <2>3 DEF Next
<1>2. Inv /\ [Next]_vars =>
        [\A t \in Threads : ~Foreign(t) /\ Foreign(t)' =>
           /\ caller[t].pc = "lock" /\ UNCHANGED caller[t]
           /\ caller[t].fid \in alive /\ Supplanted(t)]_vars
  BY <1>1 DEF RacedOnly
<1>. QED
  BY AlwaysInv, <1>2, PTL DEF Spec, ForeignOnlyByRace

-----------------------------------------------------------------------------
(* What loses a value that was stored.                                      *)

LEMMA LockKeeps ==
  ASSUME Inv, NEW id \in Ids, NEW k \in stored[id], Kept(id, k),
         NEW t \in Threads, LockBucket(t)
  PROVE  Kept(id, k)' \/ Reloads(id)
<1>. DEFINE fid == caller[t].fid
            b == bucket(fid)
<1>1. /\ fid \in Ids /\ b \in Buckets /\ caller[t].pc = "lock"
      /\ UNCHANGED flushed
      /\ caller'[t] = [caller[t] EXCEPT !.pc = "in"]
      /\ \A d \in Buckets \ {b} : P'[d] = P[d]
      /\ \A j \in Ids \ {fid} : file'[j] = file[j]
      /\ \/ /\ caller[t].branch = "hit" /\ UNCHANGED file
            /\ P'[b].open = P[b].open /\ P'[b].fid = P[b].fid
            /\ P'[b].root = P[b].root
         \/ /\ caller[t].branch # "hit"
            /\ P'[b].open /\ P'[b].fid = fid
  BY LockFacts
<1>2. bucket(id) \in Buckets
  BY BucketType
<1>3. CASE caller[t].branch = "hit"
  <2>1. /\ UNCHANGED <<file, flushed>>
        /\ P'[bucket(id)].open = P[bucket(id)].open
        /\ P'[bucket(id)].fid = P[bucket(id)].fid
        /\ P'[bucket(id)].root = P[bucket(id)].root
    BY <1>1, <1>2, <1>3
  <2>. QED
    BY <2>1 DEF Kept, Held
<1>4. CASE caller[t].branch # "hit" /\ fid = id
  <2>1. Inside(t)'
    BY <1>1 DEF Inside, Inv, TypeOK, Caller
  <2>. QED
    BY <1>1, <1>4, <2>1 DEF Reloads
<1>5. CASE caller[t].branch # "hit" /\ fid # id
  <2>1. Held(id)' => P'[bucket(id)] = P[bucket(id)]
    BY <1>1, <1>2, <1>5 DEF Held
  <2>. QED
    BY <1>1, <1>5, <2>1 DEF Kept, Held
<1>. QED
  BY <1>3, <1>4, <1>5

LEMMA UnlockKeeps ==
  ASSUME Inv, NEW id \in Ids, NEW k \in stored[id], Kept(id, k),
         NEW t \in Threads, NEW K \in SUBSET Keys, NEW flushNow \in BOOLEAN,
         unlockOutParams(t, K, flushNow)
  PROVE  Kept(id, k)' \/ StoresAstray(id)
<1>. DEFINE fid == caller[t].fid
            b == bucket(fid)
            root == Stored(P[b].root, K, fid)
<1>1. /\ Inside(t) /\ fid \in Ids /\ b \in Buckets /\ caller'[t].pc = "out"
      /\ P'[b].root = root
      /\ \A d \in Buckets : P'[d].open = P[d].open /\ P'[d].fid = P[d].fid
      /\ \A d \in Buckets \ {b} : P'[d] = P[d]
      /\ \A j \in Ids \ {fid} :
           file'[j] = file[j] /\ (j \in flushed' <=> j \in flushed)
      /\ fid \in flushed' => Held(fid) /\ file'[fid] = root
  <2>1. Unlocks(t, fid, b, root)
    BY UnlockFacts
  <2>. QED
    BY <2>1 DEF Unlocks
<1>2. bucket(id) \in Buckets /\ k \in Keys
  BY BucketType DEF Inv, TypeOK
<1>3. Held(id)' <=> Held(id)
  BY <1>1, <1>2 DEF Held
<1>4. CASE id = fid
  <2>1. Held(id) => root[k] = id
    BY <1>2, <1>4 DEF Stored, Kept
  <2>. HIDE DEF root
  <2>. QED
    BY <1>1, <1>3, <1>4, <2>1 DEF Kept
<1>5. CASE id # fid /\ bucket(id) = b /\ Held(id)
  <2>1. Foreign(t) /\ ~Inside(t)'
    BY <1>1, <1>5 DEF Foreign, Held, Inside
  <2>. QED
    BY <1>1, <1>5, <2>1 DEF StoresAstray, Held
<1>6. CASE id # fid /\ ~(bucket(id) = b /\ Held(id))
  <2>1. Held(id)' => P'[bucket(id)] = P[bucket(id)]
    BY <1>1, <1>2, <1>3, <1>6
  <2>. QED
    BY <1>1, <1>3, <1>6, <2>1 DEF Kept
<1>. QED
  BY <1>4, <1>5, <1>6

\* A flush writes what the bucket holds to the file of the job it holds.
LEMMA FlushKeeps ==
  ASSUME Inv, NEW id \in Ids, NEW k \in stored[id], Kept(id, k), FlushStep
  PROVE  Kept(id, k)'
<1>1. UNCHANGED P
  BY DEF FlushStep, FlushWrite, FlushLook
<1>2. CASE FlushWrite
  <2>. DEFINE fid == P[flushing].fid
  <2>1. /\ flushing \in Buckets /\ P[flushing].open /\ fid \in Ids
        /\ bucket(fid) = flushing
    BY <1>2 DEF FlushWrite, Inv, OpenHasJob
  <2>2. /\ file' = [file EXCEPT ![fid] = P[flushing].root]
        /\ flushed' = flushed \cup {fid}
    BY <1>2 DEF FlushWrite
  <2>3. CASE id = fid
    <3>1. P[flushing].root[k] = id /\ file'[id] = P[flushing].root
      BY <2>1, <2>2, <2>3 DEF Kept, Held, Inv, TypeOK
    <3>. QED
      BY <1>1, <3>1 DEF Kept, Held
  <2>4. CASE id # fid
    <3>1. file'[id] = file[id] /\ (id \in flushed' <=> id \in flushed)
      BY <2>1, <2>2, <2>4 DEF Inv, TypeOK
    <3>. QED
      BY <1>1, <3>1 DEF Kept, Held
  <2>. QED
    BY <2>3, <2>4
<1>3. CASE UNCHANGED <<file, flushed>>
  BY <1>1, <1>3 DEF Kept, Held
<1>. QED
  BY <1>2, <1>3 DEF FlushStep, FlushLook

\* FractalLogger: a value stored for a job stays in its bucket while that holds
\* the job, and in its file once flushed, unless a thread reads the job's file
\* into the bucket again or a thread of another job stores into its bucket.
THEOREM CacheKeeps == Spec => LostOnlyByReload
<1>1. ASSUME Inv, [Next]_vars, NEW id \in Ids, NEW k \in stored[id], Kept(id, k)
      PROVE  Kept(id, k)' \/ Reloads(id) \/ StoresAstray(id)
  <2>1. CASE UNCHANGED <<P, file, flushed>>
    BY <1>1, <2>1 DEF Kept, Held
  <2>2. JobStep \/ UNCHANGED vars => UNCHANGED <<P, file, flushed>>
    BY DEF JobStep, StartJob, EndJob, vars
  <2>3. ASSUME NEW t \in Threads, CallerStep(t)
        PROVE  Kept(id, k)' \/ Reloads(id) \/ StoresAstray(id)
    <3>1. CASE (\E fid \in Ids : outParams(t, fid)) \/ MissBranch(t)
      BY <1>1, <2>1, <3>1, LooksInv
    <3>2. CASE LockBucket(t)
      BY <1>1, <3>2, LockKeeps
    <3>3. CASE \E K \in SUBSET Keys, flushNow \in BOOLEAN :
                 unlockOutParams(t, K, flushNow)
      BY <1>1, <3>3, UnlockKeeps
    <3>. QED
      BY <2>3, <3>1, <3>2, <3>3 DEF CallerStep
  <2>4. CASE FlushStep
    BY <1>1, <2>4, FlushKeeps
  <2>. QED
    BY <1>1, <2>1, <2>2, <2>3, <2>4 DEF Next
<1>2. Inv /\ [Next]_vars =>
        [\A id \in Ids : \A k \in stored[id] :
           Kept(id, k) /\ ~Kept(id, k)' => Reloads(id) \/ StoresAstray(id)]_vars
  BY <1>1
<1>. QED
  BY AlwaysInv, <1>2, PTL DEF Spec, LostOnlyByReload
=============================================================================
