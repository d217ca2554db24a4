------------------------- MODULE FractalGen_proofs -------------------------
(***************************************************************************)
(* Proofs about the scheduler, for every number of jobs, of threads, of    *)
(* clients and of requests.                                                *)
(***************************************************************************)
EXTENDS FractalGen, SequenceTheorems, WellFoundedInduction, TLAPS

-----------------------------------------------------------------------------
(* Sequences: an entry is removed, found, or changed in place.             *)

LEMMA RemoveAtFacts ==
  ASSUME NEW S, NEW s \in Seq(S), NEW i \in 1..Len(s)
  PROVE  /\ RemoveAt(s, i) \in Seq(S)
         /\ Len(RemoveAt(s, i)) = Len(s) - 1
         /\ \A k \in 1..(Len(s) - 1) :
              RemoveAt(s, i)[k] = IF k < i THEN s[k] ELSE s[k + 1]
<1> DEFINE front == SubSeq(s, 1, i - 1)
           back  == SubSeq(s, i + 1, Len(s))
<1>1. /\ front \in Seq(S) /\ Len(front) = i - 1
      /\ \A k \in 1..(i - 1) : front[k] = s[k]
  BY SubSeqProperties, LenProperties
<1>2. /\ back \in Seq(S) /\ Len(back) = Len(s) - i
      /\ \A k \in 1..(Len(s) - i) : back[k] = s[i + k]
  BY SubSeqProperties, LenProperties
<1>3. RemoveAt(s, i) = front \o back
  BY DEF RemoveAt
<1> HIDE DEF front, back
<1>4. /\ front \o back \in Seq(S)
      /\ Len(front \o back) = Len(front) + Len(back)
      /\ \A k \in 1..(Len(front) + Len(back)) :
           (front \o back)[k] = IF k <= Len(front) THEN front[k]
                                                 ELSE back[k - Len(front)]
  BY <1>1, <1>2, ConcatProperties
<1>5. ASSUME NEW k \in 1..(Len(s) - 1)
      PROVE (front \o back)[k] = IF k < i THEN s[k] ELSE s[k + 1]
  BY <1>1, <1>2, <1>4, LenProperties
<1>6. Len(front) + Len(back) = Len(s) - 1
  BY <1>1, <1>2, LenProperties
<1>7. QED
  BY <1>3, <1>4, <1>5, <1>6

\* A set of naturals that is not empty has its minimum.
LEMMA MinFact ==
  ASSUME NEW I \in SUBSET Nat, I # {}
  PROVE  Min(I) \in I /\ \A j \in I : Min(I) <= j
<1>1. \E m \in I : \A j \in I : ~(<<j, m>> \in OpToRel(<, Nat))
  BY NatLessThanWellFounded, WFMin
<1>2. PICK m \in I : \A j \in I : ~(j < m)
  BY <1>1 DEF OpToRel
<1>3. \A j \in I : m <= j
  BY <1>2
<1>4. QED
  BY <1>3 DEF Min

\* FirstOf finds an entry of id, if there is one.
LEMMA FirstOfFacts ==
  ASSUME NEW S, NEW q \in Seq(S), NEW id
  PROVE  /\ FirstOf(q, id) \in 0..Len(q)
         /\ FirstOf(q, id) # 0 => q[FirstOf(q, id)].id = id
         /\ FirstOf(q, id) = 0 => \A k \in 1..Len(q) : q[k].id # id
<1> DEFINE I == {k \in 1..Len(q) : q[k].id = id}
<1>1. FirstOf(q, id) = IF I # {} THEN Min(I) ELSE 0
  BY DEF FirstOf, SelectInSeq
<1>2. CASE I = {}
  BY <1>1, <1>2, LenProperties
<1>3. CASE I # {}
  <2>1. I \in SUBSET Nat
    BY LenProperties
  <2>2. Min(I) \in I
    BY <1>3, <2>1, MinFact
  <2>3. QED
    BY <1>1, <1>3, <2>2, LenProperties
<1>4. QED
  BY <1>2, <1>3

LEMMA FirstRunningFacts ==
  ASSUME NEW S, R \in Seq(S), NEW id
  PROVE  /\ FirstRunning(id) \in 0..Len(R)
         /\ FirstRunning(id) # 0 => R[FirstRunning(id)].id = id
         /\ FirstRunning(id) = 0 =>
              \A k \in 1..Len(R) : ~(R[k].id = id /\ R[k].fract # "NULL")
<1> DEFINE I == {k \in 1..Len(R) : R[k].id = id /\ R[k].fract # "NULL"}
<1>1. FirstRunning(id) = IF I # {} THEN Min(I) ELSE 0
  BY DEF FirstRunning, SelectInSeq
<1>2. CASE I = {}
  BY <1>1, <1>2, LenProperties
<1>3. CASE I # {}
  <2>1. I \in SUBSET Nat
    BY LenProperties
  <2>2. Min(I) \in I
    BY <1>3, <2>1, MinFact
  <2>3. QED
    BY <1>1, <1>3, <2>2, LenProperties
<1>4. QED
  BY <1>2, <1>3

\* Erasing an entry found by FirstOf keeps the type of the list, and every
\* entry left was there before.
LEMMA WithoutFacts ==
  ASSUME NEW S, NEW q \in Seq(S), NEW i \in 0..Len(q)
  PROVE  /\ Without(q, i) \in Seq(S)
         /\ Len(Without(q, i)) <= Len(q)
         /\ \A k \in 1..Len(Without(q, i)) :
              \E j \in 1..Len(q) : Without(q, i)[k] = q[j]
<1>1. CASE i = 0
  BY <1>1, LenProperties DEF Without
<1>2. CASE i \in 1..Len(q)
  <2>1. /\ Without(q, i) \in Seq(S) /\ Len(Without(q, i)) = Len(q) - 1
        /\ \A k \in 1..(Len(q) - 1) :
             Without(q, i)[k] = IF k < i THEN q[k] ELSE q[k + 1]
    BY <1>2, RemoveAtFacts DEF Without
  <2>2. QED
    BY <1>2, <2>1, LenProperties
<1>3. QED
  BY <1>1, <1>2, LenProperties

\* The ids of a list of jobs.
LEMMA IdsOfFacts ==
  ASSUME NEW q, q \in Seq(Task) \/ q \in Seq(RenderingJob)
  PROVE  IdsOf(q) \in Seq(Ids)
<1>1. DOMAIN q = 1..Len(q) /\ Len(q) \in Nat
  BY LenProperties
<1>2. \A i \in 1..Len(q) : q[i].id \in Ids
  <2>1. \A i \in 1..Len(q) : q[i] \in Task \/ q[i] \in RenderingJob
    BY ElementOfSeq
  <2>2. QED
    BY <2>1 DEF Task, RenderingJob
<1>3. [i \in 1..Len(q) |-> q[i].id] \in Seq(Ids)
  BY <1>1, <1>2, IsASeq
<1>4. QED
  BY <1>1, <1>3 DEF IdsOf

\* Changing the program counter or the state of one thread.
LEMMA ThreadFacts ==
  ASSUME ThreadTypes, NEW i \in DOMAIN R, NEW job \in RenderingJob
  PROVE  /\ [R EXCEPT ![i] = job] \in Seq(RenderingJob)
         /\ Len([R EXCEPT ![i] = job]) = Len(R)
         /\ \A j \in 1..Len(R) :
              [R EXCEPT ![i] = job][j] = IF j = i THEN job ELSE R[j]
<1>1. i \in 1..Len(R)
  BY LenProperties DEF ThreadTypes
<1>2. QED
  BY <1>1, ExceptSeq DEF ThreadTypes

-----------------------------------------------------------------------------
(* Types of the helpers.                                                   *)

LEMMA RowTypes ==
  ASSUME StoreTypes
  PROVE  /\ \A id : getFractal(id) \in FractalMeta
         /\ \A m \in FractalMeta : updateFractal(m) \in [Ids -> Row]
         /\ \A id : \A st \in Status : SetStatus(id, st) \in [Ids -> Row]
         /\ \A id : reports \subseteq Ids => PostStatusChange(id) \subseteq Ids
<1> USE DEF StoreTypes, Row, FractalMeta, Exists
<1>1. \A id : getFractal(id) \in FractalMeta
  BY DEF getFractal, NoMeta, Title, Status
<1>2. \A m \in FractalMeta : updateFractal(m) \in [Ids -> Row]
  BY DEF updateFractal
<1>3. ASSUME NEW id, NEW st \in Status PROVE SetStatus(id, st) \in [Ids -> Row]
  <2>1. [getFractal(id) EXCEPT !.status = st] \in FractalMeta
    BY <1>1
  <2>2. QED
    BY <1>2, <2>1 DEF SetStatus
<1>4. \A id : reports \subseteq Ids => PostStatusChange(id) \subseteq Ids
  BY DEF PostStatusChange
<1>5. QED
  BY <1>1, <1>2, <1>3, <1>4

\* cancelJob changes the state of one thread at most, and to CANCEL.
LEMMA CancelRunningFacts ==
  ASSUME ThreadTypes, NEW id
  PROVE  /\ CancelRunning(id) \in Seq(RenderingJob)
         /\ Len(CancelRunning(id)) = Len(R)
         /\ \A j \in 1..Len(R) :
              /\ CancelRunning(id)[j].id = R[j].id
              /\ CancelRunning(id)[j].frameID = R[j].frameID
              /\ CancelRunning(id)[j].pc = R[j].pc
<1> DEFINE i == FirstRunning(id)
<1>1. i \in 0..Len(R) /\ Len(R) \in Nat
  BY FirstRunningFacts, LenProperties DEF ThreadTypes
<1>2. CASE i = 0
  BY <1>1, <1>2 DEF CancelRunning, ThreadTypes
<1>3. CASE i \in 1..Len(R)
  <2> DEFINE job == [R[i] EXCEPT !.fract = "CANCEL"]
  <2>1. R[i] \in RenderingJob
    BY <1>3, ElementOfSeq DEF ThreadTypes
  <2>2. job \in RenderingJob /\ job.id = R[i].id /\ job.frameID = R[i].frameID
        /\ job.pc = R[i].pc
    BY <2>1 DEF RenderingJob, FractalState
  <2>3. CancelRunning(id) = [R EXCEPT ![i] = job]
    BY <1>1, <1>3 DEF CancelRunning
  <2>4. i \in DOMAIN R
    BY <1>3, LenProperties DEF ThreadTypes
  <2> HIDE DEF job, i
  <2>5. QED
    BY <2>2, <2>3, <2>4, ThreadFacts
<1>4. QED
  BY <1>1, <1>2, <1>3

LEMMA CancelJobTypes ==
  ASSUME StoreTypes, MailboxTypes, QueueTypes, AnimTypes,
         NEW id \in Ids, CancelJob(id)
  PROVE  /\ StoreTypes' /\ QueueTypes' /\ AnimTypes' /\ reports' \subseteq Ids
         /\ UNCHANGED <<animLock, pngs, deletions, told>> /\ animLock = "free"
<1> DEFINE run == FirstRunning(id)
           man == IF run = 0 THEN FirstOf(JQManual, id) ELSE 0
           aut == IF run = 0 /\ man = 0 THEN FirstOf(JQ, id) ELSE 0
<1>1. /\ A' = Without(A, FirstOf(A, id))
      /\ JQManual' = Without(JQManual, man) /\ JQ' = Without(JQ, aut)
      /\ db' = db \/ db' = SetStatus(id, "CANCEL")
      /\ reports' = reports \/ reports' = PostStatusChange(id)
      /\ UNCHANGED <<animLock, pngs, deletions, told>> /\ animLock = "free"
  BY DEF CancelJob, AnimLockFree
<1>2. man \in 0..Len(JQManual) /\ aut \in 0..Len(JQ)
  BY FirstOfFacts, LenProperties DEF QueueTypes
<1>3. FirstOf(A, id) \in 0..Len(A)
  BY FirstOfFacts DEF AnimTypes
<1> HIDE DEF man, aut
<1>4. QueueTypes'
  BY <1>1, <1>2, WithoutFacts DEF QueueTypes
<1>5. AnimTypes'
  BY <1>1, <1>3, WithoutFacts DEF AnimTypes
<1>6. StoreTypes' /\ reports' \subseteq Ids
  BY <1>1, RowTypes DEF StoreTypes, MailboxTypes, Status, Verdicts
<1>7. QED
  BY <1>1, <1>4, <1>5, <1>6

\* What a step leaves alone keeps its type.
LEMMA FrameTypes ==
  /\ StoreTypes /\ UNCHANGED store => StoreTypes'
  /\ IntakeTypes /\ UNCHANGED intake => IntakeTypes'
  /\ MailboxTypes /\ UNCHANGED mailbox => MailboxTypes'
  /\ BoardTypes /\ UNCHANGED board => BoardTypes'
  /\ QueueTypes /\ UNCHANGED queues => QueueTypes'
  /\ ThreadTypes /\ UNCHANGED R => ThreadTypes'
  /\ AnimTypes /\ UNCHANGED anim => AnimTypes'
  /\ LoopTypes /\ UNCHANGED loop => LoopTypes'
  /\ MuxerTypes /\ UNCHANGED muxer => MuxerTypes'
  BY DEF StoreTypes, store, IntakeTypes, intake, MailboxTypes, mailbox,
         BoardTypes, board, QueueTypes, queues, ThreadTypes, AnimTypes, anim,
         LoopTypes, loop, MuxerTypes, muxer

-----------------------------------------------------------------------------
(* Types, the number of render threads and the owner of animLock: none of  *)
(* the three can be shown without the others.  LockAnimations counts the    *)
(* free threads, which is a natural number only by Capacity.                *)

Capacity == Len(R) <= maxThreads
Safe == TypeOK /\ Capacity /\ AnimLockExclusion

LEMMA NullTypes ==
  /\ NoMeta \in FractalMeta /\ NoMeta.id = NoId /\ NoId \notin Ids
  /\ NoFinisher \in Finisher /\ NoFinisher.pc = "idle"
<1>1. NoMeta \in FractalMeta /\ NoMeta.id = NoId /\ NoId \notin Ids
  BY BoundsAssumption DEF NoMeta, FractalMeta, Title, NoId, Ids
<1>2. NoFinisher \in Finisher /\ NoFinisher.pc = "idle"
  BY <1>1 DEF NoFinisher, Finisher
<1>3. QED
  BY <1>1, <1>2

LEMMA SafeInit == Init => Safe
<1> SUFFICES ASSUME Init PROVE Safe
  OBVIOUS
<1> USE BoundsAssumption DEF Init
<1>1. StoreTypes
  BY DEF StoreTypes, Row, NoRow, Title, Status
<1>2. IntakeTypes
  BY DEF IntakeTypes, NoKind, Kind
<1>3. MailboxTypes
  BY DEF MailboxTypes
<1>4. BoardTypes /\ QueueTypes /\ ThreadTypes /\ AnimTypes
  BY DEF BoardTypes, QueueTypes, ThreadTypes, AnimTypes
<1>5. LoopTypes
  <2>1. meta \in FractalMeta /\ meta.id \notin Ids
    BY NullTypes
  <2>2. changeOccured \in BOOLEAN
    OBVIOUS
  <2>3. mainpc = "reap" /\ it = 1 /\ count = 0 /\ newJobs = <<>>
    OBVIOUS
  <2>4. QED
    BY <2>1, <2>2, <2>3 DEF LoopTypes
<1>6. MuxerTypes
  BY NullTypes DEF MuxerTypes
<1>7. Capacity /\ AnimLockExclusion
  BY NullTypes DEF Capacity, AnimLockExclusion
<1>8. QED
  BY <1>1, <1>2, <1>3, <1>4, <1>5, <1>6, <1>7 DEF Safe, TypeOK

\* A step of main that reaps, cancels or moves on in update().
LEMMA SafeReap ==
  ASSUME Safe, ReapBusy \/ ReapStill \/ ReapFrame \/ ReapEnd
  PROVE  Safe'
<1> USE DEF Safe, TypeOK
<1>1. CASE ReapBusy
  <2>1. LoopTypes' /\ AnimLockExclusion'
    BY <1>1 DEF ReapBusy, LoopTypes, AnimLockExclusion, anim, muxer
  <2>2. QED
    BY <1>1, <2>1, FrameTypes DEF ReapBusy, Capacity
<1>2. CASE ReapEnd
  <2>1. LoopTypes' /\ AnimLockExclusion'
    BY <1>2 DEF ReapEnd, LoopTypes, AnimLockExclusion, anim, muxer
  <2>2. QED
    BY <1>2, <2>1, FrameTypes DEF ReapEnd, Capacity
<1>3. CASE ReapStill
  <2>1. it \in 1..Len(R) /\ R[it] \in RenderingJob
    BY <1>3, ElementOfSeq, LenProperties DEF ReapStill, LoopTypes, ThreadTypes
  <2>2. StoreTypes'
    BY <1>3, RowTypes DEF ReapStill, StoreTypes, Verdict, Status, Verdicts
  <2>3. MailboxTypes'
    BY <1>3, RowTypes DEF ReapStill, MailboxTypes
  <2>4. ThreadTypes' /\ Capacity'
    BY <1>3, <2>1, RemoveAtFacts, LenProperties, BoundsAssumption
    DEF ReapStill, ThreadTypes, Capacity
  <2>5. LoopTypes' /\ AnimLockExclusion'
    BY <1>3 DEF ReapStill, LoopTypes, AnimLockExclusion, anim, muxer
  <2>6. QED
    BY <1>3, <2>2, <2>3, <2>4, <2>5, FrameTypes DEF ReapStill
<1>4. CASE ReapFrame
  <2>1. it \in 1..Len(R) /\ R[it].id \in Ids
    <3>1. it \in 1..Len(R) /\ R[it] \in RenderingJob
      BY <1>4, ElementOfSeq, LenProperties DEF ReapFrame, LoopTypes, ThreadTypes
    <3>2. QED
      BY <3>1 DEF RenderingJob
  <2>2. LoopTypes' /\ AnimLockExclusion'
    BY <1>4 DEF ReapFrame, LoopTypes, AnimLockExclusion, anim, muxer, CancelJob
  <2>3. ThreadTypes' /\ Capacity'
    BY <1>4, <2>1, RemoveAtFacts, LenProperties, CancelRunningFacts, BoundsAssumption
    DEF ReapFrame, ThreadTypes, Capacity
  <2>4. CASE CancelJob(R[it].id)
    BY <1>4, <2>1, <2>2, <2>3, <2>4, CancelJobTypes, FrameTypes
    DEF ReapFrame, MailboxTypes
  <2>5. CASE UNCHANGED <<store, mailbox, queues, anim>>
    BY <1>4, <2>2, <2>3, <2>5, FrameTypes DEF ReapFrame
  <2>6. QED
    BY <1>4, <2>4, <2>5 DEF ReapFrame
<1>5. QED
  BY <1>1, <1>2, <1>3, <1>4

\* The section of update() under animLock.
LEMMA SafeAnimations ==
  ASSUME Safe,
         \/ AnimationTimeout \/ LockAnimations \/ QueueFrames
         \/ CheckProgress \/ UnlockAnimations
  PROVE  Safe'
<1> USE DEF Safe, TypeOK
<1>1. CASE AnimationTimeout
  <2>1. PICK a \in DOMAIN A : CancelJob(A[a].id) /\ R' = CancelRunning(A[a].id)
    BY <1>1 DEF AnimationTimeout
  <2>2. A[a].id \in Ids
    <3>1. A[a] \in Animation
      BY <2>1, ElementOfSeq, LenProperties DEF AnimTypes
    <3>2. QED
      BY <3>1 DEF Animation
  <2>3. /\ StoreTypes' /\ QueueTypes' /\ AnimTypes' /\ reports' \subseteq Ids
        /\ UNCHANGED <<animLock, pngs, deletions, told>> /\ animLock = "free"
    BY <2>1, <2>2, CancelJobTypes
  <2>4. ThreadTypes' /\ Capacity'
    BY <2>1, CancelRunningFacts DEF ThreadTypes, Capacity
  <2>5. LoopTypes' /\ AnimLockExclusion' /\ MailboxTypes'
    BY <1>1, <2>3 DEF AnimationTimeout, LoopTypes, AnimLockExclusion, muxer,
                      MailboxTypes
  <2>6. QED
    BY <1>1, <2>3, <2>4, <2>5, FrameTypes DEF AnimationTimeout
<1>2. CASE LockAnimations
  <2>1. maxThreads - Len(R) \in Nat
    BY BoundsAssumption, LenProperties DEF ThreadTypes, Capacity
  <2>2. LoopTypes'
    BY <1>2, <2>1 DEF LockAnimations, LoopTypes
  <2>3. AnimTypes' /\ AnimLockExclusion'
    BY <1>2 DEF LockAnimations, AnimTypes, AnimLockExclusion, AnimLockFree, muxer
  <2>4. QED
    BY <1>2, <2>2, <2>3, FrameTypes DEF LockAnimations, Capacity
<1>3. CASE QueueFrames
  <2>0. /\ mainpc = "frames"
        /\ UNCHANGED <<store, intake, mailbox, board, R, animLock, muxer, finisher,
                       newJobs, changeOccured, meta>>
    BY <1>3 DEF QueueFrames, muxer
  <2>1. CASE count > 0 /\ it <= Len(A)
    <3> DEFINE a == A[it]
               n == IF count < Len(a.frameQueue) THEN count ELSE Len(a.frameQueue)
               tasks == [k \in 1..n |-> [id |-> a.id, frame |-> a.frameQueue[k]]]
               b == [a EXCEPT !.frameQueue = SubSeq(@, n + 1, Len(@)),
                              !.framesRendering = @ \cup {tasks[k].frame : k \in 1..n}]
    <3>1. it \in 1..Len(A) /\ a \in Animation
      BY <2>1, ElementOfSeq, LenProperties DEF AnimTypes, LoopTypes
    <3>2. a.id \in Ids /\ a.frameQueue \in Seq(Nat) /\ a.framesRendering \subseteq Nat
      BY <3>1 DEF Animation
    <3>3. n \in Nat /\ n <= count /\ n <= Len(a.frameQueue)
      BY <3>2, LenProperties DEF LoopTypes
    <3>4. \A k \in 1..n : a.frameQueue[k] \in Nat
      BY <3>2, <3>3, ElementOfSeq, LenProperties
    <3>5. tasks \in Seq(Task)
      <4>1. tasks \in [1..n -> Task]
        BY <3>2, <3>4 DEF Task
      <4> HIDE DEF tasks, n
      <4>2. QED
        BY <3>3, <4>1, SeqDef
    <3>6. {tasks[k].frame : k \in 1..n} \subseteq Nat
      BY <3>4
    <3>7. SubSeq(a.frameQueue, n + 1, Len(a.frameQueue)) \in Seq(Nat)
      BY <3>2, <3>3, SubSeqProperties, ElementOfSeq, LenProperties
    <3>8. b \in Animation
      BY <3>1, <3>2, <3>6, <3>7 DEF Animation
    <3>9. A' = [A EXCEPT ![it] = b] /\ count' = count - n /\ it' = it + 1
          /\ mainpc' = mainpc
          /\ JQManual' = (IF a.manualQueue THEN JQManual \o tasks ELSE JQManual)
          /\ JQ' = (IF a.manualQueue THEN JQ ELSE JQ \o tasks)
      BY <1>3, <2>1 DEF QueueFrames
    <3> HIDE DEF a, n, tasks, b
    <3>10. QueueTypes'
      BY <3>5, <3>9, ConcatProperties DEF QueueTypes
    <3>11. AnimTypes'
      BY <2>0, <3>1, <3>8, <3>9, ExceptSeq DEF AnimTypes
    <3>12. LoopTypes' /\ AnimLockExclusion'
      BY <2>0, <3>3, <3>9 DEF LoopTypes, AnimLockExclusion
    <3>13. QED
      BY <2>0, <3>10, <3>11, <3>12, FrameTypes DEF Capacity
  <2>2. CASE ~(count > 0 /\ it <= Len(A))
    <3>1. mainpc' = "progress" /\ it' = 1 /\ UNCHANGED <<A, queues, count>>
      BY <1>3, <2>2 DEF QueueFrames
    <3>2. LoopTypes' /\ AnimTypes' /\ AnimLockExclusion'
      BY <2>0, <3>1 DEF LoopTypes, AnimTypes, AnimLockExclusion
    <3>3. QED
      BY <2>0, <3>1, <3>2, FrameTypes DEF Capacity
  <2>3. QED
    BY <2>1, <2>2
<1>4. CASE CheckProgress
  <2> DEFINE busy == {f \in A[it].framesRendering : StillBusy(A[it], f)}
  <2>1. it \in 1..Len(A) /\ A[it] \in Animation
    BY <1>4, ElementOfSeq, LenProperties DEF CheckProgress, AnimTypes, LoopTypes
  <2>2. A[it].id \in Ids /\ busy \subseteq Nat
    BY <2>1 DEF Animation
  <2>3. CASE A' = RemoveAt(A, it) /\ muxing' = muxing \cup {A[it].id} /\ it' = it
    <3>1. AnimTypes' /\ MuxerTypes'
      BY <1>4, <2>1, <2>2, <2>3, RemoveAtFacts DEF CheckProgress, AnimTypes, MuxerTypes
    <3>2. LoopTypes' /\ AnimLockExclusion'
      BY <1>4, <2>3 DEF CheckProgress, LoopTypes, AnimLockExclusion
    <3>3. QED
      BY <1>4, <3>1, <3>2, FrameTypes DEF CheckProgress, Capacity
  <2>4. CASE A' = [A EXCEPT ![it].framesRendering = busy] /\ it' = it + 1
             /\ UNCHANGED muxing
    <3>1. AnimTypes'
      <4> DEFINE b == [A[it] EXCEPT !.framesRendering = busy]
      <4>1. b \in Animation
        BY <2>1, <2>2 DEF Animation
      <4>2. A' = [A EXCEPT ![it] = b]
        BY <2>4
      <4> HIDE DEF b
      <4>3. QED
        BY <1>4, <2>1, <4>1, <4>2, ExceptSeq DEF CheckProgress, AnimTypes
    <3>2. LoopTypes' /\ AnimLockExclusion' /\ MuxerTypes'
      BY <1>4, <2>4 DEF CheckProgress, LoopTypes, AnimLockExclusion, MuxerTypes
    <3>3. QED
      BY <1>4, <3>1, <3>2, FrameTypes DEF CheckProgress, Capacity
  <2>5. QED
    BY <1>4, <2>3, <2>4 DEF CheckProgress
<1>5. CASE UnlockAnimations
  <2>1. LoopTypes' /\ AnimTypes' /\ AnimLockExclusion'
    BY <1>5 DEF UnlockAnimations, LoopTypes, AnimTypes, AnimLockExclusion, muxer
  <2>2. QED
    BY <1>5, <2>1, FrameTypes DEF UnlockAnimations, Capacity
<1>6. QED
  BY <1>1, <1>2, <1>3, <1>4, <1>5

\* A job starts: only here does R grow.
LEMMA SafeDispatch ==
  ASSUME Safe, Dispatch
  PROVE  Safe'
<1> USE DEF Safe, TypeOK
<1>1. LoopTypes' /\ AnimLockExclusion'
  BY DEF Dispatch, LoopTypes, AnimLockExclusion, anim, muxer
<1>2. ASSUME NEW task \in Task, RunThread(task), FreeThread
      PROVE  StoreTypes' /\ MailboxTypes' /\ ThreadTypes' /\ Capacity'
  <2>1. [id |-> task.id, frameID |-> task.frame, pc |-> "validate",
         fract |-> "NULL"] \in RenderingJob
    BY DEF Task, RenderingJob, RenderPC, FractalState
  <2>2. ThreadTypes' /\ Capacity'
    BY <1>2, <2>1, AppendProperties, LenProperties, BoundsAssumption
    DEF RunThread, FreeThread, ThreadTypes, Capacity
  <2>3. StoreTypes' /\ MailboxTypes'
    BY <1>2, RowTypes DEF RunThread, Dispatch, StoreTypes, MailboxTypes, Status
  <2>4. QED
    BY <2>2, <2>3
<1>3. ThreadTypes' /\ QueueTypes' /\ SendUpdateToTracker(R', JQManual', JQ')
      => BoardTypes'
  BY IdsOfFacts, ConcatProperties
  DEF SendUpdateToTracker, BoardTypes, ThreadTypes, QueueTypes
<1>4. CASE FreeThread /\ JQManual # <<>>
  <2>1. /\ RunThread(Head(JQManual)) /\ JQManual' = Tail(JQManual) /\ UNCHANGED JQ
        /\ SendUpdateToTracker(R', JQManual', JQ')
    BY <1>4 DEF Dispatch
  <2>2. Head(JQManual) \in Task /\ QueueTypes'
    BY <1>4, <2>1, HeadTailProperties DEF QueueTypes
  <2>3. QED
    BY <1>1, <1>2, <1>3, <1>4, <2>1, <2>2, FrameTypes DEF Dispatch
<1>5. CASE FreeThread /\ JQManual = <<>> /\ JQ # <<>>
  <2>1. /\ RunThread(Head(JQ)) /\ JQ' = Tail(JQ) /\ UNCHANGED JQManual
        /\ SendUpdateToTracker(R', JQManual', JQ')
    BY <1>5 DEF Dispatch
  <2>2. Head(JQ) \in Task /\ QueueTypes'
    BY <1>5, <2>1, HeadTailProperties DEF QueueTypes
  <2>3. QED
    BY <1>1, <1>2, <1>3, <1>5, <2>1, <2>2, FrameTypes DEF Dispatch
<1>6. CASE ~(FreeThread /\ (JQManual # <<>> \/ JQ # <<>>))
  <2>1. UNCHANGED <<db, reports, R, queues>>
        /\ (SendUpdateToTracker(R, JQManual, JQ) \/ UNCHANGED board)
    BY <1>6 DEF Dispatch
  <2>2. StoreTypes' /\ MailboxTypes' /\ QueueTypes' /\ ThreadTypes' /\ Capacity'
    BY <2>1 DEF Dispatch, StoreTypes, MailboxTypes, QueueTypes, queues,
                ThreadTypes, Capacity
  <2>3. BoardTypes'
    BY <1>3, <2>1, <2>2, FrameTypes DEF queues, SendUpdateToTracker
  <2>4. QED
    BY <1>1, <2>2, <2>3, FrameTypes DEF Dispatch
<1>7. QED
  BY <1>4, <1>5, <1>6

\* New jobs are fetched and posted, and one request is served.
LEMMA SafeRequests ==
  ASSUME Safe,
         \/ FetchSubmittedJobs \/ PostJob \/ NoCommand \/ CommandCancel
         \/ CommandDelete \/ CommandRename \/ WriteRename
  PROVE  Safe'
<1> USE DEF Safe, TypeOK
<1>1. CASE FetchSubmittedJobs
  <2>1. IntakeTypes' /\ LoopTypes' /\ AnimLockExclusion'
    BY <1>1 DEF FetchSubmittedJobs, ClearedSubmitted, IntakeTypes, LoopTypes,
                AnimLockExclusion, anim, muxer
  <2>2. QED
    BY <1>1, <2>1, FrameTypes DEF FetchSubmittedJobs, Capacity
<1>2. CASE PostJob
  <2> DEFINE id == Head(newJobs)
             m  == [id |-> id, status |-> "QUEUED", title |-> "submitted"]
             task == [id |-> id, frame |-> 0]
  <2>1. id \in Ids /\ Tail(newJobs) \in Seq(Ids)
    BY <1>2, HeadTailProperties DEF PostJob, LoopTypes
  <2>2. m \in FractalMeta /\ task \in Task
    BY <2>1 DEF FractalMeta, Status, Title, Task
  <2>3. /\ db' = updateFractal(m) /\ pngs' = pngs
        /\ JQManual' = JQManual \/ JQManual' = PushBack(JQManual, task)
        /\ JQ' = JQ \/ JQ' = PushBack(JQ, task)
        /\ newJobs' = Tail(newJobs)
        /\ UNCHANGED <<intake, mailbox, board, R, anim, muxer,
                       mainpc, it, count, changeOccured, meta>>
    BY <1>2 DEF PostJob
  <2> HIDE DEF m, task, id
  <2>4. StoreTypes'
    BY <2>2, <2>3, RowTypes DEF StoreTypes
  <2>5. QueueTypes'
    <3>1. \A q \in Seq(Task) : PushBack(q, task) \in Seq(Task)
      BY <2>2, AppendProperties DEF PushBack
    <3>2. QED
      BY <2>3, <3>1 DEF QueueTypes
  <2>6. LoopTypes' /\ AnimLockExclusion'
    BY <2>1, <2>3 DEF LoopTypes, AnimLockExclusion, anim, muxer
  <2>7. QED
    BY <2>3, <2>4, <2>5, <2>6, FrameTypes DEF Capacity
<1>3. ASSUME NEW type, AtCommand(type)
      PROVE  Head(requests).id \in Ids /\ Tail(requests) \in Seq(Request)
  <2>1. Head(requests) \in Request /\ Tail(requests) \in Seq(Request)
    BY <1>3, HeadTailProperties DEF AtCommand, MailboxTypes
  <2>2. QED
    BY <2>1 DEF Request
<1>4. CASE NoCommand
  <2>1. LoopTypes' /\ AnimLockExclusion'
    BY <1>4 DEF NoCommand, NextRound, LoopTypes, AnimLockExclusion, anim, muxer
  <2>2. QED
    BY <1>4, <2>1, FrameTypes DEF NoCommand, Capacity
<1>5. CASE CommandCancel
  <2> DEFINE id == Head(requests).id
  <2>1. id \in Ids /\ Tail(requests) \in Seq(Request)
    BY <1>3, <1>5 DEF CommandCancel
  <2>2. CancelJob(id) /\ R' = CancelRunning(id) /\ requests' = Tail(requests)
    BY <1>5 DEF CommandCancel
  <2> HIDE DEF id
  <2>3. /\ StoreTypes' /\ QueueTypes' /\ AnimTypes' /\ reports' \subseteq Ids
        /\ UNCHANGED <<animLock, pngs, deletions, told>>
    BY <2>1, <2>2, CancelJobTypes
  <2>4. ThreadTypes' /\ Capacity'
    BY <2>2, CancelRunningFacts DEF ThreadTypes, Capacity
  <2>5. MailboxTypes'
    BY <2>1, <2>2, <2>3 DEF MailboxTypes
  <2>6. LoopTypes' /\ AnimLockExclusion'
    BY <1>5, <2>3 DEF CommandCancel, AtCommand, NextRound, LoopTypes,
                      AnimLockExclusion, muxer
  <2>7. QED
    BY <1>5, <2>3, <2>4, <2>5, <2>6, FrameTypes DEF CommandCancel, AtCommand
<1>6. CASE CommandDelete
  <2>1. Head(requests).id \in Ids /\ Tail(requests) \in Seq(Request)
    BY <1>3, <1>6 DEF CommandDelete
  <2>2. StoreTypes' /\ MailboxTypes'
    <3> DEFINE id == Head(requests).id
    <3>1. /\ UNCHANGED <<reports, told>> /\ requests' = Tail(requests)
          /\ \/ /\ db' = [db EXCEPT ![id] = NoRow]
                /\ pngs' = pngs \ {<<id, 0>>}
                /\ deletions' = deletions \cup {id}
             \/ UNCHANGED <<db, pngs, deletions>>
      BY <1>6 DEF CommandDelete, store
    <3>2. NoRow \in Row
      BY DEF NoRow, Row, Title
    <3> HIDE DEF id
    <3>3. id \in Ids
      BY <2>1 DEF id
    <3>4. QED
      BY <2>1, <3>1, <3>2, <3>3 DEF StoreTypes, MailboxTypes
  <2>3. LoopTypes' /\ AnimLockExclusion'
    BY <1>6 DEF CommandDelete, AtCommand, NextRound, LoopTypes,
                AnimLockExclusion, anim, muxer
  <2>4. QED
    BY <1>6, <2>2, <2>3, FrameTypes DEF CommandDelete, AtCommand, Capacity
<1>7. CASE CommandRename
  <2> DEFINE id == Head(requests).id
             m  == [getFractal(id) EXCEPT !.title = "renamed"]
  <2>1. id \in Ids /\ Tail(requests) \in Seq(Request)
    BY <1>3, <1>7 DEF CommandRename
  <2>2. Exists(id) => m \in FractalMeta /\ m.id = id
    <3>1. getFractal(id) \in FractalMeta /\ (Exists(id) => getFractal(id).id = id)
      BY RowTypes DEF getFractal
    <3>2. QED
      BY <3>1 DEF FractalMeta, Title
  <2>3. MailboxTypes'
    BY <1>7, <2>1 DEF CommandRename, MailboxTypes
  <2>4. /\ UNCHANGED <<count, newJobs, changeOccured, animLock, finisher>>
        /\ mainpc = "post"
        /\ \/ Exists(id) /\ meta' = m /\ mainpc' = "rename" /\ it' = it
           \/ meta' = meta /\ mainpc' = "reap" /\ it' = 1
    BY <1>7 DEF CommandRename, AtCommand, NextRound, anim, muxer
  <2> HIDE DEF id, m
  <2>5. LoopTypes' /\ AnimLockExclusion'
    BY <2>1, <2>2, <2>4 DEF LoopTypes, AnimLockExclusion
  <2>6. QED
    BY <1>7, <2>3, <2>5, FrameTypes DEF CommandRename, AtCommand, Capacity
<1>8. CASE WriteRename
  <2>1. meta \in FractalMeta /\ meta.id \in Ids
    BY <1>8 DEF WriteRename, LoopTypes
  <2>2. StoreTypes' /\ MailboxTypes'
    BY <1>8, <2>1, RowTypes DEF WriteRename, StoreTypes, MailboxTypes
  <2>3. LoopTypes' /\ AnimLockExclusion'
    BY <1>8, NullTypes DEF WriteRename, NextRound, LoopTypes, AnimLockExclusion,
                           anim, muxer
  <2>4. QED
    BY <1>8, <2>2, <2>3, FrameTypes DEF WriteRename, Capacity
<1>9. QED
  BY <1>1, <1>2, <1>4, <1>5, <1>6, <1>7, <1>8

\* Steps of the thread in slot i keep every slot's job and frame.
SameJobs == /\ R' \in Seq(RenderingJob) /\ Len(R') = Len(R)
            /\ \A j \in 1..Len(R) : R'[j].id = R[j].id /\ R'[j].frameID = R[j].frameID

LEMMA ThreadSteps ==
  ASSUME ThreadTypes, NEW i \in DOMAIN R, NEW pc \in RenderPC
  PROVE  /\ Goto(i, pc) => SameJobs
         /\ \A fract \in FractalState : SetState(i, fract, pc) => SameJobs
<1>1. i \in 1..Len(R) /\ R[i] \in RenderingJob
  BY ElementOfSeq, LenProperties DEF ThreadTypes
<1>2. ASSUME Goto(i, pc) PROVE SameJobs
  <2> DEFINE job == [R[i] EXCEPT !.pc = pc]
  <2>1. R' = [R EXCEPT ![i] = job]
    BY <1>1, <1>2 DEF Goto
  <2>2. job \in RenderingJob /\ job.id = R[i].id /\ job.frameID = R[i].frameID
    BY <1>1 DEF RenderingJob
  <2> HIDE DEF job
  <2>3. QED
    BY <2>1, <2>2, ThreadFacts DEF SameJobs
<1>3. ASSUME NEW fract \in FractalState, SetState(i, fract, pc) PROVE SameJobs
  <2> DEFINE job == [R[i] EXCEPT !.fract = fract, !.pc = pc]
  <2>1. R' = [R EXCEPT ![i] = job]
    BY <1>1, <1>3 DEF SetState
  <2>2. job \in RenderingJob /\ job.id = R[i].id /\ job.frameID = R[i].frameID
    BY <1>1 DEF RenderingJob
  <2> HIDE DEF job
  <2>3. QED
    BY <2>1, <2>2, ThreadFacts DEF SameJobs
<1>4. QED
  BY <1>2, <1>3

\* A render thread that only moves on or sets the state of its fractal.
ThreadMoves(i) ==
  \/ Validate(i) \/ SpawnJobs(i) \/ Construct(i) \/ ProcessParams(i)
  \/ BeginRender(i) \/ RenderPasses(i) \/ Expire(i) \/ PostRender(i)
  \/ LastStatus(i) \/ ExpireLate(i) \/ Exception(i)

LEMMA ThreadMovesFacts ==
  ASSUME ThreadTypes, NEW i \in DOMAIN R, ThreadMoves(i)
  PROVE  SameJobs /\ UNCHANGED <<RenderFrame, anim>>
<1> USE ThreadSteps DEF RenderPC, FractalState
<1>1. CASE Validate(i) \/ SpawnJobs(i) \/ Construct(i) \/ ProcessParams(i)
  BY <1>1 DEF Validate, SpawnJobs, Construct, ProcessParams
<1>2. CASE BeginRender(i) \/ RenderPasses(i) \/ Expire(i) \/ PostRender(i)
  BY <1>2 DEF BeginRender, RenderPasses, Expire, PostRender
<1>3. CASE LastStatus(i) \/ ExpireLate(i) \/ Exception(i)
  BY <1>3 DEF LastStatus, ExpireLate, Exception
<1>4. QED
  BY <1>1, <1>2, <1>3 DEF ThreadMoves

LEMMA SafeRender ==
  ASSUME Safe, NEW i \in DOMAIN R, RenderStep(i)
  PROVE  Safe'
<1> USE DEF Safe, TypeOK
<1>1. i \in 1..Len(R) /\ R[i] \in RenderingJob
  BY ElementOfSeq, LenProperties DEF ThreadTypes
<1>2. CASE ThreadMoves(i)
  <2>1. SameJobs /\ UNCHANGED <<RenderFrame, anim>>
    BY <1>2, ThreadMovesFacts
  <2>2. ThreadTypes' /\ Capacity'
    BY <2>1 DEF SameJobs, ThreadTypes, Capacity
  <2>3. AnimLockExclusion'
    BY <2>1 DEF RenderFrame, AnimLockExclusion, anim, loop, muxer
  <2>4. QED
    BY <2>1, <2>2, <2>3, FrameTypes DEF RenderFrame
<1>3. CASE AddAnimationToQueue(i)
  <2> DEFINE id == R[i].id
             frames == [k \in 1..(params[id].frames - 1) |-> k + 1]
             a == [id |-> id, manualQueue |-> AnimationManualQueue(id),
                   frameQueue |-> frames, framesRendering |-> {}]
             job == [R[i] EXCEPT !.frameID = 1, !.pc = "construct"]
  <2>1. id \in Ids /\ params[id].frames \in Nat
    <3>1. id \in Ids /\ params[id] \in Kind
      BY <1>1 DEF RenderingJob, IntakeTypes
    <3>2. QED
      BY <3>1 DEF Kind
  <2>2. frames \in Seq(Nat)
    <3> DEFINE n == params[id].frames - 1
    <3>1. CASE n \in Nat
      <4>1. frames \in [1..n -> Nat]
        BY <2>1
      <4> HIDE DEF frames, n
      <4>2. QED
        BY <3>1, <4>1, SeqDef
    <3>2. CASE n \notin Nat
      <4>1. 1..n = 1..0 /\ \A k \in 1..n : k + 1 \in Nat
        BY <2>1, <3>2
      <4>2. frames \in [1..0 -> Nat]
        BY <4>1
      <4> HIDE DEF frames, n
      <4>3. QED
        BY <4>2, SeqDef
    <3>3. QED
      BY <3>1, <3>2
  <2> HIDE DEF frames, id
  <2>3. a \in Animation
    BY <2>1, <2>2 DEF Animation, AnimationManualQueue
  <2>4. job \in RenderingJob
    BY <1>1 DEF RenderingJob, RenderPC
  <2>5. A' = Append(A, a) /\ R' = [R EXCEPT ![i] = job] /\ animLock' = animLock
        /\ UNCHANGED RenderFrame
    BY <1>1, <1>3 DEF AddAnimationToQueue, id, frames
  <2> HIDE DEF a, job
  <2>6. AnimTypes'
    BY <2>3, <2>5, AppendProperties DEF AnimTypes
  <2>7. ThreadTypes' /\ Capacity'
    BY <2>4, <2>5, ThreadFacts DEF ThreadTypes, Capacity
  <2>8. AnimLockExclusion'
    BY <2>5 DEF RenderFrame, AnimLockExclusion, loop, muxer
  <2>9. QED
    BY <2>5, <2>6, <2>7, <2>8, FrameTypes DEF RenderFrame
<1>4. CASE SaveImage(i)
  <2>1. SameJobs
    BY <1>4, ThreadSteps DEF SaveImage, RenderPC
  <2>2. ThreadTypes' /\ Capacity'
    BY <2>1 DEF SameJobs, ThreadTypes, Capacity
  <2>3. Images(R[i]) \subseteq Ids \X Nat
    BY <1>1 DEF Images, RenderingJob
  <2>4. StoreTypes'
    BY <1>4, <2>3 DEF SaveImage, StoreTypes
  <2>5. AnimLockExclusion'
    BY <1>4 DEF SaveImage, AnimLockExclusion, anim, loop, muxer
  <2>6. QED
    BY <1>4, <2>2, <2>4, <2>5, FrameTypes DEF SaveImage
<1>5. QED
  BY <1>2, <1>3, <1>4 DEF RenderStep, ThreadMoves

LEMMA SafeMux ==
  ASSUME Safe, MuxStep
  PROVE  Safe'
<1> USE DEF Safe, TypeOK, MuxerFrame
<1>1. ASSUME NEW id \in Ids, MuxRead(id) PROVE Safe'
  <2> DEFINE f == [NoFinisher EXCEPT !.pc = "update", !.meta = getFractal(id)]
  <2>1. f \in Finisher /\ f.pc = "update"
    <3>1. getFractal(id) \in FractalMeta
      BY RowTypes
    <3>2. QED
      BY <3>1, NullTypes DEF Finisher
  <2>2. finisher' = f /\ muxing' = muxing \ {id} /\ animLock' = "muxer"
        /\ animLock = "free" /\ UNCHANGED <<MuxerFrame, db, reports, board>>
    BY <1>1 DEF MuxRead, AnimLockFree
  <2> HIDE DEF f
  <2>3. MuxerTypes' /\ AnimTypes'
    BY <2>1, <2>2 DEF MuxerTypes, AnimTypes
  <2>4. AnimLockExclusion' /\ StoreTypes' /\ MailboxTypes'
    BY <2>1, <2>2 DEF AnimLockExclusion, loop, StoreTypes, MailboxTypes
  <2>5. QED
    BY <2>2, <2>3, <2>4, FrameTypes DEF Capacity
<1>2. ASSUME NEW f, f \in Finisher, f.pc # "idle", finisher.pc # "idle",
             finisher' = f, UNCHANGED <<MuxerFrame, muxing, animLock, board>>,
             StoreTypes', reports' \subseteq Ids
      PROVE  Safe'
  <2>1. MuxerTypes' /\ AnimTypes' /\ MailboxTypes' /\ AnimLockExclusion'
    BY <1>2 DEF MuxerTypes, AnimTypes, MailboxTypes, AnimLockExclusion, loop
  <2>2. QED
    BY <1>2, <2>1, FrameTypes DEF Capacity
<1>3. CASE MuxWrite
  <2> DEFINE m == [finisher.meta EXCEPT !.status = "COMPLETE"]
             f == [finisher EXCEPT !.pc = "copy"]
  <2>1. finisher.meta \in FractalMeta /\ finisher \in Finisher
    BY DEF MuxerTypes, Finisher
  <2>2. m \in FractalMeta /\ (finisher.meta.id = NoId \/ finisher.meta.id \in Ids)
    BY <2>1 DEF FractalMeta, Status, Verdicts
  <2>3. f \in Finisher /\ f.pc # "idle"
    BY <2>1 DEF Finisher
  <2>4. /\ finisher.pc = "update" /\ db' = updateFractal(m) /\ finisher' = f
        /\ reports' = reports \/ reports' = reports \cup {finisher.meta.id}
        /\ finisher.meta.id = NoId => reports' = reports
        /\ UNCHANGED <<MuxerFrame, muxing, animLock, board>>
    BY <1>3 DEF MuxWrite
  <2> HIDE DEF m, f
  <2>5. StoreTypes'
    BY <2>2, <2>4, RowTypes DEF StoreTypes
  <2>6. reports' \subseteq Ids
    BY <2>2, <2>4 DEF MailboxTypes
  <2>7. QED
    BY <1>2, <2>3, <2>4, <2>5, <2>6
<1>4. CASE MuxCopyJobs
  <2> DEFINE cur == IdsOf(R)
             que == IdsOf(JQManual) \o IdsOf(JQ)
             f == [finisher EXCEPT !.pc = "post", !.current = cur, !.queued = que]
  <2>1. cur \in Seq(Ids) /\ que \in Seq(Ids)
    BY IdsOfFacts, ConcatProperties DEF ThreadTypes, QueueTypes
  <2>2. finisher.pc = "copy" /\ finisher' = f
        /\ UNCHANGED <<MuxerFrame, muxing, animLock, board, db, reports>>
    BY <1>4 DEF MuxCopyJobs
  <2> HIDE DEF cur, que
  <2>3. f \in Finisher /\ f.pc # "idle"
    BY <2>1 DEF MuxerTypes, Finisher
  <2>4. StoreTypes' /\ reports' \subseteq Ids
    BY <2>2 DEF StoreTypes, MailboxTypes
  <2> HIDE DEF f
  <2>5. QED
    BY <1>2, <2>2, <2>3, <2>4
<1>5. CASE MuxPostJobs
  <2>1. /\ finisher.pc = "post" /\ finisher' = NoFinisher /\ animLock' = "free"
        /\ Jcurrent' = finisher.current /\ Jqueue' = finisher.queued
        /\ UNCHANGED <<MuxerFrame, muxing, db, reports>>
    BY <1>5 DEF MuxPostJobs
  <2>2. BoardTypes'
    BY <2>1 DEF BoardTypes, MuxerTypes, Finisher
  <2>3. MuxerTypes' /\ AnimTypes' /\ AnimLockExclusion'
    BY <2>1, NullTypes DEF MuxerTypes, AnimTypes, AnimLockExclusion, loop
  <2>4. StoreTypes' /\ MailboxTypes'
    BY <2>1 DEF StoreTypes, MailboxTypes
  <2>5. QED
    BY <2>1, <2>2, <2>3, <2>4, FrameTypes DEF Capacity
<1>6. QED
  BY <1>1, <1>3, <1>4, <1>5 DEF MuxStep

LEMMA SafeNetwork ==
  ASSUME Safe, InsertFractal \/ ClientStep \/ DeliverStep
  PROVE  Safe'
<1> USE DEF Safe, TypeOK
<1>1. ASSUME UNCHANGED NetworkFrame, StoreTypes', IntakeTypes', MailboxTypes'
      PROVE  Safe'
  <2>1. AnimLockExclusion' /\ Capacity'
    BY <1>1 DEF NetworkFrame, AnimLockExclusion, Capacity, anim, loop, muxer
  <2>2. QED
    BY <1>1, <2>1, FrameTypes DEF NetworkFrame
<1>2. UNCHANGED <<NetworkFrame, db>> => StoreTypes'
  BY DEF NetworkFrame, StoreTypes
<1>3. ASSUME NEW kind \in Kinds, SubmitJob(kind) PROVE Safe'
  <2>1. lastID + 1 \in Ids /\ lastID' = lastID + 1
    BY <1>3, BoundsAssumption DEF SubmitJob, IntakeTypes, Ids
  <2>2. IntakeTypes'
    <3>1. kind \in Kind
      BY KindsAssumption
    <3>2. params' \in [Ids -> Kind]
      BY <1>3, <2>1, <3>1 DEF SubmitJob, IntakeTypes
    <3>3. Submitted' \in Seq(Ids) /\ inserting' \in Ids
      BY <1>3, <2>1, AppendProperties DEF SubmitJob, IntakeTypes
    <3>4. lastID' \in 0..MaxJobs
      BY <2>1, BoundsAssumption DEF Ids
    <3>5. QED
      BY <3>2, <3>3, <3>4 DEF IntakeTypes
  <2>3. QED
    BY <1>1, <1>2, <1>3, <2>2, FrameTypes DEF SubmitJob
<1>4. CASE InsertFractal
  <2>1. inserting \in Ids
    BY <1>4 DEF InsertFractal, IntakeTypes
  <2>2. StoreTypes'
    BY <1>4, <2>1 DEF InsertFractal, NetworkFrame, StoreTypes, Row, Status, Title
  <2>3. IntakeTypes'
    BY <1>4 DEF InsertFractal, IntakeTypes
  <2>4. QED
    BY <1>1, <1>4, <2>2, <2>3, FrameTypes DEF InsertFractal
<1>5. ASSUME NEW type \in Commands, NEW id \in Ids, PostRequest(type, id)
      PROVE  Safe'
  <2>1. [type |-> type, id |-> id] \in Request
    BY CommandsAssumption DEF Request
  <2>2. MailboxTypes'
    BY <1>5, <2>1, AppendProperties DEF PostRequest, MailboxTypes
  <2>3. QED
    BY <1>1, <1>2, <1>5, <2>2, FrameTypes DEF PostRequest
<1>6. \A id \in Ids : db[id].status \in Status \cup {"NONE"}
  BY DEF StoreTypes, Row
<1>7. ASSUME NEW c \in Clients, NEW id \in Ids, QueryFractal(c, id) PROVE Safe'
  <2>1. MailboxTypes'
    BY <1>6, <1>7 DEF QueryFractal, MailboxTypes
  <2>2. QED
    BY <1>1, <1>2, <1>7, <2>1, FrameTypes DEF QueryFractal
<1>8. ASSUME NEW id \in Ids, DeliverReport(id) PROVE Safe'
  <2>1. MailboxTypes'
    BY <1>6, <1>8 DEF DeliverReport, MailboxTypes
  <2>2. QED
    BY <1>1, <1>2, <1>8, <2>1, FrameTypes DEF DeliverReport
<1>9. ASSUME NEW id \in Ids, DeliverDeletion(id) PROVE Safe'
  <2>1. MailboxTypes'
    BY <1>9 DEF DeliverDeletion, MailboxTypes
  <2>2. QED
    BY <1>1, <1>2, <1>9, <2>1, FrameTypes DEF DeliverDeletion
<1>10. QED
  BY <1>3, <1>4, <1>5, <1>7, <1>8, <1>9 DEF ClientStep, DeliverStep

LEMMA SafeRestart ==
  ASSUME Safe, CrashRestart
  PROVE  Safe'
<1> USE DEF Safe, TypeOK
<1>1. StoreTypes'
  <2>1. \A row \in Row : Recovered(row) \in Row
    BY DEF Recovered, Row, Status, Verdicts
  <2>2. QED
    BY <2>1 DEF CrashRestart, StoreTypes
<1>2. IntakeTypes'
  <2>1. NoKind \in Kind
    BY DEF NoKind, Kind
  <2>2. QED
    BY <2>1 DEF CrashRestart, IntakeTypes
<1>3. MailboxTypes' /\ BoardTypes' /\ QueueTypes' /\ ThreadTypes' /\ AnimTypes'
  BY DEF CrashRestart, MailboxTypes, BoardTypes, QueueTypes, ThreadTypes, AnimTypes
<1>4. LoopTypes' /\ MuxerTypes' /\ AnimLockExclusion' /\ Capacity'
  <2>1. /\ mainpc' = "reap" /\ it' = 1 /\ count' = 0 /\ newJobs' = <<>>
        /\ changeOccured' = FALSE /\ meta' = NoMeta
        /\ muxing' = {} /\ finisher' = NoFinisher /\ animLock' = "free" /\ R' = <<>>
    BY DEF CrashRestart
  <2>2. LoopTypes'
    <3>1. meta' \in FractalMeta /\ meta'.id \notin Ids
      BY <2>1, NullTypes
    <3>2. changeOccured' \in BOOLEAN
      BY <2>1
    <3>3. QED
      BY <2>1, <3>1, <3>2 DEF LoopTypes
  <2>3. MuxerTypes' /\ AnimLockExclusion'
    BY <2>1, NullTypes DEF MuxerTypes, AnimLockExclusion
  <2>4. Capacity'
    BY <2>1, BoundsAssumption DEF Capacity
  <2>5. QED
    BY <2>2, <2>3, <2>4
<1>5. QED
  BY <1>1, <1>2, <1>3, <1>4

LEMMA SafeStep == Safe /\ [Next]_vars => Safe'
<1> SUFFICES ASSUME Safe, [Next]_vars PROVE Safe'
  OBVIOUS
<1>1. CASE UNCHANGED vars
  BY <1>1, FrameTypes
  DEF vars, Safe, TypeOK, Capacity, AnimLockExclusion, anim, loop, muxer
<1>2. CASE MainStep
  BY <1>2, SafeReap, SafeAnimations, SafeDispatch, SafeRequests DEF MainStep
<1>3. CASE \E i \in DOMAIN R : RenderStep(i)
  BY <1>3, SafeRender
<1>4. CASE MuxStep \/ InsertFractal \/ ClientStep \/ DeliverStep \/ CrashRestart
  BY <1>4, SafeMux, SafeNetwork, SafeRestart
<1>5. QED
  BY <1>1, <1>2, <1>3, <1>4 DEF Next

LEMMA AlwaysSafe == Spec => []Safe
  BY SafeInit, SafeStep, PTL DEF Spec

\* Every variable of the scheduler keeps its type.
THEOREM SchedulerTyped == Spec => []TypeOK
<1>1. Safe => TypeOK
  BY DEF Safe
<1>2. QED
  BY <1>1, AlwaysSafe, PTL

\* main and a muxer thread are never both in their sections of animLock.
THEOREM AnimLockExcludes == Spec => []AnimLockExclusion
<1>1. Safe => AnimLockExclusion
  BY DEF Safe
<1>2. QED
  BY <1>1, AlwaysSafe, PTL

-----------------------------------------------------------------------------
(* A still whose row says RENDERING has a render thread, whatever the      *)
(* number of jobs, threads, clients and requests.                          *)
(*                                                                         *)
(* The inductive invariant.  An id that submitJob has not handed out is    *)
(* nowhere, so that SubmitJob may choose its kind freely; a task with a    *)
(* frame number, and a thread that builds one, belong to an animation, so   *)
(* that reaping a frame never strands the row of a still; and the row kept  *)
(* by a rename may say RENDERING only while the thread is there.            *)

Known(id, frame) == id <= lastID /\ (frame # 0 => ~Still(id))

\* What a thread that spawns the frames of its job is: the job itself.
Spawning(id, frame) == ~Still(id) /\ frame = 0

KnownRows == \A id \in Ids : db[id].status # "NONE" => id <= lastID
KnownIntake ==
  /\ \A k \in 1..Len(Submitted) : Submitted[k] <= lastID
  /\ inserting # NoId => inserting <= lastID
KnownQueues ==
  /\ \A k \in 1..Len(JQ) : Known(JQ[k].id, JQ[k].frame)
  /\ \A k \in 1..Len(JQManual) : Known(JQManual[k].id, JQManual[k].frame)
KnownThreads ==
  \A k \in 1..Len(R) :
    /\ Known(R[k].id, R[k].frameID)
    /\ R[k].pc \in {"spawn", "enqueue"} => Spawning(R[k].id, R[k].frameID)
KnownAnims == \A k \in 1..Len(A) : Known(A[k].id, 1)
KnownLoop ==
  /\ \A k \in 1..Len(newJobs) : newJobs[k] <= lastID
  /\ mainpc = "rename" => meta.id <= lastID
RenameHasThread ==
  mainpc = "rename" /\ Still(meta.id) /\ meta.status = "RENDERING"
  => Running(meta.id)

AllKnown == /\ KnownRows /\ KnownIntake /\ KnownQueues /\ KnownThreads
            /\ KnownAnims /\ KnownLoop
NoneStranded == AllKnown /\ RenderingHasThread /\ RenameHasThread
ThreadInv == Safe /\ AllKnown /\ RenderingHasThread /\ RenameHasThread

-----------------------------------------------------------------------------
(* What an update of a row changes, and what is kept by a step that leaves  *)
(* the variables of a part alone.                                           *)

LEMMA RowChanges ==
  ASSUME StoreTypes
  PROVE  /\ \A m \in FractalMeta, id \in Ids :
              \/ updateFractal(m)[id].status = db[id].status
              \/ /\ id = m.id /\ db[id].status # "NONE"
                 /\ updateFractal(m)[id].status = m.status
         /\ \A j \in Ids, st \in Status, id \in Ids :
              \/ SetStatus(j, st)[id].status = db[id].status /\ (id = j => db[j].status = "NONE")
              \/ /\ id = j /\ db[id].status # "NONE"
                 /\ SetStatus(j, st)[id].status = st
<1> USE DEF StoreTypes, Row, Exists
<1>1. ASSUME NEW m \in FractalMeta, NEW id \in Ids
      PROVE  \/ updateFractal(m)[id].status = db[id].status
             \/ /\ id = m.id /\ db[id].status # "NONE"
                /\ updateFractal(m)[id].status = m.status
  BY DEF updateFractal
<1>2. ASSUME NEW j \in Ids, NEW st \in Status, NEW id \in Ids
      PROVE  \/ SetStatus(j, st)[id].status = db[id].status /\ (id = j => db[j].status = "NONE")
             \/ /\ id = j /\ db[id].status # "NONE"
                /\ SetStatus(j, st)[id].status = st
  <2> DEFINE m == [getFractal(j) EXCEPT !.status = st]
  <2>1. CASE Exists(j)
    <3>1. m.id = j /\ m.status = st
      BY <2>1 DEF getFractal
    <3>2. SetStatus(j, st) = [db EXCEPT ![m.id] = [status |-> m.status, title |-> m.title]]
      BY <2>1, <3>1 DEF SetStatus, updateFractal
    <3> HIDE DEF m
    <3>3. QED
      BY <2>1, <3>1, <3>2
  <2>2. CASE ~Exists(j)
    <3>1. m.id = NoId
      BY <2>2, NullTypes DEF getFractal, NoMeta
    <3>2. SetStatus(j, st) = db
      BY <3>1, NullTypes DEF SetStatus, updateFractal
    <3>3. QED
      BY <2>2, <3>2
  <2>3. QED
    BY <2>1, <2>2
<1>3. QED
  BY <1>1, <1>2

LEMMA KnownFrame ==
  ASSUME ThreadInv, UNCHANGED <<lastID, params>>
  PROVE  /\ UNCHANGED db => KnownRows'
         /\ UNCHANGED <<Submitted, inserting>> => KnownIntake'
         /\ UNCHANGED queues => KnownQueues'
         /\ UNCHANGED R => KnownThreads'
         /\ UNCHANGED A => KnownAnims'
         /\ UNCHANGED <<newJobs, mainpc, meta>> => KnownLoop'
         /\ UNCHANGED <<db, R>> => RenderingHasThread'
         /\ UNCHANGED <<mainpc, meta, R>> => RenameHasThread'
<1> USE DEF ThreadInv, AllKnown, Known, Still
<1>1. /\ UNCHANGED db => KnownRows'
      /\ UNCHANGED <<Submitted, inserting>> => KnownIntake'
      /\ UNCHANGED queues => KnownQueues'
      /\ UNCHANGED R => KnownThreads'
      /\ UNCHANGED A => KnownAnims'
      /\ UNCHANGED <<newJobs, mainpc, meta>> => KnownLoop'
  <2>1. UNCHANGED R => KnownThreads'
    BY DEF KnownThreads, Known, Still, Spawning
  <2>2. QED
    BY <2>1 DEF KnownRows, KnownIntake, KnownQueues, queues, KnownAnims, KnownLoop
<1>2. /\ UNCHANGED <<db, R>> => RenderingHasThread'
      /\ UNCHANGED <<mainpc, meta, R>> => RenameHasThread'
  BY DEF RenderingHasThread, RenameHasThread, Running, Holds
<1>3. QED
  BY <1>1, <1>2

\* Rows that are not created and do not turn RENDERING, threads that stay.
LEMMA RowsKept ==
  ASSUME ThreadInv, UNCHANGED <<lastID, params>>,
         \A id \in Ids :
           /\ db'[id].status # "NONE" => db[id].status # "NONE"
           /\ db'[id].status = "RENDERING" => db[id].status = "RENDERING"
  PROVE  /\ KnownRows'
         /\ (\A id \in Ids : Running(id) => Running(id)') => RenderingHasThread'
  BY DEF ThreadInv, AllKnown, KnownRows, RenderingHasThread, Still

LEMMA JobsKept ==
  ASSUME ThreadTypes, SameJobs
  PROVE  \A id : Running(id) <=> Running(id)'
<1>1. DOMAIN R = 1..Len(R) /\ DOMAIN R' = 1..Len(R)
  BY LenProperties DEF ThreadTypes, SameJobs
<1>2. QED
  BY <1>1 DEF SameJobs, Running, Holds

\* cancelJob marks one thread, and removes entries of the lists.
LEMMA CancelKnown ==
  ASSUME ThreadInv, NEW id \in Ids, CancelJob(id), UNCHANGED <<lastID, params>>
  PROVE  /\ KnownQueues' /\ KnownAnims'
         /\ \A j \in Ids :
              /\ db'[j].status # "NONE" => db[j].status # "NONE"
              /\ db'[j].status = "RENDERING" => db[j].status = "RENDERING"
<1> USE DEF ThreadInv, Safe, TypeOK
<1> DEFINE run == FirstRunning(id)
           man == IF run = 0 THEN FirstOf(JQManual, id) ELSE 0
           aut == IF run = 0 /\ man = 0 THEN FirstOf(JQ, id) ELSE 0
<1>1. /\ A' = Without(A, FirstOf(A, id))
      /\ JQManual' = Without(JQManual, man) /\ JQ' = Without(JQ, aut)
      /\ db' = db \/ db' = SetStatus(id, "CANCEL")
  BY DEF CancelJob
<1>2. man \in 0..Len(JQManual) /\ aut \in 0..Len(JQ)
  BY FirstOfFacts, LenProperties DEF QueueTypes
<1>3. FirstOf(A, id) \in 0..Len(A)
  BY FirstOfFacts DEF AnimTypes
<1> HIDE DEF man, aut
<1>4. KnownQueues'
  <2>1. \A k \in 1..Len(JQ') : \E j \in 1..Len(JQ) : JQ'[k] = JQ[j]
    BY <1>1, <1>2, WithoutFacts DEF QueueTypes
  <2>2. \A k \in 1..Len(JQManual') : \E j \in 1..Len(JQManual) : JQManual'[k] = JQManual[j]
    <3>1. \A k \in 1..Len(Without(JQManual, man)) :
            \E j \in 1..Len(JQManual) : Without(JQManual, man)[k] = JQManual[j]
      BY <1>2, WithoutFacts DEF QueueTypes
    <3>2. QED
      BY <1>1, <3>1
  <2>3. QED
    BY <2>1, <2>2 DEF AllKnown, KnownQueues, Known, Still
<1>5. KnownAnims'
  <2>1. \A k \in 1..Len(A') : \E j \in 1..Len(A) : A'[k] = A[j]
    BY <1>1, <1>3, WithoutFacts DEF AnimTypes
  <2>2. QED
    BY <2>1 DEF AllKnown, KnownAnims, Known, Still
<1>6. "CANCEL" \in Status
  BY DEF Status, Verdicts
<1>7. QED
  BY <1>1, <1>4, <1>5, <1>6, RowChanges

\* An entry of R is reaped: the others stay.
LEMMA ReapKnown ==
  ASSUME ThreadInv, NEW i \in 1..Len(R),
         NEW r \in Seq(RenderingJob), Len(r) = Len(R),
         \A j \in 1..Len(R) : r[j].id = R[j].id /\ r[j].frameID = R[j].frameID
                              /\ r[j].pc = R[j].pc,
         R' = RemoveAt(r, i), UNCHANGED <<lastID, params>>
  PROVE  /\ KnownThreads'
         /\ \A id : Running(id) /\ id # R[i].id => Running(id)'
<1> USE DEF ThreadInv, Safe, TypeOK, ThreadTypes
<1>1. /\ R' \in Seq(RenderingJob) /\ Len(R') = Len(R) - 1
      /\ \A k \in 1..(Len(R) - 1) : R'[k] = IF k < i THEN r[k] ELSE r[k + 1]
  BY RemoveAtFacts
<1>2. DOMAIN R = 1..Len(R) /\ DOMAIN R' = 1..(Len(R) - 1) /\ Len(R) \in Nat
  BY <1>1, LenProperties
<1>3. ASSUME NEW k \in 1..Len(R')
      PROVE  \E j \in 1..Len(R) : /\ R'[k].id = R[j].id
                                  /\ R'[k].frameID = R[j].frameID
                                  /\ R'[k].pc = R[j].pc
  <2>1. k \in 1..Len(R) /\ k + 1 \in 1..Len(R)
    BY <1>1, <1>2
  <2>2. R'[k] = r[k] \/ R'[k] = r[k + 1]
    BY <1>1, <1>2
  <2>3. QED
    BY <2>1, <2>2
<1>4. KnownThreads'
  <2>1. ASSUME NEW k \in 1..Len(R')
        PROVE  /\ Known(R[k].id, R[k].frameID)'
               /\ (R[k].pc \in {"spawn", "enqueue"} => Spawning(R[k].id, R[k].frameID))'
    <3>1. PICK j \in 1..Len(R) : /\ R'[k].id = R[j].id
                                 /\ R'[k].frameID = R[j].frameID
                                 /\ R'[k].pc = R[j].pc
      BY <1>3, <2>1
    <3>2. /\ Known(R[j].id, R[j].frameID)
          /\ R[j].pc \in {"spawn", "enqueue"} => Spawning(R[j].id, R[j].frameID)
      BY <3>1 DEF AllKnown, KnownThreads
    <3>3. QED
      BY <3>1, <3>2 DEF Known, Still, Spawning
  <2>2. QED
    BY <2>1 DEF KnownThreads
<1>5. ASSUME NEW id, Running(id), id # R[i].id PROVE Running(id)'
  <2>1. PICK j \in 1..Len(R) : R[j].id = id
    BY <1>2, <1>5 DEF Running, Holds
  <2>2. CASE j < i
    <3>1. j \in 1..(Len(R) - 1) /\ R'[j].id = id
      BY <1>1, <1>2, <2>1, <2>2
    <3>2. QED
      BY <1>2, <3>1 DEF Running, Holds
  <2>3. CASE j > i
    <3>1. j - 1 \in 1..(Len(R) - 1) /\ R'[j - 1].id = id
      BY <1>1, <1>2, <2>1, <2>3
    <3>2. QED
      BY <1>2, <3>1 DEF Running, Holds
  <2>4. QED
    BY <1>5, <2>1, <2>2, <2>3
<1>6. QED
  BY <1>4, <1>5

-----------------------------------------------------------------------------
(* One step lemma per part of Next.                                        *)

LEMMA ReapStranded ==
  ASSUME ThreadInv, ReapBusy \/ ReapStill \/ ReapFrame \/ ReapEnd
  PROVE  NoneStranded'
<1> USE DEF ThreadInv, Safe, TypeOK, AllKnown, NoneStranded
<1>1. CASE ReapBusy \/ ReapEnd
  <2>1. UNCHANGED <<lastID, params, Submitted, inserting, db, queues, R, A, newJobs, meta>>
    BY <1>1 DEF ReapBusy, ReapEnd, intake, store, anim
  <2>2. mainpc # "rename" /\ mainpc' # "rename"
    BY <1>1 DEF ReapBusy, ReapEnd
  <2>3. KnownLoop' /\ RenameHasThread'
    BY <2>1, <2>2 DEF KnownLoop, RenameHasThread
  <2>4. QED
    BY <2>1, <2>3, KnownFrame
<1>2. CASE ReapStill
  <2>1. it \in 1..Len(R) /\ R[it] \in RenderingJob
    BY <1>2, ElementOfSeq, LenProperties DEF ReapStill, LoopTypes, ThreadTypes
  <2>2. R[it].id \in Ids /\ Verdict(R[it].fract) \in Status /\ Verdict(R[it].fract) # "RENDERING"
    BY <2>1 DEF RenderingJob, Verdict, Status, Verdicts
  <2>3. /\ R' = RemoveAt(R, it) /\ db' = SetStatus(R[it].id, Verdict(R[it].fract))
        /\ UNCHANGED <<lastID, params, Submitted, inserting, queues, A, newJobs, meta, mainpc>>
        /\ mainpc = "reap"
    BY <1>2 DEF ReapStill, intake, anim
  <2>4. KnownThreads' /\ \A id : Running(id) /\ id # R[it].id => Running(id)'
    BY <2>1, <2>3, ReapKnown DEF ThreadTypes
  <2>5. \A id \in Ids :
          /\ db'[id].status # "NONE" => db[id].status # "NONE"
          /\ db'[id].status = "RENDERING" => db[id].status = "RENDERING" /\ id # R[it].id
    BY <2>2, <2>3, RowChanges
  <2>6. KnownRows'
    BY <2>3, <2>5 DEF KnownRows
  <2>7. RenderingHasThread'
    <3> SUFFICES ASSUME NEW id \in Ids, Still(id)', db'[id].status = "RENDERING"
                 PROVE  Running(id)'
      BY DEF RenderingHasThread
    <3>1. db[id].status = "RENDERING" /\ id # R[it].id
      BY <2>5
    <3>2. Running(id)
      BY <2>3, <3>1 DEF RenderingHasThread, Still
    <3>3. QED
      BY <2>4, <3>1, <3>2
  <2>8. RenameHasThread'
    BY <2>3 DEF RenameHasThread
  <2>9. QED
    BY <2>3, <2>4, <2>6, <2>7, <2>8, KnownFrame
<1>3. CASE ReapFrame
  <2>1. it \in 1..Len(R) /\ R[it] \in RenderingJob
    BY <1>3, ElementOfSeq, LenProperties DEF ReapFrame, LoopTypes, ThreadTypes
  <2>2. R[it].id \in Ids /\ ~Still(R[it].id)
    BY <1>3, <2>1 DEF RenderingJob, ReapFrame, KnownThreads, Known
  <2>3. /\ UNCHANGED <<lastID, params, Submitted, inserting, newJobs, meta, mainpc>>
        /\ mainpc = "reap"
    BY <1>3 DEF ReapFrame, intake
  <2>4. RenameHasThread'
    BY <2>3 DEF RenameHasThread
  <2>5. ASSUME KnownThreads', KnownQueues', KnownAnims',
               \A id : Running(id) /\ id # R[it].id => Running(id)',
               \A id \in Ids :
                 /\ db'[id].status # "NONE" => db[id].status # "NONE"
                 /\ db'[id].status = "RENDERING" => db[id].status = "RENDERING"
        PROVE  NoneStranded'
    <3>1. KnownRows'
      BY <2>3, <2>5 DEF KnownRows
    <3>2. RenderingHasThread'
      <4> SUFFICES ASSUME NEW id \in Ids, Still(id)', db'[id].status = "RENDERING"
                   PROVE  Running(id)'
        BY DEF RenderingHasThread
      <4>1. db[id].status = "RENDERING" /\ Still(id)
        BY <2>3, <2>5 DEF Still
      <4>2. Running(id) /\ id # R[it].id
        BY <2>2, <4>1 DEF RenderingHasThread
      <4>3. QED
        BY <2>5, <4>2
    <3>3. QED
      BY <2>3, <2>4, <2>5, <3>1, <3>2, KnownFrame
  <2>6. CASE R' = RemoveAt(R, it) /\ UNCHANGED <<store, mailbox, queues, anim>>
    <3>1. KnownThreads' /\ \A id : Running(id) /\ id # R[it].id => Running(id)'
      BY <2>1, <2>3, <2>6, ReapKnown DEF ThreadTypes
    <3>2. KnownQueues' /\ KnownAnims' /\ db' = db
      BY <2>3, <2>6, KnownFrame DEF store, anim
    <3>3. QED
      BY <2>5, <3>1, <3>2
  <2>7. CASE CancelJob(R[it].id) /\ R' = RemoveAt(CancelRunning(R[it].id), it)
    <3>1. KnownThreads' /\ \A id : Running(id) /\ id # R[it].id => Running(id)'
      BY <2>1, <2>3, <2>7, CancelRunningFacts, ReapKnown
    <3>2. /\ KnownQueues' /\ KnownAnims'
          /\ \A j \in Ids :
                /\ db'[j].status # "NONE" => db[j].status # "NONE"
                /\ db'[j].status = "RENDERING" => db[j].status = "RENDERING"
      BY <2>2, <2>3, <2>7, CancelKnown
    <3>3. QED
      BY <2>5, <3>1, <3>2
  <2>8. QED
    BY <1>3, <2>6, <2>7 DEF ReapFrame
<1>4. QED
  BY <1>1, <1>2, <1>3

LEMMA AnimationsStranded ==
  ASSUME ThreadInv,
         \/ AnimationTimeout \/ LockAnimations \/ QueueFrames
         \/ CheckProgress \/ UnlockAnimations
  PROVE  NoneStranded'
<1> USE DEF ThreadInv, Safe, TypeOK, AllKnown, NoneStranded
<1>1. UNCHANGED <<lastID, params, Submitted, inserting, newJobs, meta>>
      /\ mainpc' # "rename"
  BY DEF AnimationTimeout, LockAnimations, QueueFrames, CheckProgress,
         UnlockAnimations, intake
<1>2. KnownLoop' /\ RenameHasThread' /\ KnownIntake'
  BY <1>1, KnownFrame DEF KnownLoop, RenameHasThread
<1>3. CASE LockAnimations \/ UnlockAnimations
  <2>1. UNCHANGED <<db, R, queues, A>>
    BY <1>3 DEF LockAnimations, UnlockAnimations, store
  <2>2. QED
    BY <1>1, <1>2, <2>1, KnownFrame
<1>4. CASE AnimationTimeout
  <2>1. PICK a \in DOMAIN A : CancelJob(A[a].id) /\ R' = CancelRunning(A[a].id)
    BY <1>4 DEF AnimationTimeout
  <2>2. A[a].id \in Ids
    <3>1. A[a] \in Animation
      BY <2>1, ElementOfSeq, LenProperties DEF AnimTypes
    <3>2. QED
      BY <3>1 DEF Animation
  <2>3. /\ KnownQueues' /\ KnownAnims'
        /\ \A j \in Ids :
              /\ db'[j].status # "NONE" => db[j].status # "NONE"
              /\ db'[j].status = "RENDERING" => db[j].status = "RENDERING"
    BY <1>1, <2>1, <2>2, CancelKnown
  <2>4. SameJobs /\ \A j \in 1..Len(R) : R'[j].pc = R[j].pc
    BY <2>1, CancelRunningFacts DEF SameJobs
  <2>5. KnownThreads'
    BY <1>1, <2>4 DEF KnownThreads, Known, Still, Spawning, SameJobs
  <2>6. KnownRows' /\ RenderingHasThread'
    BY <1>1, <2>3, <2>4, JobsKept, RowsKept
  <2>7. QED
    BY <1>2, <2>3, <2>5, <2>6
<1>5. CASE QueueFrames
  <2>1. UNCHANGED <<db, R>>
    BY <1>5 DEF QueueFrames, store
  <2>2. CASE ~(count > 0 /\ it <= Len(A))
    <3>1. UNCHANGED <<A, queues>>
      BY <1>5, <2>2 DEF QueueFrames
    <3>2. QED
      BY <1>1, <1>2, <2>1, <3>1, KnownFrame
  <2>3. CASE count > 0 /\ it <= Len(A)
    <3> DEFINE a == A[it]
               n == IF count < Len(a.frameQueue) THEN count ELSE Len(a.frameQueue)
               tasks == [k \in 1..n |-> [id |-> a.id, frame |-> a.frameQueue[k]]]
               b == [a EXCEPT !.frameQueue = SubSeq(@, n + 1, Len(@)),
                              !.framesRendering = @ \cup {tasks[k].frame : k \in 1..n}]
    <3>1. it \in 1..Len(A) /\ a \in Animation
      BY <2>3, ElementOfSeq, LenProperties DEF AnimTypes, LoopTypes
    <3>2. a.frameQueue \in Seq(Nat) /\ a.id <= lastID /\ ~Still(a.id) /\ a.id \in Ids
      BY <3>1 DEF Animation, KnownAnims, Known
    <3>3. n \in Nat /\ n <= Len(a.frameQueue)
      BY <3>2, LenProperties DEF LoopTypes
    <3>4. /\ A' = [A EXCEPT ![it] = b]
          /\ JQManual' = (IF a.manualQueue THEN JQManual \o tasks ELSE JQManual)
          /\ JQ' = (IF a.manualQueue THEN JQ ELSE JQ \o tasks)
      BY <1>5, <2>3 DEF QueueFrames
    <3>5. tasks \in Seq(Task) /\ Len(tasks) = n
          /\ \A k \in 1..n : tasks[k].id = a.id
      <4>1. tasks \in [1..n -> Task]
        BY <3>2, <3>3, ElementOfSeq, LenProperties DEF Task
      <4>2. \A k \in 1..n : tasks[k].id = a.id
        OBVIOUS
      <4> HIDE DEF tasks, n
      <4>3. tasks \in Seq(Task)
        BY <3>3, <4>1, SeqDef
      <4>4. Len(tasks) = n
        BY <3>3, <4>1, <4>3, LenProperties
      <4>5. QED
        BY <4>2, <4>3, <4>4
    <3>6. b.id = a.id
      BY <3>1 DEF Animation
    <3> HIDE DEF a, n, tasks, b
    <3>7. ASSUME NEW q \in Seq(Task), \A k \in 1..Len(q) : Known(q[k].id, q[k].frame)
          PROVE  \A k \in 1..Len(q \o tasks) :
                   Known((q \o tasks)[k].id, (q \o tasks)[k].frame)
      <4>1. Len(q \o tasks) = Len(q) + n /\ Len(q) \in Nat
            /\ \A k \in 1..(Len(q) + n) : (q \o tasks)[k] =
                  IF k <= Len(q) THEN q[k] ELSE tasks[k - Len(q)]
        BY <3>3, <3>5, ConcatProperties, LenProperties
      <4>2. ASSUME NEW k \in 1..(Len(q) + n), k > Len(q)
            PROVE  Known((q \o tasks)[k].id, (q \o tasks)[k].frame)
        <5>1. k - Len(q) \in 1..n
          BY <3>3, <4>1, <4>2
        <5>2. QED
          BY <3>2, <3>5, <4>1, <4>2, <5>1 DEF Known
      <4>3. ASSUME NEW k \in 1..(Len(q) + n), k <= Len(q)
            PROVE  Known((q \o tasks)[k].id, (q \o tasks)[k].frame)
        BY <3>3, <3>7, <4>1, <4>3
      <4>4. n \in Int /\ Len(q) \in Nat
        BY <3>3, <4>1
      <4>5. ASSUME NEW k \in 1..(Len(q) + n)
            PROVE  Known((q \o tasks)[k].id, (q \o tasks)[k].frame)
        <5>1. k <= Len(q) \/ k > Len(q)
          BY <4>4
        <5>2. QED
          BY <4>2, <4>3, <5>1
      <4>6. Len(q \o tasks) = Len(q) + n
        BY <4>1
      <4>7. QED
        BY <4>5, <4>6
    <3>8. KnownQueues'
      <4>1. /\ \A k \in 1..Len(JQ') : Known(JQ'[k].id, JQ'[k].frame)
            /\ \A k \in 1..Len(JQManual') : Known(JQManual'[k].id, JQManual'[k].frame)
        BY <3>4, <3>7 DEF QueueTypes, KnownQueues
      <4>2. QED
        BY <1>1, <4>1 DEF KnownQueues, Known, Still
    <3>9. KnownAnims'
      <4>1. Len(A') = Len(A) /\ \A j \in 1..Len(A) : A'[j] = IF j = it THEN b ELSE A[j]
        <5>1. b \in {b} \cup Animation /\ A \in Seq({b} \cup Animation)
          BY SeqMonotonic DEF AnimTypes
        <5>2. QED
          BY <3>1, <3>4, <5>1, ExceptSeq
      <4>2. QED
        BY <1>1, <3>1, <3>6, <4>1 DEF KnownAnims, Known, Still, a
    <3>10. QED
      BY <1>1, <1>2, <2>1, <3>8, <3>9, KnownFrame
  <2>4. QED
    BY <2>2, <2>3
<1>6. CASE CheckProgress
  <2> DEFINE busy == {f \in A[it].framesRendering : StillBusy(A[it], f)}
             b == [A[it] EXCEPT !.framesRendering = busy]
  <2>1. UNCHANGED <<db, R, queues>>
    BY <1>6 DEF CheckProgress, store
  <2>2. it \in 1..Len(A) /\ A[it] \in Animation
    BY <1>6, ElementOfSeq, LenProperties DEF CheckProgress, AnimTypes, LoopTypes
  <2>3. CASE A' = RemoveAt(A, it)
    <3>1. \A k \in 1..Len(A') : \E j \in 1..Len(A) : A'[k] = A[j]
      BY <2>2, <2>3, WithoutFacts, LenProperties DEF Without, AnimTypes
    <3>2. KnownAnims'
      BY <1>1, <3>1 DEF KnownAnims, Known, Still
    <3>3. QED
      BY <1>1, <1>2, <2>1, <3>2, KnownFrame
  <2>4. CASE A' = [A EXCEPT ![it] = b]
    <3>1. b \in Animation /\ b.id = A[it].id
      BY <2>2 DEF Animation
    <3> HIDE DEF b
    <3>2. Len(A') = Len(A) /\ \A j \in 1..Len(A) : A'[j] = IF j = it THEN b ELSE A[j]
      BY <2>2, <2>4, <3>1, ExceptSeq DEF AnimTypes
    <3>3. KnownAnims'
      BY <1>1, <2>2, <3>1, <3>2 DEF KnownAnims, Known, Still
    <3>4. QED
      BY <1>1, <1>2, <2>1, <3>3, KnownFrame
  <2>5. QED
    BY <1>6, <2>3, <2>4 DEF CheckProgress
<1>7. QED
  BY <1>3, <1>4, <1>5, <1>6

\* The only step that writes RENDERING also appends the thread to R.
LEMMA DispatchStranded ==
  ASSUME ThreadInv, Dispatch
  PROVE  NoneStranded'
<1> USE DEF ThreadInv, Safe, TypeOK, AllKnown, NoneStranded
<1>1. UNCHANGED <<lastID, params, Submitted, inserting, newJobs, meta, A>>
      /\ mainpc = "dispatch" /\ mainpc' = "fetch"
  BY DEF Dispatch, intake, anim
<1>2. KnownLoop' /\ RenameHasThread' /\ KnownIntake' /\ KnownAnims'
  BY <1>1, KnownFrame DEF KnownLoop, RenameHasThread
<1>3. ASSUME NEW task \in Task, RunThread(task), Known(task.id, task.frame)
      PROVE  KnownRows' /\ KnownThreads' /\ RenderingHasThread'
  <2> DEFINE job == [id |-> task.id, frameID |-> task.frame, pc |-> "validate",
                     fract |-> "NULL"]
  <2>1. R' = Append(R, job) /\ db' = SetStatus(task.id, "RENDERING") /\ task.id \in Ids
    BY <1>3 DEF RunThread, Task
  <2>2. job \in RenderingJob
    BY DEF Task, RenderingJob, RenderPC, FractalState
  <2>3. job.id = task.id /\ job.frameID = task.frame /\ job.pc = "validate"
    OBVIOUS
  <2> HIDE DEF job
  <2>4. R' \in Seq(RenderingJob) /\ Len(R') = Len(R) + 1 /\ Len(R) \in Nat
        /\ R'[Len(R) + 1] = job /\ \A j \in 1..Len(R) : R'[j] = R[j]
    BY <2>1, <2>2, AppendProperties, LenProperties DEF ThreadTypes
  <2>5. KnownThreads'
    <3>1. ASSUME NEW k \in 1..Len(R')
          PROVE  /\ Known(R'[k].id, R'[k].frameID)
                 /\ R'[k].pc \in {"spawn", "enqueue"}
                      => Spawning(R'[k].id, R'[k].frameID)
      <4>1. k \in 1..Len(R) \/ k = Len(R) + 1
        BY <2>4
      <4>2. QED
        BY <1>3, <2>3, <2>4, <4>1 DEF KnownThreads
    <3>2. QED
      BY <1>1, <3>1 DEF KnownThreads, Known, Still, Spawning
  <2>6. DOMAIN R = 1..Len(R) /\ DOMAIN R' = 1..(Len(R) + 1)
    BY <2>4, LenProperties DEF ThreadTypes
  <2>7. Running(task.id)'
    <3>1. Len(R) + 1 \in 1..(Len(R) + 1)
      BY <2>4
    <3>2. QED
      BY <2>3, <2>4, <2>6, <3>1 DEF Running, Holds
  <2>8. \A j : Running(j) => Running(j)'
    <3>1. \A k \in 1..Len(R) : k \in 1..(Len(R) + 1)
      BY <2>4
    <3>2. QED
      BY <2>4, <2>6, <3>1 DEF Running, Holds
  <2>9. \A j \in Ids :
          /\ db'[j].status # "NONE" => db[j].status # "NONE"
          /\ db'[j].status = "RENDERING" => db[j].status = "RENDERING" \/ j = task.id
    BY <2>1, RowChanges DEF Status
  <2>10. KnownRows'
    BY <1>1, <2>9 DEF KnownRows
  <2>11. RenderingHasThread'
    <3> SUFFICES ASSUME NEW j \in Ids, Still(j)', db'[j].status = "RENDERING"
                 PROVE  Running(j)'
      BY DEF RenderingHasThread
    <3>1. CASE j = task.id
      BY <2>7, <3>1
    <3>2. CASE db[j].status = "RENDERING"
      <4>1. Running(j)
        BY <1>1, <3>2 DEF RenderingHasThread, Still
      <4>2. QED
        BY <2>8, <4>1
    <3>3. QED
      BY <2>9, <3>1, <3>2
  <2>12. QED
    BY <2>5, <2>10, <2>11
<1>4. ASSUME NEW q \in Seq(Task), q # <<>>, \A k \in 1..Len(q) : Known(q[k].id, q[k].frame)
      PROVE  /\ Head(q) \in Task /\ Known(Head(q).id, Head(q).frame)
             /\ \A k \in 1..Len(Tail(q)) : Known(Tail(q)[k].id, Tail(q)[k].frame)
  <2>1. Head(q) = q[1] /\ 1 \in 1..Len(q) /\ Head(q) \in Task
    BY <1>4, HeadTailProperties, EmptySeq, LenProperties
  <2>2. \A k \in 1..Len(Tail(q)) : k + 1 \in 1..Len(q) /\ Tail(q)[k] = q[k + 1]
    BY <1>4, HeadTailProperties, LenProperties
  <2>3. QED
    BY <1>4, <2>1, <2>2
<1>5. CASE FreeThread /\ JQManual # <<>>
  <2>1. RunThread(Head(JQManual)) /\ JQManual' = Tail(JQManual) /\ JQ' = JQ
    BY <1>5 DEF Dispatch
  <2>2. KnownQueues'
    BY <1>1, <1>4, <1>5, <2>1 DEF KnownQueues, QueueTypes, Known, Still
  <2>3. Head(JQManual) \in Task /\ Known(Head(JQManual).id, Head(JQManual).frame)
    BY <1>4, <1>5 DEF KnownQueues, QueueTypes
  <2>4. QED
    BY <1>2, <1>3, <2>1, <2>2, <2>3
<1>6. CASE FreeThread /\ JQManual = <<>> /\ JQ # <<>>
  <2>1. RunThread(Head(JQ)) /\ JQ' = Tail(JQ) /\ JQManual' = JQManual
    BY <1>6 DEF Dispatch
  <2>2. KnownQueues'
    BY <1>1, <1>4, <1>6, <2>1 DEF KnownQueues, QueueTypes, Known, Still
  <2>3. Head(JQ) \in Task /\ Known(Head(JQ).id, Head(JQ).frame)
    BY <1>4, <1>6 DEF KnownQueues, QueueTypes
  <2>4. QED
    BY <1>2, <1>3, <2>1, <2>2, <2>3
<1>7. CASE ~(FreeThread /\ (JQManual # <<>> \/ JQ # <<>>))
  <2>1. UNCHANGED <<db, R, queues>>
    BY <1>7 DEF Dispatch
  <2>2. QED
    BY <1>1, <1>2, <2>1, KnownFrame
<1>8. QED
  BY <1>5, <1>6, <1>7

LEMMA RequestsStranded ==
  ASSUME ThreadInv,
         \/ FetchSubmittedJobs \/ PostJob \/ NoCommand \/ CommandCancel
         \/ CommandDelete \/ CommandRename \/ WriteRename
  PROVE  NoneStranded'
<1> USE DEF ThreadInv, Safe, TypeOK, AllKnown, NoneStranded
<1>1. CASE FetchSubmittedJobs
  <2>1. UNCHANGED <<lastID, params, inserting, db, queues, R, A>>
        /\ newJobs' = Submitted /\ Submitted' = <<>> /\ mainpc' = "post"
    BY <1>1 DEF FetchSubmittedJobs, ClearedSubmitted, store, anim
  <2>2. KnownIntake' /\ KnownLoop' /\ RenameHasThread'
    BY <2>1, EmptySeq DEF KnownIntake, KnownLoop, RenameHasThread
  <2>3. QED
    BY <2>1, <2>2, KnownFrame
<1>2. CASE PostJob
  <2> DEFINE id == Head(newJobs)
             m  == [id |-> id, status |-> "QUEUED", title |-> "submitted"]
             task == [id |-> id, frame |-> 0]
  <2>1. /\ newJobs # <<>> /\ mainpc = "post" /\ mainpc' = mainpc
        /\ db' = updateFractal(m)
        /\ JQManual' = JQManual \/ JQManual' = Append(JQManual, task)
        /\ JQ' = JQ \/ JQ' = Append(JQ, task)
        /\ newJobs' = Tail(newJobs)
        /\ UNCHANGED <<lastID, params, Submitted, inserting, R, A, meta>>
    BY <1>2 DEF PostJob, PushBack, intake, anim
  <2>2. /\ id \in Ids /\ id <= lastID
        /\ \A k \in 1..Len(Tail(newJobs)) : Tail(newJobs)[k] <= lastID
    <3>1. id = newJobs[1] /\ 1 \in 1..Len(newJobs) /\ id \in Ids
      BY <2>1, HeadTailProperties, EmptySeq, LenProperties DEF LoopTypes
    <3>2. \A k \in 1..Len(Tail(newJobs)) :
            k + 1 \in 1..Len(newJobs) /\ Tail(newJobs)[k] = newJobs[k + 1]
      BY <2>1, HeadTailProperties, LenProperties DEF LoopTypes
    <3>3. QED
      BY <3>1, <3>2 DEF KnownLoop
  <2>3. m \in FractalMeta /\ m.status = "QUEUED" /\ task \in Task
        /\ task.id = id /\ task.frame = 0
    BY <2>2 DEF FractalMeta, Status, Title, Task
  <2> HIDE DEF m, task, id
  <2>4. \A j \in Ids :
          /\ db'[j].status # "NONE" => db[j].status # "NONE"
          /\ db'[j].status = "RENDERING" => db[j].status = "RENDERING"
    BY <2>1, <2>3, RowChanges
  <2>5. KnownRows' /\ RenderingHasThread'
    BY <2>1, <2>4, RowsKept DEF Running, Holds
  <2>6. ASSUME NEW q \in Seq(Task), \A k \in 1..Len(q) : Known(q[k].id, q[k].frame)
        PROVE  \A k \in 1..Len(Append(q, task)) :
                 Known(Append(q, task)[k].id, Append(q, task)[k].frame)
    <3>1. Len(Append(q, task)) = Len(q) + 1 /\ Append(q, task)[Len(q) + 1] = task
          /\ Len(q) \in Nat /\ \A k \in 1..Len(q) : Append(q, task)[k] = q[k]
      BY <2>3, AppendProperties, LenProperties
    <3>2. ASSUME NEW k \in 1..(Len(q) + 1)
          PROVE  Known(Append(q, task)[k].id, Append(q, task)[k].frame)
      <4>1. k \in 1..Len(q) \/ k = Len(q) + 1
        BY <3>1
      <4>2. QED
        BY <2>2, <2>3, <2>6, <3>1, <4>1 DEF Known
    <3>3. QED
      BY <3>1, <3>2
  <2>7. KnownQueues'
    <3>1. /\ \A k \in 1..Len(JQ') : Known(JQ'[k].id, JQ'[k].frame)
          /\ \A k \in 1..Len(JQManual') : Known(JQManual'[k].id, JQManual'[k].frame)
      BY <2>1, <2>6 DEF KnownQueues, QueueTypes
    <3>2. QED
      BY <2>1, <3>1 DEF KnownQueues, Known, Still
  <2>8. KnownLoop' /\ RenameHasThread'
    BY <2>1, <2>2 DEF KnownLoop, RenameHasThread
  <2>9. QED
    BY <2>1, <2>5, <2>7, <2>8, KnownFrame
<1>3. CASE NoCommand
  <2>1. UNCHANGED <<lastID, params, Submitted, inserting, db, queues, R, A, newJobs, meta>>
        /\ mainpc' = "reap"
    BY <1>3 DEF NoCommand, NextRound, intake, store, anim
  <2>2. KnownLoop' /\ RenameHasThread'
    BY <2>1 DEF KnownLoop, RenameHasThread
  <2>3. QED
    BY <2>1, <2>2, KnownFrame
<1>4. CASE CommandCancel
  <2> DEFINE id == Head(requests).id
  <2>1. id \in Ids
    <3>1. Head(requests) \in Request
      BY <1>4, HeadTailProperties DEF CommandCancel, AtCommand, MailboxTypes
    <3>2. QED
      BY <3>1 DEF Request
  <2>2. /\ CancelJob(id) /\ R' = CancelRunning(id) /\ mainpc' = "reap"
        /\ UNCHANGED <<lastID, params, Submitted, inserting, newJobs, meta>>
    BY <1>4 DEF CommandCancel, AtCommand, NextRound, intake
  <2> HIDE DEF id
  <2>3. /\ KnownQueues' /\ KnownAnims'
        /\ \A j \in Ids :
              /\ db'[j].status # "NONE" => db[j].status # "NONE"
              /\ db'[j].status = "RENDERING" => db[j].status = "RENDERING"
    BY <2>1, <2>2, CancelKnown
  <2>4. SameJobs /\ \A j \in 1..Len(R) : R'[j].pc = R[j].pc
    BY <2>2, CancelRunningFacts DEF SameJobs
  <2>5. KnownThreads'
    BY <2>2, <2>4 DEF KnownThreads, Known, Still, Spawning, SameJobs
  <2>6. KnownRows' /\ RenderingHasThread'
    BY <2>2, <2>3, <2>4, JobsKept, RowsKept
  <2>7. KnownLoop' /\ RenameHasThread' /\ KnownIntake'
    BY <2>2, KnownFrame DEF KnownLoop, RenameHasThread
  <2>8. QED
    BY <2>3, <2>5, <2>6, <2>7
<1>5. CASE CommandDelete
  <2> DEFINE id == Head(requests).id
  <2>1. UNCHANGED <<lastID, params, Submitted, inserting, queues, R, A, newJobs, meta>>
        /\ mainpc' = "reap" /\ (db' = [db EXCEPT ![id] = NoRow] \/ db' = db)
    BY <1>5 DEF CommandDelete, AtCommand, NextRound, intake, store, anim
  <2>2. NoRow.status = "NONE"
    BY DEF NoRow
  <2> HIDE DEF id
  <2>3. \A j \in Ids :
          /\ db'[j].status # "NONE" => db[j].status # "NONE"
          /\ db'[j].status = "RENDERING" => db[j].status = "RENDERING"
    BY <2>1, <2>2 DEF StoreTypes
  <2>4. KnownRows' /\ RenderingHasThread'
    BY <2>1, <2>3, RowsKept DEF Running, Holds
  <2>5. KnownLoop' /\ RenameHasThread'
    BY <2>1 DEF KnownLoop, RenameHasThread
  <2>6. QED
    BY <2>1, <2>4, <2>5, KnownFrame
<1>6. CASE CommandRename
  <2> DEFINE id == Head(requests).id
             m  == [getFractal(id) EXCEPT !.title = "renamed"]
  <2>1. /\ UNCHANGED <<lastID, params, Submitted, inserting, db, queues, R, A, newJobs>>
        /\ \/ Exists(id) /\ meta' = m
           \/ mainpc' = "reap"
    BY <1>6 DEF CommandRename, AtCommand, NextRound, intake, store, anim
  <2>2. Exists(id) => m.id = id /\ m.status = db[id].status /\ id \in Ids
    BY DEF getFractal, Exists
  <2> HIDE DEF id, m
  <2>3. KnownLoop'
    BY <2>1, <2>2 DEF KnownLoop, KnownRows, Exists
  <2>4. RenameHasThread'
    BY <2>1, <2>2 DEF RenameHasThread, RenderingHasThread, Running, Holds, Still
  <2>5. QED
    BY <2>1, <2>3, <2>4, KnownFrame
<1>7. CASE WriteRename
  <2>1. /\ UNCHANGED <<lastID, params, Submitted, inserting, queues, R, A, newJobs>>
        /\ mainpc = "rename" /\ mainpc' = "reap" /\ db' = updateFractal(meta)
    BY <1>7 DEF WriteRename, NextRound, intake, anim
  <2>2. meta \in FractalMeta /\ meta.id \in Ids
    BY <2>1 DEF LoopTypes
  <2>3. \A j \in Ids :
          /\ db'[j].status # "NONE" => db[j].status # "NONE"
          /\ db'[j].status = "RENDERING" =>
               db[j].status = "RENDERING" \/ (j = meta.id /\ meta.status = "RENDERING")
    BY <2>1, <2>2, RowChanges
  <2>4. KnownRows'
    BY <2>1, <2>3 DEF KnownRows
  <2>5. RenderingHasThread'
    <3> SUFFICES ASSUME NEW j \in Ids, Still(j)', db'[j].status = "RENDERING"
                 PROVE  Running(j)'
      BY DEF RenderingHasThread
    <3>1. Still(j) /\ (Running(j) => Running(j)')
      BY <2>1 DEF Still, Running, Holds
    <3>2. Running(j)
      BY <2>1, <2>3, <3>1 DEF RenderingHasThread, RenameHasThread
    <3>3. QED
      BY <3>1, <3>2
  <2>6. KnownLoop' /\ RenameHasThread'
    BY <2>1 DEF KnownLoop, RenameHasThread
  <2>7. QED
    BY <2>1, <2>4, <2>5, <2>6, KnownFrame
<1>8. QED
  BY <1>1, <1>2, <1>3, <1>4, <1>5, <1>6, <1>7

\* A thread that reaches "spawn" or "enqueue" is that of a job with frames.
LEMMA MovesKnown ==
  ASSUME ThreadInv, NEW i \in DOMAIN R, ThreadMoves(i)
  PROVE  \A k \in 1..Len(R) : R'[k].pc \in {"spawn", "enqueue"}
                                 => Spawning(R[k].id, R[k].frameID)
<1> USE DEF ThreadInv, Safe, TypeOK, AllKnown
<1>1. i \in 1..Len(R) /\ R[i] \in RenderingJob /\ Len(R) \in Nat
  BY ElementOfSeq, LenProperties DEF ThreadTypes
<1>2. ASSUME NEW pc, Goto(i, pc)
      PROVE  \A k \in 1..Len(R) : R'[k].pc = IF k = i THEN pc ELSE R[k].pc
  <2>1. R' = [R EXCEPT ![i] = [R[i] EXCEPT !.pc = pc]]
    BY <1>1, <1>2 DEF Goto
  <2>2. [R[i] EXCEPT !.pc = pc].pc = pc
    BY <1>1 DEF RenderingJob
  <2>3. QED
    BY <1>1, <2>1, <2>2, LenProperties DEF ThreadTypes
<1>3. ASSUME NEW fract, NEW pc, SetState(i, fract, pc)
      PROVE  \A k \in 1..Len(R) : R'[k].pc = IF k = i THEN pc ELSE R[k].pc
  <2>1. R' = [R EXCEPT ![i] = [R[i] EXCEPT !.fract = fract, !.pc = pc]]
    BY <1>1, <1>3 DEF SetState
  <2>2. [R[i] EXCEPT !.fract = fract, !.pc = pc].pc = pc
    BY <1>1 DEF RenderingJob
  <2>3. QED
    BY <1>1, <2>1, <2>2, LenProperties DEF ThreadTypes
<1> DEFINE Goal == \A k \in 1..Len(R) :
                     R'[k].pc \in {"spawn", "enqueue"} => Spawning(R[k].id, R[k].frameID)
<1>4. ASSUME NEW pc, pc \in {"spawn", "enqueue"} => Spawning(R[i].id, R[i].frameID),
             Goto(i, pc) \/ \E fract : SetState(i, fract, pc)
      PROVE  Goal
  BY <1>1, <1>2, <1>3, <1>4 DEF KnownThreads
<1>5. \A pc : Goto(i, pc) /\ pc \notin {"spawn", "enqueue"} => Goal
  BY <1>4
<1>6. \A fract, pc : SetState(i, fract, pc) /\ pc \notin {"spawn", "enqueue"} => Goal
  BY <1>4
<1>7. Spawning(R[i].id, R[i].frameID) => \A pc : Goto(i, pc) => Goal
  BY <1>4
<1> HIDE DEF Goal
<1>8. CASE Validate(i)
  <2>1. CASE R[i].frameID = 0 /\ params[R[i].id].frames > 0
    <3>1. Spawning(R[i].id, R[i].frameID)
      BY <2>1 DEF Spawning, Still
    <3>2. QED
      BY <1>7, <1>8, <3>1 DEF Validate, Goal
  <2>2. CASE ~(R[i].frameID = 0 /\ params[R[i].id].frames > 0)
    <3>1. Goto(i, "complete") \/ Goto(i, "construct")
      BY <1>8, <2>2 DEF Validate
    <3>2. QED
      BY <1>5, <3>1 DEF Goal
  <2>3. QED
    BY <2>1, <2>2
<1>9. CASE SpawnJobs(i)
  <2>1. Spawning(R[i].id, R[i].frameID)
    BY <1>1, <1>9 DEF SpawnJobs, At, KnownThreads
  <2>2. QED
    BY <1>7, <1>9, <2>1 DEF SpawnJobs, Goal
<1>10. CASE Construct(i) \/ ProcessParams(i) \/ BeginRender(i) \/ RenderPasses(i)
  <2>1. \/ Goto(i, "complete") \/ Goto(i, "save") \/ Goto(i, "expire")
        \/ \E fract : \/ SetState(i, fract, "process") \/ SetState(i, fract, "processed")
                      \/ SetState(i, fract, "complete") \/ SetState(i, fract, "pass")
                      \/ SetState(i, fract, "save")
    BY <1>10 DEF Construct, ProcessParams, BeginRender, RenderPasses
  <2>2. QED
    BY <1>5, <1>6, <2>1 DEF Goal
<1>11. CASE Expire(i) \/ PostRender(i) \/ LastStatus(i) \/ ExpireLate(i) \/ Exception(i)
  <2>1. \/ Goto(i, "complete") \/ Goto(i, "expireLate")
        \/ \E fract : \/ SetState(i, fract, "save") \/ SetState(i, fract, "status")
                      \/ SetState(i, fract, "complete")
    BY <1>11 DEF Expire, PostRender, LastStatus, ExpireLate, Exception
  <2>2. QED
    BY <1>5, <1>6, <2>1 DEF Goal
<1>12. QED
  BY <1>8, <1>9, <1>10, <1>11 DEF ThreadMoves

LEMMA RenderStranded ==
  ASSUME ThreadInv, NEW i \in DOMAIN R, RenderStep(i)
  PROVE  NoneStranded'
<1> USE DEF ThreadInv, Safe, TypeOK, AllKnown, NoneStranded
<1>1. i \in 1..Len(R) /\ R[i] \in RenderingJob /\ Len(R) \in Nat
  BY ElementOfSeq, LenProperties DEF ThreadTypes
<1>2. ASSUME SameJobs, KnownThreads', KnownAnims',
             UNCHANGED <<db, intake, queues, loop>>
      PROVE  NoneStranded'
  <2>1. UNCHANGED <<db, lastID, params, Submitted, inserting, queues, newJobs, mainpc, meta>>
    BY <1>2 DEF intake, loop
  <2>2. RenderingHasThread' /\ RenameHasThread'
    BY <1>2, <2>1, JobsKept DEF RenderingHasThread, RenameHasThread, Still
  <2>3. QED
    BY <1>2, <2>1, <2>2, KnownFrame
<1>3. CASE ThreadMoves(i)
  <2>1. SameJobs /\ UNCHANGED <<db, intake, queues, loop, A>>
    BY <1>3, ThreadMovesFacts DEF RenderFrame, store, anim
  <2>2. KnownThreads'
    BY <1>3, <2>1, MovesKnown DEF KnownThreads, Known, Still, Spawning, SameJobs, intake
  <2>3. KnownAnims'
    BY <2>1, KnownFrame DEF intake
  <2>4. QED
    BY <1>2, <2>1, <2>2, <2>3
<1>4. CASE AddAnimationToQueue(i)
  <2> DEFINE id == R[i].id
             frames == [k \in 1..(params[id].frames - 1) |-> k + 1]
             a == [id |-> id, manualQueue |-> AnimationManualQueue(id),
                   frameQueue |-> frames, framesRendering |-> {}]
             job == [R[i] EXCEPT !.frameID = 1, !.pc = "construct"]
  <2>1. A' = Append(A, a) /\ R' = [R EXCEPT ![i] = job] /\ UNCHANGED RenderFrame
        /\ R[i].pc = "enqueue"
    BY <1>1, <1>4 DEF AddAnimationToQueue, At
  <2>2. UNCHANGED <<lastID, params, Submitted, inserting, db, queues, newJobs, mainpc, meta>>
    BY <2>1 DEF RenderFrame, intake, store, loop
  <2>3. id <= lastID /\ ~Still(id)
    BY <1>1, <2>1 DEF KnownThreads, Known, Spawning
  <2>4. a.id = id /\ job \in RenderingJob /\ job.id = id /\ job.pc = "construct"
    BY <1>1 DEF RenderingJob, RenderPC
  <2> HIDE DEF a, job, id
  <2>5. /\ Len(R') = Len(R) /\ R' \in Seq(RenderingJob)
        /\ \A k \in 1..Len(R) : R'[k] = IF k = i THEN job ELSE R[k]
    BY <2>1, <2>4, ThreadFacts
  <2>6. KnownThreads'
    BY <2>2, <2>3, <2>4, <2>5 DEF KnownThreads, Known, Still, Spawning
  <2>7. KnownAnims'
    <3>1. A \in Seq(Animation \cup {a}) /\ a \in Animation \cup {a}
      BY SeqMonotonic DEF AnimTypes
    <3>2. Len(A') = Len(A) + 1 /\ A'[Len(A) + 1] = a /\ Len(A) \in Nat
          /\ \A k \in 1..Len(A) : A'[k] = A[k]
      BY <2>1, <3>1, AppendProperties, LenProperties
    <3>3. ASSUME NEW k \in 1..Len(A') PROVE Known(A'[k].id, 1)
      <4>1. k \in 1..Len(A) \/ k = Len(A) + 1
        BY <3>2
      <4>2. QED
        BY <2>3, <2>4, <3>2, <4>1 DEF KnownAnims, Known
    <3>4. QED
      BY <2>2, <3>3 DEF KnownAnims, Known, Still
  <2>8. \A j : Running(j) <=> Running(j)'
    <3>1. DOMAIN R = 1..Len(R) /\ DOMAIN R' = 1..Len(R)
      BY <2>5, LenProperties DEF ThreadTypes
    <3>2. \A k \in 1..Len(R) : R'[k].id = R[k].id
      BY <2>4, <2>5 DEF id
    <3>3. QED
      BY <3>1, <3>2 DEF Running, Holds
  <2>9. RenderingHasThread' /\ RenameHasThread'
    BY <2>2, <2>8 DEF RenderingHasThread, RenameHasThread, Still
  <2>10. QED
    BY <2>2, <2>6, <2>7, <2>9, KnownFrame
<1>5. CASE SaveImage(i)
  <2> DEFINE pc == IF R[i].fract = "RENDERING" THEN "finishing" ELSE "status"
             job == [R[i] EXCEPT !.pc = pc]
  <2>1. UNCHANGED <<db, intake, queues, loop, A>> /\ Goto(i, pc)
    BY <1>5 DEF SaveImage, anim
  <2>2. R' = [R EXCEPT ![i] = job]
    BY <1>1, <2>1 DEF Goto
  <2>3. job \in RenderingJob /\ job.id = R[i].id /\ job.frameID = R[i].frameID
        /\ job.pc \notin {"spawn", "enqueue"}
    BY <1>1 DEF RenderingJob, RenderPC
  <2> HIDE DEF job, pc
  <2>4. /\ Len(R') = Len(R) /\ R' \in Seq(RenderingJob)
        /\ \A k \in 1..Len(R) : R'[k] = IF k = i THEN job ELSE R[k]
    BY <2>2, <2>3, ThreadFacts
  <2>5. SameJobs
    BY <2>3, <2>4 DEF SameJobs
  <2>6. KnownThreads'
    BY <2>1, <2>3, <2>4 DEF KnownThreads, Known, Still, Spawning, intake
  <2>7. KnownAnims'
    BY <2>1, KnownFrame DEF intake
  <2>8. QED
    BY <1>2, <2>1, <2>5, <2>6, <2>7
<1>6. QED
  BY <1>3, <1>4, <1>5 DEF RenderStep, ThreadMoves

LEMMA MuxStranded ==
  ASSUME ThreadInv, MuxStep
  PROVE  NoneStranded'
<1> USE DEF ThreadInv, Safe, TypeOK, AllKnown, NoneStranded
<1>1. UNCHANGED <<lastID, params, Submitted, inserting, queues, R, A, newJobs, mainpc, meta>>
  BY DEF MuxStep, MuxRead, MuxWrite, MuxCopyJobs, MuxPostJobs, MuxerFrame, intake, loop
<1>2. ASSUME \A j \in Ids :
               /\ db'[j].status # "NONE" => db[j].status # "NONE"
               /\ db'[j].status = "RENDERING" => db[j].status = "RENDERING"
      PROVE  NoneStranded'
  <2>1. KnownRows' /\ RenderingHasThread'
    BY <1>1, <1>2, RowsKept DEF Running, Holds
  <2>2. QED
    BY <1>1, <2>1, KnownFrame
<1>3. CASE MuxWrite
  <2> DEFINE m == [finisher.meta EXCEPT !.status = "COMPLETE"]
  <2>1. m \in FractalMeta /\ m.status = "COMPLETE"
    <3>1. finisher.meta \in FractalMeta
      BY DEF MuxerTypes, Finisher
    <3>2. QED
      BY <3>1 DEF FractalMeta, Status, Verdicts
  <2>2. db' = updateFractal(m)
    BY <1>3 DEF MuxWrite
  <2> HIDE DEF m
  <2>3. QED
    BY <1>2, <2>1, <2>2, RowChanges
<1>4. CASE ~MuxWrite
  <2>1. db' = db
    BY <1>4 DEF MuxStep, MuxRead, MuxCopyJobs, MuxPostJobs
  <2>2. QED
    BY <1>2, <2>1
<1>5. QED
  BY <1>3, <1>4

\* submitJob chooses the kind of an id that is nowhere yet.
LEMMA SubmitStranded ==
  ASSUME ThreadInv, NEW kind \in Kinds, SubmitJob(kind)
  PROVE  NoneStranded'
<1> USE DEF ThreadInv, Safe, TypeOK, AllKnown, NoneStranded
<1>1. /\ lastID' = lastID + 1 /\ params' = [params EXCEPT ![lastID'] = kind]
      /\ Submitted' = Append(Submitted, lastID') /\ inserting' = lastID'
      /\ UNCHANGED <<db, queues, R, A, newJobs, mainpc, meta>>
  BY DEF SubmitJob, NetworkFrame, anim, loop
<1>2. lastID \in Int /\ lastID + 1 \in Ids
  BY BoundsAssumption DEF SubmitJob, IntakeTypes, Ids
<1>3. \A id \in Ids : id <= lastID => (Still(id)' <=> Still(id))
  BY <1>1, <1>2 DEF Still, IntakeTypes, Ids
<1>4. \A id \in Ids : \A frame : Known(id, frame) => Known(id, frame)'
  BY <1>1, <1>2, <1>3 DEF Known, Ids
<1>5. KnownRows'
  BY <1>1, <1>2 DEF KnownRows, Ids
<1>6. KnownIntake'
  <2>1. Len(Submitted') = Len(Submitted) + 1 /\ Submitted'[Len(Submitted) + 1] = lastID'
        /\ Len(Submitted) \in Nat /\ \A k \in 1..Len(Submitted) :
                   Submitted'[k] = Submitted[k] /\ Submitted[k] \in Ids
    BY <1>1, <1>2, AppendProperties, LenProperties, ElementOfSeq DEF IntakeTypes
  <2>2. ASSUME NEW k \in 1..Len(Submitted') PROVE Submitted'[k] <= lastID'
    <3>1. k \in 1..Len(Submitted) \/ k = Len(Submitted) + 1
      BY <2>1
    <3>2. QED
      BY <1>1, <1>2, <2>1, <3>1 DEF KnownIntake, Ids
  <2>3. QED
    BY <1>1, <1>2, <2>2 DEF KnownIntake
<1>7. KnownQueues'
  <2>1. /\ \A k \in 1..Len(JQ) : JQ[k].id \in Ids
        /\ \A k \in 1..Len(JQManual) : JQManual[k].id \in Ids
    <3>1. /\ \A k \in 1..Len(JQ) : JQ[k] \in Task
          /\ \A k \in 1..Len(JQManual) : JQManual[k] \in Task
      BY ElementOfSeq DEF QueueTypes
    <3>2. QED
      BY <3>1 DEF Task
  <2>2. QED
    BY <1>1, <1>4, <2>1 DEF KnownQueues, queues
<1>8. KnownThreads' /\ \A k \in 1..Len(R) : R[k].id \in Ids
  <2>1. \A k \in 1..Len(R) : R[k].id \in Ids /\ R[k].id <= lastID
    <3>1. \A k \in 1..Len(R) : R[k] \in RenderingJob
      BY ElementOfSeq DEF ThreadTypes
    <3>2. QED
      BY <3>1 DEF RenderingJob, KnownThreads, Known
  <2>2. QED
    BY <1>1, <1>3, <1>4, <2>1 DEF KnownThreads, Spawning
<1>9. KnownAnims'
  <2>1. \A k \in 1..Len(A) : A[k].id \in Ids
    <3>1. \A k \in 1..Len(A) : A[k] \in Animation
      BY ElementOfSeq DEF AnimTypes
    <3>2. QED
      BY <3>1 DEF Animation
  <2>2. QED
    BY <1>1, <1>4, <2>1 DEF KnownAnims
<1>10. KnownLoop'
  <2>1. \A k \in 1..Len(newJobs) : newJobs[k] \in Ids
    BY ElementOfSeq DEF LoopTypes
  <2>2. mainpc = "rename" => meta.id \in Ids
    BY DEF LoopTypes
  <2>3. QED
    BY <1>1, <1>2, <2>1, <2>2 DEF KnownLoop, Ids
<1>11. RenderingHasThread'
  <2> SUFFICES ASSUME NEW id \in Ids, Still(id)', db'[id].status = "RENDERING"
               PROVE  Running(id)'
    BY DEF RenderingHasThread
  <2>1. id <= lastID /\ db[id].status = "RENDERING"
    BY <1>1 DEF KnownRows
  <2>2. Running(id)
    BY <1>3, <2>1 DEF RenderingHasThread
  <2>3. QED
    BY <1>1, <2>2 DEF Running, Holds
<1>12. RenameHasThread'
  BY <1>1, <1>3 DEF RenameHasThread, KnownLoop, LoopTypes, Running, Holds
<1>13. QED
  BY <1>5, <1>6, <1>7, <1>8, <1>9, <1>10, <1>11, <1>12

LEMMA NetworkStranded ==
  ASSUME ThreadInv, InsertFractal \/ ClientStep \/ DeliverStep
  PROVE  NoneStranded'
<1> USE DEF ThreadInv, Safe, TypeOK, AllKnown, NoneStranded
<1>1. CASE InsertFractal
  <2>1. /\ UNCHANGED <<lastID, params, Submitted, queues, R, A, newJobs, mainpc, meta>>
        /\ inserting \in Ids /\ inserting # NoId /\ inserting' = NoId
        /\ db' = [db EXCEPT ![inserting] = [status |-> "QUEUED", title |-> ""]]
    BY <1>1 DEF InsertFractal, NetworkFrame, IntakeTypes, anim, loop
  <2>2. \A j \in Ids : db'[j].status = IF j = inserting THEN "QUEUED" ELSE db[j].status
    BY <2>1 DEF StoreTypes
  <2>3. KnownRows' /\ KnownIntake'
    BY <2>1, <2>2 DEF KnownRows, KnownIntake
  <2>4. RenderingHasThread'
    <3> SUFFICES ASSUME NEW id \in Ids, Still(id)', db'[id].status = "RENDERING"
                 PROVE  Running(id)'
      BY DEF RenderingHasThread
    <3>1. db[id].status = "RENDERING"
      BY <2>2
    <3>2. Running(id)
      BY <2>1, <3>1 DEF RenderingHasThread, Still
    <3>3. QED
      BY <2>1, <3>2 DEF Running, Holds
  <2>5. QED
    BY <2>1, <2>3, <2>4, KnownFrame
<1>2. CASE \E kind \in Kinds : SubmitJob(kind)
  BY <1>2, SubmitStranded
<1>3. ASSUME UNCHANGED <<NetworkFrame, db, intake>> PROVE NoneStranded'
  BY <1>3, KnownFrame DEF NetworkFrame, intake, anim, loop
<1>4. ASSUME NEW type \in Commands, NEW id \in Ids, PostRequest(type, id)
      PROVE  NoneStranded'
  BY <1>3, <1>4 DEF PostRequest
<1>5. ASSUME NEW c \in Clients, NEW id \in Ids, QueryFractal(c, id)
      PROVE  NoneStranded'
  BY <1>3, <1>5 DEF QueryFractal
<1>6. ASSUME NEW id \in Ids, DeliverReport(id) \/ DeliverDeletion(id)
      PROVE  NoneStranded'
  BY <1>3, <1>6 DEF DeliverReport, DeliverDeletion
<1>7. QED
  BY <1>1, <1>2, <1>4, <1>5, <1>6 DEF ClientStep, DeliverStep

\* After a restart no row says RENDERING, and ids go on after the last row.
LEMMA RestartStranded ==
  ASSUME ThreadInv, CrashRestart
  PROVE  NoneStranded'
<1> USE DEF ThreadInv, Safe, TypeOK, AllKnown, NoneStranded
<1>1. /\ R' = <<>> /\ JQ' = <<>> /\ JQManual' = <<>> /\ A' = <<>> /\ Submitted' = <<>>
      /\ newJobs' = <<>> /\ inserting' = NoId /\ mainpc' = "reap" /\ IsLastID(lastID')
      /\ db' = [id \in Ids |-> Recovered(db[id])]
  BY DEF CrashRestart
<1>2. \A id \in Ids :
        /\ db'[id].status # "RENDERING"
        /\ db'[id].status # "NONE" => db[id].status # "NONE"
  <2>1. \A row \in Row :
          /\ Recovered(row).status # "RENDERING"
          /\ Recovered(row).status # "NONE" => row.status # "NONE"
    BY DEF Recovered, Row
  <2>2. QED
    BY <1>1, <2>1 DEF StoreTypes
<1>3. KnownRows' /\ RenderingHasThread'
  BY <1>1, <1>2 DEF KnownRows, RenderingHasThread, IsLastID, Exists
<1>4. KnownIntake' /\ KnownQueues' /\ KnownThreads' /\ KnownAnims' /\ KnownLoop'
  BY <1>1 DEF KnownIntake, KnownQueues, KnownThreads, KnownAnims, KnownLoop
<1>5. RenameHasThread'
  BY <1>1 DEF RenameHasThread
<1>6. QED
  BY <1>3, <1>4, <1>5

-----------------------------------------------------------------------------

LEMMA ThreadInit == Init => ThreadInv
<1> SUFFICES ASSUME Init PROVE NoneStranded
  BY SafeInit DEF ThreadInv, NoneStranded
<1>1. /\ R = <<>> /\ JQ = <<>> /\ JQManual = <<>> /\ A = <<>> /\ Submitted = <<>>
      /\ newJobs = <<>> /\ inserting = NoId /\ mainpc = "reap"
      /\ \A id \in Ids : db[id].status = "NONE"
  BY DEF Init, NoRow
<1>2. QED
  BY <1>1 DEF NoneStranded, AllKnown, KnownRows, KnownIntake, KnownQueues,
              KnownThreads, KnownAnims, KnownLoop, RenderingHasThread,
              RenameHasThread

LEMMA ThreadStep == ThreadInv /\ [Next]_vars => ThreadInv'
<1> SUFFICES ASSUME ThreadInv, [Next]_vars PROVE ThreadInv'
  OBVIOUS
<1>1. Safe'
  BY SafeStep DEF ThreadInv
<1>2. NoneStranded'
  <2>1. CASE UNCHANGED vars
    BY <2>1, KnownFrame
    DEF vars, store, intake, anim, loop, NoneStranded, AllKnown
  <2>2. CASE MainStep
    BY <2>2, ReapStranded, AnimationsStranded, DispatchStranded, RequestsStranded
    DEF MainStep
  <2>3. CASE \E i \in DOMAIN R : RenderStep(i)
    BY <2>3, RenderStranded
  <2>4. CASE MuxStep \/ InsertFractal \/ ClientStep \/ DeliverStep \/ CrashRestart
    BY <2>4, MuxStranded, NetworkStranded, RestartStranded
  <2>5. QED
    BY <2>1, <2>2, <2>3, <2>4 DEF Next
<1>3. QED
  BY <1>1, <1>2 DEF ThreadInv, NoneStranded

\* No interleaving of submitting, starting, reaping, cancelling, renaming,
\* inserting late and restarting leaves a still's row RENDERING without its
\* render thread.
THEOREM RenderingRowsHaveThreads == Spec => []RenderingHasThread
<1>1. ThreadInv => RenderingHasThread
  BY DEF ThreadInv
<1>2. QED
  BY <1>1, ThreadInit, ThreadStep, PTL DEF Spec
=============================================================================
