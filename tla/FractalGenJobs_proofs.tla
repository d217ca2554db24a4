----------------------- MODULE FractalGenJobs_proofs -----------------------
(***************************************************************************)
(* Where jobs are and what their rows say: every job and frame has at most *)
(* one place, jobs of one queue start in the order they were submitted,    *)
(* rows agree with the jobs, clients learn of every change, and no frame   *)
(* is muxed without its image.                                             *)
(***************************************************************************)
EXTENDS FractalGen_proofs

-----------------------------------------------------------------------------
(* The inductive invariant.  A job is in line from submitJob until it is   *)
(* started, and begun from then on: as a thread, as frames in the manual   *)
(* queue, as an animation or as a video being muxed.                       *)

ZeroIn(q, id)  == \E k \in 1..Len(q) : q[k].id = id /\ q[k].frame = 0
FrameIn(q, id) == \E k \in 1..Len(q) : q[k].id = id /\ q[k].frame # 0

InLine(id) == \/ ListedIn(Submitted, id) \/ ListedIn(newJobs, id)
              \/ ZeroIn(JQ, id) \/ ZeroIn(JQManual, id)
Muxed(id) == id \in muxing \/ (finisher.pc = "update" /\ finisher.meta.id = id)
Begun(id) == Running(id) \/ FrameIn(JQManual, id) \/ Holds(A, id) \/ Muxed(id)

Increasing(s) == \A j, k \in 1..Len(s) : j < k => s[j] < s[k]
Before(q, s) ==
  \A j \in 1..Len(q), k \in 1..Len(s) : q[j].frame = 0 => q[j].id < s[k]
QueueOrder(q, manual) ==
  /\ \A j, k \in 1..Len(q) :
       j < k /\ q[j].frame = 0 /\ q[k].frame = 0 => q[j].id < q[k].id
  /\ \A k \in 1..Len(q) : q[k].frame = 0 => params[q[k].id].manual = manual
  /\ Before(q, newJobs) /\ Before(q, Submitted)

\* Ids grow from the front of a queue to the end of the submissions.
LineOrder ==
  /\ Increasing(Submitted) /\ Increasing(newJobs)
  /\ \A j \in 1..Len(newJobs), k \in 1..Len(Submitted) : newJobs[j] < Submitted[k]
  /\ QueueOrder(JQ, FALSE) /\ QueueOrder(JQManual, TRUE)

\* What has begun was submitted before what is still in line.
BegunFirst ==
  \A id, w \in Ids :
    Begun(id) /\ InLine(w) /\ params[id].manual = params[w].manual => id < w

\* A frame of an animation waits in its frame queue, then in the manual
\* queue, then it has a thread; while frame 0 has its thread there is no other.
QueuedOnce ==
  /\ \A k \in 1..Len(JQ) : JQ[k].frame = 0
  /\ \A k \in 1..Len(JQManual) : JQManual[k].frame # 1
  /\ \A j, k \in 1..Len(JQManual) : j # k => JQManual[j] # JQManual[k]
RunOnce ==
  /\ \A j, k \in 1..Len(R) :
       j # k /\ R[j].id = R[k].id
       => R[j].frameID # R[k].frameID /\ R[j].frameID # 0
  /\ \A j \in 1..Len(R), k \in 1..Len(JQManual) :
       R[j].id = JQManual[k].id
       => R[j].frameID # JQManual[k].frame /\ R[j].frameID # 0
FramesOnce(a) ==
  LET frames == a.frameQueue
  IN /\ a.manualQueue
     /\ \A k \in 1..Len(frames) : frames[k] >= 2
     /\ \A j, k \in 1..Len(frames) : j # k => frames[j] # frames[k]
     /\ \A j \in 1..Len(R) : R[j].id = a.id =>
          R[j].frameID # 0 /\ \A k \in 1..Len(frames) : R[j].frameID # frames[k]
     /\ \A j \in 1..Len(JQManual) : JQManual[j].id = a.id =>
          \A k \in 1..Len(frames) : JQManual[j].frame # frames[k]
AnimatedOnce ==
  /\ \A j, k \in 1..Len(A) : j # k => A[j].id # A[k].id
  /\ \A k \in 1..Len(A) : FramesOnce(A[k])

MuxedKnown == \A id \in Ids : Muxed(id) => id <= lastID /\ ~Still(id)
PostHasJobs == newJobs # <<>> => mainpc = "post"

Placed == LineOrder /\ BegunFirst /\ QueuedOnce /\ RunOnce /\ AnimatedOnce
JobPlaces == Placed /\ MuxedKnown /\ PostHasJobs
OrderInv == ThreadInv /\ JobPlaces

-----------------------------------------------------------------------------
(* A list of which some entries are left, in their order.                  *)

Into(f, m, n) == /\ \A k \in 1..m : f[k] \in 1..n
                 /\ \A j, k \in 1..m : j < k => f[j] < f[k]
LeftOf(t, s) ==
  \E f : Into(f, Len(t), Len(s)) /\ \A k \in 1..Len(t) : t[k] = s[f[k]]
JobsLeft ==
  \E f : Into(f, Len(R'), Len(R)) /\ \A k \in 1..Len(R') :
    R'[k].id = R[f[k]].id /\ R'[k].frameID = R[f[k]].frameID
AnimsLeft ==
  \E f : Into(f, Len(A'), Len(A)) /\ \A k \in 1..Len(A') :
    /\ A'[k].id = A[f[k]].id /\ A'[k].manualQueue = A[f[k]].manualQueue
    /\ A'[k].frameQueue = A[f[k]].frameQueue
LineLeaving ==
  /\ LeftOf(Submitted', Submitted) /\ LeftOf(newJobs', newJobs)
  /\ LeftOf(JQ', JQ) /\ LeftOf(JQManual', JQManual)
Leaving == LineLeaving /\ JobsLeft /\ AnimsLeft

LEMMA Skips ==
  ASSUME NEW n \in Nat, NEW i \in 1..n
  PROVE  Into([k \in 1..(n - 1) |-> IF k < i THEN k ELSE k + 1], n - 1, n)
  BY DEF Into

LEMMA Stays ==
  ASSUME NEW n \in Nat
  PROVE  Into([k \in 1..n |-> k], n, n)
  BY DEF Into

\* Different entries that are left are different entries of the list.
LEMMA IntoFacts ==
  ASSUME NEW m \in Nat, NEW n \in Nat, NEW f, Into(f, m, n)
  PROVE  \A j, k \in 1..m : j # k => f[j] # f[k]
<1> SUFFICES ASSUME NEW j \in 1..m, NEW k \in 1..m, j # k PROVE f[j] # f[k]
  OBVIOUS
<1>1. j < k \/ k < j
  OBVIOUS
<1>2. f[j] \in 1..n /\ f[k] \in 1..n
  BY DEF Into
<1>3. QED
  BY <1>1, <1>2 DEF Into

LEMMA LeftFacts ==
  ASSUME NEW S, NEW s \in Seq(S)
  PROVE  /\ LeftOf(s, s)
         /\ \A i \in 1..Len(s) : LeftOf(RemoveAt(s, i), s)
         /\ \A i \in 0..Len(s) : LeftOf(Without(s, i), s)
         /\ s # <<>> => LeftOf(Tail(s), s)
         /\ LeftOf(<<>>, s)
<1>1. Len(s) \in Nat
  BY LenProperties
<1>2. LeftOf(s, s)
  <2> DEFINE f == [k \in 1..Len(s) |-> k]
  <2>1. Into(f, Len(s), Len(s)) /\ \A k \in 1..Len(s) : s[k] = s[f[k]]
    BY <1>1, Stays
  <2> HIDE DEF f
  <2>2. QED
    BY <2>1 DEF LeftOf
<1>3. ASSUME NEW i \in 1..Len(s) PROVE LeftOf(RemoveAt(s, i), s)
  <2> DEFINE f == [k \in 1..(Len(s) - 1) |-> IF k < i THEN k ELSE k + 1]
  <2>1. Into(f, Len(s) - 1, Len(s))
    BY <1>1, Skips
  <2>2. /\ Len(RemoveAt(s, i)) = Len(s) - 1
        /\ \A k \in 1..(Len(s) - 1) : RemoveAt(s, i)[k] = s[f[k]]
    BY <1>1, RemoveAtFacts
  <2> HIDE DEF f
  <2>3. QED
    BY <2>1, <2>2 DEF LeftOf
<1>4. ASSUME NEW i \in 0..Len(s) PROVE LeftOf(Without(s, i), s)
  BY <1>1, <1>2, <1>3 DEF Without
<1>5. ASSUME s # <<>> PROVE LeftOf(Tail(s), s)
  <2> DEFINE f == [k \in 1..(Len(s) - 1) |-> IF k < 1 THEN k ELSE k + 1]
  <2>1. 1 \in 1..Len(s)
    BY <1>1, <1>5, EmptySeq
  <2>2. Into(f, Len(s) - 1, Len(s))
    BY <1>1, <2>1, Skips
  <2>3. /\ Len(Tail(s)) = Len(s) - 1
        /\ \A k \in 1..(Len(s) - 1) : Tail(s)[k] = s[f[k]]
    BY <1>1, <1>5, HeadTailProperties
  <2> HIDE DEF f
  <2>4. QED
    BY <2>2, <2>3 DEF LeftOf
<1>6. LeftOf(<<>>, s)
  <2>1. Into([k \in 1..0 |-> k], 0, Len(s))
    BY <1>1 DEF Into
  <2>2. QED
    BY <2>1, EmptySeq DEF LeftOf
<1>7. QED
  BY <1>2, <1>3, <1>4, <1>5, <1>6

-----------------------------------------------------------------------------
(* Steps that only take entries out of the lists keep every place.         *)

LEMMA Lengths ==
  ASSUME TypeOK
  PROVE  /\ Len(Submitted) \in Nat /\ DOMAIN Submitted = 1..Len(Submitted)
         /\ Len(newJobs) \in Nat /\ DOMAIN newJobs = 1..Len(newJobs)
         /\ Len(JQ) \in Nat /\ DOMAIN JQ = 1..Len(JQ)
         /\ Len(JQManual) \in Nat /\ DOMAIN JQManual = 1..Len(JQManual)
         /\ Len(R) \in Nat /\ DOMAIN R = 1..Len(R)
         /\ Len(A) \in Nat /\ DOMAIN A = 1..Len(A)
  BY LenProperties
  DEF TypeOK, IntakeTypes, LoopTypes, QueueTypes, ThreadTypes, AnimTypes

\* What the entries of the lists are.
LEMMA Entries ==
  ASSUME TypeOK
  PROVE  /\ \A k \in 1..Len(Submitted) : Submitted[k] \in Ids
         /\ \A k \in 1..Len(newJobs) : newJobs[k] \in Ids
         /\ \A k \in 1..Len(JQ) : /\ JQ[k] \in Task /\ JQ[k].id \in Ids
                                  /\ JQ[k].frame \in Nat
         /\ \A k \in 1..Len(JQManual) : /\ JQManual[k] \in Task
                                        /\ JQManual[k].id \in Ids
                                        /\ JQManual[k].frame \in Nat
         /\ \A k \in 1..Len(R) : /\ R[k] \in RenderingJob /\ R[k].id \in Ids
                                 /\ R[k].frameID \in Nat
         /\ \A k \in 1..Len(A) : /\ A[k] \in Animation /\ A[k].id \in Ids
                                 /\ A[k].frameQueue \in Seq(Nat)
<1> USE DEF TypeOK
<1>1. /\ \A k \in 1..Len(Submitted) : Submitted[k] \in Ids
      /\ \A k \in 1..Len(newJobs) : newJobs[k] \in Ids
  BY ElementOfSeq DEF IntakeTypes, LoopTypes
<1>2. /\ \A k \in 1..Len(JQ) : JQ[k] \in Task
      /\ \A k \in 1..Len(JQManual) : JQManual[k] \in Task
  BY ElementOfSeq DEF QueueTypes
<1>3. \A k \in 1..Len(R) : R[k] \in RenderingJob
  BY ElementOfSeq DEF ThreadTypes
<1>4. \A k \in 1..Len(A) : A[k] \in Animation
  BY ElementOfSeq DEF AnimTypes
<1>5. QED
  BY <1>1, <1>2, <1>3, <1>4 DEF Task, RenderingJob, Animation

\* Entries taken out of the line leave the others in order.
LEMMA LinePlaces ==
  ASSUME TypeOK, TypeOK', LineLeaving
  PROVE  \A id : /\ InLine(id)' => InLine(id)
                 /\ FrameIn(JQManual, id)' => FrameIn(JQManual, id)
<1>1. PICK fs : /\ Into(fs, Len(Submitted'), Len(Submitted))
                /\ \A k \in 1..Len(Submitted') : Submitted'[k] = Submitted[fs[k]]
  BY DEF LineLeaving, LeftOf
<1>2. PICK fn : /\ Into(fn, Len(newJobs'), Len(newJobs))
                /\ \A k \in 1..Len(newJobs') : newJobs'[k] = newJobs[fn[k]]
  BY DEF LineLeaving, LeftOf
<1>3. PICK fq : /\ Into(fq, Len(JQ'), Len(JQ))
                /\ \A k \in 1..Len(JQ') : JQ'[k] = JQ[fq[k]]
  BY DEF LineLeaving, LeftOf
<1>4. PICK fm : /\ Into(fm, Len(JQManual'), Len(JQManual))
                /\ \A k \in 1..Len(JQManual') : JQManual'[k] = JQManual[fm[k]]
  BY DEF LineLeaving, LeftOf
<1>5. /\ Len(Submitted') \in Nat /\ DOMAIN Submitted' = 1..Len(Submitted')
      /\ Len(newJobs') \in Nat /\ DOMAIN newJobs' = 1..Len(newJobs')
      /\ Len(JQ') \in Nat /\ Len(JQManual') \in Nat
  BY LenProperties DEF TypeOK, IntakeTypes, LoopTypes, QueueTypes
<1> SUFFICES ASSUME NEW id
             PROVE  /\ InLine(id)' => InLine(id)
                    /\ FrameIn(JQManual, id)' => FrameIn(JQManual, id)
  OBVIOUS
<1>6. InLine(id)' => InLine(id)
  <2>1. ListedIn(Submitted, id)' => ListedIn(Submitted, id)
    BY <1>1, <1>5, Lengths DEF ListedIn, Into
  <2>2. ListedIn(newJobs, id)' => ListedIn(newJobs, id)
    BY <1>2, <1>5, Lengths DEF ListedIn, Into
  <2>3. ZeroIn(JQ, id)' => ZeroIn(JQ, id)
    BY <1>3 DEF ZeroIn, Into
  <2>4. ZeroIn(JQManual, id)' => ZeroIn(JQManual, id)
    BY <1>4 DEF ZeroIn, Into
  <2>5. QED
    BY <2>1, <2>2, <2>3, <2>4 DEF InLine
<1>7. FrameIn(JQManual, id)' => FrameIn(JQManual, id)
  BY <1>4 DEF FrameIn, Into
<1>8. QED
  BY <1>6, <1>7

LEMMA LineLeft ==
  ASSUME TypeOK, TypeOK', LineOrder, QueuedOnce, LineLeaving, UNCHANGED params
  PROVE  LineOrder' /\ QueuedOnce'
<1>1. PICK fs : /\ Into(fs, Len(Submitted'), Len(Submitted))
                /\ \A k \in 1..Len(Submitted') : Submitted'[k] = Submitted[fs[k]]
  BY DEF LineLeaving, LeftOf
<1>2. PICK fn : /\ Into(fn, Len(newJobs'), Len(newJobs))
                /\ \A k \in 1..Len(newJobs') : newJobs'[k] = newJobs[fn[k]]
  BY DEF LineLeaving, LeftOf
<1>3. PICK fq : /\ Into(fq, Len(JQ'), Len(JQ))
                /\ \A k \in 1..Len(JQ') : JQ'[k] = JQ[fq[k]]
  BY DEF LineLeaving, LeftOf
<1>4. PICK fm : /\ Into(fm, Len(JQManual'), Len(JQManual))
                /\ \A k \in 1..Len(JQManual') : JQManual'[k] = JQManual[fm[k]]
  BY DEF LineLeaving, LeftOf
<1>5. /\ Len(Submitted') \in Nat /\ DOMAIN Submitted' = 1..Len(Submitted')
      /\ Len(newJobs') \in Nat /\ DOMAIN newJobs' = 1..Len(newJobs')
      /\ Len(JQ') \in Nat /\ Len(JQManual') \in Nat
  BY LenProperties DEF TypeOK, IntakeTypes, LoopTypes, QueueTypes
<1>6. \A j, k \in 1..Len(JQManual') : j # k => fm[j] # fm[k]
  <2>1. Into(fm, Len(JQManual'), Len(JQManual)) /\ Len(JQManual) \in Nat
    BY <1>4, Lengths
  <2>2. QED
    BY <1>5, <2>1, IntoFacts
<1>7. params' = params
  OBVIOUS
<1>8. LineOrder'
  <2>1. Increasing(Submitted)'
    BY <1>1 DEF LineOrder, Increasing, Into
  <2>2. Increasing(newJobs)'
    BY <1>2 DEF LineOrder, Increasing, Into
  <2>3. \A j \in 1..Len(newJobs'), k \in 1..Len(Submitted') : newJobs'[j] < Submitted'[k]
    BY <1>1, <1>2 DEF LineOrder, Into
  <2>4. ASSUME NEW q, NEW q1, NEW f, NEW manual, QueueOrder(q, manual),
               Into(f, Len(q1), Len(q)), \A k \in 1..Len(q1) : q1[k] = q[f[k]]
        PROVE  /\ \A j, k \in 1..Len(q1) :
                    j < k /\ q1[j].frame = 0 /\ q1[k].frame = 0 => q1[j].id < q1[k].id
               /\ \A k \in 1..Len(q1) :
                    q1[k].frame = 0 => params'[q1[k].id].manual = manual
               /\ \A j \in 1..Len(q1), k \in 1..Len(newJobs') :
                    q1[j].frame = 0 => q1[j].id < newJobs'[k]
               /\ \A j \in 1..Len(q1), k \in 1..Len(Submitted') :
                    q1[j].frame = 0 => q1[j].id < Submitted'[k]
    <3>1. /\ \A k \in 1..Len(q1) : f[k] \in 1..Len(q) /\ q1[k] = q[f[k]]
          /\ \A j, k \in 1..Len(q1) : j < k => f[j] < f[k]
      BY <2>4 DEF Into
    <3>2. /\ \A k \in 1..Len(newJobs') : /\ fn[k] \in 1..Len(newJobs)
                                        /\ newJobs'[k] = newJobs[fn[k]]
          /\ \A k \in 1..Len(Submitted') : /\ fs[k] \in 1..Len(Submitted)
                                          /\ Submitted'[k] = Submitted[fs[k]]
      BY <1>1, <1>2 DEF Into
    <3>3. \A j, k \in 1..Len(q1) :
            j < k /\ q1[j].frame = 0 /\ q1[k].frame = 0 => q1[j].id < q1[k].id
      BY <2>4, <3>1 DEF QueueOrder
    <3>4. \A k \in 1..Len(q1) : q1[k].frame = 0 => params'[q1[k].id].manual = manual
      BY <1>7, <2>4, <3>1 DEF QueueOrder
    <3>5. ASSUME NEW j \in 1..Len(q1), NEW k \in 1..Len(newJobs'), q1[j].frame = 0
          PROVE  q1[j].id < newJobs'[k]
      BY <2>4, <3>1, <3>2, <3>5 DEF QueueOrder, Before
    <3>6. ASSUME NEW j \in 1..Len(q1), NEW k \in 1..Len(Submitted'), q1[j].frame = 0
          PROVE  q1[j].id < Submitted'[k]
      BY <2>4, <3>1, <3>2, <3>6 DEF QueueOrder, Before
    <3>7. QED
      BY <3>3, <3>4, <3>5, <3>6
  <2>5. QueueOrder(JQ, FALSE)'
    <3>1. QueueOrder(JQ, FALSE)
      BY DEF LineOrder
    <3>2. QED
      BY <1>3, <2>4, <3>1 DEF QueueOrder, Before
  <2>6. QueueOrder(JQManual, TRUE)'
    <3>1. QueueOrder(JQManual, TRUE)
      BY DEF LineOrder
    <3>2. QED
      BY <1>4, <2>4, <3>1 DEF QueueOrder, Before
  <2>7. QED
    BY <2>1, <2>2, <2>3, <2>5, <2>6 DEF LineOrder
<1>9. QueuedOnce'
  <2>1. \A k \in 1..Len(JQ') : JQ'[k].frame = 0
    BY <1>3 DEF QueuedOnce, Into
  <2>2. \A k \in 1..Len(JQManual') : JQManual'[k].frame # 1
    BY <1>4 DEF QueuedOnce, Into
  <2>3. \A j, k \in 1..Len(JQManual') : j # k => JQManual'[j] # JQManual'[k]
    BY <1>4, <1>6 DEF QueuedOnce, Into
  <2>4. QED
    BY <2>1, <2>2, <2>3 DEF QueuedOnce
<1>10. QED
  BY <1>8, <1>9

LEMMA LeavingPlaces ==
  ASSUME TypeOK, TypeOK', Leaving
  PROVE  \A id : /\ InLine(id)' => InLine(id)
                 /\ Running(id)' => Running(id)
                 /\ FrameIn(JQManual, id)' => FrameIn(JQManual, id)
                 /\ Holds(A, id)' => Holds(A, id)
<1> SUFFICES ASSUME NEW id
             PROVE  (Running(id)' => Running(id)) /\ (Holds(A, id)' => Holds(A, id))
  BY LinePlaces DEF Leaving
<1>1. PICK fr : /\ Into(fr, Len(R'), Len(R))
                /\ \A k \in 1..Len(R') :
                     R'[k].id = R[fr[k]].id /\ R'[k].frameID = R[fr[k]].frameID
  BY DEF Leaving, JobsLeft
<1>2. PICK fa : /\ Into(fa, Len(A'), Len(A))
                /\ \A k \in 1..Len(A') : A'[k].id = A[fa[k]].id
  BY DEF Leaving, AnimsLeft
<1>3. /\ Len(R') \in Nat /\ DOMAIN R' = 1..Len(R')
      /\ Len(A') \in Nat /\ DOMAIN A' = 1..Len(A')
  BY LenProperties DEF TypeOK, ThreadTypes, AnimTypes
<1>4. Running(id)' => Running(id)
  BY <1>1, <1>3, Lengths DEF Running, Holds, Into
<1>5. Holds(A, id)' => Holds(A, id)
  BY <1>2, <1>3, Lengths DEF Holds, Into
<1>6. QED
  BY <1>4, <1>5

LEMMA PlacedLeft ==
  ASSUME TypeOK, TypeOK', Placed, Leaving, UNCHANGED <<lastID, params>>,
         \A id \in Ids : Muxed(id)' => Begun(id)
  PROVE  Placed'
<1>1. PICK fm : /\ Into(fm, Len(JQManual'), Len(JQManual))
                /\ \A k \in 1..Len(JQManual') : JQManual'[k] = JQManual[fm[k]]
  BY DEF Leaving, LineLeaving, LeftOf
<1>2. PICK fr : /\ Into(fr, Len(R'), Len(R))
                /\ \A k \in 1..Len(R') :
                     R'[k].id = R[fr[k]].id /\ R'[k].frameID = R[fr[k]].frameID
  BY DEF Leaving, JobsLeft
<1>3. PICK fa : /\ Into(fa, Len(A'), Len(A))
                /\ \A k \in 1..Len(A') :
                     /\ A'[k].id = A[fa[k]].id
                     /\ A'[k].manualQueue = A[fa[k]].manualQueue
                     /\ A'[k].frameQueue = A[fa[k]].frameQueue
  BY DEF Leaving, AnimsLeft
<1>4. Len(JQManual') \in Nat /\ Len(R') \in Nat /\ Len(A') \in Nat
  BY LenProperties DEF TypeOK, QueueTypes, ThreadTypes, AnimTypes
<1>5. /\ \A j, k \in 1..Len(JQManual') : j # k => fm[j] # fm[k]
      /\ \A j, k \in 1..Len(R') : j # k => fr[j] # fr[k]
      /\ \A j, k \in 1..Len(A') : j # k => fa[j] # fa[k]
  <2>1. Len(JQManual) \in Nat /\ Len(R) \in Nat /\ Len(A) \in Nat
    BY Lengths
  <2>2. \A j, k \in 1..Len(JQManual') : j # k => fm[j] # fm[k]
    <3>1. Into(fm, Len(JQManual'), Len(JQManual))
      BY <1>1
    <3>2. QED
      BY <1>4, <2>1, <3>1, IntoFacts
  <2>3. \A j, k \in 1..Len(R') : j # k => fr[j] # fr[k]
    <3>1. Into(fr, Len(R'), Len(R))
      BY <1>2
    <3>2. QED
      BY <1>4, <2>1, <3>1, IntoFacts
  <2>4. \A j, k \in 1..Len(A') : j # k => fa[j] # fa[k]
    BY <1>3, <1>4, <2>1, IntoFacts
  <2>5. QED
    BY <2>2, <2>3, <2>4
<1>6. params' = params
  OBVIOUS
<1>7. LineOrder' /\ QueuedOnce'
  BY LineLeft DEF Placed, Leaving
<1>8. BegunFirst'
  <2>1. \A id \in Ids : (Begun(id)' => Begun(id)) /\ (InLine(id)' => InLine(id))
    BY LeavingPlaces DEF Begun
  <2>2. QED
    BY <1>6, <2>1 DEF Placed, BegunFirst
<1>9. RunOnce'
  <2>1. \A j, k \in 1..Len(R') :
          j # k /\ R'[j].id = R'[k].id
          => R'[j].frameID # R'[k].frameID /\ R'[j].frameID # 0
    <3> SUFFICES ASSUME NEW j \in 1..Len(R'), NEW k \in 1..Len(R'), j # k,
                        R'[j].id = R'[k].id
                 PROVE  R'[j].frameID # R'[k].frameID /\ R'[j].frameID # 0
      OBVIOUS
    <3>1. fr[j] \in 1..Len(R) /\ fr[k] \in 1..Len(R) /\ fr[j] # fr[k]
      BY <1>2, <1>5 DEF Into
    <3>2. R[fr[j]].id = R[fr[k]].id
      BY <1>2
    <3>3. R[fr[j]].frameID # R[fr[k]].frameID /\ R[fr[j]].frameID # 0
      BY <3>1, <3>2 DEF Placed, RunOnce
    <3>4. QED
      BY <1>2, <3>3
  <2>2. \A j \in 1..Len(R'), k \in 1..Len(JQManual') :
          R'[j].id = JQManual'[k].id
          => R'[j].frameID # JQManual'[k].frame /\ R'[j].frameID # 0
    <3> SUFFICES ASSUME NEW j \in 1..Len(R'), NEW k \in 1..Len(JQManual'),
                        R'[j].id = JQManual'[k].id
                 PROVE  R'[j].frameID # JQManual'[k].frame /\ R'[j].frameID # 0
      OBVIOUS
    <3>1. fr[j] \in 1..Len(R) /\ fm[k] \in 1..Len(JQManual)
      BY <1>1, <1>2 DEF Into
    <3>2. R[fr[j]].id = JQManual[fm[k]].id
      BY <1>1, <1>2
    <3>3. R[fr[j]].frameID # JQManual[fm[k]].frame /\ R[fr[j]].frameID # 0
      BY <3>1, <3>2 DEF Placed, RunOnce
    <3>4. QED
      BY <1>1, <1>2, <3>3
  <2>3. QED
    BY <2>1, <2>2 DEF RunOnce
<1>10. AnimatedOnce'
  <2>1. ASSUME NEW k \in 1..Len(A') PROVE FramesOnce(A[k])'
    <3>1. FramesOnce(A[fa[k]])
      BY <1>3 DEF Placed, AnimatedOnce, Into
    <3>2. ASSUME NEW j \in 1..Len(R'), R'[j].id = A[fa[k]].id
          PROVE  /\ R'[j].frameID # 0
                 /\ \A i \in 1..Len(A[fa[k]].frameQueue) :
                      R'[j].frameID # A[fa[k]].frameQueue[i]
      <4>1. fr[j] \in 1..Len(R) /\ R[fr[j]].id = A[fa[k]].id
            /\ R'[j].frameID = R[fr[j]].frameID
        BY <1>2, <3>2 DEF Into
      <4>2. QED
        BY <3>1, <4>1 DEF FramesOnce
    <3>3. ASSUME NEW j \in 1..Len(JQManual'), JQManual'[j].id = A[fa[k]].id
          PROVE  \A i \in 1..Len(A[fa[k]].frameQueue) :
                   JQManual'[j].frame # A[fa[k]].frameQueue[i]
      <4>1. fm[j] \in 1..Len(JQManual) /\ JQManual'[j] = JQManual[fm[j]]
        BY <1>1 DEF Into
      <4>2. QED
        BY <3>1, <3>3, <4>1 DEF FramesOnce
    <3>4. /\ A'[k].id = A[fa[k]].id
          /\ A'[k].manualQueue = A[fa[k]].manualQueue
          /\ A'[k].frameQueue = A[fa[k]].frameQueue
      BY <1>3
    <3>5. QED
      BY <3>1, <3>2, <3>3, <3>4 DEF FramesOnce
  <2>2. \A j, k \in 1..Len(A') : j # k => A'[j].id # A'[k].id
    BY <1>3, <1>5 DEF Placed, AnimatedOnce, Into
  <2>3. QED
    BY <2>1, <2>2 DEF AnimatedOnce
<1>11. QED
  BY <1>7, <1>8, <1>9, <1>10 DEF Placed

\* The lists a step leaves alone.
LEMMA SameLeft ==
  ASSUME TypeOK
  PROVE  /\ UNCHANGED Submitted => LeftOf(Submitted', Submitted)
         /\ UNCHANGED newJobs => LeftOf(newJobs', newJobs)
         /\ UNCHANGED JQ => LeftOf(JQ', JQ)
         /\ UNCHANGED JQManual => LeftOf(JQManual', JQManual)
         /\ SameJobs => JobsLeft
         /\ UNCHANGED R => JobsLeft
         /\ UNCHANGED A => AnimsLeft
<1>1. /\ LeftOf(Submitted, Submitted) /\ LeftOf(newJobs, newJobs)
      /\ LeftOf(JQ, JQ) /\ LeftOf(JQManual, JQManual)
  BY LeftFacts DEF TypeOK, IntakeTypes, LoopTypes, QueueTypes
<1>2. SameJobs => JobsLeft
  <2> SUFFICES ASSUME SameJobs PROVE JobsLeft
    OBVIOUS
  <2> DEFINE f == [k \in 1..Len(R) |-> k]
  <2>1. Into(f, Len(R'), Len(R)) /\ \A k \in 1..Len(R') : f[k] = k
    BY Stays, Lengths DEF SameJobs
  <2> HIDE DEF f
  <2>2. QED
    BY <2>1 DEF JobsLeft, SameJobs
<1>3. UNCHANGED R => JobsLeft
  BY <1>2 DEF SameJobs, TypeOK, ThreadTypes
<1>4. UNCHANGED A => AnimsLeft
  <2> SUFFICES ASSUME A' = A PROVE AnimsLeft
    OBVIOUS
  <2> DEFINE f == [k \in 1..Len(A) |-> k]
  <2>1. Into(f, Len(A'), Len(A)) /\ \A k \in 1..Len(A') : f[k] = k
    BY Stays, Lengths
  <2> HIDE DEF f
  <2>2. QED
    BY <2>1 DEF AnimsLeft
<1>5. QED
  BY <1>1, <1>2, <1>3, <1>4

\* cancelJob takes entries out of the queues and the animations.
LEMMA CancelLeft ==
  ASSUME TypeOK, NEW id \in Ids, CancelJob(id)
  PROVE  LeftOf(JQ', JQ) /\ LeftOf(JQManual', JQManual) /\ AnimsLeft
<1> DEFINE run == FirstRunning(id)
           man == IF run = 0 THEN FirstOf(JQManual, id) ELSE 0
           aut == IF run = 0 /\ man = 0 THEN FirstOf(JQ, id) ELSE 0
<1>1. /\ A' = Without(A, FirstOf(A, id))
      /\ JQManual' = Without(JQManual, man) /\ JQ' = Without(JQ, aut)
  BY DEF CancelJob
<1>2. man \in 0..Len(JQManual) /\ aut \in 0..Len(JQ)
  BY FirstOfFacts, LenProperties DEF TypeOK, QueueTypes
<1>3. FirstOf(A, id) \in 0..Len(A)
  BY FirstOfFacts DEF TypeOK, AnimTypes
<1> HIDE DEF man, aut
<1>4. LeftOf(JQ', JQ) /\ LeftOf(JQManual', JQManual)
  BY <1>1, <1>2, LeftFacts DEF TypeOK, QueueTypes
<1>5. LeftOf(A', A)
  BY <1>1, <1>3, LeftFacts DEF TypeOK, AnimTypes
<1>6. PICK f : Into(f, Len(A'), Len(A)) /\ \A k \in 1..Len(A') : A'[k] = A[f[k]]
  BY <1>5 DEF LeftOf
<1>7. AnimsLeft
  BY <1>6 DEF AnimsLeft
<1>8. QED
  BY <1>4, <1>7

\* A job is reaped: the others stay.
LEMMA ReapLeft ==
  ASSUME TypeOK, NEW i \in 1..Len(R),
         NEW r \in Seq(RenderingJob), Len(r) = Len(R),
         \A j \in 1..Len(R) : r[j].id = R[j].id /\ r[j].frameID = R[j].frameID,
         R' = RemoveAt(r, i)
  PROVE  JobsLeft
<1>1. LeftOf(R', r)
  BY LeftFacts
<1>2. PICK f : Into(f, Len(R'), Len(R)) /\ \A k \in 1..Len(R') : R'[k] = r[f[k]]
  BY <1>1 DEF LeftOf
<1>3. \A k \in 1..Len(R') : f[k] \in 1..Len(R)
  BY <1>2 DEF Into
<1>4. QED
  BY <1>2, <1>3 DEF JobsLeft

\* What the steps that only take entries out have in common.
Leaves == /\ Leaving /\ UNCHANGED <<lastID, params, newJobs>>
          /\ newJobs = <<>> \/ UNCHANGED mainpc

LEMMA ReapLeaves ==
  ASSUME OrderInv, ReapBusy \/ ReapStill \/ ReapFrame \/ ReapEnd
  PROVE  Leaves /\ UNCHANGED muxer
<1> USE DEF OrderInv, ThreadInv, Safe
<1>1. TypeOK /\ ThreadTypes
  BY DEF TypeOK
<1>2. /\ UNCHANGED <<lastID, params, newJobs, Submitted, muxer>>
      /\ mainpc = "reap"
  BY DEF ReapBusy, ReapStill, ReapFrame, ReapEnd, intake, loop
<1>3. newJobs = <<>>
  BY <1>2 DEF JobPlaces, PostHasJobs
<1>4. CASE ReapBusy \/ ReapEnd
  BY <1>1, <1>2, <1>3, <1>4, SameLeft
  DEF ReapBusy, ReapEnd, Leaves, Leaving, LineLeaving, queues, anim
<1>5. CASE ReapStill
  <2>1. it \in 1..Len(R) /\ R' = RemoveAt(R, it)
    BY <1>1, <1>5, Lengths DEF ReapStill, TypeOK, LoopTypes
  <2>2. JobsLeft
    BY <1>1, <2>1, ReapLeft DEF ThreadTypes
  <2>3. QED
    BY <1>1, <1>2, <1>3, <1>5, <2>2, SameLeft
    DEF ReapStill, Leaves, Leaving, LineLeaving, queues, anim
<1>6. CASE ReapFrame
  <2>1. it \in 1..Len(R)
    BY <1>1, <1>6, Lengths DEF ReapFrame, TypeOK, LoopTypes
  <2>2. R[it].id \in Ids
    BY <1>1, <2>1, Entries
  <2>3. CASE R' = RemoveAt(R, it) /\ UNCHANGED <<queues, anim>>
    <3>1. JobsLeft
      BY <1>1, <2>1, <2>3, ReapLeft DEF ThreadTypes
    <3>2. QED
      BY <1>1, <1>2, <1>3, <2>3, <3>1, SameLeft DEF Leaves, Leaving, LineLeaving, queues, anim
  <2>4. CASE CancelJob(R[it].id) /\ R' = RemoveAt(CancelRunning(R[it].id), it)
    <3>1. JobsLeft
      BY <1>1, <2>1, <2>4, CancelRunningFacts, ReapLeft
    <3>2. LeftOf(JQ', JQ) /\ LeftOf(JQManual', JQManual) /\ AnimsLeft
      BY <1>1, <2>2, <2>4, CancelLeft
    <3>3. QED
      BY <1>1, <1>2, <1>3, <3>1, <3>2, SameLeft DEF Leaves, Leaving, LineLeaving
  <2>5. QED
    BY <1>6, <2>3, <2>4 DEF ReapFrame
<1>7. QED
  BY <1>4, <1>5, <1>6

LEMMA AnimationsLeave ==
  ASSUME OrderInv,
         AnimationTimeout \/ LockAnimations \/ CheckProgress \/ UnlockAnimations
  PROVE  Leaves
<1> USE DEF OrderInv, ThreadInv, Safe
<1>1. TypeOK /\ ThreadTypes
  BY DEF TypeOK
<1>2. /\ UNCHANGED <<lastID, params, newJobs, Submitted>>
      /\ mainpc # "post"
  BY DEF AnimationTimeout, LockAnimations, CheckProgress, UnlockAnimations,
         intake, loop
<1>3. newJobs = <<>>
  BY <1>2 DEF JobPlaces, PostHasJobs
<1>4. CASE LockAnimations \/ UnlockAnimations
  BY <1>1, <1>2, <1>3, <1>4, SameLeft
  DEF LockAnimations, UnlockAnimations, Leaves, Leaving, LineLeaving, queues
<1>5. CASE AnimationTimeout
  <2>1. PICK a \in DOMAIN A : CancelJob(A[a].id) /\ R' = CancelRunning(A[a].id)
    BY <1>5 DEF AnimationTimeout
  <2>2. A[a].id \in Ids
    BY <1>1, <2>1, Lengths, Entries
  <2>3. LeftOf(JQ', JQ) /\ LeftOf(JQManual', JQManual) /\ AnimsLeft
    BY <1>1, <2>1, <2>2, CancelLeft
  <2>4. JobsLeft
    <3>1. SameJobs
      BY <1>1, <2>1, CancelRunningFacts DEF SameJobs
    <3>2. QED
      BY <1>1, <3>1, SameLeft
  <2>5. QED
    BY <1>1, <1>2, <1>3, <2>3, <2>4, SameLeft DEF Leaves, Leaving, LineLeaving
<1>6. CASE CheckProgress
  <2>1. it \in 1..Len(A) /\ UNCHANGED <<queues, R>>
    BY <1>1, <1>6, Lengths DEF CheckProgress, TypeOK, LoopTypes
  <2>2. A[it] \in Animation /\ A \in Seq(Animation)
    BY <1>1, <2>1, Entries DEF TypeOK, AnimTypes
  <2>3. AnimsLeft
    <3>1. CASE A' = RemoveAt(A, it)
      <4>1. LeftOf(A', A)
        BY <2>1, <2>2, <3>1, LeftFacts
      <4>2. PICK f : Into(f, Len(A'), Len(A)) /\ \A k \in 1..Len(A') : A'[k] = A[f[k]]
        BY <4>1 DEF LeftOf
      <4>3. QED
        BY <4>2 DEF AnimsLeft
    <3>2. CASE A' # RemoveAt(A, it)
      <4> DEFINE busy == {f \in A[it].framesRendering : StillBusy(A[it], f)}
                 b == [A[it] EXCEPT !.framesRendering = busy]
                 f == [k \in 1..Len(A) |-> k]
      <4>1. A' = [A EXCEPT ![it] = b]
        BY <1>6, <3>2 DEF CheckProgress
      <4>2. /\ b \in Animation /\ b.id = A[it].id
            /\ b.frameQueue = A[it].frameQueue /\ b.manualQueue = A[it].manualQueue
        BY <2>2 DEF Animation
      <4> HIDE DEF b
      <4>3. /\ Len(A') = Len(A)
            /\ \A k \in 1..Len(A) : A'[k] = IF k = it THEN b ELSE A[k]
        BY <2>1, <2>2, <4>1, <4>2, ExceptSeq
      <4>4. Into(f, Len(A'), Len(A)) /\ \A k \in 1..Len(A') : f[k] = k
        BY <1>1, <4>3, Stays, Lengths
      <4> HIDE DEF f
      <4>5. QED
        BY <4>2, <4>3, <4>4 DEF AnimsLeft
    <3>3. QED
      BY <3>1, <3>2
  <2>4. QED
    BY <1>1, <1>2, <1>3, <2>1, <2>3, SameLeft DEF Leaves, Leaving, LineLeaving, queues
<1>7. QED
  BY <1>4, <1>5, <1>6

LEMMA RequestsLeave ==
  ASSUME OrderInv,
         NoCommand \/ CommandCancel \/ CommandDelete \/ CommandRename \/ WriteRename
  PROVE  Leaves /\ UNCHANGED muxer
<1> USE DEF OrderInv, ThreadInv, Safe
<1>1. TypeOK /\ ThreadTypes
  BY DEF TypeOK
<1>2. UNCHANGED <<lastID, params, newJobs, Submitted, muxer>>
  BY DEF NoCommand, CommandCancel, CommandDelete, CommandRename, WriteRename,
         AtCommand, intake
<1>3. newJobs = <<>>
  BY DEF NoCommand, CommandCancel, CommandDelete, CommandRename, WriteRename,
         AtCommand, JobPlaces, PostHasJobs
<1>4. CASE CommandCancel
  <2> DEFINE id == Head(requests).id
  <2>1. id \in Ids /\ CancelJob(id) /\ R' = CancelRunning(id)
    <3>1. Head(requests) \in Request
      BY <1>1, <1>4, HeadTailProperties
      DEF CommandCancel, AtCommand, TypeOK, MailboxTypes
    <3>2. QED
      BY <1>4, <3>1 DEF Request, CommandCancel
  <2> HIDE DEF id
  <2>2. LeftOf(JQ', JQ) /\ LeftOf(JQManual', JQManual) /\ AnimsLeft
    BY <1>1, <2>1, CancelLeft
  <2>3. JobsLeft
    <3>1. SameJobs
      BY <1>1, <2>1, CancelRunningFacts DEF SameJobs
    <3>2. QED
      BY <1>1, <3>1, SameLeft
  <2>4. QED
    BY <1>1, <1>2, <1>3, <2>2, <2>3, SameLeft DEF Leaves, Leaving, LineLeaving
<1>5. CASE ~CommandCancel
  <2>1. UNCHANGED <<R, queues, anim>>
    BY <1>5 DEF NoCommand, CommandDelete, CommandRename, WriteRename
  <2>2. QED
    BY <1>1, <1>2, <1>3, <2>1, SameLeft DEF Leaves, Leaving, LineLeaving, queues, anim
<1>6. QED
  BY <1>4, <1>5

LEMMA RenderLeaves ==
  ASSUME OrderInv, NEW i \in DOMAIN R, ThreadMoves(i) \/ SaveImage(i)
  PROVE  Leaves /\ SameJobs /\ UNCHANGED <<db, intake, mailbox, queues, anim, loop, muxer>>
<1>1. TypeOK /\ ThreadTypes
  BY DEF OrderInv, ThreadInv, Safe, TypeOK
<1>2. SameJobs /\ UNCHANGED <<db, intake, mailbox, queues, anim, loop, muxer>>
  <2>1. CASE ThreadMoves(i)
    BY <1>1, <2>1, ThreadMovesFacts DEF RenderFrame, store
  <2>2. CASE SaveImage(i)
    BY <1>1, <2>2, ThreadSteps DEF SaveImage, RenderPC
  <2>3. QED
    BY <2>1, <2>2
<1>3. QED
  BY <1>1, <1>2, SameLeft DEF Leaves, Leaving, LineLeaving, intake, queues, anim, loop

LEMMA MuxLeaves ==
  ASSUME OrderInv, MuxStep
  PROVE  Leaves
<1>1. UNCHANGED MuxerFrame
  BY DEF MuxStep, MuxRead, MuxWrite, MuxCopyJobs, MuxPostJobs
<1>2. QED
  BY <1>1, SameLeft
  DEF MuxerFrame, Leaves, Leaving, LineLeaving, intake, queues, loop, OrderInv, ThreadInv, Safe

NetworkAnswers ==
  \/ InsertFractal
  \/ \E type \in Commands, id \in Ids : PostRequest(type, id)
  \/ \E c \in Clients, id \in Ids : QueryFractal(c, id)
  \/ DeliverStep

LEMMA NetworkLeaves ==
  ASSUME OrderInv, NetworkAnswers
  PROVE  Leaves /\ UNCHANGED <<muxer, Submitted>>
<1>1. UNCHANGED NetworkFrame /\ UNCHANGED <<lastID, params, Submitted>>
  BY DEF NetworkAnswers, InsertFractal, PostRequest, QueryFractal, DeliverStep,
         DeliverReport, DeliverDeletion, intake
<1>2. QED
  BY <1>1, SameLeft
  DEF NetworkFrame, Leaves, Leaving, LineLeaving, intake, queues, anim, loop, OrderInv,
      ThreadInv, Safe

LEMMA LeavesPlaced ==
  ASSUME OrderInv, TypeOK', Leaves, MuxedKnown',
         \A id \in Ids : Muxed(id)' => Begun(id)
  PROVE  JobPlaces'
<1>1. Placed'
  BY PlacedLeft DEF OrderInv, ThreadInv, Safe, JobPlaces, Leaves
<1>2. PostHasJobs'
  BY DEF OrderInv, JobPlaces, PostHasJobs, Leaves
<1>3. QED
  BY <1>1, <1>2 DEF JobPlaces

LEMMA MuxerKept ==
  ASSUME MuxedKnown, UNCHANGED <<lastID, params, muxer>>
  PROVE  MuxedKnown' /\ \A id : Muxed(id)' <=> Muxed(id)
  BY DEF MuxedKnown, Muxed, Still, muxer

-----------------------------------------------------------------------------
(* The steps that move a job on.                                           *)

\* A job that is started leaves the front of its queue for a thread.
Start(task, manual) ==
  /\ IF manual THEN /\ JQManual # <<>> /\ task = Head(JQManual)
                    /\ JQManual' = Tail(JQManual) /\ UNCHANGED JQ
               ELSE /\ JQ # <<>> /\ task = Head(JQ)
                    /\ JQ' = Tail(JQ) /\ UNCHANGED JQManual
  /\ R' = Append(R, [id |-> task.id, frameID |-> task.frame,
                     pc |-> "validate", fract |-> "NULL"])
  /\ UNCHANGED <<Submitted, newJobs, lastID, params, muxer, A>>

LEMMA StartPlaced ==
  ASSUME OrderInv, TypeOK', NEW task \in Task, NEW manual \in BOOLEAN,
         Start(task, manual)
  PROVE  /\ Placed'
         /\ \A w \in Ids : InLine(w)' /\ params[w].manual = params[task.id].manual
                           => task.id < w
         /\ \A w : /\ InLine(w)' => InLine(w)
                   /\ Running(w)' => Running(w) \/ w = task.id
<1> DEFINE id == task.id
           job == [id |-> id, frameID |-> task.frame, pc |-> "validate",
                   fract |-> "NULL"]
           q == IF manual THEN JQManual ELSE JQ
<1>1. id \in Ids /\ task.frame \in Nat
  BY DEF Task
<1>2. /\ TypeOK /\ LineOrder /\ BegunFirst /\ QueuedOnce /\ RunOnce /\ AnimatedOnce
      /\ MuxedKnown
  BY DEF OrderInv, ThreadInv, Safe, JobPlaces, Placed
<1>3. /\ q # <<>> /\ task = Head(q)
      /\ JQManual' = (IF manual THEN Tail(JQManual) ELSE JQManual)
      /\ JQ' = (IF manual THEN JQ ELSE Tail(JQ))
      /\ R' = Append(R, job)
      /\ UNCHANGED <<Submitted, newJobs, lastID, params, muxer, A>>
  BY DEF Start
<1>4. LineLeaving
  <2>1. /\ LeftOf(JQManual, JQManual) /\ LeftOf(JQ, JQ)
        /\ LeftOf(Submitted, Submitted) /\ LeftOf(newJobs, newJobs)
        /\ JQManual # <<>> => LeftOf(Tail(JQManual), JQManual)
        /\ JQ # <<>> => LeftOf(Tail(JQ), JQ)
    BY <1>2, LeftFacts DEF TypeOK, IntakeTypes, LoopTypes, QueueTypes
  <2>2. QED
    BY <1>3, <2>1 DEF LineLeaving
<1>5. /\ Len(R') = Len(R) + 1 /\ R'[Len(R) + 1].id = id
      /\ R'[Len(R) + 1].frameID = task.frame
      /\ \A k \in 1..Len(R) : R'[k] = R[k]
  <2>1. job \in RenderingJob
    BY <1>1 DEF RenderingJob, RenderPC, FractalState
  <2>2. R' = Append(R, job) /\ job.id = id /\ job.frameID = task.frame
    BY <1>3
  <2> HIDE DEF job
  <2>3. R \in Seq(RenderingJob)
    BY <1>2 DEF TypeOK, ThreadTypes
  <2>4. QED
    BY <2>1, <2>2, <2>3, AppendProperties
<1>6. /\ Len(R) \in Nat /\ DOMAIN R = 1..Len(R) /\ DOMAIN A = 1..Len(A)
      /\ DOMAIN R' = 1..(Len(R) + 1)
      /\ DOMAIN Submitted = 1..Len(Submitted) /\ DOMAIN newJobs = 1..Len(newJobs)
  BY <1>2, <1>5, Lengths, LenProperties DEF TypeOK, ThreadTypes
<1>7. /\ q \in Seq(Task) /\ 1 \in 1..Len(q) /\ q[1] = task
      /\ Len(Tail(q)) = Len(q) - 1 /\ Len(q) \in Nat
      /\ \A k \in 1..(Len(q) - 1) : k + 1 \in 1..Len(q) /\ Tail(q)[k] = q[k + 1]
  <2>1. q \in Seq(Task)
    BY <1>2 DEF TypeOK, QueueTypes
  <2>2. QED
    BY <1>3, <2>1, HeadTailProperties, EmptySeq, LenProperties
<1>8. LineOrder' /\ QueuedOnce'
  BY <1>2, <1>3, <1>4, LineLeft
<1>9. \A w : (InLine(w)' => InLine(w)) /\ (FrameIn(JQManual, w)' => FrameIn(JQManual, w))
  BY <1>2, <1>4, LinePlaces
<1>10. QueueOrder(q, manual)
  BY <1>2 DEF LineOrder
<1> DEFINE First == \A w \in Ids :
                      InLine(w)' /\ params[w].manual = params[id].manual => id < w
           InQueue == \A k \in 1..Len(JQManual') : JQManual'[k].id = id
                        => JQManual'[k].frame # task.frame /\ task.frame # 0
           InR == \A k \in 1..Len(R) : R[k].id = id
                    => /\ R[k].frameID # task.frame /\ R[k].frameID # 0
                       /\ task.frame # 0
           InA == \A k \in 1..Len(A) : A[k].id = id
                    => /\ task.frame # 0
                       /\ \A i \in 1..Len(A[k].frameQueue) :
                            task.frame # A[k].frameQueue[i]
<1>11. ASSUME task.frame = 0 PROVE First /\ InQueue /\ InR /\ InA
  <2>1. params[id].manual = manual
    BY <1>7, <1>10, <1>11 DEF QueueOrder
  <2>2. InLine(id)
    BY <1>7, <1>11 DEF InLine, ZeroIn
  <2>3. ~Begun(id)
    BY <1>2, <1>1, <2>2 DEF BegunFirst, Ids
  <2>4. ASSUME NEW w \in Ids, InLine(w)', params[w].manual = manual
        PROVE  id < w
    <3>1. CASE ListedIn(Submitted, w)' \/ ListedIn(newJobs, w)'
      BY <1>3, <1>6, <1>7, <1>10, <1>11, <3>1 DEF ListedIn, QueueOrder, Before
    <3>2. CASE ZeroIn(JQ, w)' \/ ZeroIn(JQManual, w)'
      <4>1. CASE ZeroIn(Tail(q), w)
        <5>1. PICK k \in 1..(Len(q) - 1) : Tail(q)[k].id = w /\ Tail(q)[k].frame = 0
          BY <1>7, <4>1 DEF ZeroIn
        <5>2. k + 1 \in 1..Len(q) /\ q[k + 1].id = w /\ q[k + 1].frame = 0 /\ 1 < k + 1
          BY <1>7, <5>1
        <5>3. QED
          BY <1>7, <1>10, <1>11, <5>2 DEF QueueOrder
      <4>2. CASE ~ZeroIn(Tail(q), w)
        <5>1. IF manual THEN ZeroIn(JQ, w) ELSE ZeroIn(JQManual, w)
          BY <1>3, <3>2, <4>2
        <5>2. params[w].manual # manual
          BY <1>2, <5>1 DEF LineOrder, QueueOrder, ZeroIn
        <5>3. QED
          BY <2>4, <5>2
      <4>3. QED
        BY <4>1, <4>2
    <3>3. QED
      BY <2>4, <3>1, <3>2 DEF InLine
  <2>5. \A k \in 1..Len(JQManual') : JQManual'[k].id # id
    <3>1. ASSUME NEW k \in 1..Len(JQManual'), JQManual'[k].id = id PROVE FALSE
      <4>1. JQManual'[k].frame = 0
        <5>1. CASE JQManual'[k].frame # 0
          <6>1. FrameIn(JQManual, id)'
            BY <3>1, <5>1 DEF FrameIn
          <6>2. Begun(id)
            BY <1>9, <6>1 DEF Begun
          <6>3. QED
            BY <2>3, <6>2
        <5>2. QED
          BY <5>1
      <4>2. InLine(id)'
        BY <3>1, <4>1 DEF InLine, ZeroIn
      <4>3. id < id
        BY <1>1, <2>1, <2>4, <4>2
      <4>4. QED
        BY <1>1, <4>3 DEF Ids
    <3>2. QED
      BY <3>1
  <2>6. \A k \in 1..Len(R) : R[k].id # id
    BY <1>6, <2>3 DEF Begun, Running, Holds
  <2>7. \A k \in 1..Len(A) : A[k].id # id
    BY <1>6, <2>3 DEF Begun, Holds
  <2>8. First
    BY <2>1, <2>4
  <2>9. QED
    BY <2>5, <2>6, <2>7, <2>8
<1>12. ASSUME task.frame # 0 PROVE First /\ InQueue /\ InR /\ InA
  <2>1. manual /\ q = JQManual /\ JQManual[1] = task
    BY <1>2, <1>7, <1>12 DEF QueuedOnce
  <2>2. FrameIn(JQManual, id) /\ Begun(id)
    BY <1>7, <1>12, <2>1 DEF FrameIn, Begun
  <2>3. First
    BY <1>2, <1>1, <1>9, <2>2 DEF BegunFirst
  <2>4. InQueue
    <3> SUFFICES ASSUME NEW k \in 1..Len(JQManual'), JQManual'[k].id = id,
                        JQManual'[k].frame = task.frame
                 PROVE  FALSE
      BY <1>12
    <3>1. JQManual'[k] = JQManual[k + 1] /\ k + 1 \in 1..Len(JQManual) /\ k + 1 # 1
      BY <1>3, <1>7, <2>1
    <3>2. JQManual[k + 1] # task
      BY <1>2, <1>7, <2>1, <3>1 DEF QueuedOnce
    <3>3. JQManual[k + 1] \in Task
      BY <1>2, <3>1, Entries
    <3>4. QED
      BY <3>1, <3>2, <3>3 DEF Task
  <2>5. InR
    BY <1>2, <1>7, <1>12, <2>1 DEF RunOnce
  <2>6. InA
    BY <1>2, <1>7, <1>12, <2>1 DEF AnimatedOnce, FramesOnce
  <2>7. QED
    BY <2>3, <2>4, <2>5, <2>6
<1>13. First /\ InQueue /\ InR /\ InA
  BY <1>11, <1>12
<1> HIDE DEF First, InQueue, InR, InA, job, q
<1>14. PICK fm : /\ \A k \in 1..Len(JQManual') : fm[k] \in 1..Len(JQManual)
                 /\ \A k \in 1..Len(JQManual') : JQManual'[k] = JQManual[fm[k]]
  BY <1>4 DEF LineLeaving, LeftOf, Into
<1>15. \A w : Running(w)' => Running(w) \/ w = id
  <2>1. \A k \in 1..(Len(R) + 1) : k \in 1..Len(R) \/ k = Len(R) + 1
    BY <1>6
  <2>2. QED
    BY <1>5, <1>6, <2>1 DEF Running, Holds
<1>16. BegunFirst'
  <2>1. \A w : Begun(w)' => Begun(w) \/ w = id
    <3> SUFFICES ASSUME NEW w PROVE Begun(w)' => Begun(w) \/ w = id
      OBVIOUS
    <3>1. Running(w)' => Running(w) \/ w = id
      BY <1>15
    <3>2. Muxed(w)' <=> Muxed(w)
      BY <1>2, <1>3, MuxerKept
    <3>3. Holds(A, w)' <=> Holds(A, w)
      BY <1>3 DEF Holds
    <3>4. QED
      BY <1>9, <3>1, <3>2, <3>3 DEF Begun
  <2>2. QED
    BY <1>2, <1>3, <1>9, <1>13, <2>1 DEF BegunFirst, First
<1>17. RunOnce'
  <2>1. \A k \in 1..Len(R') : k \in 1..Len(R) \/ k = Len(R) + 1
    BY <1>5, <1>6
  <2>2. ASSUME NEW j \in 1..Len(R'), NEW k \in 1..Len(R'), j # k,
               R'[j].id = R'[k].id
        PROVE  R'[j].frameID # R'[k].frameID /\ R'[j].frameID # 0
    <3>1. CASE j \in 1..Len(R) /\ k \in 1..Len(R)
      BY <1>2, <1>5, <2>2, <3>1 DEF RunOnce
    <3>2. CASE j = Len(R) + 1 /\ k \in 1..Len(R)
      BY <1>5, <1>13, <2>2, <3>2 DEF InR
    <3>3. CASE j \in 1..Len(R) /\ k = Len(R) + 1
      BY <1>5, <1>13, <2>2, <3>3 DEF InR
    <3>4. QED
      BY <2>1, <2>2, <3>1, <3>2, <3>3
  <2>3. ASSUME NEW j \in 1..Len(R'), NEW k \in 1..Len(JQManual'),
               R'[j].id = JQManual'[k].id
        PROVE  R'[j].frameID # JQManual'[k].frame /\ R'[j].frameID # 0
    <3>1. CASE j \in 1..Len(R)
      <4>1. R'[j] = R[j] /\ fm[k] \in 1..Len(JQManual) /\ JQManual'[k] = JQManual[fm[k]]
        BY <1>5, <1>14, <3>1
      <4>2. QED
        BY <1>2, <2>3, <3>1, <4>1 DEF RunOnce
    <3>2. CASE j = Len(R) + 1
      BY <1>5, <1>13, <2>3, <3>2 DEF InQueue
    <3>3. QED
      BY <2>1, <3>1, <3>2
  <2>4. QED
    BY <2>2, <2>3 DEF RunOnce
<1>18. AnimatedOnce'
  <2>1. ASSUME NEW a \in 1..Len(A) PROVE FramesOnce(A[a])'
    <3>1. FramesOnce(A[a])
      BY <1>2 DEF AnimatedOnce
    <3>2. ASSUME NEW j \in 1..Len(R'), R'[j].id = A[a].id
          PROVE  /\ R'[j].frameID # 0
                 /\ \A k \in 1..Len(A[a].frameQueue) :
                      R'[j].frameID # A[a].frameQueue[k]
      <4>1. CASE j \in 1..Len(R)
        BY <1>5, <3>1, <3>2, <4>1 DEF FramesOnce
      <4>2. CASE j = Len(R) + 1
        BY <1>5, <1>13, <3>2, <4>2 DEF InA
      <4>3. QED
        BY <1>5, <1>6, <4>1, <4>2
    <3>3. ASSUME NEW j \in 1..Len(JQManual'), JQManual'[j].id = A[a].id
          PROVE  \A k \in 1..Len(A[a].frameQueue) :
                   JQManual'[j].frame # A[a].frameQueue[k]
      BY <1>14, <3>1, <3>3 DEF FramesOnce
    <3>4. A' = A
      BY <1>3
    <3>5. QED
      BY <3>1, <3>2, <3>3, <3>4 DEF FramesOnce
  <2>2. QED
    BY <1>2, <1>3, <2>1 DEF AnimatedOnce
<1>19. QED
  BY <1>8, <1>9, <1>13, <1>15, <1>16, <1>17, <1>18 DEF First, Placed

\* At most one job per round is started; the lists keep their places.
LEMMA DispatchStarts ==
  ASSUME OrderInv, Dispatch
  PROVE  \/ /\ JQManual # <<>> /\ Head(JQManual) \in Task
            /\ Start(Head(JQManual), TRUE) /\ RunThread(Head(JQManual))
         \/ /\ JQManual = <<>> /\ JQ # <<>> /\ Head(JQ) \in Task
            /\ Start(Head(JQ), FALSE) /\ RunThread(Head(JQ))
         \/ /\ UNCHANGED <<R, queues, Submitted, newJobs, lastID, params, muxer, A>>
            /\ UNCHANGED <<db, reports>>
<1>1. UNCHANGED <<Submitted, newJobs, lastID, params, muxer, A>>
  BY DEF Dispatch, intake, anim
<1>2. JQManual \in Seq(Task) /\ JQ \in Seq(Task)
  BY DEF OrderInv, ThreadInv, Safe, TypeOK, QueueTypes
<1>3. CASE FreeThread /\ JQManual # <<>>
  BY <1>1, <1>2, <1>3, HeadTailProperties DEF Dispatch, RunThread, Start
<1>4. CASE FreeThread /\ JQManual = <<>> /\ JQ # <<>>
  BY <1>1, <1>2, <1>4, HeadTailProperties DEF Dispatch, RunThread, Start
<1>5. CASE ~(FreeThread /\ (JQManual # <<>> \/ JQ # <<>>))
  BY <1>1, <1>5 DEF Dispatch, queues
<1>6. QED
  BY <1>3, <1>4, <1>5

LEMMA DispatchPlaced ==
  ASSUME OrderInv, TypeOK', Dispatch
  PROVE  JobPlaces'
<1>1. newJobs = <<>> /\ newJobs' = newJobs /\ UNCHANGED <<lastID, params, muxer>>
  BY DEF OrderInv, JobPlaces, PostHasJobs, Dispatch, intake
<1>2. PostHasJobs' /\ MuxedKnown' /\ \A id : Muxed(id)' <=> Muxed(id)
  BY <1>1, MuxerKept DEF PostHasJobs, OrderInv, JobPlaces
<1>3. ASSUME NEW task \in Task, NEW manual \in BOOLEAN, Start(task, manual)
      PROVE  JobPlaces'
  BY <1>2, <1>3, StartPlaced DEF JobPlaces
<1>4. CASE UNCHANGED <<R, queues, Submitted, newJobs, lastID, params, muxer, A>>
  <2>1. Leaves
    BY <1>1, <1>4, SameLeft
    DEF Leaves, Leaving, LineLeaving, queues, OrderInv, ThreadInv, Safe
  <2>2. QED
    BY <1>2, <2>1, LeavesPlaced DEF Begun
<1>5. QED
  BY <1>3, <1>4, DispatchStarts

\* The submissions become the fetched jobs, in their order.
LEMMA FetchPlaced ==
  ASSUME OrderInv, FetchSubmittedJobs
  PROVE  JobPlaces' /\ \A id : InLine(id)' <=> InLine(id)
<1>1. /\ newJobs = <<>> /\ newJobs' = Submitted /\ Submitted' = <<>>
      /\ mainpc' = "post" /\ UNCHANGED <<lastID, params, muxer, queues, A, R>>
  BY DEF OrderInv, JobPlaces, PostHasJobs, FetchSubmittedJobs, ClearedSubmitted,
         intake, anim
<1>2. TypeOK /\ Placed /\ MuxedKnown
  BY DEF OrderInv, ThreadInv, Safe, JobPlaces
<1>3. JQ' = JQ /\ JQManual' = JQManual /\ params' = params /\ R' = R /\ A' = A
  BY <1>1 DEF queues
<1>4. Len(<<>>) = 0 /\ DOMAIN <<>> = {}
  BY EmptySeq
<1>5. MuxedKnown' /\ \A id : Muxed(id)' <=> Muxed(id)
  BY <1>1, <1>2, MuxerKept
<1>6. \A id : (InLine(id)' <=> InLine(id)) /\ (Begun(id)' <=> Begun(id))
  <2>1. \A id : InLine(id)' <=> InLine(id)
    BY <1>1, <1>3, <1>4 DEF InLine, ListedIn, ZeroIn
  <2>2. \A id : Begun(id)' <=> Begun(id)
    BY <1>3, <1>5 DEF Begun, Running, Holds, FrameIn
  <2>3. QED
    BY <2>1, <2>2
<1>7. LineOrder'
  <2>1. Increasing(Submitted)' /\ Increasing(newJobs)'
    BY <1>1, <1>2, <1>4 DEF Placed, LineOrder, Increasing
  <2>2. \A j \in 1..Len(newJobs'), k \in 1..Len(Submitted') : newJobs'[j] < Submitted'[k]
    BY <1>1, <1>4
  <2>3. \A q : Before(q, Submitted) => Before(q, newJobs') /\ Before(q, Submitted')
    BY <1>1, <1>4 DEF Before
  <2>4. QueueOrder(JQ, FALSE)' /\ QueueOrder(JQManual, TRUE)'
    BY <1>2, <1>3, <2>3 DEF Placed, LineOrder, QueueOrder, Before
  <2>5. QED
    BY <2>1, <2>2, <2>4 DEF LineOrder
<1>8. BegunFirst'
  BY <1>2, <1>3, <1>6 DEF Placed, BegunFirst
<1>9. QueuedOnce' /\ RunOnce' /\ AnimatedOnce'
  BY <1>2, <1>3 DEF Placed, QueuedOnce, RunOnce, AnimatedOnce, FramesOnce
<1>10. QED
  BY <1>1, <1>5, <1>6, <1>7, <1>8, <1>9 DEF JobPlaces, Placed, PostHasJobs

\* A fetched job joins the end of the queue of its kind.
LEMMA PostPlaced ==
  ASSUME OrderInv, TypeOK', PostJob
  PROVE  JobPlaces' /\ \A w : InLine(w)' => InLine(w)
<1> DEFINE id == Head(newJobs)
           task == [id |-> id, frame |-> 0]
           manual == params[id].manual
<1>1. /\ newJobs # <<>> /\ newJobs' = Tail(newJobs) /\ mainpc = "post" /\ mainpc' = mainpc
      /\ JQManual' = (IF manual THEN Append(JQManual, task) ELSE JQManual)
      /\ JQ' = (IF manual THEN JQ ELSE Append(JQ, task))
      /\ UNCHANGED <<Submitted, lastID, params, muxer, R, A>>
  BY DEF PostJob, PushBack, intake, anim
<1>2. /\ TypeOK /\ LineOrder /\ BegunFirst /\ QueuedOnce /\ RunOnce /\ AnimatedOnce
      /\ MuxedKnown
  BY DEF OrderInv, ThreadInv, Safe, JobPlaces, Placed
<1>3. /\ 1 \in 1..Len(newJobs) /\ newJobs[1] = id /\ id \in Ids
      /\ Len(newJobs') = Len(newJobs) - 1 /\ Len(newJobs) \in Nat
      /\ \A k \in 1..(Len(newJobs) - 1) :
           k + 1 \in 1..Len(newJobs) /\ newJobs'[k] = newJobs[k + 1]
  <2>1. newJobs \in Seq(Ids)
    BY <1>2 DEF TypeOK, LoopTypes
  <2>2. QED
    BY <1>1, <2>1, HeadTailProperties, EmptySeq, LenProperties
<1>4. task \in Task /\ task.id = id /\ task.frame = 0 /\ manual \in BOOLEAN
  BY <1>2, <1>3 DEF Task, TypeOK, IntakeTypes, Kind
<1> DEFINE q == IF manual THEN JQManual ELSE JQ
<1> HIDE DEF task, manual
<1>5. /\ Len(Append(q, task)) = Len(q) + 1 /\ Append(q, task)[Len(q) + 1] = task
      /\ Len(q) \in Nat /\ \A k \in 1..Len(q) : Append(q, task)[k] = q[k]
      /\ \A k \in 1..(Len(q) + 1) : k \in 1..Len(q) \/ k = Len(q) + 1
  <2>1. q \in Seq(Task)
    BY <1>2 DEF TypeOK, QueueTypes
  <2>2. QED
    BY <1>4, <2>1, AppendProperties, LenProperties
<1>6. ListedIn(newJobs, id) /\ InLine(id)
  BY <1>2, <1>3, Lengths DEF ListedIn, InLine
<1>7. ~Begun(id)
  BY <1>2, <1>3, <1>6 DEF BegunFirst, Ids
<1>8. QueueOrder(q, manual)
  BY <1>2, <1>4 DEF LineOrder
<1>9. \A k \in 1..Len(q) : q[k] # task
  <2> SUFFICES ASSUME NEW k \in 1..Len(q), q[k] = task PROVE FALSE
    OBVIOUS
  <2>1. q[k].frame = 0 /\ q[k].id = id
    BY <1>4
  <2>2. id < newJobs[1]
    BY <1>3, <1>8, <2>1 DEF QueueOrder, Before
  <2>3. QED
    BY <1>3, <2>2 DEF Ids
<1>10. /\ \A w : ListedIn(newJobs, w)' => ListedIn(newJobs, w)
       /\ \A w : /\ ZeroIn(Append(q, task), w) => ZeroIn(q, w) \/ w = id
                 /\ FrameIn(Append(q, task), w) => FrameIn(q, w)
  <2>1. \A w : ListedIn(newJobs, w)' => ListedIn(newJobs, w)
    <3>1. DOMAIN newJobs' = 1..Len(newJobs')
      BY LenProperties DEF TypeOK, LoopTypes
    <3>2. QED
      BY <1>2, <1>3, <3>1, Lengths DEF ListedIn
  <2>2. \A w : ZeroIn(Append(q, task), w) => ZeroIn(q, w) \/ w = id
    BY <1>4, <1>5 DEF ZeroIn
  <2>3. \A w : FrameIn(Append(q, task), w) => FrameIn(q, w)
    BY <1>4, <1>5 DEF FrameIn
  <2>4. QED
    BY <2>1, <2>2, <2>3
<1>11. \A w : (InLine(w)' => InLine(w)) /\ (Begun(w)' => Begun(w))
  <2>1. \A w : InLine(w)' => InLine(w)
    BY <1>1, <1>6, <1>10 DEF InLine, ListedIn
  <2>2. \A w : Muxed(w)' <=> Muxed(w)
    BY <1>1, <1>2, MuxerKept
  <2>3. \A w : FrameIn(JQManual, w)' => FrameIn(JQManual, w)
    BY <1>1, <1>10
  <2>4. \A w : (Running(w)' <=> Running(w)) /\ (Holds(A, w)' <=> Holds(A, w))
    BY <1>1 DEF Running, Holds
  <2>5. QED
    BY <2>1, <2>2, <2>3, <2>4 DEF Begun
<1>12. LineOrder'
  <2>1. Increasing(Submitted)'
    BY <1>1, <1>2 DEF LineOrder, Increasing
  <2>2. Increasing(newJobs)'
    BY <1>2, <1>3 DEF LineOrder, Increasing
  <2>3. \A j \in 1..Len(newJobs'), k \in 1..Len(Submitted') : newJobs'[j] < Submitted'[k]
    BY <1>1, <1>2, <1>3 DEF LineOrder
  <2>4. ASSUME NEW p, NEW m, QueueOrder(p, m)
        PROVE  Before(p, newJobs') /\ Before(p, Submitted')
    BY <1>1, <1>3, <2>4 DEF QueueOrder, Before
  <2>5. /\ \A j, k \in 1..Len(Append(q, task)) :
             j < k /\ Append(q, task)[j].frame = 0 /\ Append(q, task)[k].frame = 0
             => Append(q, task)[j].id < Append(q, task)[k].id
        /\ \A k \in 1..Len(Append(q, task)) :
             Append(q, task)[k].frame = 0 => params[Append(q, task)[k].id].manual = manual
    <3>1. ASSUME NEW j \in 1..(Len(q) + 1), NEW k \in 1..(Len(q) + 1), j < k,
                 Append(q, task)[j].frame = 0, Append(q, task)[k].frame = 0
          PROVE  Append(q, task)[j].id < Append(q, task)[k].id
      <4>1. j \in 1..Len(q)
        BY <1>5, <3>1
      <4>2. CASE k \in 1..Len(q)
        BY <1>5, <1>8, <3>1, <4>1, <4>2 DEF QueueOrder
      <4>3. CASE k = Len(q) + 1
        BY <1>3, <1>4, <1>5, <1>8, <3>1, <4>1, <4>3 DEF QueueOrder, Before
      <4>4. QED
        BY <1>5, <4>2, <4>3
    <3>2. ASSUME NEW k \in 1..(Len(q) + 1), Append(q, task)[k].frame = 0
          PROVE  params[Append(q, task)[k].id].manual = manual
      BY <1>4, <1>5, <1>8, <3>2 DEF QueueOrder, manual
    <3>3. QED
      BY <1>5, <3>1, <3>2
  <2>6. Before(Append(q, task), newJobs') /\ Before(Append(q, task), Submitted')
    <3>1. \A k \in 1..Len(newJobs') : id < newJobs'[k]
      BY <1>2, <1>3 DEF LineOrder, Increasing
    <3>2. \A k \in 1..Len(Submitted') : id < Submitted'[k]
      BY <1>1, <1>2, <1>3 DEF LineOrder
    <3>3. Before(q, newJobs') /\ Before(q, Submitted')
      BY <1>8, <2>4
    <3>4. QED
      BY <1>4, <1>5, <3>1, <3>2, <3>3 DEF Before
  <2>7. QueueOrder(JQ, FALSE) /\ QueueOrder(JQManual, TRUE) /\ params' = params
    BY <1>1, <1>2 DEF LineOrder
  <2> HIDE DEF q
  <2>8. QueueOrder(JQ, FALSE)'
    <3>1. CASE manual
      BY <1>1, <2>4, <2>7, <3>1 DEF QueueOrder, Before
    <3>2. CASE ~manual
      <4>1. JQ' = Append(q, task) /\ manual = FALSE
        BY <1>1, <1>4, <3>2 DEF q
      <4>2. QED
        BY <2>5, <2>6, <2>7, <4>1 DEF QueueOrder, Before
    <3>3. QED
      BY <3>1, <3>2
  <2>9. QueueOrder(JQManual, TRUE)'
    <3>1. CASE ~manual
      BY <1>1, <2>4, <2>7, <3>1 DEF QueueOrder, Before
    <3>2. CASE manual
      <4>1. JQManual' = Append(q, task) /\ manual = TRUE
        BY <1>1, <1>4, <3>2 DEF q
      <4>2. QED
        BY <2>5, <2>6, <2>7, <4>1 DEF QueueOrder, Before
    <3>3. QED
      BY <3>1, <3>2
  <2>10. QED
    BY <2>1, <2>2, <2>3, <2>8, <2>9 DEF LineOrder
<1>13. BegunFirst'
  BY <1>1, <1>2, <1>11 DEF BegunFirst
<1> DEFINE m == Len(JQManual)
<1>14. /\ \A k \in 1..Len(JQManual') :
            \/ k \in 1..m /\ JQManual'[k] = JQManual[k]
            \/ JQManual'[k] = task /\ k = m + 1 /\ manual
       /\ m \in Nat
  BY <1>1, <1>2, <1>4, <1>5, Lengths
<1>15. QueuedOnce'
  <2>1. \A k \in 1..Len(JQ') : JQ'[k].frame = 0
    BY <1>1, <1>2, <1>4, <1>5 DEF QueuedOnce
  <2>2. \A k \in 1..Len(JQManual') : JQManual'[k].frame # 1
    BY <1>2, <1>4, <1>14 DEF QueuedOnce
  <2>3. ASSUME NEW j \in 1..Len(JQManual'), NEW k \in 1..Len(JQManual'), j # k
        PROVE  JQManual'[j] # JQManual'[k]
    <3>1. CASE j \in 1..m /\ k \in 1..m
      BY <1>2, <1>14, <2>3, <3>1 DEF QueuedOnce
    <3>2. CASE (j = m + 1 /\ k \in 1..m /\ manual) \/ (k = m + 1 /\ j \in 1..m /\ manual)
      BY <1>9, <1>14, <3>2
    <3>3. QED
      BY <1>14, <2>3, <3>1, <3>2
  <2>4. QED
    BY <2>1, <2>2, <2>3 DEF QueuedOnce
<1>16. /\ \A k \in 1..Len(R) : R[k].id # id
       /\ \A k \in 1..Len(A) : A[k].id # id
  BY <1>2, <1>7, Lengths DEF Begun, Running, Holds
<1>17. RunOnce'
  <2>1. \A j \in 1..Len(R), k \in 1..Len(JQManual') :
          R[j].id = JQManual'[k].id
          => R[j].frameID # JQManual'[k].frame /\ R[j].frameID # 0
    BY <1>2, <1>4, <1>14, <1>16 DEF RunOnce
  <2>2. QED
    BY <1>1, <1>2, <2>1 DEF RunOnce
<1>18. AnimatedOnce'
  <2>1. ASSUME NEW a \in 1..Len(A) PROVE FramesOnce(A[a])'
    <3>1. FramesOnce(A[a])
      BY <1>2 DEF AnimatedOnce
    <3>2. \A j \in 1..Len(JQManual') : JQManual'[j].id = A[a].id =>
            \A k \in 1..Len(A[a].frameQueue) : JQManual'[j].frame # A[a].frameQueue[k]
      BY <1>4, <1>14, <1>16, <3>1 DEF FramesOnce
    <3>3. R' = R /\ A' = A
      BY <1>1
    <3>4. QED
      BY <3>1, <3>2, <3>3 DEF FramesOnce
  <2>2. QED
    BY <1>1, <1>2, <2>1 DEF AnimatedOnce
<1>19. MuxedKnown'
  BY <1>1, <1>2, MuxerKept
<1>20. QED
  BY <1>1, <1>11, <1>12, <1>13, <1>15, <1>17, <1>18, <1>19
  DEF JobPlaces, Placed, PostHasJobs

\* Frames of the animation main has reached move to the end of the manual queue.
FramesMove ==
  /\ it \in 1..Len(A) /\ Len(A') = Len(A)
  /\ \A k \in 1..Len(A) : k # it => A'[k] = A[k]
  /\ A'[it].id = A[it].id /\ A[it].framesRendering \subseteq A'[it].framesRendering
  /\ \A k \in 1..Len(A[it].frameQueue) :
       \/ \E j \in 1..Len(A'[it].frameQueue) :
            A'[it].frameQueue[j] = A[it].frameQueue[k]
       \/ /\ A[it].frameQueue[k] \in A'[it].framesRendering
          /\ \E j \in 1..Len(JQManual') :
               /\ JQManual'[j].id = A[it].id
               /\ JQManual'[j].frame = A[it].frameQueue[k]
  /\ \A k \in 1..Len(JQManual) : k \in 1..Len(JQManual') /\ JQManual'[k] = JQManual[k]

LEMMA FramesPlaced ==
  ASSUME OrderInv, TypeOK', QueueFrames
  PROVE  /\ JobPlaces' /\ \A w : InLine(w)' <=> InLine(w)
         /\ UNCHANGED <<JQManual, A>> \/ FramesMove
<1>1. /\ newJobs = <<>> /\ newJobs' = newJobs
      /\ UNCHANGED <<Submitted, lastID, params, muxer, R>>
  BY DEF OrderInv, JobPlaces, PostHasJobs, QueueFrames, intake
<1>2. /\ TypeOK /\ LineOrder /\ BegunFirst /\ QueuedOnce /\ RunOnce /\ AnimatedOnce
      /\ MuxedKnown
  BY DEF OrderInv, ThreadInv, Safe, JobPlaces, Placed
<1>3. MuxedKnown' /\ PostHasJobs' /\ \A w : Muxed(w)' <=> Muxed(w)
  BY <1>1, <1>2, MuxerKept DEF PostHasJobs
<1>4. CASE ~(count > 0 /\ it <= Len(A))
  <2>1. UNCHANGED <<queues, A>>
    BY <1>4 DEF QueueFrames
  <2>2. JQ' = JQ /\ JQManual' = JQManual
    BY <2>1 DEF queues
  <2>3. Leaves
    BY <1>1, <1>2, <2>1, SameLeft DEF Leaves, Leaving, LineLeaving, queues
  <2>4. \A w : InLine(w)' <=> InLine(w)
    BY <1>1, <2>2 DEF InLine, ListedIn, ZeroIn
  <2>5. QED
    BY <1>3, <2>1, <2>2, <2>3, <2>4, LeavesPlaced DEF Begun
<1>5. CASE count > 0 /\ it <= Len(A)
  <2> DEFINE a == A[it]
             n == IF count < Len(a.frameQueue) THEN count ELSE Len(a.frameQueue)
             tasks == [k \in 1..n |-> [id |-> a.id, frame |-> a.frameQueue[k]]]
             rest == SubSeq(a.frameQueue, n + 1, Len(a.frameQueue))
             b == [a EXCEPT !.frameQueue = rest,
                            !.framesRendering = @ \cup {tasks[k].frame : k \in 1..n}]
  <2>1. /\ it \in 1..Len(A) /\ a \in Animation /\ a.id \in Ids
        /\ a.frameQueue \in Seq(Nat) /\ Len(a.frameQueue) \in Nat /\ count \in Nat
    <3>1. it \in 1..Len(A) /\ count \in Nat
      BY <1>2, <1>5, Lengths DEF TypeOK, LoopTypes
    <3>2. a.frameQueue \in Seq(Nat)
      BY <1>2, <3>1, Entries
    <3>3. QED
      BY <1>2, <3>1, <3>2, Entries, LenProperties
  <2>2. FramesOnce(a) /\ a.manualQueue
    BY <1>2, <2>1 DEF AnimatedOnce, FramesOnce
  <2>3. A' = [A EXCEPT ![it] = b] /\ JQManual' = JQManual \o tasks /\ JQ' = JQ
    BY <1>5, <2>2 DEF QueueFrames
  <2>4. n \in Nat /\ n <= Len(a.frameQueue)
    BY <2>1
  <2> HIDE DEF n
  <2>5. \A k \in 1..n : /\ k \in 1..Len(a.frameQueue) /\ a.frameQueue[k] \in Nat
                        /\ tasks[k].id = a.id /\ tasks[k].frame = a.frameQueue[k]
                        /\ tasks[k] \in Task
    <3>1. \A k \in 1..n : k \in 1..Len(a.frameQueue) /\ a.frameQueue[k] \in Nat
      BY <2>1, <2>4, ElementOfSeq
    <3>2. QED
      BY <2>1, <3>1 DEF Task
  <2>6. /\ rest \in Seq(Nat) /\ Len(rest) = Len(a.frameQueue) - n
        /\ \A k \in 1..Len(rest) : n + k \in 1..Len(a.frameQueue)
                                   /\ rest[k] = a.frameQueue[n + k]
    <3>1. \A k \in (n + 1)..Len(a.frameQueue) : a.frameQueue[k] \in Nat
      BY <2>1, <2>4, ElementOfSeq
    <3>2. /\ rest \in Seq(Nat)
          /\ Len(rest) = IF n + 1 <= Len(a.frameQueue)
                         THEN Len(a.frameQueue) - (n + 1) + 1 ELSE 0
          /\ \A k \in 1..(Len(a.frameQueue) - (n + 1) + 1) :
               rest[k] = a.frameQueue[(n + 1) + k - 1]
      BY <2>1, <2>4, <3>1, SubSeqProperties
    <3> HIDE DEF rest
    <3>3. QED
      BY <2>1, <2>4, <3>2
  <2>7. /\ Len(JQManual') = Len(JQManual) + n /\ Len(JQManual) \in Nat
        /\ \A k \in 1..Len(JQManual) : JQManual'[k] = JQManual[k]
        /\ \A k \in 1..Len(JQManual') :
             \/ k \in 1..Len(JQManual) /\ JQManual'[k] = JQManual[k]
             \/ /\ k - Len(JQManual) \in 1..n /\ k > Len(JQManual)
                /\ JQManual'[k] = tasks[k - Len(JQManual)]
    <3>1. tasks \in Seq(Task) /\ Len(tasks) = n
      BY <2>4, <2>5, IsASeq
    <3>2. JQManual \in Seq(Task)
      BY <1>2 DEF TypeOK, QueueTypes
    <3> HIDE DEF tasks
    <3>3. /\ Len(JQManual') = Len(JQManual) + n /\ Len(JQManual) \in Nat
          /\ \A k \in 1..(Len(JQManual) + n) :
               JQManual'[k] = IF k <= Len(JQManual) THEN JQManual[k]
                              ELSE tasks[k - Len(JQManual)]
      BY <2>3, <3>1, <3>2, ConcatProperties, LenProperties
    <3>4. QED
      BY <2>4, <3>3
  <2>8. /\ b.id = a.id /\ b.manualQueue = a.manualQueue /\ b.frameQueue = rest
    BY <2>1 DEF Animation
  <2>9. /\ Len(A') = Len(A)
        /\ \A k \in 1..Len(A) : A'[k] = IF k = it THEN b ELSE A[k]
        /\ \A k \in 1..Len(A) : A'[k].id = A[k].id
    <3>1. b \in Animation
      <4>1. a.framesRendering \subseteq Nat
        BY <2>1 DEF Animation
      <4>2. {tasks[k].frame : k \in 1..n} \subseteq Nat
        BY <2>5
      <4> HIDE DEF tasks, rest, a
      <4>3. QED
        BY <2>1, <2>6, <4>1, <4>2 DEF Animation
    <3>2. A \in Seq(Animation)
      BY <1>2 DEF TypeOK, AnimTypes
    <3> HIDE DEF b
    <3>3. /\ Len(A') = Len(A)
          /\ \A k \in 1..Len(A) : A'[k] = IF k = it THEN b ELSE A[k]
      BY <2>1, <2>3, <3>1, <3>2, ExceptSeq
    <3>4. QED
      BY <2>8, <3>3
  <2>10. \A k \in 1..n : tasks[k].frame >= 2
    BY <2>2, <2>5 DEF FramesOnce
  <2>11. \A j, k \in 1..Len(a.frameQueue) : j # k => a.frameQueue[j] # a.frameQueue[k]
    BY <2>2 DEF FramesOnce
  <2>12. FramesMove
    <3>1. /\ A'[it].id = a.id /\ A'[it].frameQueue = rest
          /\ A'[it].framesRendering
             = a.framesRendering \cup {tasks[k].frame : k \in 1..n}
      BY <2>1, <2>9 DEF Animation
    <3>2. ASSUME NEW k \in 1..Len(a.frameQueue)
          PROVE  \/ \E j \in 1..Len(rest) : rest[j] = a.frameQueue[k]
                 \/ /\ a.frameQueue[k] \in A'[it].framesRendering
                    /\ \E j \in 1..Len(JQManual') :
                         /\ JQManual'[j].id = a.id
                         /\ JQManual'[j].frame = a.frameQueue[k]
      <4>1. CASE k <= n
        <5>1. k \in 1..n /\ tasks[k].frame = a.frameQueue[k] /\ tasks[k].id = a.id
          BY <2>4, <2>5, <4>1
        <5>2. a.frameQueue[k] \in A'[it].framesRendering
          BY <3>1, <5>1
        <5>3. /\ Len(JQManual) + k \in 1..Len(JQManual')
              /\ JQManual'[Len(JQManual) + k] = tasks[k]
          <6>1. /\ Len(JQManual) + k \in 1..Len(JQManual')
                /\ ~(Len(JQManual) + k \in 1..Len(JQManual))
                /\ (Len(JQManual) + k) - Len(JQManual) = k
            BY <2>4, <2>7, <5>1
          <6>2. QED
            BY <2>7, <6>1
        <5>4. QED
          BY <5>1, <5>2, <5>3
      <4>2. CASE ~(k <= n)
        <5>1. k - n \in 1..Len(rest) /\ n + (k - n) = k
          BY <2>1, <2>4, <2>6, <4>2
        <5>2. QED
          BY <2>6, <5>1
      <4>3. QED
        BY <4>1, <4>2
    <3>3. \A k \in 1..Len(JQManual) : k \in 1..Len(JQManual') /\ JQManual'[k] = JQManual[k]
      BY <2>4, <2>7
    <3> HIDE DEF tasks, rest, b
    <3>4. QED
      BY <2>1, <2>9, <3>1, <3>2, <3>3 DEF FramesMove
  <2> HIDE DEF tasks, rest, b, a
  <2>13. \A w : /\ InLine(w)' <=> InLine(w)
                /\ FrameIn(JQManual, w)' => FrameIn(JQManual, w) \/ w = a.id
    <3>1. \A w : ZeroIn(JQManual, w)' <=> ZeroIn(JQManual, w)
      <4> SUFFICES ASSUME NEW w PROVE ZeroIn(JQManual, w)' <=> ZeroIn(JQManual, w)
        OBVIOUS
      <4>1. ZeroIn(JQManual, w)' => ZeroIn(JQManual, w)
        BY <2>7, <2>10 DEF ZeroIn
      <4>2. \A k \in 1..Len(JQManual) : k \in 1..Len(JQManual')
        BY <2>4, <2>7
      <4>3. ZeroIn(JQManual, w) => ZeroIn(JQManual, w)'
        BY <2>7, <4>2 DEF ZeroIn
      <4>4. QED
        BY <4>1, <4>3
    <3>2. \A w : FrameIn(JQManual, w)' => FrameIn(JQManual, w) \/ w = a.id
      BY <2>5, <2>7 DEF FrameIn
    <3>3. \A w : InLine(w)' <=> InLine(w)
      BY <1>1, <2>3, <3>1 DEF InLine, ListedIn, ZeroIn
    <3>4. QED
      BY <3>2, <3>3
  <2>14. \A w : Begun(w)' => Begun(w)
    <3>1. Holds(A, a.id)
      BY <1>2, <2>1, Lengths DEF Holds, a
    <3>2. \A w : Holds(A, w)' => Holds(A, w)
      <4>1. DOMAIN A' = 1..Len(A') /\ DOMAIN A = 1..Len(A)
        BY <1>2, Lengths, LenProperties DEF TypeOK, AnimTypes
      <4>2. QED
        BY <2>9, <4>1 DEF Holds
    <3>3. \A w : Running(w)' <=> Running(w)
      BY <1>1 DEF Running, Holds
    <3>4. QED
      BY <1>3, <2>13, <3>1, <3>2, <3>3 DEF Begun
  <2>15. LineOrder'
    <3>1. QueueOrder(JQManual, TRUE) /\ QueueOrder(JQ, FALSE)
      BY <1>2 DEF LineOrder
    <3>2. \A k \in 1..Len(JQManual') : JQManual'[k].frame = 0
            => k \in 1..Len(JQManual) /\ JQManual'[k] = JQManual[k]
      BY <2>7, <2>10
    <3>3. QueueOrder(JQManual, TRUE)'
      <4>1. \A j, k \in 1..Len(JQManual') :
              j < k /\ JQManual'[j].frame = 0 /\ JQManual'[k].frame = 0
              => JQManual'[j].id < JQManual'[k].id
        BY <3>1, <3>2 DEF QueueOrder
      <4>2. \A k \in 1..Len(JQManual') : JQManual'[k].frame = 0
              => params'[JQManual'[k].id].manual = TRUE
        BY <1>1, <3>1, <3>2 DEF QueueOrder
      <4>3. Before(JQManual', newJobs') /\ Before(JQManual', Submitted')
        BY <1>1, <3>1, <3>2 DEF QueueOrder, Before
      <4>4. QED
        BY <4>1, <4>2, <4>3 DEF QueueOrder, Before
    <3>4. QueueOrder(JQ, FALSE)'
      BY <1>1, <2>3, <3>1 DEF QueueOrder, Before
    <3>5. QED
      BY <1>1, <1>2, <3>3, <3>4 DEF LineOrder, Increasing
  <2>16. BegunFirst'
    BY <1>1, <1>2, <2>13, <2>14 DEF BegunFirst
  <2>17. QueuedOnce'
    <3>1. \A k \in 1..Len(JQManual') : JQManual'[k].frame # 1
      BY <1>2, <2>7, <2>10 DEF QueuedOnce
    <3>2. ASSUME NEW j \in 1..Len(JQManual'), NEW k \in 1..Len(JQManual'), j < k
          PROVE  JQManual'[j] # JQManual'[k]
      <4>1. CASE k \in 1..Len(JQManual)
        <5>1. j \in 1..Len(JQManual)
          BY <2>4, <2>7, <3>2, <4>1
        <5>2. QED
          BY <1>2, <2>7, <3>2, <4>1, <5>1 DEF QueuedOnce
      <4>2. CASE k \notin 1..Len(JQManual)
        <5>1. /\ k - Len(JQManual) \in 1..n
              /\ JQManual'[k] = tasks[k - Len(JQManual)]
          BY <2>7, <4>2
        <5>2. JQManual'[k].id = a.id /\ JQManual'[k].frame = a.frameQueue[k - Len(JQManual)]
          BY <2>5, <5>1
        <5>3. CASE j \in 1..Len(JQManual)
          <6>1. JQManual[j].id = a.id => JQManual[j].frame # a.frameQueue[k - Len(JQManual)]
            BY <2>2, <2>5, <5>1, <5>3 DEF FramesOnce
          <6>2. QED
            BY <2>7, <5>2, <5>3, <6>1
        <5>4. CASE j \notin 1..Len(JQManual)
          <6>1. /\ j - Len(JQManual) \in 1..n
                /\ JQManual'[j] = tasks[j - Len(JQManual)]
            BY <2>7, <5>4
          <6>2. JQManual'[j].frame = a.frameQueue[j - Len(JQManual)]
            BY <2>5, <6>1
          <6>3. j - Len(JQManual) # k - Len(JQManual)
            BY <2>7, <3>2
          <6>4. a.frameQueue[j - Len(JQManual)] # a.frameQueue[k - Len(JQManual)]
            BY <2>5, <2>11, <5>1, <6>1, <6>3
          <6>5. QED
            BY <5>2, <6>2, <6>4
        <5>5. QED
          BY <5>3, <5>4
      <4>3. QED
        BY <4>1, <4>2
    <3>3. \A j, k \in 1..Len(JQManual') : j # k => JQManual'[j] # JQManual'[k]
      <4>1. \A j, k \in 1..Len(JQManual') : j # k => j < k \/ k < j
        BY <2>4, <2>7
      <4>2. QED
        BY <3>2, <4>1
    <3>4. QED
      BY <1>2, <2>3, <3>1, <3>3 DEF QueuedOnce
  <2>18. RunOnce'
    <3>1. ASSUME NEW j \in 1..Len(R), NEW k \in 1..Len(JQManual'),
                 R[j].id = JQManual'[k].id
          PROVE  R[j].frameID # JQManual'[k].frame /\ R[j].frameID # 0
      <4>1. CASE k \in 1..Len(JQManual)
        BY <1>2, <2>7, <3>1, <4>1 DEF RunOnce
      <4>2. CASE k \notin 1..Len(JQManual)
        <5>1. /\ k - Len(JQManual) \in 1..n
              /\ JQManual'[k] = tasks[k - Len(JQManual)]
          BY <2>7, <4>2
        <5>2. /\ JQManual'[k].id = a.id
              /\ JQManual'[k].frame = a.frameQueue[k - Len(JQManual)]
              /\ k - Len(JQManual) \in 1..Len(a.frameQueue)
          BY <2>5, <5>1
        <5>3. QED
          BY <2>2, <3>1, <5>2 DEF FramesOnce
      <4>3. QED
        BY <4>1, <4>2
    <3>2. QED
      BY <1>1, <1>2, <3>1 DEF RunOnce
  <2>19. AnimatedOnce'
    <3>1. ASSUME NEW x \in 1..Len(A), x # it PROVE FramesOnce(A[x])'
      <4>1. FramesOnce(A[x]) /\ A[x].id # a.id /\ A'[x] = A[x]
        BY <1>2, <2>1, <2>9, <3>1 DEF AnimatedOnce, a
      <4>2. \A j \in 1..Len(JQManual') : JQManual'[j].id = A[x].id =>
              \A k \in 1..Len(A[x].frameQueue) : JQManual'[j].frame # A[x].frameQueue[k]
        <5>1. \A j \in 1..Len(JQManual') : JQManual'[j].id = A[x].id =>
                j \in 1..Len(JQManual) /\ JQManual'[j] = JQManual[j]
          BY <2>5, <2>7, <4>1
        <5>2. QED
          BY <4>1, <5>1 DEF FramesOnce
      <4>3. R' = R
        BY <1>1
      <4>4. QED
        BY <4>1, <4>2, <4>3 DEF FramesOnce
    <3>2. ASSUME NEW x \in 1..Len(A), x = it PROVE FramesOnce(A[x])'
      <4>1. A'[x].id = a.id /\ A'[x].frameQueue = rest /\ A'[x].manualQueue
        BY <2>1, <2>2, <2>8, <2>9, <3>2
      <4>2. /\ \A k \in 1..Len(rest) : rest[k] >= 2
            /\ \A j \in 1..Len(R) : R[j].id = a.id =>
                 R[j].frameID # 0 /\ \A k \in 1..Len(rest) : R[j].frameID # rest[k]
        BY <2>2, <2>6 DEF FramesOnce
      <4>3. ASSUME NEW j \in 1..Len(rest), NEW k \in 1..Len(rest), j # k
            PROVE  rest[j] # rest[k]
        <5>1. n + j # n + k
          BY <2>4, <4>3
        <5>2. QED
          BY <2>6, <2>11, <5>1
      <4>4. ASSUME NEW j \in 1..Len(JQManual'), JQManual'[j].id = a.id,
                   NEW k \in 1..Len(rest)
            PROVE  JQManual'[j].frame # rest[k]
        <5>1. CASE j \in 1..Len(JQManual)
          <6>1. JQManual'[j] = JQManual[j] /\ n + k \in 1..Len(a.frameQueue)
            BY <2>6, <2>7, <5>1
          <6>2. JQManual[j].frame # a.frameQueue[n + k]
            BY <2>2, <4>4, <5>1, <6>1 DEF FramesOnce
          <6>3. QED
            BY <2>6, <6>1, <6>2
        <5>2. CASE j \notin 1..Len(JQManual)
          <6>1. /\ j - Len(JQManual) \in 1..n
                /\ JQManual'[j] = tasks[j - Len(JQManual)]
            BY <2>7, <5>2
          <6>2. /\ JQManual'[j].frame = a.frameQueue[j - Len(JQManual)]
                /\ j - Len(JQManual) # n + k
            BY <2>4, <2>5, <6>1
          <6>3. QED
            BY <2>5, <2>6, <2>11, <6>1, <6>2
        <5>3. QED
          BY <5>1, <5>2
      <4>5. R' = R
        BY <1>1
      <4>6. QED
        BY <4>1, <4>2, <4>3, <4>4, <4>5 DEF FramesOnce
    <3>3. \A j, k \in 1..Len(A') : j # k => A'[j].id # A'[k].id
      BY <1>2, <2>9 DEF AnimatedOnce
    <3>4. QED
      BY <2>9, <3>1, <3>2, <3>3 DEF AnimatedOnce
  <2>20. QED
    BY <1>3, <2>12, <2>13, <2>15, <2>16, <2>17, <2>18, <2>19 DEF JobPlaces, Placed
<1>6. QED
  BY <1>4, <1>5

\* Job i becomes frame 1 of its animation, whose other frames wait in A.
AnimMove(i) ==
  /\ Len(R') = Len(R) /\ \A k \in 1..Len(R) : k # i => R'[k] = R[k]
  /\ R[i].pc = "enqueue" /\ R[i].frameID = 0
  /\ R'[i] = [R[i] EXCEPT !.frameID = 1, !.pc = "construct"]
  /\ Len(A') = Len(A) + 1 /\ \A k \in 1..Len(A) : A'[k] = A[k]
  /\ A'[Len(A) + 1].id = R[i].id
  /\ \A f \in 2..params[R[i].id].frames :
       \E k \in 1..Len(A'[Len(A) + 1].frameQueue) : A'[Len(A) + 1].frameQueue[k] = f

LEMMA AnimatePlaced ==
  ASSUME OrderInv, TypeOK', NEW i \in DOMAIN R, AddAnimationToQueue(i)
  PROVE  /\ JobPlaces' /\ \A w : Running(w)' <=> Running(w)
         /\ UNCHANGED <<Submitted, newJobs, queues, muxer, lastID, params, db>>
         /\ AnimMove(i)
<1> DEFINE id == R[i].id
           frames == [k \in 1..(params[id].frames - 1) |-> k + 1]
           a == [id |-> id, manualQueue |-> AnimationManualQueue(id),
                 frameQueue |-> frames, framesRendering |-> {}]
           job == [R[i] EXCEPT !.frameID = 1, !.pc = "construct"]
<1>1. /\ A' = Append(A, a) /\ R' = [R EXCEPT ![i] = job] /\ R[i].pc = "enqueue"
      /\ UNCHANGED <<Submitted, newJobs, queues, muxer, lastID, params, mainpc, db>>
  <2>1. R[i] \in RenderingJob
    BY Lengths, Entries DEF OrderInv, ThreadInv, Safe
  <2>2. R' = [R EXCEPT ![i] = job]
    BY <2>1 DEF AddAnimationToQueue
  <2>3. QED
    BY <2>2 DEF AddAnimationToQueue, At, RenderFrame, intake, loop, store
<1>2. /\ TypeOK /\ LineOrder /\ BegunFirst /\ QueuedOnce /\ RunOnce /\ AnimatedOnce
      /\ MuxedKnown /\ PostHasJobs
  BY DEF OrderInv, ThreadInv, Safe, JobPlaces, Placed
<1>3. i \in 1..Len(R) /\ R[i] \in RenderingJob /\ id \in Ids /\ Len(R) \in Nat
  BY <1>2, Lengths, Entries
<1>4. R[i].frameID = 0
  BY <1>1, <1>3 DEF OrderInv, ThreadInv, AllKnown, KnownThreads, Spawning
<1>5. job \in RenderingJob /\ job.id = id /\ job.frameID = 1
  BY <1>3 DEF RenderingJob, RenderPC
<1>6. params[id].frames \in Nat
  BY <1>2, <1>3 DEF TypeOK, IntakeTypes, Kind
<1>7. /\ Len(frames) \in Nat
      /\ \A k \in 1..Len(frames) : frames[k] = k + 1
      /\ \A f \in 2..params[id].frames : f - 1 \in 1..Len(frames)
  <2>1. CASE params[id].frames = 0
    <3>1. 1..(params[id].frames - 1) = 1..0
      BY <2>1
    <3>2. frames = [k \in 1..0 |-> k + 1]
      BY <3>1
    <3>3. [k \in 1..0 |-> k + 1] \in Seq(Nat) /\ Len([k \in 1..0 |-> k + 1]) = 0
      BY IsASeq
    <3> HIDE DEF frames
    <3>4. Len(frames) = 0
      BY <3>2, <3>3
    <3>5. QED
      BY <2>1, <3>4
  <2>2. CASE params[id].frames # 0
    <3>1. params[id].frames - 1 \in Nat
      BY <1>6, <2>2
    <3>2. frames \in Seq(Nat) /\ Len(frames) = params[id].frames - 1
      BY <3>1, IsASeq
    <3>3. \A k \in 1..Len(frames) : frames[k] = k + 1
      BY <3>2
    <3> HIDE DEF frames
    <3>4. QED
      BY <1>6, <3>1, <3>2, <3>3
  <2>3. QED
    BY <2>1, <2>2
<1>8. a.id = id /\ a.manualQueue /\ a.frameQueue = frames
  BY DEF AnimationManualQueue
<1> HIDE DEF id, frames, a, job
<1>9. /\ Len(R') = Len(R) /\ DOMAIN R' = 1..Len(R) /\ DOMAIN R = 1..Len(R)
      /\ \A k \in 1..Len(R) : R'[k] = IF k = i THEN job ELSE R[k]
      /\ \A k \in 1..Len(R) : R'[k].id = R[k].id
  <2>1. /\ R' \in Seq(RenderingJob) /\ Len(R') = Len(R)
        /\ \A k \in 1..Len(R) : R'[k] = IF k = i THEN job ELSE R[k]
    BY <1>1, <1>2, <1>5, ThreadFacts DEF TypeOK
  <2>2. QED
    BY <1>2, <1>5, <2>1, LenProperties, Lengths DEF id
<1>10. /\ Len(A') = Len(A) + 1 /\ Len(A) \in Nat /\ A'[Len(A) + 1] = a
       /\ \A k \in 1..Len(A) : A'[k] = A[k]
       /\ \A k \in 1..Len(A') : k \in 1..Len(A) \/ k = Len(A) + 1
       /\ DOMAIN A' = 1..(Len(A) + 1) /\ DOMAIN A = 1..Len(A)
  <2>1. A \in Seq(Animation \cup {a}) /\ a \in Animation \cup {a}
    BY <1>2, SeqMonotonic DEF TypeOK, AnimTypes
  <2>2. /\ Len(A') = Len(A) + 1 /\ A'[Len(A) + 1] = a /\ Len(A) \in Nat
        /\ \A k \in 1..Len(A) : A'[k] = A[k]
        /\ A' \in Seq(Animation \cup {a})
    BY <1>1, <2>1, AppendProperties, LenProperties
  <2>3. QED
    BY <1>2, <2>2, LenProperties, Lengths
\* Frame 0 has its thread, so nothing else of the job is anywhere.
<1>11. \A k \in 1..Len(R) : k # i => R[k].id # id
  BY <1>2, <1>3, <1>4 DEF RunOnce, id
<1>12. \A k \in 1..Len(JQManual) : JQManual[k].id # id
  BY <1>2, <1>3, <1>4 DEF RunOnce, id
<1>13. \A k \in 1..Len(A) : A[k].id # id
  BY <1>2, <1>3, <1>4 DEF AnimatedOnce, FramesOnce, id
<1>14. \A w : Running(w)' <=> Running(w)
  BY <1>9 DEF Running, Holds
<1>15. Running(id)
  BY <1>3, <1>9 DEF Running, Holds, id
<1>16. UNCHANGED <<Submitted, newJobs, JQ, JQManual, params, lastID>>
  BY <1>1 DEF queues
<1>17. MuxedKnown' /\ \A w : Muxed(w)' <=> Muxed(w)
  BY <1>1, <1>2, MuxerKept
<1>18. \A w : (InLine(w)' <=> InLine(w)) /\ (Begun(w)' => Begun(w))
  <2>1. \A w : Holds(A, w)' => Holds(A, w) \/ w = id
    BY <1>8, <1>10 DEF Holds
  <2>2. \A w : FrameIn(JQManual, w)' <=> FrameIn(JQManual, w)
    BY <1>16 DEF FrameIn
  <2>3. \A w : InLine(w)' <=> InLine(w)
    BY <1>16 DEF InLine, ListedIn, ZeroIn
  <2>4. QED
    BY <1>14, <1>15, <1>17, <2>1, <2>2, <2>3 DEF Begun
<1>19. LineOrder' /\ QueuedOnce'
  BY <1>2, <1>16 DEF LineOrder, Increasing, QueueOrder, Before, QueuedOnce
<1>20. BegunFirst'
  BY <1>2, <1>16, <1>18 DEF BegunFirst
<1>21. RunOnce'
  <2>1. ASSUME NEW j \in 1..Len(R), NEW k \in 1..Len(R), j # k, R'[j].id = R'[k].id
        PROVE  R'[j].frameID # R'[k].frameID /\ R'[j].frameID # 0
    <3>1. j # i /\ k # i
      BY <1>3, <1>9, <1>11, <2>1 DEF id
    <3>2. QED
      BY <1>2, <1>9, <2>1, <3>1 DEF RunOnce
  <2>2. ASSUME NEW j \in 1..Len(R), NEW k \in 1..Len(JQManual), R'[j].id = JQManual[k].id
        PROVE  R'[j].frameID # JQManual[k].frame /\ R'[j].frameID # 0
    <3>1. j # i
      BY <1>9, <1>12, <2>2 DEF id
    <3>2. QED
      BY <1>2, <1>9, <2>2, <3>1 DEF RunOnce
  <2>3. QED
    BY <1>9, <1>16, <2>1, <2>2 DEF RunOnce
<1>22. AnimatedOnce'
  <2>1. ASSUME NEW x \in 1..Len(A) PROVE FramesOnce(A[x])'
    <3>1. FramesOnce(A[x]) /\ A'[x] = A[x] /\ A[x].id # id
      BY <1>2, <1>10, <1>13 DEF AnimatedOnce
    <3>2. \A j \in 1..Len(R) : R'[j].id = A[x].id => R'[j] = R[j] /\ R[j].id = A[x].id
      BY <1>9, <3>1 DEF id
    <3>3. JQManual' = JQManual
      BY <1>16
    <3>4. QED
      BY <1>9, <3>1, <3>2, <3>3 DEF FramesOnce
  <2>2. ASSUME NEW x \in 1..Len(A'), x = Len(A) + 1 PROVE FramesOnce(A[x])'
    <3>1. A'[x].id = id /\ A'[x].manualQueue /\ A'[x].frameQueue = frames
      BY <1>8, <1>10, <2>2
    <3>2. /\ \A k \in 1..Len(frames) : frames[k] >= 2
          /\ \A j, k \in 1..Len(frames) : j # k => frames[j] # frames[k]
      BY <1>7
    <3>3. ASSUME NEW j \in 1..Len(R), R'[j].id = id
          PROVE  R'[j].frameID # 0 /\ \A k \in 1..Len(frames) : R'[j].frameID # frames[k]
      <4>1. R'[j].frameID = 1
        BY <1>5, <1>9, <1>11, <3>3
      <4>2. QED
        BY <1>7, <4>1
    <3>4. \A j \in 1..Len(JQManual') : JQManual'[j].id # id
      BY <1>12, <1>16
    <3>5. QED
      BY <1>9, <3>1, <3>2, <3>3, <3>4 DEF FramesOnce
  <2>3. \A j, k \in 1..Len(A') : j # k => A'[j].id # A'[k].id
    BY <1>2, <1>8, <1>10, <1>13 DEF AnimatedOnce
  <2>4. QED
    BY <1>10, <2>1, <2>2, <2>3 DEF AnimatedOnce
<1>23. PostHasJobs'
  BY <1>1, <1>2 DEF PostHasJobs
<1>24. AnimMove(i)
  <2>1. R'[i] = job /\ A'[Len(A) + 1].id = id
    BY <1>3, <1>8, <1>9, <1>10
  <2>2. A'[Len(A) + 1].frameQueue = frames
    BY <1>8, <1>10
  <2>3. \A f \in 2..params[id].frames :
          \E k \in 1..Len(frames) : frames[k] = f
    <3>1. \A f \in 2..params[id].frames : frames[f - 1] = (f - 1) + 1
      BY <1>7
    <3>2. \A f \in 2..params[id].frames : (f - 1) + 1 = f
      BY <1>6
    <3>3. QED
      BY <1>7, <3>1, <3>2
  <2>4. QED
    BY <1>1, <1>4, <1>9, <1>10, <2>1, <2>2, <2>3 DEF AnimMove, id, job
<1>25. QED
  BY <1>1, <1>14, <1>17, <1>19, <1>20, <1>21, <1>22, <1>23, <1>24
  DEF JobPlaces, Placed

\* What is in line or has begun was submitted.
LEMMA PlacesKnown ==
  ASSUME OrderInv
  PROVE  \A id \in Ids : InLine(id) \/ Begun(id) => id <= lastID
<1> USE DEF OrderInv, ThreadInv, Safe, AllKnown
<1>1. TypeOK
  OBVIOUS
<1> SUFFICES ASSUME NEW id \in Ids, InLine(id) \/ Begun(id) PROVE id <= lastID
  OBVIOUS
<1>2. CASE InLine(id)
  BY <1>1, <1>2, Lengths
  DEF InLine, ListedIn, ZeroIn, KnownIntake, KnownLoop, KnownQueues, Known
<1>3. CASE Begun(id)
  BY <1>1, <1>3, Lengths
  DEF Begun, Running, Holds, FrameIn, KnownThreads, KnownAnims, KnownQueues, Known,
      JobPlaces, MuxedKnown
<1>4. QED
  BY <1>2, <1>3

\* A new job joins the end of the line with a greater id than any before it.
LEMMA SubmitPlaced ==
  ASSUME OrderInv, NEW kind \in Kinds, SubmitJob(kind)
  PROVE  JobPlaces' /\ \A w : InLine(w)' => InLine(w) \/ w = lastID'
<1> USE DEF OrderInv, ThreadInv, Safe, AllKnown
<1>1. /\ lastID' = lastID + 1 /\ lastID' \in Ids /\ lastID \in Nat
      /\ params' = [params EXCEPT ![lastID'] = kind] /\ params \in [Ids -> Kind]
      /\ Submitted' = Append(Submitted, lastID')
      /\ UNCHANGED <<queues, R, A, newJobs, mainpc, muxer>>
  BY BoundsAssumption
  DEF SubmitJob, NetworkFrame, anim, loop, TypeOK, IntakeTypes, Ids
<1>2. /\ TypeOK /\ LineOrder /\ BegunFirst /\ QueuedOnce /\ RunOnce /\ AnimatedOnce
      /\ MuxedKnown /\ PostHasJobs
  BY DEF JobPlaces, Placed
<1>3. \A id \in Ids : id <= lastID => params'[id] = params[id]
  BY <1>1 DEF Ids
<1>4. /\ Len(Submitted') = Len(Submitted) + 1 /\ Len(Submitted) \in Nat
      /\ Submitted'[Len(Submitted) + 1] = lastID'
      /\ \A k \in 1..Len(Submitted) : Submitted'[k] = Submitted[k]
      /\ \A k \in 1..Len(Submitted') : k \in 1..Len(Submitted) \/ k = Len(Submitted) + 1
      /\ DOMAIN Submitted' = 1..Len(Submitted') /\ DOMAIN Submitted = 1..Len(Submitted)
  <2>1. Submitted \in Seq(Ids)
    BY <1>2 DEF TypeOK, IntakeTypes
  <2>2. QED
    BY <1>1, <2>1, AppendProperties, LenProperties
<1>5. JQ' = JQ /\ JQManual' = JQManual /\ R' = R /\ A' = A /\ newJobs' = newJobs
  BY <1>1 DEF queues
<1>6. /\ \A k \in 1..Len(Submitted) : Submitted[k] \in Ids /\ Submitted[k] < lastID'
      /\ \A k \in 1..Len(newJobs) : newJobs[k] \in Ids /\ newJobs[k] < lastID'
      /\ \A k \in 1..Len(JQ) : JQ[k].id \in Ids /\ JQ[k].id <= lastID
      /\ \A k \in 1..Len(JQManual) : JQManual[k].id \in Ids /\ JQManual[k].id <= lastID
  <2>1. /\ \A k \in 1..Len(Submitted) : Submitted[k] \in Ids
        /\ \A k \in 1..Len(newJobs) : newJobs[k] \in Ids
        /\ \A k \in 1..Len(JQ) : JQ[k].id \in Ids
        /\ \A k \in 1..Len(JQManual) : JQManual[k].id \in Ids
    BY <1>2, Entries
  <2>2. /\ \A k \in 1..Len(Submitted) : Submitted[k] <= lastID
        /\ \A k \in 1..Len(newJobs) : newJobs[k] <= lastID
        /\ \A k \in 1..Len(JQ) : JQ[k].id <= lastID
        /\ \A k \in 1..Len(JQManual) : JQManual[k].id <= lastID
    BY DEF KnownIntake, KnownLoop, KnownQueues, Known
  <2>3. \A n \in Ids : n <= lastID => n < lastID'
    BY <1>1 DEF Ids
  <2>4. QED
    BY <2>1, <2>2, <2>3
<1>7. MuxedKnown' /\ \A id : Muxed(id)' <=> Muxed(id)
  <2>1. \A id : Muxed(id)' <=> Muxed(id)
    BY <1>1 DEF Muxed, muxer
  <2>2. ASSUME NEW id \in Ids, Muxed(id) PROVE id <= lastID' /\ ~Still(id)'
    <3>1. id <= lastID /\ ~Still(id)
      BY <1>2, <2>2 DEF MuxedKnown
    <3>2. QED
      BY <1>1, <1>3, <3>1 DEF Still, Ids
  <2>3. QED
    BY <2>1, <2>2 DEF MuxedKnown
<1>8. \A w : (Begun(w)' <=> Begun(w)) /\ (InLine(w)' => InLine(w) \/ w = lastID')
  <2>1. \A w : Begun(w)' <=> Begun(w)
    BY <1>5, <1>7 DEF Begun, Running, Holds, FrameIn
  <2>2. \A w : ListedIn(Submitted, w)' => ListedIn(Submitted, w) \/ w = lastID'
    BY <1>4 DEF ListedIn
  <2>3. QED
    BY <1>5, <2>1, <2>2 DEF InLine, ListedIn, ZeroIn
<1>9. LineOrder'
  <2>1. Increasing(Submitted)' /\ Increasing(newJobs)'
    BY <1>2, <1>4, <1>5, <1>6 DEF LineOrder, Increasing
  <2>2. \A j \in 1..Len(newJobs'), k \in 1..Len(Submitted') : newJobs'[j] < Submitted'[k]
    BY <1>2, <1>4, <1>5, <1>6 DEF LineOrder
  <2>3. ASSUME NEW q, NEW manual, QueueOrder(q, manual),
               \A k \in 1..Len(q) : q[k].id \in Ids /\ q[k].id <= lastID
        PROVE  /\ \A k \in 1..Len(q) : q[k].frame = 0 => params'[q[k].id].manual = manual
               /\ Before(q, Submitted')
    <3>1. \A k \in 1..Len(q) : q[k].frame = 0 => params'[q[k].id].manual = manual
      BY <1>3, <2>3 DEF QueueOrder
    <3>2. ASSUME NEW j \in 1..Len(q), NEW k \in 1..Len(Submitted'), q[j].frame = 0
          PROVE  q[j].id < Submitted'[k]
      <4>1. CASE k \in 1..Len(Submitted)
        BY <1>4, <2>3, <3>2, <4>1 DEF QueueOrder, Before
      <4>2. CASE k = Len(Submitted) + 1
        BY <1>1, <1>4, <2>3, <4>2 DEF Ids
      <4>3. QED
        BY <1>4, <4>1, <4>2
    <3>3. QED
      BY <3>1, <3>2 DEF Before
  <2>4. QueueOrder(JQ, FALSE)'
    <3>1. QueueOrder(JQ, FALSE)
      BY <1>2 DEF LineOrder
    <3>2. QED
      BY <1>5, <1>6, <2>3, <3>1 DEF QueueOrder, Before
  <2>5. QueueOrder(JQManual, TRUE)'
    <3>1. QueueOrder(JQManual, TRUE)
      BY <1>2 DEF LineOrder
    <3>2. QED
      BY <1>5, <1>6, <2>3, <3>1 DEF QueueOrder, Before
  <2>6. QED
    BY <2>1, <2>2, <2>4, <2>5 DEF LineOrder
<1>10. BegunFirst'
  <2> SUFFICES ASSUME NEW id \in Ids, NEW w \in Ids, Begun(id)', InLine(w)',
                      params'[id].manual = params'[w].manual
               PROVE  id < w
    BY DEF BegunFirst
  <2>1. Begun(id) /\ id <= lastID
    BY <1>8, PlacesKnown
  <2>2. CASE w = lastID'
    BY <1>1, <2>1, <2>2 DEF Ids
  <2>3. CASE w # lastID'
    <3>1. InLine(w) /\ w <= lastID
      BY <1>8, <2>3, PlacesKnown
    <3>2. QED
      BY <1>2, <1>3, <2>1, <3>1 DEF BegunFirst
  <2>4. QED
    BY <2>2, <2>3
<1>11. QueuedOnce' /\ RunOnce' /\ AnimatedOnce'
  BY <1>2, <1>5 DEF QueuedOnce, RunOnce, AnimatedOnce, FramesOnce
<1>12. PostHasJobs'
  BY <1>1, <1>2 DEF PostHasJobs
<1>13. QED
  BY <1>7, <1>8, <1>9, <1>10, <1>11, <1>12 DEF JobPlaces, Placed

\* Nothing is anywhere when every list is empty.
LEMMA NothingPlaced ==
  ASSUME Submitted = <<>>, newJobs = <<>>, JQ = <<>>, JQManual = <<>>, R = <<>>,
         A = <<>>, muxing = {}, finisher = NoFinisher
  PROVE  JobPlaces
<1>1. Len(<<>>) = 0 /\ DOMAIN <<>> = {} /\ 1..0 = {}
  BY EmptySeq
<1>2. Placed
  <2>1. LineOrder
    BY <1>1 DEF LineOrder, Increasing, QueueOrder, Before
  <2>2. \A w : ~InLine(w)
    BY <1>1 DEF InLine, ListedIn, ZeroIn
  <2>3. QueuedOnce /\ RunOnce /\ AnimatedOnce
    BY <1>1 DEF QueuedOnce, RunOnce, AnimatedOnce
  <2>4. QED
    BY <2>1, <2>2, <2>3 DEF Placed, BegunFirst
<1>3. MuxedKnown /\ PostHasJobs
  BY DEF MuxedKnown, Muxed, PostHasJobs, NoFinisher
<1>4. QED
  BY <1>2, <1>3 DEF JobPlaces

\* An animation or a muxer thread holds no id that was not begun before.
LEMMA ProgressPlaced ==
  ASSUME OrderInv, TypeOK', CheckProgress
  PROVE  JobPlaces' /\ \A id \in Ids : Muxed(id)' => Muxed(id) \/ Holds(A, id)
<1>1. it \in 1..Len(A) /\ Holds(A, A[it].id)
  BY Lengths
  DEF CheckProgress, OrderInv, ThreadInv, Safe, TypeOK, LoopTypes, Holds
<1>2. /\ muxing' = muxing \/ muxing' = muxing \cup {A[it].id}
      /\ UNCHANGED <<finisher, lastID, params>>
  BY DEF CheckProgress, intake
<1>3. A[it].id <= lastID /\ ~Still(A[it].id)
  BY <1>1 DEF OrderInv, ThreadInv, AllKnown, KnownAnims, Known
<1>4. \A id : Muxed(id)' => Muxed(id) \/ id = A[it].id
  BY <1>2 DEF Muxed
<1>5. MuxedKnown'
  BY <1>2, <1>3, <1>4 DEF MuxedKnown, Still, OrderInv, JobPlaces
<1>6. \A id : Muxed(id)' => Begun(id)
  BY <1>1, <1>4 DEF Begun
<1>7. QED
  BY <1>1, <1>4, <1>5, <1>6, LeavesPlaced, AnimationsLeave

LEMMA MuxPlaced ==
  ASSUME OrderInv, TypeOK', MuxStep
  PROVE  JobPlaces'
<1>1. UNCHANGED <<lastID, params>>
  BY DEF MuxStep, MuxRead, MuxWrite, MuxCopyJobs, MuxPostJobs, MuxerFrame, intake
<1>2. \A id \in Ids : Muxed(id)' => Muxed(id)
  <2>1. ASSUME NEW n \in Ids, MuxRead(n) PROVE \A id \in Ids : Muxed(id)' => Muxed(id)
    <3>1. /\ n \in muxing /\ muxing' = muxing \ {n}
          /\ finisher'.meta.id \in {n, NoId} /\ NoId \notin Ids
      BY <2>1, NullTypes DEF MuxRead, NoFinisher, getFractal, NoMeta
    <3>2. QED
      BY <3>1 DEF Muxed
  <2>2. CASE MuxWrite \/ MuxCopyJobs \/ MuxPostJobs
    <3>1. muxing' = muxing /\ finisher'.pc # "update"
      <4>1. finisher \in Finisher
        BY DEF OrderInv, ThreadInv, Safe, TypeOK, MuxerTypes
      <4>2. CASE MuxWrite
        BY <4>1, <4>2 DEF MuxWrite, Finisher
      <4>3. CASE MuxCopyJobs
        BY <4>1, <4>3 DEF MuxCopyJobs, Finisher
      <4>4. CASE MuxPostJobs
        BY <4>4 DEF MuxPostJobs, NoFinisher
      <4>5. QED
        BY <2>2, <4>2, <4>3, <4>4
    <3>2. QED
      BY <3>1 DEF Muxed
  <2>3. QED
    BY <2>1, <2>2 DEF MuxStep
<1>3. MuxedKnown'
  BY <1>1, <1>2 DEF MuxedKnown, Still, OrderInv, JobPlaces
<1>4. QED
  BY <1>2, <1>3, MuxLeaves, LeavesPlaced DEF Begun

\* A step that only takes entries out of the lists and leaves muxers alone.
LEMMA QuietPlaced ==
  ASSUME OrderInv, TypeOK', Leaves, UNCHANGED muxer
  PROVE  JobPlaces'
<1>1. UNCHANGED <<lastID, params>>
  BY DEF Leaves
<1>2. MuxedKnown' /\ \A id : Muxed(id)' <=> Muxed(id)
  BY <1>1, MuxerKept DEF OrderInv, JobPlaces
<1>3. QED
  BY <1>2, LeavesPlaced DEF Begun

-----------------------------------------------------------------------------

LEMMA OrderInit == Init => OrderInv
<1> SUFFICES ASSUME Init PROVE OrderInv
  OBVIOUS
<1>1. JobPlaces
  BY NothingPlaced DEF Init
<1>2. QED
  BY <1>1, ThreadInit DEF OrderInv

LEMMA RestartPlaced ==
  ASSUME CrashRestart
  PROVE  JobPlaces'
<1>1. /\ Submitted' = <<>> /\ newJobs' = <<>> /\ JQ' = <<>> /\ JQManual' = <<>>
      /\ R' = <<>> /\ A' = <<>> /\ muxing' = {} /\ finisher' = NoFinisher
  BY DEF CrashRestart
<1>2. Len(<<>>) = 0 /\ DOMAIN <<>> = {} /\ 1..0 = {}
  BY EmptySeq
<1>3. LineOrder'
  BY <1>1, <1>2 DEF LineOrder, Increasing, QueueOrder, Before
<1>4. \A w : ~InLine(w)'
  BY <1>1, <1>2 DEF InLine, ListedIn, ZeroIn
<1>5. QueuedOnce' /\ RunOnce' /\ AnimatedOnce'
  BY <1>1, <1>2 DEF QueuedOnce, RunOnce, AnimatedOnce
<1>6. MuxedKnown' /\ PostHasJobs'
  BY <1>1 DEF MuxedKnown, Muxed, PostHasJobs, NoFinisher
<1>7. QED
  BY <1>3, <1>4, <1>5, <1>6 DEF JobPlaces, Placed, BegunFirst

LEMMA MainPlaced ==
  ASSUME OrderInv, TypeOK', MainStep
  PROVE  JobPlaces'
<1>1. CASE ReapBusy \/ ReapStill \/ ReapFrame \/ ReapEnd
  BY <1>1, ReapLeaves, QuietPlaced
<1>2. CASE AnimationTimeout \/ LockAnimations \/ UnlockAnimations
  BY <1>2, AnimationsLeave, QuietPlaced
  DEF AnimationTimeout, LockAnimations, UnlockAnimations
<1>3. CASE QueueFrames \/ CheckProgress
  BY <1>3, FramesPlaced, ProgressPlaced
<1>4. CASE Dispatch \/ FetchSubmittedJobs \/ PostJob
  BY <1>4, DispatchPlaced, FetchPlaced, PostPlaced
<1>5. CASE NoCommand \/ CommandCancel \/ CommandDelete \/ CommandRename \/ WriteRename
  BY <1>5, RequestsLeave, QuietPlaced
<1>6. QED
  BY <1>1, <1>2, <1>3, <1>4, <1>5 DEF MainStep

LEMMA OrderStep == OrderInv /\ [Next]_vars => OrderInv'
<1> SUFFICES ASSUME OrderInv, [Next]_vars PROVE OrderInv'
  OBVIOUS
<1>1. ThreadInv' /\ TypeOK'
  BY ThreadStep DEF OrderInv, ThreadInv, Safe
<1>2. CASE UNCHANGED vars
  <2>1. UNCHANGED <<Submitted, newJobs, R, A, queues, lastID, params, muxer, mainpc>>
    BY <1>2 DEF vars, intake, loop, anim
  <2>2. Leaves
    BY <2>1, SameLeft
    DEF Leaves, Leaving, LineLeaving, queues, OrderInv, ThreadInv, Safe
  <2>3. QED
    BY <1>1, <2>1, <2>2, QuietPlaced DEF OrderInv
<1>3. CASE MainStep
  BY <1>1, <1>3, MainPlaced DEF OrderInv
<1>4. ASSUME NEW i \in DOMAIN R, RenderStep(i) PROVE OrderInv'
  <2>1. CASE AddAnimationToQueue(i)
    BY <1>1, <2>1, AnimatePlaced DEF OrderInv
  <2>2. CASE ThreadMoves(i) \/ SaveImage(i)
    BY <1>1, <2>2, RenderLeaves, QuietPlaced DEF OrderInv
  <2>3. QED
    BY <1>4, <2>1, <2>2 DEF RenderStep, ThreadMoves
<1>5. CASE MuxStep
  BY <1>1, <1>5, MuxPlaced DEF OrderInv
<1>6. CASE InsertFractal \/ ClientStep \/ DeliverStep
  <2>1. CASE \E kind \in Kinds : SubmitJob(kind)
    BY <1>1, <2>1, SubmitPlaced DEF OrderInv
  <2>2. CASE NetworkAnswers
    BY <1>1, <2>2, NetworkLeaves, QuietPlaced DEF OrderInv
  <2>3. QED
    BY <1>6, <2>1, <2>2 DEF ClientStep, NetworkAnswers
<1>7. CASE CrashRestart
  BY <1>1, <1>7, RestartPlaced DEF OrderInv
<1>8. QED
  BY <1>2, <1>3, <1>4, <1>5, <1>6, <1>7 DEF Next

LEMMA AlwaysOrdered == Spec => []OrderInv
  BY OrderInit, OrderStep, PTL DEF Spec

-----------------------------------------------------------------------------
(* Every job and frame has one home.                                       *)

Misses(s, e) == \A k \in 1..Len(s) : s[k] # e
Apart(s, t)  == \A k \in 1..Len(t) : Misses(s, t[k])
Once(s)      == \A j, k \in 1..Len(s) : j # k => s[j] # s[k]

LEMMA JoinOnce ==
  ASSUME NEW S, NEW s \in Seq(S), NEW t \in Seq(S), Once(s), Once(t), Apart(s, t)
  PROVE  /\ s \o t \in Seq(S) /\ Once(s \o t)
         /\ \A e : Misses(s, e) /\ Misses(t, e) => Misses(s \o t, e)
<1>1. /\ s \o t \in Seq(S) /\ Len(s \o t) = Len(s) + Len(t)
      /\ Len(s) \in Nat /\ Len(t) \in Nat
      /\ \A k \in 1..(Len(s) + Len(t)) :
           (s \o t)[k] = IF k <= Len(s) THEN s[k] ELSE t[k - Len(s)]
  BY ConcatProperties, LenProperties
<1> DEFINE u == s \o t
<1> HIDE DEF u
<1>2. \A k \in 1..Len(u) : \/ k \in 1..Len(s) /\ u[k] = s[k]
                           \/ /\ k > Len(s) /\ k - Len(s) \in 1..Len(t)
                              /\ u[k] = t[k - Len(s)]
  BY <1>1 DEF u
<1>3. \A e : Misses(s, e) /\ Misses(t, e) => Misses(u, e)
  BY <1>2 DEF Misses
<1>4. ASSUME NEW j \in 1..Len(u), NEW k \in 1..Len(u), j < k PROVE u[j] # u[k]
  <2>1. CASE k \in 1..Len(s)
    <3>1. j \in 1..Len(s) /\ u[j] = s[j] /\ u[k] = s[k] /\ j # k
      BY <1>1, <1>2, <1>4, <2>1
    <3>2. QED
      BY <2>1, <3>1 DEF Once
  <2>2. CASE k \notin 1..Len(s)
    <3>1. k - Len(s) \in 1..Len(t) /\ u[k] = t[k - Len(s)]
      BY <1>2, <2>2
    <3>2. CASE j \in 1..Len(s)
      <4>1. u[j] = s[j]
        BY <1>1, <1>2, <3>2
      <4>2. QED
        BY <3>1, <3>2, <4>1 DEF Apart, Misses
    <3>3. CASE j \notin 1..Len(s)
      <4>1. /\ j - Len(s) \in 1..Len(t) /\ u[j] = t[j - Len(s)]
            /\ j - Len(s) # k - Len(s)
        BY <1>1, <1>2, <1>4, <3>3
      <4>2. QED
        BY <3>1, <4>1 DEF Once
    <3>4. QED
      BY <3>2, <3>3
  <2>3. QED
    BY <2>1, <2>2
<1>5. Once(u)
  <2>1. \A j, k \in 1..Len(u) : j # k => j < k \/ k < j
    BY <1>1 DEF u
  <2>2. QED
    BY <1>4, <2>1 DEF Once
<1>6. QED
  BY <1>1, <1>3, <1>5 DEF u

LEMMA HomesOnce == OrderInv => OneHome
<1> SUFFICES ASSUME OrderInv PROVE OneHome
  OBVIOUS
<1> DEFINE asTasks(q) == [i \in DOMAIN q |-> [id |-> q[i], frame |-> 0]]
           running == [i \in DOMAIN R |-> [id |-> R[i].id, frame |-> R[i].frameID]]
           subs == asTasks(Submitted)
           news == asTasks(newJobs)
<1>1. /\ TypeOK /\ LineOrder /\ BegunFirst /\ QueuedOnce /\ RunOnce /\ AnimatedOnce
  BY DEF OrderInv, ThreadInv, Safe, JobPlaces, Placed
<1>2. /\ Submitted \in Seq(Ids) /\ newJobs \in Seq(Ids)
      /\ JQ \in Seq(Task) /\ JQManual \in Seq(Task)
  BY <1>1 DEF TypeOK, IntakeTypes, LoopTypes, QueueTypes
<1>3. ASSUME NEW q \in Seq(Ids)
      PROVE  /\ asTasks(q) \in Seq(Task) /\ Len(asTasks(q)) = Len(q)
             /\ \A k \in 1..Len(q) : asTasks(q)[k].id = q[k] /\ asTasks(q)[k].frame = 0
  <2>1. Len(q) \in Nat /\ DOMAIN q = 1..Len(q) /\ \A k \in 1..Len(q) : q[k] \in Ids
    BY ElementOfSeq, LenProperties
  <2>2. \A k \in 1..Len(q) : [id |-> q[k], frame |-> 0] \in Task
    BY <2>1 DEF Task
  <2>3. asTasks(q) = [k \in 1..Len(q) |-> [id |-> q[k], frame |-> 0]]
    BY <2>1
  <2>4. QED
    BY <2>1, <2>2, <2>3, IsASeq
<1>4. /\ running \in Seq(Task) /\ Len(running) = Len(R)
      /\ \A k \in 1..Len(R) : running[k].id = R[k].id /\ running[k].frame = R[k].frameID
  <2>1. /\ Len(R) \in Nat /\ DOMAIN R = 1..Len(R)
        /\ \A k \in 1..Len(R) : R[k].id \in Ids /\ R[k].frameID \in Nat
    BY <1>1, Lengths, Entries
  <2>2. \A k \in 1..Len(R) : [id |-> R[k].id, frame |-> R[k].frameID] \in Task
    BY <2>1 DEF Task
  <2>3. running = [k \in 1..Len(R) |-> [id |-> R[k].id, frame |-> R[k].frameID]]
    BY <2>1
  <2>4. QED
    BY <2>1, <2>2, <2>3, IsASeq
<1>5. /\ subs \in Seq(Task) /\ Len(subs) = Len(Submitted)
      /\ \A k \in 1..Len(subs) : subs[k].id = Submitted[k] /\ subs[k].frame = 0
      /\ news \in Seq(Task) /\ Len(news) = Len(newJobs)
      /\ \A k \in 1..Len(news) : news[k].id = newJobs[k] /\ news[k].frame = 0
  BY <1>2, <1>3
<1>6. AllTasks = (((subs \o news) \o JQManual) \o JQ) \o running
  BY DEF AllTasks
<1> HIDE DEF subs, news, running
<1>7. /\ \A k \in 1..Len(Submitted) : Submitted[k] \in Ids
      /\ \A k \in 1..Len(newJobs) : newJobs[k] \in Ids
      /\ \A k \in 1..Len(JQ) : JQ[k].id \in Ids
      /\ \A k \in 1..Len(JQManual) : JQManual[k].id \in Ids
      /\ \A k \in 1..Len(R) : R[k].id \in Ids
      /\ \A i, j \in Ids : i < j => i # j
  BY <1>1, Entries DEF Ids
<1>8. \A id \in Ids : InLine(id) => ~Begun(id)
  BY <1>1 DEF BegunFirst, Ids
<1>9. Once(subs) /\ Once(news)
  <2>1. \A j, k \in 1..Len(Submitted) : j # k => Submitted[j] # Submitted[k]
    BY <1>1, <1>7, Lengths DEF LineOrder, Increasing
  <2>2. \A j, k \in 1..Len(newJobs) : j # k => newJobs[j] # newJobs[k]
    BY <1>1, <1>7, Lengths DEF LineOrder, Increasing
  <2>3. QED
    BY <1>5, <2>1, <2>2 DEF Once
<1>10. Once(JQ) /\ Once(JQManual) /\ Once(running)
  <2>1. ASSUME NEW j \in 1..Len(JQ), NEW k \in 1..Len(JQ), j < k PROVE JQ[j] # JQ[k]
    <3>1. JQ[j].id < JQ[k].id
      BY <1>1, <2>1 DEF LineOrder, QueueOrder, QueuedOnce
    <3>2. QED
      BY <1>7, <3>1
  <2>2. \A j, k \in 1..Len(JQ) : j # k => j < k \/ k < j
    BY <1>1, Lengths
  <2>3. Once(JQ)
    BY <2>1, <2>2 DEF Once
  <2>4. Once(running)
    BY <1>1, <1>4 DEF Once, RunOnce
  <2>5. QED
    BY <1>1, <2>3, <2>4 DEF Once, QueuedOnce
<1>11. Apart(subs, news)
  BY <1>1, <1>5, <1>7 DEF Apart, Misses, LineOrder
<1>12. ASSUME NEW q, Before(q, Submitted), Before(q, newJobs),
              \A k \in 1..Len(q) : q[k].id \in Ids
       PROVE  Apart(subs, q) /\ Apart(news, q)
  <2>1. ASSUME NEW j \in 1..Len(q), NEW k \in 1..Len(subs), subs[k] = q[j]
        PROVE  FALSE
    BY <1>5, <1>7, <1>12, <2>1 DEF Before
  <2>2. ASSUME NEW j \in 1..Len(q), NEW k \in 1..Len(news), news[k] = q[j]
        PROVE  FALSE
    BY <1>5, <1>7, <1>12, <2>2 DEF Before
  <2>3. QED
    BY <2>1, <2>2 DEF Apart, Misses
<1>13. /\ Apart(subs, JQ) /\ Apart(news, JQ)
       /\ Apart(subs, JQManual) /\ Apart(news, JQManual)
  BY <1>1, <1>7, <1>12 DEF LineOrder, QueueOrder
<1>14. Apart(JQManual, JQ)
  <2> SUFFICES ASSUME NEW j \in 1..Len(JQ), NEW k \in 1..Len(JQManual),
                      JQManual[k] = JQ[j]
               PROVE  FALSE
    BY DEF Apart, Misses
  <2>1. JQ[j].frame = 0 /\ JQManual[k].frame = 0
    BY <1>1 DEF QueuedOnce
  <2>2. params[JQ[j].id].manual = FALSE /\ params[JQManual[k].id].manual = TRUE
    BY <1>1, <2>1 DEF LineOrder, QueueOrder
  <2>3. QED
    BY <2>2
<1>15. /\ Apart(subs, running) /\ Apart(news, running)
       /\ Apart(JQManual, running) /\ Apart(JQ, running)
  <2>1. ASSUME NEW k \in 1..Len(R)
        PROVE  Begun(R[k].id) /\ ~InLine(R[k].id)
    <3>1. Running(R[k].id)
      BY <1>1, Lengths DEF Running, Holds
    <3>2. QED
      BY <1>7, <1>8, <3>1 DEF Begun
  <2>2. \A k \in 1..Len(Submitted) : InLine(Submitted[k])
    BY <1>1, Lengths DEF InLine, ListedIn
  <2>3. \A k \in 1..Len(newJobs) : InLine(newJobs[k])
    BY <1>1, Lengths DEF InLine, ListedIn
  <2>4. \A k \in 1..Len(JQ) : InLine(JQ[k].id)
    BY <1>1 DEF InLine, ZeroIn, QueuedOnce
  <2>5. Apart(subs, running)
    BY <1>4, <1>5, <2>1, <2>2 DEF Apart, Misses
  <2>6. Apart(news, running)
    BY <1>4, <1>5, <2>1, <2>3 DEF Apart, Misses
  <2>7. Apart(JQ, running)
    BY <1>4, <2>1, <2>4 DEF Apart, Misses
  <2>8. Apart(JQManual, running)
    BY <1>1, <1>4 DEF Apart, Misses, RunOnce
  <2>9. QED
    BY <2>5, <2>6, <2>7, <2>8
<1> DEFINE s2 == subs \o news
           s3 == s2 \o JQManual
           s4 == s3 \o JQ
           s5 == s4 \o running
<1>16. /\ s2 \in Seq(Task) /\ Once(s2)
       /\ \A e : Misses(subs, e) /\ Misses(news, e) => Misses(s2, e)
  BY <1>5, <1>9, <1>11, JoinOnce
<1> HIDE DEF s2
<1>17. /\ s3 \in Seq(Task) /\ Once(s3)
       /\ \A e : Misses(s2, e) /\ Misses(JQManual, e) => Misses(s3, e)
  <2>1. Apart(s2, JQManual)
    BY <1>13, <1>16 DEF Apart
  <2>2. QED
    BY <1>2, <1>10, <1>16, <2>1, JoinOnce
<1> HIDE DEF s3
<1>18. /\ s4 \in Seq(Task) /\ Once(s4)
       /\ \A e : Misses(s3, e) /\ Misses(JQ, e) => Misses(s4, e)
  <2>1. Apart(s3, JQ)
    BY <1>13, <1>14, <1>16, <1>17 DEF Apart
  <2>2. QED
    BY <1>2, <1>10, <1>17, <2>1, JoinOnce
<1> HIDE DEF s4
<1>19. /\ s5 \in Seq(Task) /\ Once(s5)
       /\ \A e : Misses(s4, e) /\ Misses(running, e) => Misses(s5, e)
  <2>1. Apart(s4, running)
    BY <1>15, <1>16, <1>17, <1>18 DEF Apart
  <2>2. QED
    BY <1>4, <1>10, <1>18, <2>1, JoinOnce
<1>20. AllTasks = s5
  BY <1>6 DEF s2, s3, s4
<1> HIDE DEF s5
<1>21. DOMAIN AllTasks = 1..Len(AllTasks) /\ IsInjective(AllTasks)
  <2>1. DOMAIN AllTasks = 1..Len(AllTasks)
    BY <1>19, <1>20, LenProperties
  <2>2. Once(AllTasks)
    BY <1>19, <1>20
  <2>3. QED
    BY <2>1, <2>2 DEF IsInjective, Once
<1>22. ASSUME NEW a \in 1..Len(A)
       PROVE  /\ IsInjective(A[a].frameQueue)
              /\ \A k \in DOMAIN A[a].frameQueue, i \in DOMAIN AllTasks :
                   AllTasks[i] # [id |-> A[a].id, frame |-> A[a].frameQueue[k]]
  <2> DEFINE frames == A[a].frameQueue
  <2>1. FramesOnce(A[a]) /\ DOMAIN frames = 1..Len(frames)
    <3>1. frames \in Seq(Nat)
      BY <1>1, Entries
    <3>2. QED
      BY <1>1, <3>1, LenProperties DEF AnimatedOnce
  <2>2. IsInjective(frames)
    BY <2>1 DEF IsInjective, FramesOnce
  <2>3. ASSUME NEW k \in 1..Len(frames)
        PROVE  Misses(AllTasks, [id |-> A[a].id, frame |-> frames[k]])
    <3> DEFINE e == [id |-> A[a].id, frame |-> frames[k]]
    <3>1. frames[k] >= 2 /\ frames[k] # 0 /\ e.id = A[a].id /\ e.frame = frames[k]
      BY <2>1 DEF FramesOnce
    <3> HIDE DEF e
    <3>2. Misses(subs, e) /\ Misses(news, e)
      BY <1>5, <3>1 DEF Misses
    <3>3. Misses(JQ, e)
      BY <1>1, <3>1 DEF Misses, QueuedOnce
    <3>4. Misses(JQManual, e)
      BY <2>1, <3>1 DEF Misses, FramesOnce
    <3>5. Misses(running, e)
      BY <1>4, <2>1, <3>1 DEF Misses, FramesOnce
    <3>6. QED
      BY <1>16, <1>17, <1>18, <1>19, <1>20, <3>2, <3>3, <3>4, <3>5 DEF e
  <2>4. QED
    BY <1>21, <2>1, <2>2, <2>3 DEF Misses
<1>23. QED
  BY <1>1, <1>21, <1>22, Lengths DEF OneHome

\* A job or a frame of one is in at most one slot of one list: of the
\* submissions, the fetched jobs, the two queues, the running jobs and the
\* frame queues.  Nothing is rendered twice, and nothing is lost and found.
THEOREM JobsHaveOneHome == Spec => []OneHome
  BY AlwaysOrdered, HomesOnce, PTL

-----------------------------------------------------------------------------
(* Jobs of one queue start in order.                                       *)

\* A still that waits is in line.
LEMMA WaitingInLine ==
  ASSUME OrderInv, NEW w \in Ids, Still(w), Waiting(w)
  PROVE  InLine(w)
<1>1. TypeOK /\ KnownQueues
  BY DEF OrderInv, ThreadInv, Safe, AllKnown
<1>2. Holds(JQ, w) => ZeroIn(JQ, w)
  BY <1>1, Lengths DEF Holds, ZeroIn, KnownQueues, Known
<1>3. Holds(JQManual, w) => ZeroIn(JQManual, w)
  BY <1>1, Lengths DEF Holds, ZeroIn, KnownQueues, Known
<1>4. QED
  BY <1>2, <1>3 DEF Waiting, InLine

\* Starting a job leaves every other job in line.
LEMMA StartKeepsLine ==
  ASSUME OrderInv, NEW task \in Task, NEW manual \in BOOLEAN, Start(task, manual)
  PROVE  \A w : InLine(w) => InLine(w)' \/ w = task.id
<1> DEFINE q == IF manual THEN JQManual ELSE JQ
<1>1. /\ q # <<>> /\ task = Head(q) /\ UNCHANGED <<Submitted, newJobs>>
      /\ JQManual' = (IF manual THEN Tail(JQManual) ELSE JQManual)
      /\ JQ' = (IF manual THEN JQ ELSE Tail(JQ))
  BY DEF Start
<1>2. /\ Len(Tail(q)) = Len(q) - 1 /\ Len(q) \in Nat /\ q[1] = task
      /\ \A k \in 1..(Len(q) - 1) : Tail(q)[k] = q[k + 1]
  <2>1. q \in Seq(Task)
    BY DEF OrderInv, ThreadInv, Safe, TypeOK, QueueTypes
  <2>2. QED
    BY <1>1, <2>1, HeadTailProperties, EmptySeq, LenProperties
<1>3. ASSUME NEW w, ZeroIn(q, w), w # task.id PROVE ZeroIn(Tail(q), w)
  <2>1. PICK k \in 1..Len(q) : q[k].id = w /\ q[k].frame = 0
    BY <1>3 DEF ZeroIn
  <2>2. k - 1 \in 1..(Len(q) - 1) /\ Tail(q)[k - 1] = q[k]
    BY <1>2, <1>3, <2>1
  <2>3. QED
    BY <1>2, <2>1, <2>2 DEF ZeroIn
<1> SUFFICES ASSUME NEW w, InLine(w), w # task.id PROVE InLine(w)'
  OBVIOUS
<1>4. /\ ListedIn(Submitted, w) => ListedIn(Submitted, w)'
      /\ ListedIn(newJobs, w) => ListedIn(newJobs, w)'
  BY <1>1 DEF ListedIn
<1>5. ZeroIn(JQ, w) \/ ZeroIn(JQManual, w) => ZeroIn(JQ, w)' \/ ZeroIn(JQManual, w)'
  <2>1. CASE manual
    BY <1>1, <1>3, <2>1 DEF ZeroIn
  <2>2. CASE ~manual
    BY <1>1, <1>3, <2>2 DEF ZeroIn
  <2>3. QED
    BY <2>1, <2>2
<1>6. QED
  BY <1>4, <1>5 DEF InLine

\* Only Dispatch gives a job a thread when it had none.
LEMMA OnlyDispatchStarts ==
  ASSUME OrderInv, TypeOK', [Next]_vars, NEW id, Starts(id)
  PROVE  \E task \in Task, manual \in BOOLEAN : Start(task, manual) /\ task.id = id
<1>1. TypeOK
  BY DEF OrderInv, ThreadInv, Safe
<1>2. Leaves \/ UNCHANGED R => FALSE
  <2>1. Leaves => (Running(id)' => Running(id))
    BY <1>1, LeavingPlaces DEF Leaves
  <2>2. UNCHANGED R => (Running(id)' => Running(id))
    BY DEF Running, Holds
  <2>3. QED
    BY <2>1, <2>2 DEF Starts, Running
<1>3. CASE Dispatch
  <2>1. PICK task \in Task, manual \in BOOLEAN : Start(task, manual)
    BY <1>2, <1>3, DispatchStarts
  <2> DEFINE job == [id |-> task.id, frameID |-> task.frame,
                     pc |-> "validate", fract |-> "NULL"]
  <2>2. job.id = task.id /\ job \in RenderingJob /\ R' = Append(R, job)
    BY <2>1 DEF Start, Task, RenderingJob, RenderPC, FractalState
  <2> HIDE DEF job
  <2>3. /\ \A k \in 1..Len(R) : R'[k] = R[k]
        /\ R'[Len(R) + 1].id = task.id
        /\ DOMAIN R' = 1..(Len(R) + 1) /\ DOMAIN R = 1..Len(R) /\ Len(R) \in Nat
    BY <1>1, <2>2, AppendProperties, LenProperties DEF TypeOK, ThreadTypes
  <2>4. id = task.id
    <3>1. PICK k \in 1..(Len(R) + 1) : R'[k].id = id
      BY <2>3 DEF Starts, Holds
    <3>2. CASE k \in 1..Len(R)
      BY <2>3, <3>1, <3>2 DEF Starts, Running, Holds
    <3>3. QED
      BY <2>3, <3>1, <3>2
  <2>5. QED
    BY <2>1, <2>4
<1>4. CASE MainStep /\ ~Dispatch
  <2>1. CASE ReapBusy \/ ReapStill \/ ReapFrame \/ ReapEnd
    BY <1>2, <2>1, ReapLeaves
  <2>2. CASE AnimationTimeout \/ LockAnimations \/ CheckProgress \/ UnlockAnimations
    BY <1>2, <2>2, AnimationsLeave
  <2>3. CASE NoCommand \/ CommandCancel \/ CommandDelete \/ CommandRename \/ WriteRename
    BY <1>2, <2>3, RequestsLeave
  <2>4. CASE QueueFrames \/ FetchSubmittedJobs \/ PostJob
    BY <1>2, <2>4 DEF QueueFrames, FetchSubmittedJobs, PostJob
  <2>5. QED
    BY <1>4, <2>1, <2>2, <2>3, <2>4 DEF MainStep
<1>5. ASSUME NEW i \in DOMAIN R, RenderStep(i) PROVE FALSE
  <2>1. CASE AddAnimationToQueue(i)
    BY <2>1, AnimatePlaced DEF Starts, Running
  <2>2. CASE ThreadMoves(i) \/ SaveImage(i)
    BY <1>2, <2>2, RenderLeaves
  <2>3. QED
    BY <1>5, <2>1, <2>2 DEF RenderStep, ThreadMoves
<1>6. CASE MuxStep
  BY <1>2, <1>6, MuxLeaves
<1>7. CASE InsertFractal \/ ClientStep \/ DeliverStep
  <2>1. CASE \E kind \in Kinds : SubmitJob(kind)
    BY <1>2, <2>1 DEF SubmitJob, NetworkFrame
  <2>2. CASE NetworkAnswers
    BY <1>2, <2>2, NetworkLeaves
  <2>3. QED
    BY <1>7, <2>1, <2>2 DEF ClientStep, NetworkAnswers
<1>8. CASE CrashRestart
  BY <1>8 DEF CrashRestart, Starts, Holds
<1>9. CASE UNCHANGED vars
  BY <1>2, <1>9 DEF vars
<1>10. QED
  BY <1>3, <1>4, <1>5, <1>6, <1>7, <1>8, <1>9 DEF Next

\* A job never starts while a still of the same kind waits that was submitted
\* before it, whatever list that one has reached.
THEOREM JobsStartInOrder == Spec => StartsInOrder
<1>1. ASSUME OrderInv, OrderInv', [Next]_vars, NEW id \in Ids, NEW w \in Ids,
             Starts(id), Waiting(w), Still(w), params[w].manual = params[id].manual
      PROVE  w >= id
  <2>1. TypeOK'
    BY <1>1 DEF OrderInv, ThreadInv, Safe
  <2>2. PICK task \in Task, manual \in BOOLEAN : Start(task, manual) /\ task.id = id
    BY <1>1, <2>1, OnlyDispatchStarts
  <2>3. InLine(w)
    BY <1>1, WaitingInLine
  <2>4. CASE w = id
    BY <2>4 DEF Ids
  <2>5. CASE w # id
    <3>1. InLine(w)'
      BY <1>1, <2>2, <2>3, <2>5, StartKeepsLine
    <3>2. id < w
      BY <1>1, <2>1, <2>2, <3>1, StartPlaced
    <3>3. QED
      BY <3>2 DEF Ids
  <2>6. QED
    BY <2>4, <2>5
<1> DEFINE InOrder == \A id, w \in Ids :
                        /\ Starts(id) /\ Waiting(w) /\ Still(w)
                        /\ params[w].manual = params[id].manual
                        => w >= id
<1>2. OrderInv /\ OrderInv' /\ [Next]_vars => [InOrder]_vars
  BY <1>1
<1>3. QED
  BY <1>2, AlwaysOrdered, PTL DEF Spec, StartsInOrder

-----------------------------------------------------------------------------
(* What the rows say of the jobs, and what the clients were told.          *)

Ended == {"COMPLETE", "TIMEOUT", "ERR"}

\* No client knows of a fractal whose row is still to be inserted.
InsertingHasNoRow ==
  inserting # NoId => /\ db[inserting].status = "NONE"
                      /\ \A c \in Clients : told[c][inserting] = "NONE"
ToldKnown == \A c \in Clients, id \in Ids : told[c][id] # "NONE" => id <= lastID
LineRows == \A id \in Ids : InLine(id) => db[id].status \in {"NONE", "QUEUED"}
RunningRows == \A id \in Ids : Still(id) /\ Running(id) => db[id].status \notin Ended
\* The row read for a rename is still the row when it is written back, but for
\* an animation, which a muxer thread may complete in between.
RenameRow ==
  mainpc = "rename" =>
    /\ db[meta.id].status # "NONE" /\ meta.status # "NONE"
    /\ Still(meta.id) \/ InLine(meta.id) => meta.status = db[meta.id].status

RowsKnown == /\ InsertingHasNoRow /\ ToldKnown /\ LineRows /\ RunningRows
             /\ ClientsCatchUp
RowInv == OrderInv /\ RowsKnown /\ RenameRow

\* A step that gives the row of id the status s, if there is that row.
Rewrites(id, s) ==
  \A j \in Ids : db'[j].status = IF j = id /\ db[j].status # "NONE"
                                 THEN s ELSE db[j].status
Writes(id, s) ==
  /\ Rewrites(id, s)
  /\ UNCHANGED <<lastID, params, inserting, told>>
  /\ reports \subseteq reports' /\ deletions \subseteq deletions'
  /\ \A w \in Ids : InLine(w)' => InLine(w)
  /\ \A w \in Ids : Running(w)' => Running(w) \/ w = id
  /\ id \in Ids =>
       /\ db[id].status # "NONE" => IF s = "NONE" THEN id \in deletions'
                                    ELSE id \in reports' \/ s = db[id].status
       /\ InLine(id)' => s \in {"NONE", "QUEUED"}
       /\ Still(id) /\ Running(id)' => s \notin Ended
       /\ Still(id) /\ db[id].status \in Ended => s \in {db[id].status, "NONE"}

LEMMA WritesKnown ==
  ASSUME RowInv, NEW id, NEW s, Writes(id, s)
  PROVE  /\ RowsKnown'
         /\ \A j \in Ids : Still(j) /\ db[j].status \in Ended
                           => db'[j].status \in {db[j].status, "NONE"}
<1> USE DEF RowInv, RowsKnown, Writes, Rewrites
<1>1. /\ inserting \in Ids \cup {NoId} /\ inserting' = inserting
      /\ told' = told /\ lastID' = lastID /\ params' = params
  BY DEF OrderInv, ThreadInv, Safe, TypeOK, IntakeTypes
<1>2. InsertingHasNoRow'
  BY <1>1 DEF InsertingHasNoRow
<1>3. ToldKnown'
  BY <1>1 DEF ToldKnown
<1>4. LineRows'
  BY <1>1 DEF LineRows
<1>5. RunningRows'
  <2> SUFFICES ASSUME NEW j \in Ids, Still(j)', Running(j)' PROVE db'[j].status \notin Ended
    BY DEF RunningRows
  <2>1. Still(j)
    BY <1>1 DEF Still
  <2>2. CASE j = id
    BY <2>1, <2>2 DEF RunningRows, Ended
  <2>3. CASE j # id
    BY <2>1, <2>3 DEF RunningRows
  <2>4. QED
    BY <2>2, <2>3
<1>6. ClientsCatchUp'
  <2> SUFFICES ASSUME NEW c \in Clients, NEW j \in Ids, told[c][j] # "NONE",
                      told[c][j] # db'[j].status
               PROVE  IF db'[j].status # "NONE" THEN j \in reports' ELSE j \in deletions'
    BY <1>1 DEF ClientsCatchUp, Exists
  <2>1. CASE j = id /\ db[j].status # "NONE" /\ s # db[j].status
    BY <2>1
  <2>2. CASE ~(j = id /\ db[j].status # "NONE" /\ s # db[j].status)
    <3>1. db'[j].status = db[j].status
      BY <2>2
    <3>2. QED
      BY <3>1 DEF ClientsCatchUp, Exists
  <2>3. QED
    BY <2>1, <2>2
<1>7. \A j \in Ids : Still(j) /\ db[j].status \in Ended
                     => db'[j].status \in {db[j].status, "NONE"}
  OBVIOUS
<1>8. QED
  BY <1>2, <1>3, <1>4, <1>5, <1>6, <1>7

\* Steps that write no row.
LEMMA QuietWrites ==
  ASSUME UNCHANGED <<db, lastID, params, inserting, told>>,
         reports \subseteq reports', deletions \subseteq deletions',
         \A w \in Ids : InLine(w)' => InLine(w),
         \A w \in Ids : Running(w)' => Running(w)
  PROVE  Writes(NoId, "QUEUED")
  BY NullTypes DEF Writes, Rewrites

LEMMA RowWrites ==
  ASSUME StoreTypes
  PROVE  /\ \A m \in FractalMeta : db' = updateFractal(m) => Rewrites(m.id, m.status)
         /\ \A id \in Ids : \A s \in Status : db' = SetStatus(id, s) => Rewrites(id, s)
<1>1. ASSUME NEW m \in FractalMeta, db' = updateFractal(m)
      PROVE  Rewrites(m.id, m.status)
  BY <1>1 DEF updateFractal, Exists, StoreTypes, Rewrites
<1>2. ASSUME NEW id \in Ids, NEW s \in Status, db' = SetStatus(id, s)
      PROVE  Rewrites(id, s)
  <2> DEFINE m == [getFractal(id) EXCEPT !.status = s]
  <2>1. CASE Exists(id)
    <3>1. m \in FractalMeta /\ m.id = id /\ m.status = s
      BY <2>1 DEF getFractal, FractalMeta, StoreTypes, Row
    <3>2. QED
      BY <1>1, <1>2, <3>1 DEF SetStatus
  <2>2. CASE ~Exists(id)
    <3>1. m.id = NoId /\ ~Exists(m.id)
      BY <2>2, NullTypes DEF getFractal, NoMeta, Exists
    <3>2. db' = db
      BY <1>2, <3>1 DEF SetStatus, updateFractal
    <3>3. QED
      BY <2>2, <3>2 DEF Rewrites, Exists
  <2>3. QED
    BY <2>1, <2>2
<1>3. QED
  BY <1>1, <1>2

\* A job in line is not begun, and a still that waits or runs has no verdict.
LEMMA OpenRows ==
  ASSUME RowInv
  PROVE  /\ \A id \in Ids : InLine(id) => ~Begun(id)
         /\ \A id \in Ids : Still(id) /\ Live(id) => db[id].status \notin Ended
<1>1. \A id \in Ids : InLine(id) => ~Begun(id)
  BY DEF RowInv, OrderInv, JobPlaces, Placed, BegunFirst, Ids
<1>2. ASSUME NEW id \in Ids, Still(id), Live(id) PROVE db[id].status \notin Ended
  BY <1>2, WaitingInLine DEF RowInv, RowsKnown, Live, LineRows, RunningRows, Ended
<1>3. QED
  BY <1>1, <1>2

\* cancelJob finds a job that runs or waits, which leaves the line, or none.
LEMMA CancelFinds ==
  ASSUME RowInv, TypeOK', NEW id \in Ids, CancelJob(id), Leaving, newJobs = <<>>,
         UNCHANGED <<lastID, params, inserting, Submitted, newJobs>>
  PROVE  \/ UNCHANGED <<db, reports, queues>>
         \/ /\ db' = SetStatus(id, "CANCEL") /\ reports' = PostStatusChange(id)
            /\ ~InLine(id)'
            /\ (Running(id) /\ UNCHANGED queues) \/ (FirstRunning(id) = 0 /\ Waiting(id))
<1> DEFINE run == FirstRunning(id)
           man == IF run = 0 THEN FirstOf(JQManual, id) ELSE 0
           aut == IF run = 0 /\ man = 0 THEN FirstOf(JQ, id) ELSE 0
           hit == Hit(run, man, aut)
<1>1. /\ JQManual' = Without(JQManual, man) /\ JQ' = Without(JQ, aut)
      /\ db' = IF hit THEN SetStatus(id, "CANCEL") ELSE db
      /\ reports' = IF hit THEN PostStatusChange(id) ELSE reports
      /\ UNCHANGED <<deletions, told>>
  BY DEF CancelJob
<1>2. TypeOK /\ OrderInv /\ QueuedOnce /\ LineOrder
  BY DEF RowInv, OrderInv, ThreadInv, Safe, JobPlaces, Placed
<1>3. /\ run \in 0..Len(R) /\ (run # 0 => R[run].id = id)
      /\ man \in 0..Len(JQManual) /\ (man # 0 => JQManual[man].id = id)
      /\ aut \in 0..Len(JQ) /\ (aut # 0 => JQ[aut].id = id)
  <2>1. /\ FirstOf(JQManual, id) \in 0..Len(JQManual)
        /\ FirstOf(JQManual, id) # 0 => JQManual[FirstOf(JQManual, id)].id = id
        /\ FirstOf(JQ, id) \in 0..Len(JQ)
        /\ FirstOf(JQ, id) # 0 => JQ[FirstOf(JQ, id)].id = id
    BY <1>2, FirstOfFacts DEF TypeOK, QueueTypes
  <2>2. run \in 0..Len(R) /\ (run # 0 => R[run].id = id)
    BY <1>2, FirstRunningFacts DEF TypeOK, ThreadTypes
  <2>3. QED
    BY <1>2, <2>1, <2>2, Lengths
<1> HIDE DEF run, man, aut, hit
<1>4. hit => (run # 0 /\ Running(id)) \/ (run = 0 /\ Waiting(id))
  <2>1. run # 0 => Running(id)
    BY <1>2, <1>3, Lengths DEF Running, Holds
  <2>2. man # 0 => Holds(JQManual, id)
    BY <1>2, <1>3, Lengths DEF Holds
  <2>3. aut # 0 => Holds(JQ, id)
    BY <1>2, <1>3, Lengths DEF Holds
  <2>4. QED
    BY <2>1, <2>2, <2>3 DEF Waiting, hit, Hit, man, aut
<1>5. \A w : (InLine(w)' => InLine(w)) /\ (Running(w)' => Running(w))
  BY <1>2, LeavingPlaces
\* The place of a job in line is the only one: it is the entry that is erased.
<1>6. hit => ~InLine(id)'
  <2> SUFFICES ASSUME hit, InLine(id)' PROVE FALSE
    OBVIOUS
  <2>1. InLine(id) /\ ~Begun(id)
    BY <1>5, OpenRows
  <2>2. run = 0
    BY <1>2, <1>3, <2>1, Lengths DEF Begun, Running, Holds
  <2>3. /\ \A k \in 1..Len(JQManual) : JQManual[k].id = id => JQManual[k].frame = 0
        /\ \A k \in 1..Len(JQ) : JQ[k].frame = 0
    BY <1>2, <2>1 DEF Begun, FrameIn, QueuedOnce
  <2>4. ASSUME NEW q \in Seq(Task), NEW m \in BOOLEAN, QueueOrder(q, m),
               NEW i \in 1..Len(q), q[i].id = id,
               \A k \in 1..Len(q) : q[k].id = id => q[k].frame = 0
        PROVE  /\ ~ListedIn(Submitted, id) /\ ~ZeroIn(Without(q, i), id)
               /\ params[id].manual = m
    <3>1. i # 0 /\ Len(q) \in Nat /\ Without(q, i) = RemoveAt(q, i)
      BY LenProperties DEF Without
    <3>2. /\ Len(RemoveAt(q, i)) = Len(q) - 1
          /\ \A k \in 1..(Len(q) - 1) :
               RemoveAt(q, i)[k] = IF k < i THEN q[k] ELSE q[k + 1]
      BY RemoveAtFacts
    <3>3. \A k \in 1..Len(q) : q[k].id = id => k = i
      <4> SUFFICES ASSUME NEW k \in 1..Len(q), q[k].id = id, k # i PROVE FALSE
        OBVIOUS
      <4>1. k < i \/ i < k
        BY <3>1
      <4>2. q[k].frame = 0 /\ q[i].frame = 0
        BY <2>4
      <4>3. id < id
        BY <2>4, <4>1, <4>2 DEF QueueOrder
      <4>4. QED
        BY <4>3 DEF Ids
    <3>4. ~ZeroIn(Without(q, i), id)
      <4> SUFFICES ASSUME NEW k \in 1..(Len(q) - 1), RemoveAt(q, i)[k].id = id
                   PROVE  FALSE
        BY <3>1, <3>2 DEF ZeroIn
      <4>1. CASE k < i
        <5>1. k \in 1..Len(q) /\ q[k].id = id
          BY <3>1, <3>2, <4>1
        <5>2. QED
          BY <3>3, <4>1, <5>1
      <4>2. CASE ~(k < i)
        <5>1. k + 1 \in 1..Len(q) /\ q[k + 1].id = id
          BY <3>1, <3>2, <4>2
        <5>2. QED
          BY <3>1, <3>3, <4>2, <5>1
      <4>3. QED
        BY <4>1, <4>2
    <3>5. ~ListedIn(Submitted, id)
      BY <1>2, <2>4, Lengths DEF ListedIn, QueueOrder, Before, Ids
    <3>6. QED
      BY <2>4, <3>4, <3>5 DEF QueueOrder
  <2>5. /\ QueueOrder(JQ, FALSE) /\ QueueOrder(JQManual, TRUE)
        /\ JQ \in Seq(Task) /\ JQManual \in Seq(Task)
    BY <1>2 DEF LineOrder, TypeOK, QueueTypes
  <2>6. ~ListedIn(newJobs, id)'
    BY EmptySeq DEF ListedIn
  <2>7. CASE man # 0
    <3>1. man \in 1..Len(JQManual) /\ JQManual[man].id = id
      BY <1>2, <1>3, <2>7, Lengths
    <3>2. /\ ~ListedIn(Submitted, id) /\ ~ZeroIn(Without(JQManual, man), id)
          /\ params[id].manual = TRUE
      BY <2>3, <2>4, <2>5, <3>1
    <3>3. ~ZeroIn(JQ, id)
      BY <2>5, <3>2 DEF ZeroIn, QueueOrder
    <3>4. JQ' = JQ
      BY <1>1, <2>7 DEF aut, Without
    <3>5. QED
      BY <1>1, <2>6, <3>2, <3>3, <3>4 DEF InLine, ListedIn, ZeroIn
  <2>8. CASE man = 0
    <3>1. aut # 0
      BY <2>2, <2>8 DEF hit, Hit
    <3>2. aut # 0 /\ JQManual' = JQManual
      BY <1>1, <2>8, <3>1 DEF Without
    <3>3. aut \in 1..Len(JQ) /\ JQ[aut].id = id
      BY <1>2, <1>3, <3>2, Lengths
    <3>4. /\ ~ListedIn(Submitted, id) /\ ~ZeroIn(Without(JQ, aut), id)
          /\ params[id].manual = FALSE
      BY <2>3, <2>4, <2>5, <3>3
    <3>5. ~ZeroIn(JQManual, id)
      BY <2>5, <3>4 DEF ZeroIn, QueueOrder
    <3>6. QED
      BY <1>1, <2>6, <3>2, <3>4, <3>5 DEF InLine, ListedIn, ZeroIn
  <2>9. QED
    BY <2>7, <2>8
<1>7. CASE ~hit
  <2>1. run = 0 /\ man = 0 /\ aut = 0
    BY <1>7 DEF hit, Hit
  <2>2. UNCHANGED <<db, reports, queues>>
    BY <1>1, <1>7, <2>1 DEF Without, queues
  <2>3. QED
    BY <2>2
<1>8. CASE hit
  <2>1. db' = SetStatus(id, "CANCEL") /\ reports' = PostStatusChange(id)
    BY <1>1, <1>8
  <2>2. run # 0 => UNCHANGED queues
    BY <1>1 DEF man, aut, Without, queues
  <2>3. QED
    BY <1>4, <1>6, <1>8, <2>1, <2>2 DEF run
<1>9. QED
  BY <1>7, <1>8

\* cancelJob marks the row of what it found.
LEMMA CancelWrites ==
  ASSUME RowInv, TypeOK', NEW id \in Ids, CancelJob(id), Leaving, newJobs = <<>>,
         UNCHANGED <<lastID, params, inserting, Submitted, newJobs>>
  PROVE  \E j, s : Writes(j, s)
<1>1. /\ TypeOK /\ UNCHANGED <<deletions, told>>
      /\ \A w : (InLine(w)' => InLine(w)) /\ (Running(w)' => Running(w))
  <2>1. TypeOK
    BY DEF RowInv, OrderInv, ThreadInv, Safe
  <2>2. QED
    BY <2>1, LeavingPlaces DEF CancelJob
<1>2. CASE UNCHANGED <<db, reports, queues>>
  <2>1. Writes(NoId, "QUEUED")
    BY <1>1, <1>2, QuietWrites
  <2>2. QED
    BY <2>1
<1>3. ASSUME db' = SetStatus(id, "CANCEL"), reports' = PostStatusChange(id),
             ~InLine(id)', Live(id)
      PROVE  \E j, s : Writes(j, s)
  <2>1. Rewrites(id, "CANCEL")
    BY <1>1, <1>3, RowWrites DEF TypeOK, Status, Verdicts
  <2>2. /\ reports \subseteq reports' /\ deletions \subseteq deletions'
        /\ db[id].status # "NONE" => id \in reports'
    BY <1>1, <1>3 DEF PostStatusChange, Exists
  <2>3. Still(id) => db[id].status \notin Ended
    BY <1>3, OpenRows
  <2>4. Writes(id, "CANCEL")
    BY <1>1, <1>3, <2>1, <2>2, <2>3 DEF Writes, Ended
  <2>5. QED
    BY <2>4
<1>4. QED
  BY <1>2, <1>3, CancelFinds DEF Live

LEMMA LeavesWrite ==
  ASSUME RowInv, TypeOK', Leaves, UNCHANGED <<db, inserting, told>>,
         reports \subseteq reports', deletions \subseteq deletions'
  PROVE  Writes(NoId, "QUEUED")
<1>1. TypeOK /\ Leaving /\ UNCHANGED <<lastID, params>>
  BY DEF RowInv, OrderInv, ThreadInv, Safe, Leaves
<1>2. \A id \in Ids : (InLine(id)' => InLine(id)) /\ (Running(id)' => Running(id))
  BY <1>1, LeavingPlaces
<1>3. QED
  BY <1>1, <1>2, QuietWrites

\* The thread of a still that is reaped was its only one.
LEMMA ReapEnds ==
  ASSUME TypeOK, TypeOK', RunOnce, ReapStill
  PROVE  \E id \in Ids : /\ id = R[it].id /\ Running(id) /\ ~Running(id)'
                        /\ db' = SetStatus(id, Verdict(R[it].fract))
                        /\ reports' = PostStatusChange(id)
<1>1. /\ it \in 1..Len(R) /\ R[it].frameID = 0 /\ R' = RemoveAt(R, it)
      /\ db' = SetStatus(R[it].id, Verdict(R[it].fract))
      /\ reports' = PostStatusChange(R[it].id)
  BY Lengths DEF ReapStill, TypeOK, LoopTypes
<1>2. PICK id \in Ids : id = R[it].id
  BY <1>1, Entries
<1>3. Running(id)
  BY <1>1, <1>2, Lengths DEF Running, Holds
<1>4. ~Running(id)'
  <2>1. /\ Len(R') = Len(R) - 1 /\ Len(R) \in Nat
        /\ \A k \in 1..(Len(R) - 1) : R'[k] = IF k < it THEN R[k] ELSE R[k + 1]
    <3>1. R \in Seq(RenderingJob)
      BY DEF TypeOK, ThreadTypes
    <3>2. Len(R) \in Nat
      BY <3>1, LenProperties
    <3>3. QED
      BY <1>1, <3>1, <3>2, RemoveAtFacts
  <2>2. \A k \in 1..Len(R) : k # it => R[k].id # id
    BY <1>1, <1>2 DEF RunOnce
  <2>3. \A k \in 1..(Len(R) - 1) : R'[k].id # id
    <3> SUFFICES ASSUME NEW k \in 1..(Len(R) - 1) PROVE R'[k].id # id
      OBVIOUS
    <3>1. CASE k < it
      <4>1. k \in 1..Len(R) /\ k # it
        BY <1>1, <2>1, <3>1
      <4>2. QED
        BY <2>1, <2>2, <3>1, <4>1
    <3>2. CASE ~(k < it)
      <4>1. k + 1 \in 1..Len(R) /\ k + 1 # it
        BY <1>1, <2>1, <3>2
      <4>2. QED
        BY <2>1, <2>2, <3>2, <4>1
    <3>3. QED
      BY <3>1, <3>2
  <2>4. DOMAIN R' = 1..(Len(R) - 1)
    BY <2>1, LenProperties DEF TypeOK, ThreadTypes
  <2>5. QED
    BY <2>3, <2>4 DEF Running, Holds
<1>5. QED
  BY <1>1, <1>2, <1>3, <1>4

\* The row of a finished still gets its verdict: the job is nowhere any more.
LEMMA ReapWrites ==
  ASSUME RowInv, TypeOK', ReapBusy \/ ReapStill \/ ReapFrame \/ ReapEnd
  PROVE  \E j, s : Writes(j, s)
<1>1. /\ OrderInv /\ TypeOK /\ RunOnce /\ RunningRows /\ Leaves
      /\ UNCHANGED <<inserting, Submitted>> /\ newJobs = <<>>
  <2>1. OrderInv /\ TypeOK /\ RunOnce /\ RunningRows
    BY DEF RowInv, RowsKnown, OrderInv, ThreadInv, Safe, JobPlaces, Placed
  <2>2. mainpc = "reap" /\ UNCHANGED <<inserting, Submitted>>
    BY DEF ReapBusy, ReapStill, ReapFrame, ReapEnd, intake
  <2>3. newJobs = <<>>
    BY <2>1, <2>2 DEF OrderInv, JobPlaces, PostHasJobs
  <2>4. QED
    BY <2>1, <2>2, <2>3, ReapLeaves
<1>2. UNCHANGED <<lastID, params, newJobs>>
  BY <1>1 DEF Leaves
<1>3. ASSUME UNCHANGED <<store, mailbox>> PROVE \E j, s : Writes(j, s)
  BY <1>1, <1>3, LeavesWrite DEF store, mailbox
<1>4. CASE ReapStill
  <2> DEFINE s == Verdict(R[it].fract)
  <2>1. PICK id \in Ids : /\ id = R[it].id /\ Running(id) /\ ~Running(id)'
                          /\ db' = SetStatus(id, s) /\ reports' = PostStatusChange(id)
    BY <1>1, <1>4, ReapEnds
  <2>2. UNCHANGED <<deletions, told>>
    BY <1>4 DEF ReapStill
  <2>3. s \in Status
    BY DEF Verdict, Status, Verdicts
  <2> HIDE DEF s
  <2>4. ~InLine(id) /\ (Still(id) => db[id].status \notin Ended)
    BY <1>1, <2>1, OpenRows DEF Begun, RunningRows
  <2>5. Rewrites(id, s)
    BY <1>1, <2>1, <2>3, RowWrites DEF TypeOK
  <2>6. \A w \in Ids : (InLine(w)' => InLine(w)) /\ (Running(w)' => Running(w))
    BY <1>1, LeavingPlaces DEF Leaves
  <2>7. /\ reports \subseteq reports' /\ deletions \subseteq deletions'
        /\ db[id].status # "NONE" => id \in reports'
    BY <2>1, <2>2 DEF PostStatusChange, Exists
  <2>8. s # "NONE"
    BY <2>3 DEF Status, Verdicts
  <2>9. Writes(id, s)
    BY <1>1, <1>2, <2>1, <2>2, <2>4, <2>5, <2>6, <2>7, <2>8 DEF Writes
  <2>10. QED
    BY <2>9
<1>5. CASE ReapFrame
  <2>1. CASE UNCHANGED <<store, mailbox>>
    BY <1>3, <2>1
  <2>2. CASE CancelJob(R[it].id)
    <3>1. R[it].id \in Ids
      BY <1>1, <1>5, Entries, Lengths DEF ReapFrame, TypeOK, LoopTypes
    <3>2. QED
      BY <1>1, <1>2, <2>2, <3>1, CancelWrites DEF Leaves
  <2>3. QED
    BY <1>5, <2>1, <2>2 DEF ReapFrame
<1>6. QED
  BY <1>3, <1>4, <1>5 DEF ReapBusy, ReapEnd

LEMMA AnimationsWrite ==
  ASSUME RowInv, TypeOK',
         \/ AnimationTimeout \/ LockAnimations \/ QueueFrames
         \/ CheckProgress \/ UnlockAnimations
  PROVE  \E j, s : Writes(j, s)
<1>1. /\ OrderInv /\ TypeOK
      /\ UNCHANGED <<lastID, params, inserting, Submitted, newJobs>> /\ newJobs = <<>>
  <2>1. OrderInv /\ TypeOK
    BY DEF RowInv, OrderInv, ThreadInv, Safe
  <2>2. mainpc # "post" /\ UNCHANGED <<lastID, params, inserting, Submitted, newJobs>>
    BY DEF AnimationTimeout, LockAnimations, QueueFrames, CheckProgress,
           UnlockAnimations, intake
  <2>3. QED
    BY <2>1, <2>2 DEF OrderInv, JobPlaces, PostHasJobs
<1>2. CASE AnimationTimeout
  <2>1. PICK a \in DOMAIN A : CancelJob(A[a].id)
    BY <1>2 DEF AnimationTimeout
  <2>2. A[a].id \in Ids
    BY <1>1, <2>1, Entries, Lengths
  <2>3. QED
    BY <1>1, <1>2, <2>1, <2>2, AnimationsLeave, CancelWrites DEF Leaves
<1>3. CASE LockAnimations \/ CheckProgress \/ UnlockAnimations
  <2>1. UNCHANGED <<db, inserting, told, reports, deletions>>
    BY <1>1, <1>3 DEF LockAnimations, CheckProgress, UnlockAnimations, store, mailbox
  <2>2. Leaves
    BY <1>1, <1>3, AnimationsLeave
  <2>3. QED
    BY <2>1, <2>2, LeavesWrite
<1>4. CASE QueueFrames
  <2>1. UNCHANGED <<db, told, reports, deletions, R>>
    BY <1>4 DEF QueueFrames, store, mailbox
  <2>2. \A w : InLine(w)' => InLine(w)
    BY <1>1, <1>4, FramesPlaced
  <2>3. \A w : Running(w)' => Running(w)
    BY <2>1 DEF Running, Holds
  <2>4. QED
    BY <1>1, <2>1, <2>2, <2>3, QuietWrites
<1>5. QED
  BY <1>2, <1>3, <1>4

\* A still that is started was in line.
LEMMA StartsFromLine ==
  ASSUME OrderInv, NEW task \in Task, NEW manual \in BOOLEAN, Start(task, manual),
         Still(task.id)
  PROVE  InLine(task.id)
<1>1. TypeOK /\ KnownQueues
  BY DEF OrderInv, ThreadInv, Safe, AllKnown
<1>2. ASSUME NEW q, q \in {JQ, JQManual}, q # <<>>, task = Head(q)
      PROVE  ZeroIn(q, task.id)
  <2>1. q \in Seq(Task)
    BY <1>1, <1>2 DEF TypeOK, QueueTypes
  <2>2. 1 \in 1..Len(q) /\ q[1] = task
    BY <1>2, <2>1, HeadTailProperties, EmptySeq, LenProperties
  <2>3. Known(task.id, task.frame)
    BY <1>1, <1>2, <2>2 DEF KnownQueues
  <2>4. QED
    BY <2>2, <2>3 DEF Known, ZeroIn, Task
<1>3. QED
  BY <1>2 DEF Start, InLine

\* The row of a job that is started turns RENDERING.
LEMMA DispatchWrites ==
  ASSUME RowInv, TypeOK', Dispatch
  PROVE  \E j, s : Writes(j, s)
<1>1. /\ OrderInv /\ TypeOK /\ KnownQueues /\ LineRows
      /\ UNCHANGED <<lastID, params, inserting, deletions, told>>
  BY DEF RowInv, RowsKnown, OrderInv, ThreadInv, Safe, AllKnown, Dispatch, intake
<1>2. ASSUME NEW task \in Task, NEW manual \in BOOLEAN, Start(task, manual),
             RunThread(task)
      PROVE  \E j, s : Writes(j, s)
  <2>1. PICK id \in Ids : id = task.id
    BY DEF Task
  <2>2. /\ db' = SetStatus(id, "RENDERING") /\ reports' = PostStatusChange(id)
    BY <1>2, <2>1 DEF RunThread
  <2>3. /\ ~InLine(id)'
        /\ \A w \in Ids : InLine(w)' => InLine(w)
        /\ \A w \in Ids : Running(w)' => Running(w) \/ w = id
    <3>1. \A w \in Ids : InLine(w)' /\ params[w].manual = params[id].manual => id < w
      BY <1>1, <1>2, <2>1, StartPlaced
    <3>2. ~InLine(id)'
      BY <3>1 DEF Ids
    <3>3. QED
      BY <1>1, <1>2, <2>1, <3>2, StartPlaced
  <2>4. Still(id) => db[id].status \notin Ended
    <3>1. Still(id) => InLine(id)
      BY <1>1, <1>2, <2>1, StartsFromLine
    <3>2. QED
      BY <1>1, <3>1 DEF LineRows, Ended
  <2>5. Rewrites(id, "RENDERING")
    BY <1>1, <2>2, RowWrites DEF TypeOK, Status
  <2>6. reports \subseteq reports' /\ (db[id].status # "NONE" => id \in reports')
    BY <2>2 DEF PostStatusChange, Exists
  <2>7. Writes(id, "RENDERING")
    BY <1>1, <2>3, <2>4, <2>5, <2>6 DEF Writes, Ended
  <2>8. QED
    BY <2>7
<1>3. CASE UNCHANGED <<db, reports, R, queues, Submitted, newJobs>>
  <2>1. \A w : (InLine(w)' => InLine(w)) /\ (Running(w)' => Running(w))
    BY <1>3 DEF InLine, ListedIn, ZeroIn, Running, Holds, queues
  <2>2. QED
    BY <1>1, <1>3, <2>1, QuietWrites
<1>4. QED
  BY <1>1, <1>2, <1>3, DispatchStarts

\* The fetched job at the front joins its queue, and every other one stays in
\* line; the status it gives the row is the one the row has.
LEMMA PostKeepsLine ==
  ASSUME OrderInv, PostJob
  PROVE  /\ \A w : InLine(w) => InLine(w)'
         /\ \E id \in Ids : InLine(id) /\ Rewrites(id, "QUEUED")
<1>0. TypeOK
  BY DEF OrderInv, ThreadInv, Safe
<1>1. PICK id : id = Head(newJobs)
  OBVIOUS
<1> DEFINE task == [id |-> id, frame |-> 0]
           m == [id |-> id, status |-> "QUEUED", title |-> "submitted"]
<1>2. /\ newJobs # <<>> /\ newJobs' = Tail(newJobs) /\ UNCHANGED Submitted
      /\ JQManual' = (IF params[id].manual THEN Append(JQManual, task) ELSE JQManual)
      /\ JQ' = (IF params[id].manual THEN JQ ELSE Append(JQ, task))
      /\ db' = updateFractal(m)
  BY <1>1 DEF PostJob, PushBack, intake
<1>3. /\ newJobs \in Seq(Ids) /\ Len(newJobs) \in Nat /\ DOMAIN newJobs = 1..Len(newJobs)
      /\ newJobs[1] = id /\ 1 \in 1..Len(newJobs) /\ id \in Ids
      /\ Len(Tail(newJobs)) = Len(newJobs) - 1
      /\ DOMAIN Tail(newJobs) = 1..(Len(newJobs) - 1)
      /\ \A k \in 1..(Len(newJobs) - 1) : Tail(newJobs)[k] = newJobs[k + 1]
  <2>1. newJobs \in Seq(Ids)
    BY <1>0 DEF TypeOK, LoopTypes
  <2>2. /\ Tail(newJobs) \in Seq(Ids) /\ Len(Tail(newJobs)) = Len(newJobs) - 1
        /\ id = newJobs[1] /\ id \in Ids
        /\ \A k \in 1..(Len(newJobs) - 1) : Tail(newJobs)[k] = newJobs[k + 1]
    BY <1>1, <1>2, <2>1, HeadTailProperties
  <2>3. Len(newJobs) \in Nat /\ Len(newJobs) # 0 /\ DOMAIN newJobs = 1..Len(newJobs)
    BY <1>2, <2>1, EmptySeq, LenProperties
  <2>4. DOMAIN Tail(newJobs) = 1..(Len(newJobs) - 1)
    BY <2>2, LenProperties
  <2>5. QED
    BY <2>1, <2>2, <2>3, <2>4
<1>4. m \in FractalMeta /\ m.id = id /\ m.status = "QUEUED" /\ task \in Task
      /\ task.id = id /\ task.frame = 0
  BY <1>3 DEF FractalMeta, Status, Title, Task
<1> HIDE DEF m, task
<1>5. id \in Ids /\ Rewrites(id, "QUEUED")
  BY <1>0, <1>2, <1>3, <1>4, RowWrites DEF TypeOK
<1>6. InLine(id)
  BY <1>3 DEF InLine, ListedIn
<1>7. ASSUME NEW q \in Seq(Task)
      PROVE  ZeroIn(Append(q, task), id)
             /\ \A w : ZeroIn(q, w) => ZeroIn(Append(q, task), w)
  <2>1. /\ Len(Append(q, task)) = Len(q) + 1 /\ Append(q, task)[Len(q) + 1] = task
        /\ Len(q) \in Nat /\ \A k \in 1..Len(q) : Append(q, task)[k] = q[k]
    BY <1>4, AppendProperties, LenProperties
  <2>2. QED
    BY <1>4, <2>1 DEF ZeroIn
<1>8. JQ \in Seq(Task) /\ JQManual \in Seq(Task)
  BY <1>0 DEF TypeOK, QueueTypes
<1>9. /\ ZeroIn(JQ', id) \/ ZeroIn(JQManual', id)
      /\ \A w : ZeroIn(JQ, w) => ZeroIn(JQ', w)
      /\ \A w : ZeroIn(JQManual, w) => ZeroIn(JQManual', w)
  BY <1>2, <1>7, <1>8
<1>10. ASSUME NEW w, ListedIn(newJobs, w), w # id PROVE ListedIn(Tail(newJobs), w)
  <2>1. PICK k \in 1..Len(newJobs) : newJobs[k] = w
    BY <1>3, <1>10 DEF ListedIn
  <2>2. k - 1 \in 1..(Len(newJobs) - 1) /\ (k - 1) + 1 = k
    BY <1>3, <1>10, <2>1
  <2>3. QED
    BY <1>3, <2>1, <2>2 DEF ListedIn
<1>11. \A w : InLine(w) => InLine(w)'
  <2> SUFFICES ASSUME NEW w, InLine(w) PROVE InLine(w)'
    OBVIOUS
  <2>1. CASE w = id
    BY <1>9, <2>1 DEF InLine, ZeroIn
  <2>2. CASE w # id
    <3>1. ListedIn(newJobs, w) => ListedIn(newJobs, w)'
      BY <1>2, <1>10, <2>2 DEF ListedIn
    <3>2. ListedIn(Submitted, w) => ListedIn(Submitted, w)'
      BY <1>2 DEF ListedIn
    <3>3. /\ ZeroIn(JQ, w) => ZeroIn(JQ, w)'
          /\ ZeroIn(JQManual, w) => ZeroIn(JQManual, w)'
      BY <1>9 DEF ZeroIn
    <3>4. QED
      BY <3>1, <3>2, <3>3 DEF InLine
  <2>3. QED
    BY <2>1, <2>2
<1>12. QED
  BY <1>5, <1>6, <1>11

\* A fetched job's row says QUEUED already, if it is there.
LEMMA IntakeWrites ==
  ASSUME RowInv, TypeOK', FetchSubmittedJobs \/ PostJob
  PROVE  \E j, s : Writes(j, s)
<1>1. /\ OrderInv /\ TypeOK /\ LineRows
      /\ UNCHANGED <<lastID, params, inserting, mailbox, R>>
  BY DEF RowInv, RowsKnown, OrderInv, ThreadInv, Safe, FetchSubmittedJobs, PostJob, intake
<1>2. \A w \in Ids : InLine(w)' => InLine(w)
  BY <1>1, FetchPlaced, PostPlaced
<1>3. \A w : Running(w)' => Running(w)
  BY <1>1 DEF Running, Holds
<1>4. CASE FetchSubmittedJobs
  <2>1. UNCHANGED db
    BY <1>4 DEF FetchSubmittedJobs, store
  <2>2. QED
    BY <1>1, <1>2, <1>3, <2>1, QuietWrites DEF mailbox
<1>5. CASE PostJob
  <2>1. PICK id \in Ids : InLine(id) /\ Rewrites(id, "QUEUED")
    BY <1>1, <1>5, PostKeepsLine
  <2>2. db[id].status \in {"NONE", "QUEUED"}
    BY <1>1, <2>1 DEF LineRows
  <2>3. Writes(id, "QUEUED")
    BY <1>1, <1>2, <1>3, <2>1, <2>2 DEF Writes, Ended, mailbox
  <2>4. QED
    BY <2>3
<1>6. QED
  BY <1>4, <1>5

LEMMA RequestsWrite ==
  ASSUME RowInv, TypeOK',
         NoCommand \/ CommandCancel \/ CommandDelete \/ CommandRename \/ WriteRename
  PROVE  \E j, s : Writes(j, s)
<1>1. /\ OrderInv /\ TypeOK /\ LineRows /\ RunningRows /\ RenameRow /\ Leaves
      /\ UNCHANGED <<lastID, params, inserting, Submitted, newJobs>> /\ newJobs = <<>>
  <2>1. OrderInv /\ TypeOK /\ LineRows /\ RunningRows /\ RenameRow
    BY DEF RowInv, RowsKnown, OrderInv, ThreadInv, Safe
  <2>2. UNCHANGED <<inserting, Submitted>> /\ (mainpc # "post" \/ newJobs = <<>>)
    BY DEF NoCommand, CommandCancel, CommandDelete, CommandRename, WriteRename,
           AtCommand, intake
  <2>3. newJobs = <<>>
    BY <2>1, <2>2 DEF OrderInv, JobPlaces, PostHasJobs
  <2>4. QED
    BY <2>1, <2>2, <2>3, RequestsLeave DEF Leaves
<1>2. \A w \in Ids : (InLine(w)' => InLine(w)) /\ (Running(w)' => Running(w))
  BY <1>1, LeavingPlaces DEF Leaves
<1>3. ASSUME UNCHANGED <<db, reports, deletions, told>> PROVE \E j, s : Writes(j, s)
  BY <1>1, <1>3, LeavesWrite
<1>4. CASE NoCommand \/ CommandRename
  BY <1>3, <1>4 DEF NoCommand, CommandRename, store, mailbox
<1>5. ASSUME requests # <<>> PROVE Head(requests).id \in Ids
  <2>1. Head(requests) \in Request
    BY <1>1, <1>5, HeadTailProperties DEF TypeOK, MailboxTypes
  <2>2. QED
    BY <2>1 DEF Request
<1>6. CASE CommandCancel
  <2>1. CancelJob(Head(requests).id) /\ Head(requests).id \in Ids
    BY <1>5, <1>6 DEF CommandCancel, AtCommand
  <2>2. QED
    BY <1>1, <2>1, CancelWrites DEF Leaves
<1>7. CASE CommandDelete
  <2>1. PICK id \in Ids : id = Head(requests).id
    BY <1>5, <1>7 DEF CommandDelete, AtCommand
  <2>2. CASE Exists(id)
    <3>1. /\ db' = [db EXCEPT ![id] = NoRow] /\ deletions' = deletions \cup {id}
          /\ UNCHANGED <<reports, told>>
      BY <1>7, <2>1, <2>2 DEF CommandDelete
    <3>2. Rewrites(id, "NONE")
      BY <1>1, <2>2, <3>1 DEF Rewrites, Exists, TypeOK, StoreTypes, NoRow
    <3>3. Writes(id, "NONE")
      BY <1>1, <1>2, <3>1, <3>2 DEF Writes, Ended
    <3>4. QED
      BY <3>3
  <2>3. CASE ~Exists(id)
    BY <1>3, <1>7, <2>1, <2>3 DEF CommandDelete, store
  <2>4. QED
    BY <2>2, <2>3
<1>8. CASE WriteRename
  <2>1. /\ mainpc = "rename" /\ db' = updateFractal(meta)
        /\ reports' = reports \cup {meta.id} /\ UNCHANGED <<deletions, told>>
    BY <1>8 DEF WriteRename
  <2>2. PICK id : id = meta.id
    OBVIOUS
  <2>3. PICK s : s = meta.status
    OBVIOUS
  <2>4. id \in Ids /\ meta \in FractalMeta
    BY <1>1, <2>1, <2>2 DEF TypeOK, LoopTypes
  <2>5. Rewrites(id, s)
    BY <1>1, <2>1, <2>2, <2>3, <2>4, RowWrites DEF TypeOK
  <2>6. s # "NONE" /\ (Still(id) \/ InLine(id) => s = db[id].status)
    BY <1>1, <2>1, <2>2, <2>3 DEF RenameRow
  <2>7. /\ InLine(id)' => s \in {"NONE", "QUEUED"}
        /\ Still(id) /\ Running(id)' => s \notin Ended
    BY <1>1, <1>2, <2>4, <2>6 DEF LineRows, RunningRows
  <2>8. Writes(id, s)
    BY <1>1, <1>2, <2>1, <2>2, <2>5, <2>6, <2>7 DEF Writes
  <2>9. QED
    BY <2>8
<1>9. QED
  BY <1>4, <1>6, <1>7, <1>8

LEMMA RenderWrites ==
  ASSUME RowInv, TypeOK', NEW i \in DOMAIN R, RenderStep(i)
  PROVE  \E j, s : Writes(j, s)
<1>1. OrderInv
  BY DEF RowInv
<1>2. CASE AddAnimationToQueue(i)
  <2>1. UNCHANGED <<db, lastID, params, inserting, told, reports, deletions>>
    BY <1>2 DEF AddAnimationToQueue, RenderFrame, store, intake, mailbox
  <2>2. /\ \A w : Running(w)' => Running(w)
        /\ UNCHANGED <<Submitted, newJobs, queues>>
    BY <1>1, <1>2, AnimatePlaced
  <2>3. \A w : InLine(w)' => InLine(w)
    BY <2>2 DEF InLine, ListedIn, ZeroIn, queues
  <2>4. QED
    BY <2>1, <2>2, <2>3, QuietWrites
<1>3. CASE ThreadMoves(i) \/ SaveImage(i)
  <2>1. Leaves /\ UNCHANGED <<db, intake, mailbox>>
    BY <1>1, <1>3, RenderLeaves
  <2>2. QED
    BY <2>1, LeavesWrite DEF intake, mailbox
<1>4. QED
  BY <1>2, <1>3 DEF RenderStep, ThreadMoves

\* Only the row of an animation is completed by a muxer thread.
LEMMA MuxWrites ==
  ASSUME RowInv, TypeOK', MuxStep
  PROVE  \E j, s : /\ Writes(j, s) /\ s # "NONE"
                   /\ j \in Ids => ~Still(j) /\ ~InLine(j)
<1>1. /\ OrderInv /\ TypeOK /\ MuxedKnown /\ Leaves
      /\ UNCHANGED <<lastID, params, inserting, deletions, told>>
  <2>1. OrderInv /\ TypeOK /\ MuxedKnown
    BY DEF RowInv, OrderInv, ThreadInv, Safe, JobPlaces
  <2>2. UNCHANGED MuxerFrame
    BY DEF MuxStep, MuxRead, MuxWrite, MuxCopyJobs, MuxPostJobs
  <2>3. QED
    BY <2>1, <2>2, MuxLeaves DEF MuxerFrame, intake
<1>2. CASE MuxWrite
  <2> DEFINE m == [finisher.meta EXCEPT !.status = "COMPLETE"]
  <2>1. m \in FractalMeta /\ m.id = finisher.meta.id /\ m.status = "COMPLETE"
    BY <1>1 DEF TypeOK, MuxerTypes, Finisher, FractalMeta, Status, Verdicts
  <2>2. /\ finisher.pc = "update" /\ db' = updateFractal(m)
        /\ reports' = IF m.id = NoId THEN reports ELSE reports \cup {m.id}
    BY <1>2, <2>1 DEF MuxWrite
  <2>3. PICK id : id = m.id
    OBVIOUS
  <2>4. Rewrites(id, "COMPLETE")
    BY <1>1, <2>1, <2>2, <2>3, RowWrites DEF TypeOK
  <2>5. id \in Ids => Muxed(id) /\ ~Still(id)
    BY <1>1, <2>1, <2>2, <2>3 DEF Muxed, MuxedKnown
  <2>6. id \in Ids => ~InLine(id)
    BY <2>5, OpenRows DEF Begun
  <2>7. reports \subseteq reports' /\ (id \in Ids => id \in reports')
    BY <2>2, <2>3, NullTypes
  <2> HIDE DEF m
  <2>8. \A w \in Ids : (InLine(w)' => InLine(w)) /\ (Running(w)' => Running(w))
    BY <1>1, LeavingPlaces DEF Leaves
  <2>9. Writes(id, "COMPLETE")
    BY <1>1, <2>4, <2>5, <2>6, <2>7, <2>8 DEF Writes
  <2>10. QED
    BY <2>5, <2>6, <2>9
<1>3. CASE MuxCopyJobs \/ MuxPostJobs \/ \E id \in Ids : MuxRead(id)
  <2>1. UNCHANGED <<db, reports>>
    BY <1>3 DEF MuxCopyJobs, MuxPostJobs, MuxRead
  <2>2. QED
    BY <1>1, <2>1, LeavesWrite, NullTypes
<1>4. QED
  BY <1>2, <1>3 DEF MuxStep

-----------------------------------------------------------------------------
(* The network thread and the restart.                                     *)

\* What a step leaves of the verdicts.
VerdictsKept == \A j \in Ids : Still(j) /\ db[j].status \in Ended
                               => db'[j].status \in {db[j].status, "NONE"}

\* No client knows of the new id, no thread has it, and it has no row.
LEMMA SubmitRows ==
  ASSUME RowInv, NEW kind \in Kinds, SubmitJob(kind)
  PROVE  RowsKnown' /\ VerdictsKept /\ RenameRow'
<1>1. /\ OrderInv /\ TypeOK /\ KnownRows /\ KnownLoop /\ RowsKnown /\ RenameRow
  BY DEF RowInv, OrderInv, ThreadInv, Safe, AllKnown
<1>2. /\ lastID \in Nat /\ lastID' = lastID + 1 /\ lastID' \in Ids
      /\ inserting' = lastID' /\ params' = [params EXCEPT ![lastID'] = kind]
      /\ UNCHANGED <<db, told, reports, deletions, R, mainpc, meta>>
  BY <1>1, BoundsAssumption
  DEF SubmitJob, TypeOK, IntakeTypes, Ids, NetworkFrame, mailbox, loop
<1>3. \A id \in Ids : id <= lastID => (Still(id)' <=> Still(id)) /\ id # lastID'
  BY <1>1, <1>2 DEF Still, TypeOK, IntakeTypes, Ids
<1>4. /\ \A w : InLine(w)' => InLine(w) \/ w = lastID'
      /\ \A w : Running(w)' <=> Running(w)
  BY <1>1, <1>2, SubmitPlaced DEF Running, Holds
<1>5. db[lastID'].status = "NONE"
  BY <1>1, <1>2 DEF KnownRows
<1>6. InsertingHasNoRow'
  <2>1. \A c \in Clients : told[c][lastID'] = "NONE"
    BY <1>1, <1>2 DEF RowsKnown, ToldKnown
  <2>2. QED
    BY <1>2, <1>5, <2>1 DEF InsertingHasNoRow
<1>7. ToldKnown' /\ ClientsCatchUp'
  BY <1>1, <1>2 DEF RowsKnown, ToldKnown, ClientsCatchUp, Exists, Ids
<1>8. LineRows'
  BY <1>1, <1>2, <1>4, <1>5 DEF RowsKnown, LineRows
<1>9. RunningRows'
  <2>1. \A w \in Ids : Running(w) => w <= lastID
    BY <1>1, PlacesKnown DEF Begun
  <2>2. QED
    BY <1>1, <1>2, <1>3, <1>4, <2>1 DEF RowsKnown, RunningRows
<1>10. RenameRow'
  <2> SUFFICES ASSUME mainpc = "rename" PROVE RenameRow'
    BY <1>2 DEF RenameRow
  <2>1. meta.id \in Ids /\ meta.id <= lastID
    BY <1>1 DEF TypeOK, LoopTypes, KnownLoop
  <2>2. (Still(meta.id)' <=> Still(meta.id)) /\ meta.id # lastID'
    <3>1. PICK id : id = meta.id
      OBVIOUS
    <3>2. (Still(id)' <=> Still(id)) /\ id # lastID'
      BY <1>3, <2>1, <3>1
    <3>3. QED
      BY <1>2, <3>1, <3>2 DEF Still
  <2>3. InLine(meta.id)' => InLine(meta.id)
    <3>1. PICK id : id = meta.id
      OBVIOUS
    <3>2. InLine(id)' => InLine(id)
      BY <1>4, <2>2, <3>1
    <3>3. QED
      BY <1>2, <3>1, <3>2 DEF InLine
  <2>4. QED
    BY <1>1, <1>2, <2>2, <2>3 DEF RenameRow
<1>11. VerdictsKept
  BY <1>2 DEF VerdictsKept
<1>12. QED
  BY <1>6, <1>7, <1>8, <1>9, <1>10, <1>11 DEF RowsKnown

\* The row that is inserted was not there; answers and reports tell the truth.
LEMMA NetworkRows ==
  ASSUME RowInv, TypeOK', NetworkAnswers
  PROVE  RowsKnown' /\ VerdictsKept /\ RenameRow'
<1>1. /\ OrderInv /\ TypeOK /\ KnownRows /\ KnownIntake /\ RowsKnown /\ RenameRow /\ Leaves
      /\ UNCHANGED <<muxer, Submitted>>
  BY NetworkLeaves DEF RowInv, OrderInv, ThreadInv, Safe, AllKnown
<1>2. /\ UNCHANGED <<lastID, params, R, mainpc, meta>>
      /\ \A id : Still(id)' <=> Still(id)
  <2>1. UNCHANGED NetworkFrame
    BY DEF NetworkAnswers, InsertFractal, PostRequest, QueryFractal, DeliverStep,
           DeliverReport, DeliverDeletion
  <2>2. QED
    BY <1>1, <2>1 DEF Leaves, NetworkFrame, loop, Still
<1>3. /\ \A w \in Ids : InLine(w)' => InLine(w)
      /\ \A w : Running(w)' <=> Running(w)
  BY <1>1, <1>2, LeavingPlaces DEF Leaves, Running, Holds
<1>4. mainpc = "rename" => meta.id \in Ids /\ db[meta.id].status # "NONE"
  BY <1>1 DEF RenameRow, TypeOK, LoopTypes
<1>5. ASSUME UNCHANGED db
      PROVE  LineRows' /\ RunningRows' /\ RenameRow' /\ VerdictsKept
  <2>1. LineRows' /\ RunningRows' /\ VerdictsKept
    BY <1>1, <1>2, <1>3, <1>5 DEF RowsKnown, LineRows, RunningRows, VerdictsKept
  <2>2. RenameRow'
    <3> SUFFICES ASSUME mainpc = "rename" PROVE RenameRow'
      BY <1>2 DEF RenameRow
    <3>1. PICK id \in Ids : id = meta.id
      BY <1>4
    <3>2. (Still(id)' <=> Still(id)) /\ (InLine(id)' => InLine(id))
      BY <1>2, <1>3
    <3>3. (Still(meta.id)' <=> Still(meta.id)) /\ (InLine(meta.id)' => InLine(meta.id))
      BY <1>2, <3>1, <3>2 DEF Still, InLine
    <3>4. QED
      BY <1>1, <1>2, <1>5, <3>3 DEF RenameRow
  <2>3. QED
    BY <2>1, <2>2
<1>6. CASE InsertFractal
  <2>1. PICK id \in Ids : id = inserting
    BY <1>1, <1>6 DEF InsertFractal, TypeOK, IntakeTypes
  <2>2. /\ inserting # NoId /\ inserting' = NoId
        /\ db' = [db EXCEPT ![id] = [status |-> "QUEUED", title |-> ""]]
        /\ UNCHANGED <<told, reports, deletions>>
    BY <1>6, <2>1 DEF InsertFractal, mailbox
  <2>3. /\ db[id].status = "NONE" /\ db'[id].status = "QUEUED"
        /\ \A j \in Ids : j # id => db'[j] = db[j]
        /\ \A c \in Clients : told[c][id] = "NONE"
    BY <1>1, <2>1, <2>2 DEF RowsKnown, InsertingHasNoRow, TypeOK, StoreTypes
  <2>4. InsertingHasNoRow' /\ ToldKnown'
    BY <1>1, <1>2, <2>2 DEF RowsKnown, InsertingHasNoRow, ToldKnown
  <2>5. LineRows' /\ RunningRows' /\ VerdictsKept
    <3>1. ASSUME NEW j \in Ids PROVE db'[j].status = db[j].status \/ db'[j].status = "QUEUED"
      BY <2>3
    <3>2. ASSUME NEW j \in Ids, db[j].status \in Ended PROVE db'[j].status = db[j].status
      BY <2>3, <3>2 DEF Ended
    <3>3. QED
      BY <1>1, <1>2, <1>3, <3>1, <3>2 DEF RowsKnown, LineRows, RunningRows, VerdictsKept, Ended
  <2>6. ClientsCatchUp'
    <3> SUFFICES ASSUME NEW c \in Clients, NEW j \in Ids, told[c][j] # "NONE"
                 PROVE  \/ told[c][j] = db'[j].status
                        \/ IF db'[j].status # "NONE" THEN j \in reports ELSE j \in deletions
      BY <2>2 DEF ClientsCatchUp, Exists
    <3>1. db'[j] = db[j]
      BY <2>3
    <3>2. QED
      BY <1>1, <3>1 DEF RowsKnown, ClientsCatchUp, Exists
  <2>7. RenameRow'
    <3> SUFFICES ASSUME mainpc = "rename" PROVE RenameRow'
      BY <1>2 DEF RenameRow
    <3>1. PICK i \in Ids : i = meta.id
      BY <1>4
    <3>2. /\ (Still(i)' <=> Still(i)) /\ (InLine(i)' => InLine(i))
          /\ db'[i] = db[i]
      BY <1>2, <1>3, <1>4, <2>3, <3>1
    <3>3. /\ (Still(meta.id)' <=> Still(meta.id)) /\ (InLine(meta.id)' => InLine(meta.id))
          /\ db'[meta.id] = db[meta.id]
      BY <1>2, <3>1, <3>2 DEF Still, InLine
    <3>4. QED
      BY <1>1, <1>2, <3>3 DEF RenameRow
  <2>8. QED
    BY <2>4, <2>5, <2>6, <2>7 DEF RowsKnown
\* The clients are told the row of id, or that it is gone, or nothing new.
<1>7. ASSUME NEW id \in Ids, NEW s, inserting = NoId, UNCHANGED <<db, inserting>>,
             reports \ {id} \subseteq reports', deletions \ {id} \subseteq deletions',
             s = "NONE" \/ (s = db[id].status /\ Exists(id)),
             \A c \in Clients, j \in Ids :
               \/ told'[c][j] = told[c][j] /\ (j = id => UNCHANGED <<reports, deletions>>)
               \/ j = id /\ told'[c][j] = s
      PROVE  RowsKnown' /\ VerdictsKept /\ RenameRow'
  <2>1. InsertingHasNoRow'
    BY <1>7 DEF InsertingHasNoRow
  <2>2. s # "NONE" => id <= lastID
    BY <1>1, <1>7 DEF KnownRows, Exists
  <2>3. ToldKnown'
    BY <1>1, <1>2, <1>7, <2>2 DEF RowsKnown, ToldKnown
  <2>4. ClientsCatchUp'
    <3> SUFFICES ASSUME NEW c \in Clients, NEW j \in Ids, told'[c][j] # "NONE"
                 PROVE  \/ told'[c][j] = db[j].status
                        \/ IF Exists(j) THEN j \in reports' ELSE j \in deletions'
      BY <1>7 DEF ClientsCatchUp, Exists
    <3>1. CASE told'[c][j] = told[c][j] /\ (j = id => UNCHANGED <<reports, deletions>>)
      BY <1>1, <1>7, <3>1 DEF RowsKnown, ClientsCatchUp
    <3>2. CASE j = id /\ told'[c][j] = s
      BY <1>7, <3>2
    <3>3. QED
      BY <1>7, <3>1, <3>2
  <2>5. QED
    BY <1>5, <1>7, <2>1, <2>3, <2>4 DEF RowsKnown
<1>8. CASE \E type \in Commands, id \in Ids : PostRequest(type, id)
  <2>1. PICK id \in Ids : /\ inserting = NoId
                          /\ UNCHANGED <<db, inserting, reports, deletions, told>>
    BY <1>8 DEF PostRequest, intake
  <2>2. QED
    BY <1>7, <2>1
<1>9. CASE \E c \in Clients, id \in Ids : QueryFractal(c, id)
  <2>1. PICK c \in Clients, id \in Ids : QueryFractal(c, id)
    BY <1>9
  <2>2. /\ inserting = NoId /\ UNCHANGED <<db, inserting, reports, deletions>>
        /\ Exists(id) /\ told' = [told EXCEPT ![c][id] = db[id].status]
    BY <2>1 DEF QueryFractal, intake
  <2>3. \A d \in Clients, j \in Ids :
          told'[d][j] = told[d][j] \/ (j = id /\ told'[d][j] = db[id].status)
    BY <1>1, <2>2 DEF TypeOK, MailboxTypes
  <2>4. QED
    BY <1>7, <2>2, <2>3
<1>10. ASSUME NEW id \in Ids, DeliverReport(id)
       PROVE  RowsKnown' /\ VerdictsKept /\ RenameRow'
  <2>1. /\ inserting = NoId /\ UNCHANGED <<db, inserting, deletions>>
        /\ reports' = reports \ {id}
    BY <1>10 DEF DeliverReport, intake
  <2>2. CASE Exists(id)
    <3>1. told' = [c \in Clients |-> [told[c] EXCEPT ![id] = db[id].status]]
      BY <1>10, <2>2 DEF DeliverReport
    <3>2. \A c \in Clients, j \in Ids :
            told'[c][j] = IF j = id THEN db[id].status ELSE told[c][j]
      BY <1>1, <3>1 DEF TypeOK, MailboxTypes
    <3>3. QED
      BY <1>7, <2>1, <2>2, <3>2
  <2>3. CASE ~Exists(id)
    <3>1. told' = told
      BY <1>10, <2>3 DEF DeliverReport
    <3>2. InsertingHasNoRow' /\ ToldKnown'
      BY <1>1, <1>2, <2>1, <3>1 DEF RowsKnown, InsertingHasNoRow, ToldKnown
    <3>3. ClientsCatchUp'
      BY <1>1, <2>1, <2>3, <3>1 DEF RowsKnown, ClientsCatchUp, Exists
    <3>4. QED
      BY <1>5, <2>1, <3>2, <3>3 DEF RowsKnown
  <2>4. QED
    BY <2>2, <2>3
<1>11. ASSUME NEW id \in Ids, DeliverDeletion(id)
       PROVE  RowsKnown' /\ VerdictsKept /\ RenameRow'
  <2>1. /\ inserting = NoId /\ UNCHANGED <<db, inserting, reports>>
        /\ deletions' = deletions \ {id}
        /\ told' = [c \in Clients |-> [told[c] EXCEPT ![id] = "NONE"]]
    BY <1>11 DEF DeliverDeletion, intake
  <2>2. \A c \in Clients, j \in Ids :
          told'[c][j] = IF j = id THEN "NONE" ELSE told[c][j]
    BY <1>1, <2>1 DEF TypeOK, MailboxTypes
  <2>3. QED
    BY <1>7, <2>1, <2>2
<1>12. QED
  BY <1>6, <1>8, <1>9, <1>10, <1>11 DEF NetworkAnswers, DeliverStep

\* A restart forgets the jobs and the clients, and no verdict.
LEMMA RestartRows ==
  ASSUME RowInv, CrashRestart
  PROVE  RowsKnown' /\ VerdictsKept /\ RenameRow'
<1>1. /\ told' = [c \in Clients |-> [id \in Ids |-> "NONE"]]
      /\ inserting' = NoId /\ mainpc' = "reap"
      /\ db' = [id \in Ids |-> Recovered(db[id])]
      /\ Submitted' = <<>> /\ newJobs' = <<>> /\ JQ' = <<>> /\ JQManual' = <<>>
      /\ R' = <<>>
  BY DEF CrashRestart
<1>2. \A c \in Clients, id \in Ids : told'[c][id] = "NONE"
  BY <1>1
<1>3. \A w : ~InLine(w)' /\ ~Running(w)'
  <2>1. Len(<<>>) = 0 /\ DOMAIN <<>> = {} /\ 1..0 = {}
    BY EmptySeq
  <2>2. QED
    BY <1>1, <2>1 DEF InLine, ListedIn, ZeroIn, Running, Holds
<1>4. InsertingHasNoRow' /\ ToldKnown' /\ ClientsCatchUp' /\ LineRows' /\ RunningRows'
  BY <1>1, <1>2, <1>3
  DEF InsertingHasNoRow, ToldKnown, ClientsCatchUp, LineRows, RunningRows
<1>5. RenameRow'
  BY <1>1 DEF RenameRow
<1>6. VerdictsKept
  BY <1>1 DEF VerdictsKept, Recovered, Ended
<1>7. QED
  BY <1>4, <1>5, <1>6 DEF RowsKnown

-----------------------------------------------------------------------------
(* Every step.                                                             *)

\* The row is read when the rename begins; main does nothing else until it
\* is written back.
LEMMA RenameMain ==
  ASSUME RowInv, MainStep
  PROVE  RenameRow'
<1>1. CASE CommandRename
  <2>1. /\ UNCHANGED <<db, params, Submitted, newJobs, queues>>
        /\ requests # <<>> /\ TypeOK
    BY <1>1 DEF CommandRename, AtCommand, intake, store, RowInv, OrderInv, ThreadInv, Safe
  <2>2. CASE Exists(Head(requests).id)
    <3>1. PICK id : id = Head(requests).id
      OBVIOUS
    <3>2. Exists(id) /\ meta' = [getFractal(id) EXCEPT !.title = "renamed"]
      BY <1>1, <2>2, <3>1 DEF CommandRename
    <3>3. meta'.id = id /\ meta'.status = db[id].status /\ db[id].status # "NONE"
      BY <3>2 DEF getFractal, Exists
    <3>4. QED
      BY <2>1, <3>3 DEF RenameRow
  <2>3. CASE ~Exists(Head(requests).id)
    BY <1>1, <2>3 DEF CommandRename, NextRound, RenameRow
  <2>4. QED
    BY <2>2, <2>3
<1>2. CASE ~CommandRename
  <2>1. mainpc' # "rename"
    <3>1. CASE ReapBusy \/ ReapStill \/ ReapFrame \/ ReapEnd
      BY <3>1 DEF ReapBusy, ReapStill, ReapFrame, ReapEnd
    <3>2. CASE AnimationTimeout \/ LockAnimations \/ CheckProgress \/ UnlockAnimations
      BY <3>2 DEF AnimationTimeout, LockAnimations, CheckProgress, UnlockAnimations
    <3>3. CASE QueueFrames
      BY <3>3 DEF QueueFrames
    <3>4. CASE Dispatch \/ FetchSubmittedJobs \/ PostJob
      BY <3>4 DEF Dispatch, FetchSubmittedJobs, PostJob
    <3>5. CASE NoCommand \/ CommandCancel \/ CommandDelete \/ WriteRename
      BY <3>5 DEF NoCommand, CommandCancel, CommandDelete, WriteRename, NextRound
    <3>6. QED
      BY <1>2, <3>1, <3>2, <3>3, <3>4, <3>5 DEF MainStep
  <2>2. QED
    BY <2>1 DEF RenameRow
<1>3. QED
  BY <1>1, <1>2

\* Another thread writes the row only if it is an animation's.
LEMMA RenameKept ==
  ASSUME RowInv, UNCHANGED <<mainpc, meta>>, NEW j, NEW s, Writes(j, s), s # "NONE",
         j \in Ids => ~Still(j) /\ ~InLine(j)
  PROVE  RenameRow'
<1> SUFFICES ASSUME mainpc = "rename" PROVE RenameRow'
  BY DEF RenameRow
<1>1. RenameRow /\ meta.id \in Ids
  BY DEF RowInv, OrderInv, ThreadInv, Safe, TypeOK, LoopTypes
<1>2. PICK i \in Ids : i = meta.id
  BY <1>1
<1>3. /\ (Still(i)' <=> Still(i)) /\ (InLine(i)' => InLine(i))
      /\ db'[i].status = IF i = j /\ db[i].status # "NONE" THEN s ELSE db[i].status
  BY DEF Writes, Rewrites, Still
<1>4. (Still(meta.id)' <=> Still(meta.id)) /\ (InLine(meta.id)' => InLine(meta.id))
  BY <1>2, <1>3 DEF Still, InLine
<1>5. QED
  BY <1>1, <1>2, <1>3, <1>4 DEF RenameRow

LEMMA RowInit == Init => RowInv
<1> SUFFICES ASSUME Init PROVE RowInv
  OBVIOUS
<1>1. OrderInv
  BY OrderInit
<1>2. /\ db = [id \in Ids |-> NoRow] /\ inserting = NoId /\ mainpc = "reap"
      /\ told = [c \in Clients |-> [id \in Ids |-> "NONE"]]
  BY DEF Init
<1>3. /\ \A id \in Ids : db[id].status = "NONE"
      /\ \A c \in Clients, id \in Ids : told[c][id] = "NONE"
  BY <1>2 DEF NoRow
<1>4. RowsKnown /\ RenameRow
  BY <1>2, <1>3 DEF RowsKnown, InsertingHasNoRow, ToldKnown, LineRows, RunningRows,
                    ClientsCatchUp, RenameRow, Ended
<1>5. QED
  BY <1>1, <1>4 DEF RowInv

LEMMA RowStep ==
  ASSUME RowInv, [Next]_vars
  PROVE  RowInv' /\ VerdictsKept
<1>1. OrderInv' /\ TypeOK'
  BY OrderStep DEF RowInv, OrderInv, ThreadInv, Safe
<1>2. ASSUME NEW j, NEW s, Writes(j, s) PROVE RowsKnown' /\ VerdictsKept
  BY <1>2, WritesKnown DEF VerdictsKept
<1>3. CASE UNCHANGED vars
  <2>1. UNCHANGED <<db, lastID, params, inserting, told, reports, deletions, mainpc, meta,
                    Submitted, newJobs, queues, R>>
    BY <1>3 DEF vars, store, intake, mailbox, loop
  <2>2. \A w : (InLine(w)' => InLine(w)) /\ (Running(w)' => Running(w))
    BY <2>1 DEF InLine, ListedIn, ZeroIn, Running, Holds, queues
  <2>3. Writes(NoId, "QUEUED")
    BY <2>1, <2>2, QuietWrites
  <2>4. RenameRow'
    BY <2>1, <2>3, NullTypes, RenameKept
  <2>5. QED
    BY <1>1, <1>2, <2>3, <2>4 DEF RowInv
<1>4. CASE MainStep
  <2>1. \E j, s : Writes(j, s)
    <3>1. CASE ReapBusy \/ ReapStill \/ ReapFrame \/ ReapEnd
      BY <1>1, <3>1, ReapWrites
    <3>2. CASE \/ AnimationTimeout \/ LockAnimations \/ QueueFrames
               \/ CheckProgress \/ UnlockAnimations
      BY <1>1, <3>2, AnimationsWrite
    <3>3. CASE Dispatch
      BY <1>1, <3>3, DispatchWrites
    <3>4. CASE FetchSubmittedJobs \/ PostJob
      BY <1>1, <3>4, IntakeWrites
    <3>5. CASE NoCommand \/ CommandCancel \/ CommandDelete \/ CommandRename \/ WriteRename
      BY <1>1, <3>5, RequestsWrite
    <3>6. QED
      BY <1>4, <3>1, <3>2, <3>3, <3>4, <3>5 DEF MainStep
  <2>2. RenameRow'
    BY <1>4, RenameMain
  <2>3. QED
    BY <1>1, <1>2, <2>1, <2>2 DEF RowInv
<1>5. ASSUME NEW i \in DOMAIN R, RenderStep(i) PROVE RowInv' /\ VerdictsKept
  <2>1. UNCHANGED <<mainpc, meta>>
    BY <1>5 DEF RenderStep, Validate, SpawnJobs, AddAnimationToQueue, Construct,
                ProcessParams, BeginRender, RenderPasses, Expire, SaveImage, PostRender,
                LastStatus, ExpireLate, Exception, RenderFrame, loop
  <2>2. UNCHANGED db
    BY <1>5 DEF RenderStep, Validate, SpawnJobs, AddAnimationToQueue, Construct,
                ProcessParams, BeginRender, RenderPasses, Expire, SaveImage, PostRender,
                LastStatus, ExpireLate, Exception, RenderFrame, store
  <2>3. PICK j, s : Writes(j, s)
    BY <1>1, <1>5, RenderWrites
  <2>4. RenameRow'
    <3> SUFFICES ASSUME mainpc = "rename" PROVE RenameRow'
      BY <2>1 DEF RenameRow
    <3>1. RenameRow /\ meta.id \in Ids
      BY DEF RowInv, OrderInv, ThreadInv, Safe, TypeOK, LoopTypes
    <3>2. PICK n \in Ids : n = meta.id
      BY <3>1
    <3>3. (Still(n)' <=> Still(n)) /\ (InLine(n)' => InLine(n))
      BY <2>3 DEF Writes, Still
    <3>4. (Still(meta.id)' <=> Still(meta.id)) /\ (InLine(meta.id)' => InLine(meta.id))
      BY <2>1, <3>2, <3>3 DEF Still, InLine
    <3>5. QED
      BY <2>1, <2>2, <3>1, <3>4 DEF RenameRow
  <2>5. QED
    BY <1>1, <1>2, <2>3, <2>4 DEF RowInv
<1>6. CASE MuxStep
  <2>1. UNCHANGED <<mainpc, meta>>
    BY <1>6 DEF MuxStep, MuxRead, MuxWrite, MuxCopyJobs, MuxPostJobs, MuxerFrame, loop
  <2>2. PICK j, s : /\ Writes(j, s) /\ s # "NONE"
                    /\ j \in Ids => ~Still(j) /\ ~InLine(j)
    BY <1>1, <1>6, MuxWrites
  <2>3. QED
    BY <1>1, <1>2, <2>1, <2>2, RenameKept DEF RowInv
<1>7. CASE InsertFractal \/ ClientStep \/ DeliverStep
  <2>1. CASE \E kind \in Kinds : SubmitJob(kind)
    BY <1>1, <2>1, SubmitRows DEF RowInv
  <2>2. CASE NetworkAnswers
    BY <1>1, <2>2, NetworkRows DEF RowInv
  <2>3. QED
    BY <1>7, <2>1, <2>2 DEF ClientStep, NetworkAnswers
<1>8. CASE CrashRestart
  BY <1>1, <1>8, RestartRows DEF RowInv
<1>9. QED
  BY <1>3, <1>4, <1>5, <1>6, <1>7, <1>8 DEF Next

LEMMA AlwaysRows == Spec => []RowInv
<1>1. RowInv /\ [Next]_vars => RowInv'
  BY RowStep
<1>2. QED
  BY RowInit, <1>1, PTL DEF Spec

\* DBManager and FractalGen: once the row of a still has a verdict the job is
\* in no list and no thread, and a cancelled job is in no queue.
THEOREM VerdictsCloseJobs == Spec => []VerdictClosesJob
<1>1. RowInv => VerdictClosesJob
  <2> SUFFICES ASSUME RowInv, NEW id \in Ids, Still(id)
               PROVE  /\ db[id].status \in {"COMPLETE", "TIMEOUT", "ERR"} => ~Live(id)
                      /\ db[id].status = "CANCEL" => ~Waiting(id)
    BY DEF VerdictClosesJob
  <2>1. Live(id) => db[id].status \notin Ended
    BY OpenRows
  <2>2. Waiting(id) => db[id].status \in {"NONE", "QUEUED"}
    BY WaitingInLine DEF RowInv, RowsKnown, LineRows
  <2>3. QED
    BY <2>1, <2>2 DEF Ended
<1>2. QED
  BY AlwaysRows, <1>1, PTL

\* DBManager: no reaping, rename, late insert or restart replaces the verdict of
\* a still by another; only a deletion removes it.
THEOREM VerdictsNeverChange == Spec => VerdictsAreFinal
<1> DEFINE Final == \A id \in Ids :
                      Still(id) /\ db[id].status \in {"COMPLETE", "TIMEOUT", "ERR"}
                      => db'[id].status \in {db[id].status, "NONE"}
<1>1. RowInv /\ [Next]_vars => [Final]_vars
  BY RowStep DEF VerdictsKept, Ended
<1>2. QED
  BY AlwaysRows, <1>1, PTL DEF Spec, VerdictsAreFinal

\* FractalGenTrackManager and Client: what a client was last sent is the row, or
\* a report that corrects it is still to be delivered.
THEOREM ClientsAreToldAll == Spec => []ClientsCatchUp
<1>1. RowInv => ClientsCatchUp
  BY DEF RowInv, RowsKnown
<1>2. QED
  BY AlwaysRows, <1>1, PTL

-----------------------------------------------------------------------------
(* Rows that say QUEUED.  A row is inserted after its submission is in the *)
(* list, so the job may have ended when its row comes; no other step parts  *)
(* a QUEUED row from its job.                                               *)

\* A step leaves a still with a QUEUED row where it can be found.
QueuedStays ==
  /\ \A w \in Ids : Still(w) /\ db'[w].status = "QUEUED" =>
       /\ db[w].status = "QUEUED" \/ Live(w)
       /\ Live(w) => Live(w)'
  /\ UNCHANGED params

LEMMA OthersStay ==
  ASSUME NEW S, NEW q \in Seq(S), NEW i \in 0..Len(q), NEW id,
         i # 0 => q[i].id = id
  PROVE  \A w : Holds(q, w) /\ w # id => Holds(Without(q, i), w)
<1>1. Len(q) \in Nat /\ DOMAIN q = 1..Len(q)
  BY LenProperties
<1>2. CASE i = 0
  BY <1>2 DEF Without
<1>3. CASE i # 0
  <2>1. i \in 1..Len(q) /\ Without(q, i) = RemoveAt(q, i)
    BY <1>1, <1>3 DEF Without
  <2>2. /\ RemoveAt(q, i) \in Seq(S) /\ Len(RemoveAt(q, i)) = Len(q) - 1
        /\ \A k \in 1..(Len(q) - 1) :
             RemoveAt(q, i)[k] = IF k < i THEN q[k] ELSE q[k + 1]
    BY <2>1, RemoveAtFacts
  <2>3. DOMAIN RemoveAt(q, i) = 1..(Len(q) - 1)
    BY <2>2, LenProperties
  <2>4. SUFFICES ASSUME NEW w, NEW k \in 1..Len(q), q[k].id = w, w # id
                 PROVE  Holds(RemoveAt(q, i), w)
    BY <1>1, <2>1 DEF Holds
  <2>5. k # i
    BY <1>3, <2>4
  <2>6. CASE k < i
    <3>1. k \in 1..(Len(q) - 1) /\ RemoveAt(q, i)[k] = q[k]
      BY <1>1, <2>1, <2>2, <2>6
    <3>2. QED
      BY <2>3, <2>4, <3>1 DEF Holds
  <2>7. CASE k > i
    <3>1. k - 1 \in 1..(Len(q) - 1) /\ ~(k - 1 < i) /\ (k - 1) + 1 = k
      BY <1>1, <2>1, <2>7
    <3>2. RemoveAt(q, i)[k - 1] = q[k]
      BY <2>2, <3>1
    <3>3. QED
      BY <2>3, <2>4, <3>1, <3>2 DEF Holds
  <2>8. QED
    BY <1>1, <2>1, <2>5, <2>6, <2>7
<1>4. QED
  BY <1>2, <1>3

\* Steps that write no row and take no job away.
LEMMA QuietStays ==
  ASSUME UNCHANGED <<db, params, Submitted, newJobs>>,
         \A w : Holds(JQ, w) => Holds(JQ, w)',
         \A w : Holds(JQManual, w) => Holds(JQManual, w)',
         \A w : Running(w) => Running(w)'
  PROVE  QueuedStays
  BY DEF QueuedStays, Live, Waiting, ListedIn

\* cancelJob leaves the other jobs in their queues.
LEMMA CancelOthers ==
  ASSUME TypeOK, NEW id \in Ids, CancelJob(id)
  PROVE  \A w : w # id => /\ Holds(JQ, w) => Holds(JQ, w)'
                          /\ Holds(JQManual, w) => Holds(JQManual, w)'
<1> DEFINE run == FirstRunning(id)
           man == IF run = 0 THEN FirstOf(JQManual, id) ELSE 0
           aut == IF run = 0 /\ man = 0 THEN FirstOf(JQ, id) ELSE 0
<1>1. JQManual' = Without(JQManual, man) /\ JQ' = Without(JQ, aut)
  BY DEF CancelJob
<1>2. JQManual \in Seq(Task) /\ JQ \in Seq(Task)
  BY DEF TypeOK, QueueTypes
<1>3. /\ man \in 0..Len(JQManual) /\ (man # 0 => JQManual[man].id = id)
      /\ aut \in 0..Len(JQ) /\ (aut # 0 => JQ[aut].id = id)
  <2>1. /\ FirstOf(JQManual, id) \in 0..Len(JQManual)
        /\ FirstOf(JQManual, id) # 0 => JQManual[FirstOf(JQManual, id)].id = id
        /\ FirstOf(JQ, id) \in 0..Len(JQ)
        /\ FirstOf(JQ, id) # 0 => JQ[FirstOf(JQ, id)].id = id
    BY <1>2, FirstOfFacts
  <2>2. QED
    BY <1>2, <2>1, LenProperties
<1> HIDE DEF run, man, aut
<1>4. /\ \A w : Holds(JQ, w) /\ w # id => Holds(Without(JQ, aut), w)
      /\ \A w : Holds(JQManual, w) /\ w # id => Holds(Without(JQManual, man), w)
  BY <1>2, <1>3, OthersStay
<1>5. QED
  BY <1>1, <1>4 DEF Holds

\* cancelJob takes a job out of its queue and marks its row.
LEMMA CancelStays ==
  ASSUME RowInv, NEW id \in Ids, CancelJob(id),
         UNCHANGED <<params, Submitted, newJobs>>,
         \A w \in Ids : Still(w) /\ Running(w) => Running(w)'
  PROVE  QueuedStays
<1> DEFINE run == FirstRunning(id)
           man == IF run = 0 THEN FirstOf(JQManual, id) ELSE 0
           aut == IF run = 0 /\ man = 0 THEN FirstOf(JQ, id) ELSE 0
           hit == Hit(run, man, aut)
<1>1. /\ JQManual' = Without(JQManual, man) /\ JQ' = Without(JQ, aut)
      /\ db' = IF hit THEN SetStatus(id, "CANCEL") ELSE db
  BY DEF CancelJob
<1>2. TypeOK /\ StoreTypes
  BY DEF RowInv, OrderInv, ThreadInv, Safe, TypeOK
<1> HIDE DEF run, man, aut
<1>3. \A w : w # id => /\ Holds(JQ, w) => Holds(JQ, w)'
                       /\ Holds(JQManual, w) => Holds(JQManual, w)'
  BY <1>2, CancelOthers
<1>4. CASE ~hit
  <2>1. JQ' = JQ /\ JQManual' = JQManual /\ db' = db
    BY <1>1, <1>4 DEF Hit, Without
  <2>2. QED
    BY <2>1 DEF QueuedStays, Live, Waiting, ListedIn, Holds
<1>5. CASE hit
  <2>1. Rewrites(id, "CANCEL")
    BY <1>1, <1>2, <1>5, RowWrites DEF Status, Verdicts
  <2>2. \A w \in Ids : db'[w].status = "QUEUED" => w # id /\ db[w].status = "QUEUED"
    BY <2>1 DEF Rewrites
  <2>3. QED
    BY <1>3, <2>2 DEF QueuedStays, Live, Waiting, ListedIn
<1>6. QED
  BY <1>4, <1>5

\* The job that is reaped had a thread; a frame's job is no still.
LEMMA ReapStays ==
  ASSUME RowInv, ReapBusy \/ ReapStill \/ ReapFrame \/ ReapEnd
  PROVE  QueuedStays
<1>1. /\ TypeOK /\ ThreadTypes /\ ThreadInv /\ KnownThreads
      /\ UNCHANGED <<lastID, params, Submitted, newJobs>>
  BY DEF RowInv, OrderInv, ThreadInv, Safe, TypeOK, AllKnown, ReapBusy, ReapStill,
         ReapFrame, ReapEnd, intake, loop
<1>2. CASE ReapBusy \/ ReapEnd
  <2>1. UNCHANGED <<db, queues, R>>
    BY <1>2 DEF ReapBusy, ReapEnd, store
  <2>2. QED
    BY <1>1, <2>1, QuietStays DEF Holds, Running, queues
<1>3. CASE ReapStill
  <2>1. /\ it \in 1..Len(R) /\ R' = RemoveAt(R, it) /\ UNCHANGED queues
        /\ db' = SetStatus(R[it].id, Verdict(R[it].fract))
    BY <1>1, <1>3, Lengths DEF ReapStill, TypeOK, LoopTypes
  <2>2. PICK id \in Ids : id = R[it].id
    BY <1>1, <2>1, Entries
  <2>3. \A w : Running(w) /\ w # id => Running(w)'
    BY <1>1, <2>1, <2>2, ReapKnown DEF ThreadTypes
  <2>4. PICK s \in Verdicts : db' = SetStatus(id, s)
    BY <2>1, <2>2 DEF Verdict, Verdicts
  <2>5. Rewrites(id, s)
    BY <1>1, <2>4, RowWrites DEF TypeOK, Status
  <2>6. \A w \in Ids : db'[w].status = "QUEUED" => w # id /\ db[w].status = "QUEUED"
    BY <2>5 DEF Rewrites, Verdicts
  <2>7. \A w : Waiting(w)' <=> Waiting(w)
    BY <1>1, <2>1 DEF Waiting, ListedIn, Holds, queues
  <2>8. QED
    BY <1>1, <2>3, <2>6, <2>7 DEF QueuedStays, Live
<1>4. CASE ReapFrame
  <2>1. it \in 1..Len(R) /\ R[it].frameID # 0
    BY <1>1, <1>4, Lengths DEF ReapFrame, TypeOK, LoopTypes
  <2>2. PICK id \in Ids : id = R[it].id
    BY <1>1, <2>1, Entries
  <2>3. ~Still(id)
    BY <1>1, <2>1, <2>2 DEF KnownThreads, Known
  <2>4. CASE R' = RemoveAt(R, it) /\ UNCHANGED <<store, queues>>
    <3>1. \A w : Running(w) /\ w # id => Running(w)'
      BY <1>1, <2>1, <2>2, <2>4, ReapKnown DEF ThreadTypes
    <3>2. \A w : Waiting(w)' <=> Waiting(w)
      BY <1>1, <2>4 DEF Waiting, ListedIn, Holds, queues
    <3>3. QED
      BY <1>1, <2>3, <2>4, <3>1, <3>2 DEF QueuedStays, Live, store
  <2>5. CASE CancelJob(id) /\ R' = RemoveAt(CancelRunning(id), it)
    <3>1. \A w : Running(w) /\ w # id => Running(w)'
      BY <1>1, <2>1, <2>2, <2>5, CancelRunningFacts, ReapKnown
    <3>2. QED
      BY <1>1, <2>3, <2>5, <3>1, CancelStays
  <2>6. QED
    BY <1>4, <2>2, <2>4, <2>5 DEF ReapFrame
<1>5. QED
  BY <1>2, <1>3, <1>4

\* A job in line waits.
LEMMA InLineWaits ==
  ASSUME TypeOK', NEW w, InLine(w)'
  PROVE  Waiting(w)'
<1>1. \A q \in Seq(Task) : ZeroIn(q, w) => Holds(q, w)
  <2> SUFFICES ASSUME NEW q \in Seq(Task), ZeroIn(q, w) PROVE Holds(q, w)
    OBVIOUS
  <2>1. DOMAIN q = 1..Len(q)
    BY LenProperties
  <2>2. QED
    BY <2>1 DEF ZeroIn, Holds
<1>2. JQ' \in Seq(Task) /\ JQManual' \in Seq(Task)
  BY DEF TypeOK, QueueTypes
<1>3. (ZeroIn(JQ, w)' => Holds(JQ, w)') /\ (ZeroIn(JQManual, w)' => Holds(JQManual, w)')
  <2>1. \A q \in Seq(Task) : (\E k \in 1..Len(q) : q[k].id = w /\ q[k].frame = 0)
                             => \E k \in DOMAIN q : q[k].id = w
    BY <1>1 DEF ZeroIn, Holds
  <2>2. QED
    BY <1>2, <2>1 DEF ZeroIn, Holds
<1>4. QED
  BY <1>3 DEF InLine, Waiting

\* Stills that stay in line or keep their thread can be found.
LEMMA LineStays ==
  ASSUME RowInv, TypeOK', UNCHANGED params,
         \A w \in Ids : db'[w].status = "QUEUED" => db[w].status = "QUEUED" \/ InLine(w),
         \A w \in Ids : InLine(w) => InLine(w)' \/ Running(w)',
         \A w \in Ids : Running(w) => Running(w)'
  PROVE  QueuedStays
<1>1. OrderInv
  BY DEF RowInv
<1>2. ASSUME NEW w \in Ids, Still(w) PROVE Waiting(w) <=> InLine(w)
  <2>1. TypeOK
    BY <1>1 DEF OrderInv, ThreadInv, Safe
  <2>2. InLine(w) => Waiting(w)
    BY <2>1, Lengths DEF InLine, Waiting, ZeroIn, Holds
  <2>3. QED
    BY <1>1, <1>2, <2>2, WaitingInLine
<1>3. QED
  BY <1>2, InLineWaits DEF QueuedStays, Live

LEMMA AnimationsStay ==
  ASSUME RowInv, TypeOK',
         \/ AnimationTimeout \/ LockAnimations \/ QueueFrames
         \/ CheckProgress \/ UnlockAnimations
  PROVE  QueuedStays
<1>1. /\ OrderInv /\ TypeOK /\ ThreadTypes /\ UNCHANGED <<params, Submitted, newJobs>>
  BY DEF RowInv, OrderInv, ThreadInv, Safe, TypeOK, AnimationTimeout, LockAnimations,
         QueueFrames, CheckProgress, UnlockAnimations, intake
<1>2. CASE AnimationTimeout
  <2>1. PICK a \in DOMAIN A : CancelJob(A[a].id) /\ R' = CancelRunning(A[a].id)
    BY <1>2 DEF AnimationTimeout
  <2>2. A[a].id \in Ids
    BY <1>1, <2>1, Entries, Lengths
  <2>3. SameJobs
    BY <1>1, <2>1, CancelRunningFacts DEF SameJobs
  <2>4. \A w : Running(w) => Running(w)'
    BY <1>1, <2>3, JobsKept
  <2>5. QED
    BY <1>1, <2>1, <2>2, <2>4, CancelStays
<1>3. CASE LockAnimations \/ CheckProgress \/ UnlockAnimations
  <2>1. UNCHANGED <<db, queues, R>>
    BY <1>3 DEF LockAnimations, CheckProgress, UnlockAnimations, store
  <2>2. QED
    BY <1>1, <2>1, QuietStays DEF Holds, Running, queues
<1>4. CASE QueueFrames
  <2>1. UNCHANGED <<db, R>>
    BY <1>4 DEF QueueFrames, store
  <2>2. \A w : InLine(w) => InLine(w)'
    BY <1>1, <1>4, FramesPlaced
  <2>3. \A w : Running(w) => Running(w)'
    BY <2>1 DEF Running, Holds
  <2>4. QED
    BY <1>1, <2>1, <2>2, <2>3, LineStays
<1>5. QED
  BY <1>2, <1>3, <1>4

\* A started job leaves its queue for a thread.
\* A job that is started has a thread; so have those that had one.
LEMMA StartRuns ==
  ASSUME TypeOK, NEW task \in Task, NEW manual \in BOOLEAN, Start(task, manual)
  PROVE  Running(task.id)' /\ \A w : Running(w) => Running(w)'
<1> DEFINE job == [id |-> task.id, frameID |-> task.frame,
                   pc |-> "validate", fract |-> "NULL"]
<1>1. R' = Append(R, job)
  BY DEF Start
<1>2. job \in RenderingJob /\ job.id = task.id
  BY DEF Task, RenderingJob, RenderPC, FractalState
<1>3. R \in Seq(RenderingJob)
  BY DEF TypeOK, ThreadTypes
<1> HIDE DEF job
<1>4. /\ R' \in Seq(RenderingJob) /\ Len(R') = Len(R) + 1 /\ R'[Len(R) + 1] = job
      /\ \A k \in 1..Len(R) : R'[k] = R[k]
  BY <1>1, <1>2, <1>3, AppendProperties
<1>5. /\ Len(R) \in Nat /\ DOMAIN R = 1..Len(R) /\ DOMAIN R' = 1..(Len(R) + 1)
  BY <1>3, <1>4, LenProperties
<1>6. PICK id : id = task.id
  OBVIOUS
<1>7. Running(id)' /\ \A w : Running(w) => Running(w)'
  BY <1>2, <1>4, <1>5, <1>6 DEF Running, Holds
<1>8. QED
  BY <1>6, <1>7

LEMMA DispatchStays ==
  ASSUME RowInv, TypeOK', Dispatch
  PROVE  QueuedStays
<1>1. OrderInv /\ TypeOK /\ UNCHANGED <<params, Submitted, newJobs>>
  BY DEF RowInv, OrderInv, ThreadInv, Safe, Dispatch, intake
<1>2. \A w \in Ids : db'[w].status = "QUEUED" => db[w].status = "QUEUED"
  <2>1. db' = db \/ \E j \in Ids : db' = SetStatus(j, "RENDERING")
    <3>1. CASE FreeThread /\ JQManual # <<>>
      <4>1. Head(JQManual) \in Task /\ db' = SetStatus(Head(JQManual).id, "RENDERING")
        BY <1>1, <3>1, HeadTailProperties DEF Dispatch, RunThread, TypeOK, QueueTypes
      <4>2. QED
        BY <4>1 DEF Task
    <3>2. CASE FreeThread /\ JQManual = <<>> /\ JQ # <<>>
      <4>1. Head(JQ) \in Task /\ db' = SetStatus(Head(JQ).id, "RENDERING")
        BY <1>1, <3>2, HeadTailProperties DEF Dispatch, RunThread, TypeOK, QueueTypes
      <4>2. QED
        BY <4>1 DEF Task
    <3>3. CASE ~(FreeThread /\ (JQManual # <<>> \/ JQ # <<>>))
      BY <3>3 DEF Dispatch
    <3>4. QED
      BY <3>1, <3>2, <3>3
  <2>2. ASSUME NEW j \in Ids, db' = SetStatus(j, "RENDERING")
        PROVE  \A w \in Ids : db'[w].status = "QUEUED" => db[w].status = "QUEUED"
    <3>1. Rewrites(j, "RENDERING")
      BY <1>1, <2>2, RowWrites DEF TypeOK, Status
    <3>2. QED
      BY <3>1 DEF Rewrites
  <2>3. QED
    BY <2>1, <2>2
<1>3. ASSUME NEW task \in Task, NEW manual \in BOOLEAN, Start(task, manual)
      PROVE  QueuedStays
  <2>1. Running(task.id)' /\ \A w : Running(w) => Running(w)'
    BY <1>1, <1>3, StartRuns
  <2>2. \A w : InLine(w) => InLine(w)' \/ w = task.id
    BY <1>1, <1>3, StartKeepsLine
  <2>3. \A w : InLine(w) => InLine(w)' \/ Running(w)'
    BY <2>1, <2>2
  <2>4. QED
    BY <1>1, <1>2, <2>1, <2>3, LineStays
<1>4. CASE UNCHANGED <<R, queues, Submitted, newJobs, lastID, params, muxer, A>>
  <2>1. /\ \A w : InLine(w) => InLine(w)'
        /\ \A w : Running(w) => Running(w)'
    BY <1>4 DEF InLine, ListedIn, ZeroIn, Running, Holds, queues
  <2>2. QED
    BY <1>1, <1>2, <2>1, LineStays
<1>5. QED
  BY <1>1, <1>3, <1>4, DispatchStarts

\* A fetched job joins its queue.
LEMMA IntakeStays ==
  ASSUME RowInv, TypeOK', FetchSubmittedJobs \/ PostJob
  PROVE  QueuedStays
<1>1. OrderInv /\ TypeOK /\ UNCHANGED <<params, R>>
  BY DEF RowInv, OrderInv, ThreadInv, Safe, FetchSubmittedJobs, PostJob, intake
<1>2. \A w : Running(w) => Running(w)'
  BY <1>1 DEF Running, Holds
<1>3. CASE FetchSubmittedJobs
  <2>1. db' = db /\ \A w : InLine(w) => InLine(w)'
    BY <1>1, <1>3, FetchPlaced DEF FetchSubmittedJobs, store
  <2>2. QED
    BY <1>1, <1>2, <2>1, LineStays
<1>4. CASE PostJob
  <2>1. PICK id \in Ids : InLine(id) /\ Rewrites(id, "QUEUED")
    BY <1>1, <1>4, PostKeepsLine
  <2>2. \A w \in Ids : db'[w].status = "QUEUED" => db[w].status = "QUEUED" \/ InLine(w)
    BY <2>1 DEF Rewrites
  <2>3. QED
    BY <1>1, <1>2, <1>4, <2>2, PostKeepsLine, LineStays
<1>5. QED
  BY <1>3, <1>4

\* Deleted rows are gone, and a rename writes back the status that is there.
LEMMA RequestsStay ==
  ASSUME RowInv,
         NoCommand \/ CommandCancel \/ CommandDelete \/ CommandRename \/ WriteRename
  PROVE  QueuedStays
<1>1. /\ TypeOK /\ ThreadTypes /\ RenameRow /\ UNCHANGED <<params, Submitted, newJobs>>
  BY DEF RowInv, OrderInv, ThreadInv, Safe, TypeOK, NoCommand, CommandCancel,
         CommandDelete, CommandRename, WriteRename, AtCommand, intake
<1>2. CASE CommandCancel
  <2>1. PICK id : id = Head(requests).id
    OBVIOUS
  <2>2. CancelJob(id) /\ R' = CancelRunning(id) /\ id \in Ids
    <3>1. Head(requests) \in Request
      BY <1>1, <1>2, HeadTailProperties
      DEF CommandCancel, AtCommand, TypeOK, MailboxTypes
    <3>2. QED
      BY <1>2, <2>1, <3>1 DEF Request, CommandCancel
  <2>3. SameJobs
    BY <1>1, <2>2, CancelRunningFacts DEF SameJobs
  <2>4. \A w : Running(w) => Running(w)'
    BY <1>1, <2>3, JobsKept
  <2>5. QED
    BY <1>1, <2>2, <2>4, CancelStays
<1>3. CASE ~CommandCancel
  <2>1. UNCHANGED <<queues, R>>
    BY <1>3 DEF NoCommand, CommandDelete, CommandRename, WriteRename
  <2>2. \A w : Live(w) => Live(w)'
    BY <1>1, <2>1 DEF Live, Waiting, Running, ListedIn, Holds, queues
  <2>3. ASSUME NEW w \in Ids, Still(w), db'[w].status = "QUEUED"
        PROVE  db[w].status = "QUEUED"
    <3>1. CASE NoCommand \/ CommandRename
      BY <2>3, <3>1 DEF NoCommand, CommandRename, store
    <3>2. CASE CommandDelete
      <4>1. PICK id : id = Head(requests).id
        OBVIOUS
      <4>2. db' = [db EXCEPT ![id] = NoRow] \/ db' = db
        BY <3>2, <4>1 DEF CommandDelete, store
      <4>3. db'[w].status = "NONE" \/ db'[w] = db[w]
        <5>1. db \in [Ids -> Row] /\ NoRow.status = "NONE"
          BY <1>1 DEF TypeOK, StoreTypes, NoRow
        <5>2. QED
          BY <4>2, <5>1
      <4>4. QED
        BY <2>3, <4>3
    <3>3. CASE WriteRename
      <4>1. mainpc = "rename" /\ meta \in FractalMeta /\ db' = updateFractal(meta)
        BY <1>1, <3>3 DEF WriteRename, TypeOK, LoopTypes
      <4>2. Rewrites(meta.id, meta.status)
        BY <1>1, <4>1, RowWrites DEF TypeOK
      <4>3. CASE w = meta.id
        BY <1>1, <2>3, <4>1, <4>2, <4>3 DEF RenameRow, Rewrites
      <4>4. CASE w # meta.id
        BY <2>3, <4>2, <4>4 DEF Rewrites
      <4>5. QED
        BY <4>3, <4>4
    <3>4. QED
      BY <1>3, <3>1, <3>2, <3>3
  <2>4. QED
    BY <1>1, <2>2, <2>3 DEF QueuedStays
<1>4. QED
  BY <1>2, <1>3

LEMMA RenderStays ==
  ASSUME RowInv, TypeOK', NEW i \in DOMAIN R, RenderStep(i)
  PROVE  QueuedStays
<1>1. OrderInv /\ ThreadTypes
  BY DEF RowInv, OrderInv, ThreadInv, Safe, TypeOK
<1>2. CASE AddAnimationToQueue(i)
  <2>1. /\ \A w : Running(w)' <=> Running(w)
        /\ UNCHANGED <<Submitted, newJobs, queues, params, db>>
    BY <1>1, <1>2, AnimatePlaced DEF RowInv
  <2>2. QED
    BY <2>1, QuietStays DEF Holds, queues
<1>3. CASE ThreadMoves(i) \/ SaveImage(i)
  <2>1. SameJobs /\ UNCHANGED <<db, intake, queues, loop>>
    BY <1>1, <1>3, RenderLeaves
  <2>2. \A w : Running(w) => Running(w)'
    BY <1>1, <2>1, JobsKept
  <2>3. QED
    BY <2>1, <2>2, QuietStays DEF Holds, queues, intake, loop
<1>4. QED
  BY <1>2, <1>3 DEF RenderStep, ThreadMoves

LEMMA MuxStays ==
  ASSUME RowInv, TypeOK', MuxStep
  PROVE  QueuedStays
<1>1. UNCHANGED <<params, Submitted, newJobs, queues, R>>
  BY DEF MuxStep, MuxRead, MuxWrite, MuxCopyJobs, MuxPostJobs, MuxerFrame, intake, loop
<1>2. PICK j, s : Writes(j, s) /\ (j \in Ids => ~Still(j))
  BY MuxWrites
<1>3. \A w \in Ids : Still(w) => db'[w].status = db[w].status
  BY <1>2 DEF Writes, Rewrites
<1>4. \A w : Live(w) <=> Live(w)'
  BY <1>1 DEF Live, Waiting, Running, ListedIn, Holds, queues
<1>5. QED
  BY <1>1, <1>3, <1>4 DEF QueuedStays

\* Answering requests and delivering reports moves no job and writes no row.
LEMMA AnswersStay ==
  ASSUME NetworkAnswers, ~InsertFractal
  PROVE  QueuedStays
<1>1. UNCHANGED <<db, params, Submitted, newJobs, queues, R>>
  <2>1. UNCHANGED NetworkFrame /\ UNCHANGED <<db, params, Submitted>>
    BY DEF NetworkAnswers, PostRequest, QueryFractal, DeliverStep,
           DeliverReport, DeliverDeletion, intake
  <2>2. QED
    BY <2>1 DEF NetworkFrame, loop
<1>2. \A w : Live(w) <=> Live(w)'
  BY <1>1 DEF Live, Waiting, Running, ListedIn, Holds, queues
<1>3. QED
  BY <1>1, <1>2 DEF QueuedStays

\* A row that is inserted was missing, and no other job or row is touched.
LEMMA InsertStrandsOnlyItsRow ==
  ASSUME RowInv, InsertFractal, NEW id \in Ids, ~Stranded(id), Stranded(id)'
  PROVE  inserting = id /\ db[id].status = "NONE"
<1>1. TypeOK /\ InsertingHasNoRow
  BY DEF RowInv, RowsKnown, OrderInv, ThreadInv, Safe
<1>2. /\ inserting # NoId
      /\ db' = [db EXCEPT ![inserting] = [status |-> "QUEUED", title |-> ""]]
      /\ UNCHANGED <<params, Submitted, newJobs, queues, R>>
  BY DEF InsertFractal, NetworkFrame, loop
<1>3. Live(id) <=> Live(id)'
  BY <1>2 DEF Live, Waiting, Running, ListedIn, Holds, queues
<1>4. CASE inserting # id
  <2>1. db'[id] = db[id]
    BY <1>1, <1>2, <1>4 DEF TypeOK, StoreTypes
  <2>2. QED
    BY <1>2, <1>3, <2>1 DEF Stranded, Still
<1>5. QED
  BY <1>1, <1>2, <1>4 DEF InsertingHasNoRow

\* A job that is submitted is waiting, and every other row stays as it was.
LEMMA SubmitStrandsNone ==
  ASSUME RowInv, NEW kind \in Kinds, SubmitJob(kind), NEW id \in Ids, Stranded(id)'
  PROVE  Stranded(id)
<1>1. TypeOK /\ KnownRows
  BY DEF RowInv, OrderInv, ThreadInv, Safe, AllKnown
<1>2. /\ lastID \in Nat /\ lastID' = lastID + 1 /\ lastID' \in Ids
      /\ params' = [params EXCEPT ![lastID'] = kind]
      /\ Submitted' = Append(Submitted, lastID')
      /\ UNCHANGED <<db, queues, newJobs, R>>
  BY <1>1, BoundsAssumption
  DEF SubmitJob, TypeOK, IntakeTypes, Ids, NetworkFrame, loop
<1>3. /\ DOMAIN Submitted = 1..Len(Submitted) /\ Len(Submitted) \in Nat
      /\ DOMAIN Submitted' = 1..(Len(Submitted) + 1)
      /\ \A k \in 1..Len(Submitted) : Submitted'[k] = Submitted[k]
  <2>1. Submitted \in Seq(Ids)
    BY <1>1 DEF TypeOK, IntakeTypes
  <2>2. QED
    BY <1>2, <2>1, AppendProperties, LenProperties
<1>4. Live(id) => Live(id)'
  <2>1. ListedIn(Submitted, id) => ListedIn(Submitted, id)'
    BY <1>3 DEF ListedIn
  <2>2. QED
    BY <1>2, <2>1 DEF Live, Waiting, Running, ListedIn, Holds, queues
<1>5. id # lastID'
  BY <1>1, <1>2 DEF KnownRows, Stranded, Ids
<1>6. Still(id)
  BY <1>1, <1>2, <1>5 DEF Still, Stranded, TypeOK, IntakeTypes
<1>7. QED
  BY <1>2, <1>4, <1>6 DEF Stranded

\* A restart leaves no row QUEUED.
LEMMA RestartStrandsNone ==
  ASSUME RowInv, CrashRestart, NEW id \in Ids
  PROVE  ~Stranded(id)'
<1>1. db' = [j \in Ids |-> Recovered(db[j])] /\ db \in [Ids -> Row]
  BY DEF CrashRestart, RowInv, OrderInv, ThreadInv, Safe, TypeOK, StoreTypes
<1>2. db'[id].status # "QUEUED"
  BY <1>1 DEF Recovered, Row
<1>3. QED
  BY <1>2 DEF Stranded

\* No step but the insertion of a row strands one.
LEMMA StepStrandsNone ==
  ASSUME RowInv, [Next]_vars, ~InsertFractal, NEW id \in Ids, Stranded(id)'
  PROVE  Stranded(id)
<1>1. RowInv' /\ TypeOK'
  <2>1. RowInv'
    BY RowStep
  <2>2. QED
    BY <2>1 DEF RowInv, OrderInv, ThreadInv, Safe
<1>2. ASSUME QueuedStays PROVE Stranded(id)
  BY <1>2 DEF QueuedStays, Stranded, Still
<1>3. CASE UNCHANGED vars
  <2>1. UNCHANGED <<db, params, Submitted, newJobs, queues, R>>
    BY <1>3 DEF vars, store, intake, loop
  <2>2. QueuedStays
    BY <2>1, QuietStays DEF Holds, Running, queues
  <2>3. QED
    BY <1>2, <2>2
<1>4. CASE MainStep
  <2>1. CASE ReapBusy \/ ReapStill \/ ReapFrame \/ ReapEnd
    BY <1>1, <1>2, <2>1, ReapStays
  <2>2. CASE \/ AnimationTimeout \/ LockAnimations \/ QueueFrames
             \/ CheckProgress \/ UnlockAnimations
    BY <1>1, <1>2, <2>2, AnimationsStay
  <2>3. CASE Dispatch
    BY <1>1, <1>2, <2>3, DispatchStays
  <2>4. CASE FetchSubmittedJobs \/ PostJob
    BY <1>1, <1>2, <2>4, IntakeStays
  <2>5. CASE NoCommand \/ CommandCancel \/ CommandDelete \/ CommandRename \/ WriteRename
    BY <1>1, <1>2, <2>5, RequestsStay
  <2>6. QED
    BY <1>4, <2>1, <2>2, <2>3, <2>4, <2>5 DEF MainStep
<1>5. ASSUME NEW i \in DOMAIN R, RenderStep(i) PROVE Stranded(id)
  BY <1>1, <1>2, <1>5, RenderStays
<1>6. CASE MuxStep
  BY <1>1, <1>2, <1>6, MuxStays
<1>7. CASE ClientStep \/ DeliverStep
  <2>1. CASE \E kind \in Kinds : SubmitJob(kind)
    BY <2>1, SubmitStrandsNone
  <2>2. CASE NetworkAnswers
    BY <1>2, <2>2, AnswersStay
  <2>3. QED
    BY <1>7, <2>1, <2>2 DEF ClientStep, NetworkAnswers
<1>8. CASE CrashRestart
  BY <1>8, RestartStrandsNone
<1>9. QED
  BY <1>3, <1>4, <1>5, <1>6, <1>7, <1>8 DEF Next

\* DBManager and FractalGen: the only step that leaves the row of a still QUEUED
\* with its job in no list and no thread is submitJob inserting the missing row
\* of a job that has ended, for any interleaving of all the threads.
THEOREM OnlyLateInsertStrands == Spec => StrandedOnlyByLateInsert
<1>1. RowInv /\ [Next]_vars => [\A id \in Ids :
         ~Stranded(id) /\ Stranded(id)'
         => InsertFractal /\ inserting = id /\ db[id].status = "NONE"]_vars
  BY InsertStrandsOnlyItsRow, StepStrandsNone
<1>2. QED
  BY AlwaysRows, <1>1, PTL DEF Spec, StrandedOnlyByLateInsert

-----------------------------------------------------------------------------
(* Frames of an animation.  Each of them is still to be queued, is queued   *)
(* or has a thread, or has its image.                                       *)

\* A thread that has finished its frame has saved it.
Saved(r, images) ==
  r.fract = "DONE" \/ r.pc = "finishing" =>
    /\ r.pc \notin {"validate", "spawn", "enqueue"}
    /\ r.frameID = 0 \/ <<r.id, r.frameID>> \in images
HasFrame(q, id, f)  == \E k \in 1..Len(q) : q[k].id = id /\ q[k].frame = f
HasThread(r, id, f) == \E k \in 1..Len(r) : r[k].id = id /\ r[k].frameID = f
Covered(a, f, q, r, images) ==
  \/ \E k \in 1..Len(a.frameQueue) : a.frameQueue[k] = f
  \/ f \in a.framesRendering /\ (HasFrame(q, a.id, f) \/ HasThread(r, a.id, f))
  \/ <<a.id, f>> \in images

SavedFrames == \A k \in 1..Len(R) : Saved(R[k], pngs)
AnimFrames ==
  \A k \in 1..Len(A) : \A f \in 2..params[A[k].id].frames :
    Covered(A[k], f, JQManual, R, pngs)
FramesInv == OrderInv /\ SavedFrames /\ AnimFrames

\* Steps that lose no image of a frame, and no thread or animation but whole.
KeepPngs == \A id, f : f # 0 /\ <<id, f>> \in pngs => <<id, f>> \in pngs'
FromThread(r, s) == /\ r.id = s.id /\ r.frameID = s.frameID /\ r.pc = s.pc
                    /\ r.fract \in {s.fract, "CANCEL"}
ThreadsFrom ==
  KeepPngs /\ \A k \in 1..Len(R') : \E j \in 1..Len(R) : FromThread(R'[k], R[j])
FrameStays(id, f) ==
  HasFrame(JQManual, id, f) \/ HasThread(R, id, f) =>
    HasFrame(JQManual', id, f) \/ HasThread(R', id, f) \/ <<id, f>> \in pngs'
AnimsFrom ==
  /\ KeepPngs
  /\ \A k \in 1..Len(A') : \E j \in 1..Len(A) :
       /\ A'[k] = A[j] /\ params'[A[j].id].frames = params[A[j].id].frames
       /\ \A f \in Nat : f >= 2 => FrameStays(A[j].id, f)

LEMMA SavedKept ==
  ASSUME SavedFrames, ThreadsFrom
  PROVE  SavedFrames'
<1> SUFFICES ASSUME NEW k \in 1..Len(R') PROVE Saved(R'[k], pngs')
  BY DEF SavedFrames
<1>1. PICK j \in 1..Len(R) : FromThread(R'[k], R[j])
  BY DEF ThreadsFrom
<1>2. Saved(R[j], pngs)
  BY DEF SavedFrames
<1>3. QED
  BY <1>1, <1>2 DEF Saved, FromThread, ThreadsFrom, KeepPngs

LEMMA AnimsKept ==
  ASSUME AnimFrames, AnimsFrom
  PROVE  AnimFrames'
<1> SUFFICES ASSUME NEW k \in 1..Len(A'), NEW f \in 2..params'[A'[k].id].frames
             PROVE  Covered(A'[k], f, JQManual', R', pngs')
  BY DEF AnimFrames
<1>1. PICK j \in 1..Len(A) :
        /\ A'[k] = A[j] /\ params'[A[j].id].frames = params[A[j].id].frames
        /\ \A g \in Nat : g >= 2 => FrameStays(A[j].id, g)
  BY DEF AnimsFrom
<1>2. f \in 2..params[A[j].id].frames /\ f \in Nat /\ f >= 2 /\ f # 0
  BY <1>1
<1>3. Covered(A[j], f, JQManual, R, pngs)
  BY <1>2 DEF AnimFrames
<1>4. FrameStays(A[j].id, f)
  BY <1>1, <1>2
<1>5. Covered(A[j], f, JQManual', R', pngs')
  BY <1>2, <1>3, <1>4 DEF Covered, FrameStays, AnimsFrom, KeepPngs
<1>6. QED
  BY <1>1, <1>5

\* Most steps leave jobs and animations alone, and keep every image.
LEMMA QuietFrames ==
  ASSUME FramesInv, KeepPngs, UNCHANGED <<JQManual, R, A, params>>
  PROVE  SavedFrames' /\ AnimFrames'
<1>1. ThreadsFrom
  BY DEF ThreadsFrom, FromThread
<1>2. AnimsFrom
  BY DEF AnimsFrom, FrameStays, HasFrame, HasThread
<1>3. QED
  BY <1>1, <1>2, SavedKept, AnimsKept DEF FramesInv

LEMMA RemoveKeeps ==
  ASSUME NEW S, NEW s \in Seq(S), NEW i \in 1..Len(s)
  PROVE  /\ \A k \in 1..Len(s) : k # i =>
              \E j \in 1..Len(RemoveAt(s, i)) : RemoveAt(s, i)[j] = s[k]
         /\ \A j \in 1..Len(RemoveAt(s, i)) :
              \E k \in 1..Len(s) : k # i /\ RemoveAt(s, i)[j] = s[k]
<1>1. /\ Len(RemoveAt(s, i)) = Len(s) - 1 /\ Len(s) \in Nat
      /\ \A k \in 1..(Len(s) - 1) :
           RemoveAt(s, i)[k] = IF k < i THEN s[k] ELSE s[k + 1]
  BY RemoveAtFacts, LenProperties
<1>2. ASSUME NEW k \in 1..Len(s), k # i
      PROVE  \E j \in 1..(Len(s) - 1) : RemoveAt(s, i)[j] = s[k]
  <2>1. CASE k < i
    <3>1. k \in 1..(Len(s) - 1) /\ RemoveAt(s, i)[k] = s[k]
      BY <1>1, <2>1
    <3>2. QED
      BY <3>1
  <2>2. CASE k > i
    <3>1. k - 1 \in 1..(Len(s) - 1) /\ ~(k - 1 < i) /\ (k - 1) + 1 = k
      BY <1>1, <2>2
    <3>2. RemoveAt(s, i)[k - 1] = s[k]
      BY <1>1, <3>1
    <3>3. QED
      BY <3>1, <3>2
  <2>3. QED
    BY <1>1, <1>2, <2>1, <2>2
<1>3. ASSUME NEW j \in 1..(Len(s) - 1)
      PROVE  \E k \in 1..Len(s) : k # i /\ RemoveAt(s, i)[j] = s[k]
  <2>1. CASE j < i
    BY <1>1, <2>1
  <2>2. CASE ~(j < i)
    <3>1. j + 1 \in 1..Len(s) /\ j + 1 # i /\ RemoveAt(s, i)[j] = s[j + 1]
      BY <1>1, <2>2
    <3>2. QED
      BY <3>1
  <2>3. QED
    BY <2>1, <2>2
<1>4. QED
  BY <1>1, <1>2, <1>3

LEMMA CancelRunningMarks ==
  ASSUME ThreadTypes, NEW id
  PROVE  \A j \in 1..Len(R) : FromThread(CancelRunning(id)[j], R[j])
<1>1. \A j \in 1..Len(R) : CancelRunning(id)[j].fract \in {R[j].fract, "CANCEL"}
  <2> DEFINE i == FirstRunning(id)
  <2>1. i \in 0..Len(R) /\ R \in Seq(RenderingJob) /\ DOMAIN R = 1..Len(R)
    BY FirstRunningFacts, LenProperties DEF ThreadTypes
  <2> HIDE DEF i
  <2>2. CASE i = 0
    BY <2>2 DEF CancelRunning, i
  <2>3. CASE i # 0
    <3>1. CancelRunning(id) = [R EXCEPT ![i].fract = "CANCEL"] /\ i \in 1..Len(R)
      BY <2>1, <2>3, LenProperties DEF CancelRunning, i
    <3>2. R[i] \in RenderingJob
      BY <2>1, <3>1, ElementOfSeq
    <3>3. QED
      BY <2>1, <3>1, <3>2 DEF RenderingJob
  <2>4. QED
    BY <2>2, <2>3
<1>2. QED
  BY <1>1, CancelRunningFacts DEF FromThread

\* cancelJob takes the animation of the job away; others keep their frames.
LEMMA CancelFrames ==
  ASSUME FramesInv, NEW id \in Ids, CancelJob(id), UNCHANGED params,
         \A w, f : w # id /\ HasThread(R, w, f) => HasThread(R', w, f)
  PROVE  AnimFrames' /\ KeepPngs
<1> DEFINE run == FirstRunning(id)
           man == IF run = 0 THEN FirstOf(JQManual, id) ELSE 0
           ani == FirstOf(A, id)
<1>1. /\ JQManual' = Without(JQManual, man) /\ A' = Without(A, ani) /\ pngs' = pngs
  BY DEF CancelJob
<1>2. /\ AnimFrames /\ AnimatedOnce
      /\ JQManual \in Seq(Task) /\ Len(JQManual) \in Nat
      /\ A \in Seq(Animation) /\ Len(A) \in Nat
  BY LenProperties
  DEF FramesInv, OrderInv, ThreadInv, Safe, TypeOK, QueueTypes, AnimTypes, JobPlaces, Placed
<1>3. man \in 0..Len(JQManual) /\ (man # 0 => JQManual[man].id = id)
  BY <1>2, FirstOfFacts
<1>4. /\ ani \in 0..Len(A) /\ (ani # 0 => A[ani].id = id)
      /\ ani = 0 => \A k \in 1..Len(A) : A[k].id # id
  BY <1>2, FirstOfFacts
<1> HIDE DEF run, man, ani
<1>5. KeepPngs
  BY <1>1 DEF KeepPngs
<1>6. ASSUME NEW w, w # id, NEW f, HasFrame(JQManual, w, f)
      PROVE  HasFrame(JQManual', w, f)
  <2>1. CASE man = 0
    BY <1>1, <1>6, <2>1 DEF Without
  <2>2. CASE man # 0
    <3>1. man \in 1..Len(JQManual) /\ JQManual' = RemoveAt(JQManual, man)
      BY <1>1, <1>2, <1>3, <2>2 DEF Without
    <3>2. PICK k \in 1..Len(JQManual) : JQManual[k].id = w /\ JQManual[k].frame = f
      BY <1>6 DEF HasFrame
    <3>3. k # man
      BY <1>3, <1>6, <2>2, <3>2
    <3>4. \E j \in 1..Len(JQManual') : JQManual'[j] = JQManual[k]
      BY <1>2, <3>1, <3>3, RemoveKeeps
    <3>5. QED
      BY <3>2, <3>4 DEF HasFrame
  <2>3. QED
    BY <2>1, <2>2
<1>7. \A k \in 1..Len(A') : \E j \in 1..Len(A) : A'[k] = A[j] /\ A[j].id # id
  <2>1. CASE ani = 0
    BY <1>1, <1>4, <2>1 DEF Without
  <2>2. CASE ani # 0
    <3>1. ani \in 1..Len(A) /\ A' = RemoveAt(A, ani)
      BY <1>1, <1>2, <1>4, <2>2 DEF Without
    <3>2. \A j \in 1..Len(A) : j # ani => A[j].id # id
      BY <1>2, <1>4, <2>2, <3>1 DEF AnimatedOnce
    <3>3. QED
      BY <1>2, <3>1, <3>2, RemoveKeeps
  <2>3. QED
    BY <2>1, <2>2
<1>8. AnimsFrom
  <2>1. \A w, f : w # id => FrameStays(w, f)
    BY <1>6 DEF FrameStays
  <2>2. QED
    BY <1>5, <1>7, <2>1 DEF AnimsFrom
<1>9. QED
  BY <1>2, <1>5, <1>8, AnimsKept

LEMMA ThreadsRemoved ==
  ASSUME NEW i \in 1..Len(R), NEW r \in Seq(RenderingJob), Len(r) = Len(R),
         \A j \in 1..Len(R) : FromThread(r[j], R[j]), R' = RemoveAt(r, i)
  PROVE  /\ \A k \in 1..Len(R') : \E j \in 1..Len(R) : FromThread(R'[k], R[j])
         /\ \A k \in 1..Len(R) : k # i =>
              \E j \in 1..Len(R') : FromThread(R'[j], R[k])
<1>1. /\ \A k \in 1..Len(R) : k # i => \E j \in 1..Len(R') : R'[j] = r[k]
      /\ \A j \in 1..Len(R') : \E k \in 1..Len(R) : k # i /\ R'[j] = r[k]
  <2>1. /\ \A k \in 1..Len(r) : k # i =>
             \E j \in 1..Len(RemoveAt(r, i)) : RemoveAt(r, i)[j] = r[k]
        /\ \A j \in 1..Len(RemoveAt(r, i)) :
             \E k \in 1..Len(r) : k # i /\ RemoveAt(r, i)[j] = r[k]
    <3>1. i \in 1..Len(r)
      OBVIOUS
    <3>2. QED
      BY <3>1, RemoveKeeps
  <2>2. QED
    BY <2>1
<1>2. ASSUME NEW k \in 1..Len(R')
      PROVE  \E j \in 1..Len(R) : FromThread(R'[k], R[j])
  <2>1. PICK j \in 1..Len(R) : R'[k] = r[j]
    BY <1>1
  <2>2. FromThread(r[j], R[j])
    OBVIOUS
  <2>3. QED
    BY <2>1, <2>2
<1>3. ASSUME NEW k \in 1..Len(R), k # i
      PROVE  \E j \in 1..Len(R') : FromThread(R'[j], R[k])
  <2>1. PICK j \in 1..Len(R') : R'[j] = r[k]
    BY <1>1, <1>3
  <2>2. FromThread(r[k], R[k])
    OBVIOUS
  <2>3. QED
    BY <2>1, <2>2
<1>4. QED
  BY <1>2, <1>3

\* A frame whose thread is reaped has its image, or ends its animation.
LEMMA ReapFrames ==
  ASSUME FramesInv, ReapBusy \/ ReapStill \/ ReapFrame \/ ReapEnd
  PROVE  SavedFrames' /\ AnimFrames'
<1>1. /\ SavedFrames /\ AnimFrames /\ TypeOK /\ ThreadTypes /\ R \in Seq(RenderingJob)
      /\ Len(R) \in Nat /\ UNCHANGED params
  BY Lengths
  DEF FramesInv, OrderInv, ThreadInv, Safe, TypeOK, ThreadTypes, ReapBusy, ReapStill,
      ReapFrame, ReapEnd, intake
<1>2. CASE ReapBusy \/ ReapEnd
  <2>1. UNCHANGED <<JQManual, R, A, params>> /\ KeepPngs
    BY <1>1, <1>2 DEF ReapBusy, ReapEnd, store, queues, anim, KeepPngs
  <2>2. QED
    BY <2>1, QuietFrames
<1>3. ASSUME it \in 1..Len(R), R' = RemoveAt(R, it), UNCHANGED <<JQManual, A, pngs>>,
             R[it].frameID = 0 \/ <<R[it].id, R[it].frameID>> \in pngs
      PROVE  SavedFrames' /\ AnimFrames'
  <2>1. /\ \A k \in 1..Len(R') : \E j \in 1..Len(R) : FromThread(R'[k], R[j])
        /\ \A k \in 1..Len(R) : k # it => \E j \in 1..Len(R') : FromThread(R'[j], R[k])
    <3>1. \A j \in 1..Len(R) : FromThread(R[j], R[j])
      BY DEF FromThread
    <3>2. QED
      BY <1>1, <1>3, <3>1, ThreadsRemoved
  <2>2. KeepPngs
    BY <1>3 DEF KeepPngs
  <2>3. ASSUME NEW w, NEW f \in Nat, f >= 2 PROVE FrameStays(w, f)
    <3>1. SUFFICES ASSUME NEW k \in 1..Len(R), R[k].id = w, R[k].frameID = f
                   PROVE  HasThread(R', w, f) \/ <<w, f>> \in pngs'
      BY <1>3 DEF FrameStays, HasThread
    <3>2. CASE k = it
      BY <1>3, <2>3, <3>1, <3>2
    <3>3. CASE k # it
      BY <2>1, <3>1, <3>3 DEF FromThread, HasThread
    <3>4. QED
      BY <3>2, <3>3
  <2>4. AnimsFrom
    BY <1>1, <1>3, <2>2, <2>3 DEF AnimsFrom
  <2>5. QED
    BY <1>1, <2>1, <2>2, <2>4, SavedKept, AnimsKept DEF ThreadsFrom
<1>4. CASE ReapStill
  <2>1. /\ it \in 1..Len(R) /\ R' = RemoveAt(R, it) /\ R[it].frameID = 0
        /\ UNCHANGED <<JQManual, A, pngs>>
    BY <1>1, <1>4 DEF ReapStill, TypeOK, LoopTypes, queues, anim
  <2>2. QED
    BY <1>3, <2>1
<1>5. CASE ReapFrame
  <2>1. it \in 1..Len(R) /\ R[it].frameID # 0
    BY <1>1, <1>5 DEF ReapFrame, TypeOK, LoopTypes
  <2>2. CASE /\ Verdict(R[it].fract) = "COMPLETE" /\ R' = RemoveAt(R, it)
             /\ UNCHANGED <<store, mailbox, queues, anim>>
    <3>1. R[it].fract = "DONE"
      BY <2>2 DEF Verdict
    <3>2. <<R[it].id, R[it].frameID>> \in pngs
      BY <1>1, <2>1, <3>1 DEF SavedFrames, Saved
    <3>3. QED
      BY <1>3, <2>1, <2>2, <3>2 DEF store, queues, anim
  <2>3. CASE CancelJob(R[it].id) /\ R' = RemoveAt(CancelRunning(R[it].id), it)
    <3>1. PICK id \in Ids : id = R[it].id
      BY <1>1, <2>1, Entries
    <3>2. /\ \A k \in 1..Len(R') : \E j \in 1..Len(R) : FromThread(R'[k], R[j])
          /\ \A k \in 1..Len(R) : k # it => \E j \in 1..Len(R') : FromThread(R'[j], R[k])
      BY <1>1, <2>1, <2>3, CancelRunningFacts, CancelRunningMarks, ThreadsRemoved
    <3>3. ASSUME NEW w, w # id, NEW f, HasThread(R, w, f) PROVE HasThread(R', w, f)
      <4>1. PICK k \in 1..Len(R) : R[k].id = w /\ R[k].frameID = f
        BY <3>3 DEF HasThread
      <4>2. k # it
        BY <3>1, <3>3, <4>1
      <4>3. QED
        BY <3>2, <4>1, <4>2 DEF FromThread, HasThread
    <3>4. AnimFrames' /\ KeepPngs
      BY <1>1, <2>3, <3>1, <3>3, CancelFrames
    <3>5. QED
      BY <1>1, <3>2, <3>4, SavedKept DEF ThreadsFrom
  <2>4. QED
    BY <1>5, <2>2, <2>3 DEF ReapFrame
<1>6. QED
  BY <1>2, <1>4, <1>5

\* A cancelled animation is gone; the frames of the others stay where they are.
LEMMA MarkedFrames ==
  ASSUME FramesInv, NEW id \in Ids, CancelJob(id), R' = CancelRunning(id),
         UNCHANGED params
  PROVE  SavedFrames' /\ AnimFrames'
<1>1. SavedFrames /\ ThreadTypes
  BY DEF FramesInv, OrderInv, ThreadInv, Safe, TypeOK
<1>2. Len(R') = Len(R) /\ \A j \in 1..Len(R) : FromThread(R'[j], R[j])
  BY <1>1, CancelRunningFacts, CancelRunningMarks
<1>3. \A w, f : HasThread(R, w, f) => HasThread(R', w, f)
  BY <1>2 DEF HasThread, FromThread
<1>4. AnimFrames' /\ KeepPngs
  BY <1>3, CancelFrames
<1>5. QED
  BY <1>1, <1>2, <1>4, SavedKept DEF ThreadsFrom

\* Deleting a fractal removes its first image, <id>.png, and no other.
LEMMA RequestFrames ==
  ASSUME FramesInv,
         NoCommand \/ CommandCancel \/ CommandDelete \/ CommandRename \/ WriteRename
  PROVE  SavedFrames' /\ AnimFrames'
<1>1. TypeOK /\ UNCHANGED params
  BY DEF FramesInv, OrderInv, ThreadInv, Safe, NoCommand, CommandCancel,
         CommandDelete, CommandRename, WriteRename, AtCommand, intake
<1>2. CASE CommandCancel
  <2>1. PICK id : id = Head(requests).id
    OBVIOUS
  <2>2. Head(requests) \in Request
    BY <1>1, <1>2, HeadTailProperties DEF CommandCancel, AtCommand, TypeOK, MailboxTypes
  <2>3. CancelJob(id) /\ R' = CancelRunning(id) /\ id \in Ids
    BY <1>2, <2>1, <2>2 DEF Request, CommandCancel
  <2>4. QED
    BY <1>1, <2>3, MarkedFrames
<1>3. CASE ~CommandCancel
  <2>1. UNCHANGED <<JQManual, R, A>>
    BY <1>3 DEF NoCommand, CommandDelete, CommandRename, WriteRename, queues, anim
  <2>2. KeepPngs
    <3>1. CASE CommandDelete
      <4>1. PICK id : id = Head(requests).id
        OBVIOUS
      <4>2. pngs' = pngs \ {<<id, 0>>} \/ pngs' = pngs
        BY <3>1, <4>1 DEF CommandDelete, store
      <4>3. QED
        BY <4>2 DEF KeepPngs
    <3>2. CASE ~CommandDelete
      <4>1. pngs' = pngs
        BY <1>3, <3>2 DEF NoCommand, CommandRename, WriteRename, store
      <4>2. QED
        BY <4>1 DEF KeepPngs
    <3>3. QED
      BY <3>1, <3>2
  <2>3. QED
    BY <1>1, <2>1, <2>2, QuietFrames
<1>4. QED
  BY <1>2, <1>3

\* Frames that are queued for rendering are in the manual queue from then on.
LEMMA QueueFramesKept ==
  ASSUME FramesInv, TypeOK', QueueFrames
  PROVE  SavedFrames' /\ AnimFrames'
<1>1. /\ OrderInv /\ SavedFrames /\ AnimFrames /\ UNCHANGED <<R, params, pngs>>
      /\ KeepPngs
  BY DEF FramesInv, QueueFrames, intake, store, KeepPngs
<1>2. CASE UNCHANGED <<JQManual, A>>
  BY <1>1, <1>2, QuietFrames
<1>3. CASE FramesMove
  <2>1. \A w, f : HasFrame(JQManual, w, f) => HasFrame(JQManual', w, f)
    BY <1>3 DEF FramesMove, HasFrame
  <2>2. SavedFrames'
    BY <1>1 DEF SavedFrames
  <2>3. ASSUME NEW k \in 1..Len(A), NEW f \in 2..params[A[k].id].frames
        PROVE  Covered(A'[k], f, JQManual', R, pngs)
    <3>1. Covered(A[k], f, JQManual, R, pngs)
      BY <1>1 DEF AnimFrames
    <3>2. CASE k # it
      <4>1. A'[k] = A[k]
        BY <1>3, <3>2 DEF FramesMove
      <4>2. QED
        BY <2>1, <3>1, <4>1 DEF Covered
    <3>3. CASE k = it
      <4>1. /\ A'[k].id = A[k].id /\ A[k].framesRendering \subseteq A'[k].framesRendering
            /\ \A x \in 1..Len(A[k].frameQueue) :
                 \/ \E j \in 1..Len(A'[k].frameQueue) :
                      A'[k].frameQueue[j] = A[k].frameQueue[x]
                 \/ /\ A[k].frameQueue[x] \in A'[k].framesRendering
                    /\ \E j \in 1..Len(JQManual') :
                         /\ JQManual'[j].id = A[k].id
                         /\ JQManual'[j].frame = A[k].frameQueue[x]
        BY <1>3, <3>3 DEF FramesMove
      <4>2. CASE \E x \in 1..Len(A[k].frameQueue) : A[k].frameQueue[x] = f
        BY <4>1, <4>2 DEF Covered, HasFrame
      <4>3. CASE /\ f \in A[k].framesRendering
                 /\ HasFrame(JQManual, A[k].id, f) \/ HasThread(R, A[k].id, f)
        BY <2>1, <4>1, <4>3 DEF Covered
      <4>4. CASE <<A[k].id, f>> \in pngs
        BY <4>1, <4>4 DEF Covered
      <4>5. QED
        BY <3>1, <4>2, <4>3, <4>4 DEF Covered
    <3>4. QED
      BY <3>2, <3>3
  <2>4. Len(A') = Len(A) /\ \A k \in 1..Len(A) : A'[k].id = A[k].id
    BY <1>3 DEF FramesMove
  <2>5. AnimFrames'
    <3> SUFFICES ASSUME NEW k \in 1..Len(A'), NEW f \in 2..params'[A'[k].id].frames
                 PROVE  Covered(A'[k], f, JQManual', R', pngs')
      BY DEF AnimFrames
    <3>1. k \in 1..Len(A) /\ A'[k].id = A[k].id
      BY <2>4
    <3>2. f \in 2..params[A[k].id].frames
      BY <1>1, <3>1
    <3>3. QED
      BY <1>1, <2>3, <3>1, <3>2
  <2>6. QED
    BY <2>2, <2>5
<1>4. QED
  BY <1>1, <1>2, <1>3, FramesPlaced

\* A frame that is in no queue and has no thread any more has its image.
LEMMA ProgressFrames ==
  ASSUME FramesInv, CheckProgress
  PROVE  /\ SavedFrames' /\ AnimFrames'
         /\ \A id \in muxing' \ muxing :
              \A f \in 2..params[id].frames : <<id, f>> \in pngs
<1>1. /\ OrderInv /\ SavedFrames /\ AnimFrames /\ TypeOK /\ AnimatedOnce
      /\ A \in Seq(Animation) /\ it \in 1..Len(A) /\ Len(A) \in Nat
      /\ UNCHANGED <<R, params, pngs, JQManual>> /\ A[it].manualQueue
  <2>1. TypeOK /\ OrderInv /\ SavedFrames /\ AnimFrames /\ AnimatedOnce
    BY DEF FramesInv, OrderInv, ThreadInv, Safe, JobPlaces, Placed
  <2>2. it \in 1..Len(A) /\ A \in Seq(Animation) /\ Len(A) \in Nat
    BY <2>1, Lengths DEF CheckProgress, TypeOK, LoopTypes, AnimTypes
  <2>3. A[it].manualQueue
    BY <2>1, <2>2 DEF AnimatedOnce, FramesOnce
  <2>4. UNCHANGED <<R, params, pngs, JQManual>>
    BY DEF CheckProgress, intake, store, queues
  <2>5. QED
    BY <2>1, <2>2, <2>3, <2>4
<1>2. SavedFrames' /\ KeepPngs
  BY <1>1 DEF SavedFrames, KeepPngs
<1> DEFINE a == A[it]
           busy == {f \in a.framesRendering : StillBusy(a, f)}
<1>3. \A f \in a.framesRendering :
        HasFrame(JQManual, a.id, f) \/ HasThread(R, a.id, f) => f \in busy
  <2>1. DOMAIN JQManual = 1..Len(JQManual) /\ DOMAIN R = 1..Len(R)
    BY <1>1, Lengths
  <2>2. QED
    BY <1>1, <2>1 DEF StillBusy, HasFrame, HasThread
<1>4. a.frameQueue \in Seq(Nat) /\ a \in Animation /\ a.id \in Ids
  BY <1>1, Entries
<1>5. CASE a.frameQueue = <<>> /\ busy = {}
  <2>1. muxing' = muxing \cup {a.id} /\ A' = RemoveAt(A, it)
    BY <1>5 DEF CheckProgress
  <2>2. \A f \in 2..params[a.id].frames : <<a.id, f>> \in pngs
    <3> SUFFICES ASSUME NEW f \in 2..params[a.id].frames PROVE <<a.id, f>> \in pngs
      OBVIOUS
    <3>1. Covered(a, f, JQManual, R, pngs)
      BY <1>1 DEF AnimFrames
    <3>2. Len(a.frameQueue) = 0
      BY <1>4, <1>5
    <3> HIDE DEF a, busy
    <3>3. ~\E k \in 1..Len(a.frameQueue) : a.frameQueue[k] = f
      BY <3>2
    <3>4. QED
      BY <1>3, <1>5, <3>1, <3>3 DEF Covered
  <2>3. \A k \in 1..Len(A') : \E j \in 1..Len(A) : A'[k] = A[j]
    <3>1. \A k \in 1..Len(RemoveAt(A, it)) :
            \E j \in 1..Len(A) : j # it /\ RemoveAt(A, it)[k] = A[j]
      BY <1>1, RemoveKeeps
    <3>2. QED
      BY <2>1, <3>1
  <2>4. AnimsFrom
    BY <1>1, <1>2, <2>3 DEF AnimsFrom, FrameStays
  <2>5. AnimFrames'
    BY <1>1, <2>4, AnimsKept
  <2>6. QED
    BY <1>2, <2>1, <2>2, <2>5
<1>6. CASE ~(a.frameQueue = <<>> /\ busy = {})
  <2> DEFINE b == [a EXCEPT !.framesRendering = busy]
  <2>1. muxing' = muxing /\ A' = [A EXCEPT ![it] = b]
    BY <1>1, <1>6 DEF CheckProgress
  <2>2. b.id = a.id /\ b.frameQueue = a.frameQueue /\ b.framesRendering = busy
    BY <1>4 DEF Animation
  <2> HIDE DEF b, busy
  <2>3. \A k \in 1..Len(A) : A'[k] = IF k = it THEN b ELSE A[k]
    BY <1>1, <2>1, LenProperties
  <2>4. Len(A') = Len(A)
    <3>1. DOMAIN A = 1..Len(A)
      BY <1>1, LenProperties
    <3>2. busy \subseteq a.framesRendering
      BY DEF busy
    <3>3. b \in Animation
      BY <1>4, <3>2 DEF Animation, b
    <3>4. QED
      BY <1>1, <2>1, <3>3, ExceptSeq
  <2>5. ASSUME NEW k \in 1..Len(A), NEW f \in 2..params[A[k].id].frames
        PROVE  Covered(A'[k], f, JQManual, R, pngs)
    <3>1. Covered(A[k], f, JQManual, R, pngs)
      BY <1>1 DEF AnimFrames
    <3>2. CASE k # it
      BY <2>3, <3>1, <3>2
    <3>3. CASE k = it
      <4>1. A'[k] = b /\ A[k] = a
        BY <1>1, <2>3, <3>3
      <4> HIDE DEF a
      <4>2. QED
        BY <1>3, <2>2, <3>1, <4>1 DEF Covered
    <3>4. QED
      BY <3>2, <3>3
  <2>6. AnimFrames'
    <3> SUFFICES ASSUME NEW k \in 1..Len(A'), NEW f \in 2..params'[A'[k].id].frames
                 PROVE  Covered(A'[k], f, JQManual', R', pngs')
      BY DEF AnimFrames
    <3>1. k \in 1..Len(A) /\ A'[k].id = A[k].id
      BY <2>2, <2>3, <2>4
    <3>2. f \in 2..params[A[k].id].frames
      BY <1>1, <3>1
    <3>3. QED
      BY <1>1, <2>5, <3>1, <3>2
  <2>7. QED
    BY <1>2, <2>1, <2>6
<1>7. QED
  BY <1>5, <1>6

LEMMA AnimationFrames ==
  ASSUME FramesInv, TypeOK',
         \/ AnimationTimeout \/ LockAnimations \/ QueueFrames
         \/ CheckProgress \/ UnlockAnimations
  PROVE  SavedFrames' /\ AnimFrames'
<1>1. CASE AnimationTimeout
  <2>1. TypeOK /\ UNCHANGED params
    BY <1>1 DEF FramesInv, OrderInv, ThreadInv, Safe, AnimationTimeout, intake
  <2>2. PICK a \in DOMAIN A : CancelJob(A[a].id) /\ R' = CancelRunning(A[a].id)
    BY <1>1 DEF AnimationTimeout
  <2>3. PICK id \in Ids : id = A[a].id
    BY <2>1, <2>2, Entries, Lengths
  <2>4. CancelJob(id) /\ R' = CancelRunning(id)
    BY <2>2, <2>3
  <2>5. QED
    BY <2>1, <2>4, MarkedFrames
<1>2. CASE LockAnimations \/ UnlockAnimations
  <2>1. UNCHANGED <<JQManual, R, A, params, pngs>>
    BY <1>2 DEF LockAnimations, UnlockAnimations, store, queues, intake
  <2>2. QED
    BY <2>1, QuietFrames DEF KeepPngs
<1>3. QED
  BY <1>1, <1>2, QueueFramesKept, ProgressFrames

\* A started frame leaves its queue for a thread.
LEMMA DispatchFrames ==
  ASSUME FramesInv, Dispatch
  PROVE  SavedFrames' /\ AnimFrames'
<1>1. /\ OrderInv /\ SavedFrames /\ AnimFrames /\ TypeOK /\ pngs' = pngs /\ KeepPngs
      /\ JQManual \in Seq(Task) /\ R \in Seq(RenderingJob) /\ Len(JQManual) \in Nat
      /\ Len(R) \in Nat
  BY Lengths DEF FramesInv, OrderInv, ThreadInv, Safe, TypeOK, QueueTypes, ThreadTypes,
     Dispatch, KeepPngs
<1>2. ASSUME NEW task \in Task, NEW manual \in BOOLEAN, Start(task, manual)
      PROVE  SavedFrames' /\ AnimFrames'
  <2> DEFINE job == [id |-> task.id, frameID |-> task.frame,
                     pc |-> "validate", fract |-> "NULL"]
  <2>1. /\ R' = Append(R, job) /\ UNCHANGED <<A, params>>
        /\ manual => JQManual # <<>> /\ task = Head(JQManual) /\ JQManual' = Tail(JQManual)
        /\ ~manual => JQManual' = JQManual
    BY <1>2 DEF Start
  <2>2. job \in RenderingJob /\ job.id = task.id /\ job.frameID = task.frame
        /\ job.pc = "validate" /\ job.fract = "NULL"
    BY DEF Task, RenderingJob, RenderPC, FractalState
  <2> HIDE DEF job
  <2>3. /\ Len(R') = Len(R) + 1 /\ R'[Len(R) + 1] = job
        /\ \A k \in 1..Len(R) : R'[k] = R[k]
    BY <1>1, <2>1, <2>2, AppendProperties
  <2>4. SavedFrames'
    <3> SUFFICES ASSUME NEW k \in 1..Len(R') PROVE Saved(R'[k], pngs')
      BY DEF SavedFrames
    <3>1. CASE k = Len(R) + 1
      BY <2>2, <2>3, <3>1 DEF Saved
    <3>2. CASE k # Len(R) + 1
      <4>1. k \in 1..Len(R)
        BY <1>1, <2>3, <3>2
      <4>2. QED
        BY <1>1, <2>3, <4>1 DEF SavedFrames
    <3>3. QED
      BY <3>1, <3>2
  <2>5. ASSUME NEW w, NEW f PROVE FrameStays(w, f)
    <3>1. ASSUME HasThread(R, w, f) PROVE HasThread(R', w, f)
      BY <1>1, <2>3, <3>1 DEF HasThread
    <3>2. ASSUME NEW k \in 1..Len(JQManual), JQManual[k].id = w, JQManual[k].frame = f
          PROVE  HasFrame(JQManual', w, f) \/ HasThread(R', w, f)
      <4>1. CASE ~manual
        BY <2>1, <3>2, <4>1 DEF HasFrame
      <4>2. CASE manual
        <5>1. /\ task = JQManual[1] /\ Len(JQManual') = Len(JQManual) - 1
              /\ \A x \in 1..(Len(JQManual) - 1) : JQManual'[x] = JQManual[x + 1]
          <6>1. /\ JQManual # <<>> /\ task = Head(JQManual)
                /\ JQManual' = Tail(JQManual)
            BY <2>1, <4>2
          <6>2. QED
            BY <1>1, <6>1, HeadTailProperties
        <5>2. CASE k = 1
          <6>1. Len(R) + 1 \in 1..Len(R')
            BY <1>1, <2>3
          <6>2. QED
            BY <2>2, <2>3, <3>2, <5>1, <5>2, <6>1 DEF HasThread
        <5>3. CASE k # 1
          <6>1. k - 1 \in 1..Len(JQManual') /\ (k - 1) + 1 = k
            BY <1>1, <5>1, <5>3
          <6>2. JQManual'[k - 1] = JQManual[k]
            BY <5>1, <6>1
          <6>3. QED
            BY <3>2, <6>1, <6>2 DEF HasFrame
        <5>4. QED
          BY <5>2, <5>3
      <4>3. QED
        BY <4>1, <4>2
    <3>3. QED
      BY <3>1, <3>2 DEF FrameStays, HasFrame
  <2>6. AnimsFrom
    BY <1>1, <2>1, <2>5 DEF AnimsFrom
  <2>7. QED
    BY <1>1, <2>4, <2>6, AnimsKept
<1>3. CASE UNCHANGED <<R, queues, Submitted, newJobs, lastID, params, muxer, A>>
  BY <1>1, <1>3, QuietFrames DEF queues
<1>4. QED
  BY <1>1, <1>2, <1>3, DispatchStarts

\* Fetching and posting jobs only adds to the queues.
LEMMA IntakeFrames ==
  ASSUME FramesInv, FetchSubmittedJobs \/ PostJob
  PROVE  SavedFrames' /\ AnimFrames'
<1>1. /\ SavedFrames /\ AnimFrames /\ TypeOK /\ JQManual \in Seq(Task)
      /\ Len(JQManual) \in Nat /\ UNCHANGED <<R, A, params, pngs>>
  BY Lengths DEF FramesInv, OrderInv, ThreadInv, Safe, TypeOK, QueueTypes,
     FetchSubmittedJobs, PostJob, store, intake, anim
<1>2. KeepPngs
  BY <1>1 DEF KeepPngs
<1>3. CASE JQManual' = JQManual
  BY <1>1, <1>2, <1>3, QuietFrames
<1>4. ASSUME NEW task, JQManual' = Append(JQManual, task) PROVE SavedFrames' /\ AnimFrames'
  <2>1. Len(JQManual') = Len(JQManual) + 1 /\ \A k \in 1..Len(JQManual) : JQManual'[k] = JQManual[k]
    <3>1. JQManual \in Seq(Task \cup {task})
      BY <1>1, SeqMonotonic
    <3>2. QED
      BY <1>4, <3>1, AppendProperties
  <2>2. \A w, f : HasFrame(JQManual, w, f) => HasFrame(JQManual', w, f)
    BY <1>1, <2>1 DEF HasFrame
  <2>3. AnimsFrom
    BY <1>1, <1>2, <2>2 DEF AnimsFrom, FrameStays
  <2>4. SavedFrames'
    BY <1>1 DEF SavedFrames
  <2>5. QED
    BY <1>1, <2>3, <2>4, AnimsKept
<1>5. JQManual' = JQManual \/ \E task : JQManual' = Append(JQManual, task)
  BY DEF FetchSubmittedJobs, PostJob, PushBack, queues
<1>6. QED
  BY <1>3, <1>4, <1>5

\* A step of a render thread: a frame is DONE only once its image is saved.
LEMMA MovesSaved ==
  ASSUME FramesInv, NEW i \in DOMAIN R, ThreadMoves(i)
  PROVE  SavedFrames'
<1>1. /\ SavedFrames /\ R \in Seq(RenderingJob) /\ i \in 1..Len(R)
      /\ R[i] \in RenderingJob /\ Saved(R[i], pngs) /\ pngs' = pngs
  <2>1. TypeOK /\ SavedFrames /\ R \in Seq(RenderingJob) /\ ThreadTypes
    BY DEF FramesInv, OrderInv, ThreadInv, Safe, TypeOK, ThreadTypes
  <2>2. i \in 1..Len(R) /\ R[i] \in RenderingJob
    BY <2>1, Lengths, Entries
  <2>3. pngs' = pngs
    BY <2>1, ThreadMovesFacts DEF RenderFrame, store
  <2>4. QED
    BY <2>1, <2>2, <2>3 DEF SavedFrames
<1>2. ASSUME NEW s, Saved(s, pngs), R' = [R EXCEPT ![i] = s] PROVE SavedFrames'
  <2>1. Len(R') = Len(R) /\ \A k \in 1..Len(R) : R'[k] = IF k = i THEN s ELSE R[k]
    <3>1. R \in Seq(RenderingJob \cup {s})
      BY <1>1, SeqMonotonic
    <3>2. QED
      BY <1>1, <1>2, <3>1, ExceptSeq
  <2>2. QED
    BY <1>1, <1>2, <2>1 DEF SavedFrames
<1>3. ASSUME NEW pc, pc # "finishing", Goto(i, pc),
             R[i].fract = "DONE" => pc \notin {"validate", "spawn", "enqueue"}
      PROVE  SavedFrames'
  <2> DEFINE s == [R[i] EXCEPT !.pc = pc]
  <2>1. R' = [R EXCEPT ![i] = s]
    BY <1>1, <1>3 DEF Goto
  <2>2. s.id = R[i].id /\ s.frameID = R[i].frameID /\ s.pc = pc /\ s.fract = R[i].fract
    BY <1>1 DEF RenderingJob
  <2> HIDE DEF s
  <2>3. Saved(s, pngs)
    BY <1>1, <1>3, <2>2 DEF Saved
  <2>4. QED
    BY <1>2, <2>1, <2>3
<1> DEFINE Allowed(fract, pc) ==
             \/ fract # "DONE" /\ pc # "finishing"
             \/ R[i].pc = "finishing" /\ pc = "status"
<1>4. ASSUME NEW fract, NEW pc, SetState(i, fract, pc), Allowed(fract, pc)
      PROVE  SavedFrames'
  <2> DEFINE s == [R[i] EXCEPT !.fract = fract, !.pc = pc]
  <2>1. R' = [R EXCEPT ![i] = s]
    BY <1>1, <1>4 DEF SetState
  <2>2. s.id = R[i].id /\ s.frameID = R[i].frameID /\ s.pc = pc /\ s.fract = fract
    BY <1>1 DEF RenderingJob
  <2> HIDE DEF s
  <2>3. Saved(s, pngs)
    BY <1>1, <1>4, <2>2 DEF Saved
  <2>4. QED
    BY <1>2, <2>1, <2>3
<1>5. CASE Validate(i)
  <2>1. R[i].fract # "DONE"
    BY <1>1, <1>5 DEF Validate, At, Saved
  <2>2. \E pc : pc # "finishing" /\ Goto(i, pc)
    BY <1>5 DEF Validate
  <2>3. QED
    BY <1>3, <2>1, <2>2
<1>6. CASE SpawnJobs(i)
  <2>1. R[i].fract # "DONE"
    BY <1>1, <1>6 DEF SpawnJobs, At, Saved
  <2>2. \E pc : pc # "finishing" /\ Goto(i, pc)
    BY <1>6 DEF SpawnJobs
  <2>3. QED
    BY <1>3, <2>1, <2>2
<1> DEFINE later == {"complete", "save", "expire", "expireLate"}
           other == {"PARAMS_PROCESSED", "ERR", "RENDERING", "TIMEOUT"}
<1>7. \A pc \in later : Goto(i, pc) => SavedFrames'
  <2>1. \A pc \in later : pc # "finishing" /\ pc \notin {"validate", "spawn", "enqueue"}
    OBVIOUS
  <2> HIDE DEF later
  <2>2. QED
    BY <1>3, <2>1
<1>8. \A s \in other, pc \in {"process", "processed", "pass", "save", "complete"} :
        SetState(i, s, pc) => SavedFrames'
  <2>1. \A s \in other, pc \in {"process", "processed", "pass", "save", "complete"} :
          Allowed(s, pc)
    OBVIOUS
  <2> HIDE DEF other, Allowed
  <2>2. QED
    BY <1>4, <2>1
<1>9. R[i].pc = "finishing" /\ SetState(i, "DONE", "status") => SavedFrames'
  <2>1. R[i].pc = "finishing" => Allowed("DONE", "status")
    OBVIOUS
  <2> HIDE DEF Allowed
  <2>2. QED
    BY <1>4, <2>1
<1>10. CASE Construct(i) \/ ProcessParams(i)
  BY <1>7, <1>8, <1>10 DEF Construct, ProcessParams
<1>11. CASE BeginRender(i) \/ RenderPasses(i)
  BY <1>7, <1>8, <1>11 DEF BeginRender, RenderPasses
<1>12. CASE Expire(i) \/ PostRender(i) \/ LastStatus(i) \/ ExpireLate(i) \/ Exception(i)
  BY <1>7, <1>8, <1>9, <1>12
  DEF Expire, PostRender, LastStatus, ExpireLate, Exception, At
<1>13. QED
  BY <1>5, <1>6, <1>10, <1>11, <1>12 DEF ThreadMoves

\* The image is in the render directory before the thread looks at its state.
LEMMA SaveImageSaved ==
  ASSUME FramesInv, NEW i \in DOMAIN R, SaveImage(i)
  PROVE  SavedFrames' /\ KeepPngs
<1>1. /\ SavedFrames /\ R \in Seq(RenderingJob) /\ i \in 1..Len(R)
      /\ R[i] \in RenderingJob /\ Saved(R[i], pngs) /\ R[i].pc = "save"
  <2>1. TypeOK /\ SavedFrames /\ R \in Seq(RenderingJob)
    BY DEF FramesInv, OrderInv, ThreadInv, Safe, TypeOK, ThreadTypes
  <2>2. i \in 1..Len(R) /\ R[i] \in RenderingJob
    BY <2>1, Lengths, Entries
  <2>3. QED
    BY <2>1, <2>2 DEF SavedFrames, SaveImage, At
<1>2. pngs \subseteq pngs' /\ (R[i].fract # "ERR" => <<R[i].id, R[i].frameID>> \in pngs')
  BY DEF SaveImage, Images
<1>3. KeepPngs
  BY <1>2 DEF KeepPngs
<1>4. PICK pc : /\ pc = IF R[i].fract = "RENDERING" THEN "finishing" ELSE "status"
                /\ Goto(i, pc)
  BY DEF SaveImage
<1> DEFINE s == [R[i] EXCEPT !.pc = pc]
<1>5. R' = [R EXCEPT ![i] = s] /\ s \in RenderingJob
  BY <1>1, <1>4 DEF Goto, RenderingJob, RenderPC
<1>6. s.id = R[i].id /\ s.frameID = R[i].frameID /\ s.pc = pc /\ s.fract = R[i].fract
  BY <1>1 DEF RenderingJob
<1> HIDE DEF s
<1>7. Saved(s, pngs')
  BY <1>1, <1>2, <1>4, <1>6 DEF Saved
<1>8. Len(R') = Len(R) /\ \A k \in 1..Len(R) : R'[k] = IF k = i THEN s ELSE R[k]
  BY <1>1, <1>5, ExceptSeq
<1>9. \A k \in 1..Len(R) : Saved(R[k], pngs) => Saved(R[k], pngs')
  BY <1>2 DEF Saved
<1>10. SavedFrames'
  BY <1>1, <1>7, <1>8, <1>9 DEF SavedFrames
<1>11. QED
  BY <1>3, <1>10

\* The first thread of an animation becomes frame 1; all others wait in A.
LEMMA AnimateFrames ==
  ASSUME FramesInv, TypeOK', NEW i \in DOMAIN R, AddAnimationToQueue(i)
  PROVE  SavedFrames' /\ AnimFrames'
<1>1. /\ OrderInv /\ SavedFrames /\ AnimFrames /\ TypeOK /\ Len(A) \in Nat /\ pngs' = pngs
      /\ i \in 1..Len(R) /\ R[i] \in RenderingJob /\ Saved(R[i], pngs)
  <2>1. OrderInv /\ SavedFrames /\ AnimFrames /\ TypeOK
    BY DEF FramesInv, OrderInv, ThreadInv, Safe
  <2>2. i \in 1..Len(R) /\ R[i] \in RenderingJob /\ Len(A) \in Nat
    BY <2>1, Lengths, Entries
  <2>3. pngs' = pngs
    BY DEF AddAnimationToQueue, RenderFrame, store
  <2>4. QED
    BY <2>1, <2>2, <2>3 DEF SavedFrames
<1>2. AnimMove(i) /\ UNCHANGED <<JQManual, params>>
  BY <1>1, AnimatePlaced DEF queues
<1>3. /\ Len(R') = Len(R) /\ \A k \in 1..Len(R) : k # i => R'[k] = R[k]
      /\ R[i].pc = "enqueue" /\ R[i].frameID = 0
      /\ R'[i].id = R[i].id /\ R'[i].frameID = 1 /\ R'[i].pc = "construct"
      /\ R'[i].fract = R[i].fract
  BY <1>1, <1>2 DEF AnimMove, RenderingJob
<1>4. Saved(R'[i], pngs')
  BY <1>1, <1>3 DEF Saved
<1>5. SavedFrames'
  BY <1>1, <1>3, <1>4 DEF SavedFrames
<1>6. ASSUME NEW w, NEW f \in Nat, f >= 2 PROVE HasThread(R, w, f) => HasThread(R', w, f)
  BY <1>3, <1>6 DEF HasThread
<1>7. AnimFrames'
  <2> SUFFICES ASSUME NEW k \in 1..Len(A'), NEW f \in 2..params'[A'[k].id].frames
               PROVE  Covered(A'[k], f, JQManual', R', pngs')
    BY DEF AnimFrames
  <2>1. CASE k \in 1..Len(A)
    <3>1. A'[k] = A[k] /\ f \in 2..params[A[k].id].frames
      BY <1>2, <2>1 DEF AnimMove
    <3>2. Covered(A[k], f, JQManual, R, pngs)
      BY <1>1, <2>1, <3>1 DEF AnimFrames
    <3>3. f \in Nat /\ f >= 2
      BY <3>1
    <3>4. QED
      BY <1>1, <1>2, <1>6, <3>1, <3>2, <3>3 DEF Covered
  <2>2. CASE k \notin 1..Len(A)
    <3>1. k = Len(A) + 1
      BY <1>1, <1>2, <2>2 DEF AnimMove
    <3>2. \E j \in 1..Len(A'[k].frameQueue) : A'[k].frameQueue[j] = f
      BY <1>2, <3>1 DEF AnimMove
    <3>3. QED
      BY <3>2 DEF Covered
  <2>3. QED
    BY <2>1, <2>2
<1>8. QED
  BY <1>5, <1>7

LEMMA RenderFrames ==
  ASSUME FramesInv, TypeOK', NEW i \in DOMAIN R, RenderStep(i)
  PROVE  SavedFrames' /\ AnimFrames'
<1>1. AnimFrames /\ ThreadTypes /\ OrderInv
  BY DEF FramesInv, OrderInv, ThreadInv, Safe, TypeOK
<1>2. CASE ThreadMoves(i) \/ SaveImage(i)
  <2>1. SameJobs /\ UNCHANGED <<intake, queues, anim>>
    BY <1>1, <1>2, RenderLeaves
  <2>2. SavedFrames' /\ KeepPngs
    <3>1. CASE ThreadMoves(i)
      <4>1. pngs' = pngs
        BY <1>1, <3>1, ThreadMovesFacts DEF RenderFrame, store
      <4>2. QED
        BY <3>1, <4>1, MovesSaved DEF KeepPngs
    <3>2. CASE SaveImage(i)
      BY <3>2, SaveImageSaved
    <3>3. QED
      BY <1>2, <3>1, <3>2
  <2>3. \A w, f : HasThread(R, w, f) => HasThread(R', w, f)
    BY <2>1 DEF SameJobs, HasThread
  <2>4. AnimsFrom
    BY <2>1, <2>2, <2>3 DEF AnimsFrom, FrameStays, intake, queues, anim
  <2>5. QED
    BY <1>1, <2>2, <2>4, AnimsKept
<1>3. CASE AddAnimationToQueue(i)
  BY <1>3, AnimateFrames
<1>4. QED
  BY <1>2, <1>3 DEF RenderStep, ThreadMoves

\* The other threads know nothing of frames; a new job has no animation yet.
LEMMA NetworkFrames ==
  ASSUME FramesInv, MuxStep \/ InsertFractal \/ ClientStep \/ DeliverStep
  PROVE  SavedFrames' /\ AnimFrames'
<1>1. UNCHANGED <<JQManual, R, A, pngs>> /\ KeepPngs
  <2>1. UNCHANGED <<JQManual, R, A, pngs>>
    BY DEF MuxStep, MuxRead, MuxWrite, MuxCopyJobs, MuxPostJobs, MuxerFrame,
           InsertFractal, ClientStep, SubmitJob, PostRequest, QueryFractal, DeliverStep,
           DeliverReport, DeliverDeletion, NetworkFrame, queues, anim
  <2>2. QED
    BY <2>1 DEF KeepPngs
<1>2. CASE \E kind \in Kinds : SubmitJob(kind)
  <2>1. TypeOK /\ AnimFrames /\ SavedFrames /\ KnownAnims /\ lastID \in Nat
    BY DEF FramesInv, OrderInv, ThreadInv, Safe, AllKnown, TypeOK, IntakeTypes
  <2>2. \A id \in Ids : id <= lastID => params'[id] = params[id]
    BY <1>2, <2>1 DEF SubmitJob, TypeOK, IntakeTypes, Ids
  <2>3. \A k \in 1..Len(A) : params'[A[k].id] = params[A[k].id]
    BY <2>1, <2>2, Entries DEF KnownAnims, Known
  <2>4. AnimsFrom
    BY <1>1, <2>3 DEF AnimsFrom, FrameStays
  <2>5. SavedFrames'
    BY <1>1, <2>1 DEF SavedFrames
  <2>6. QED
    BY <2>1, <2>4, <2>5, AnimsKept
<1>3. CASE ~\E kind \in Kinds : SubmitJob(kind)
  <2>1. UNCHANGED params
    BY <1>3 DEF MuxStep, MuxRead, MuxWrite, MuxCopyJobs, MuxPostJobs, MuxerFrame,
       InsertFractal, ClientStep, PostRequest, QueryFractal, DeliverStep,
       DeliverReport, DeliverDeletion, intake
  <2>2. QED
    BY <1>1, <2>1, QuietFrames
<1>4. QED
  BY <1>2, <1>3

LEMMA FramesStep == FramesInv /\ [Next]_vars => FramesInv'
<1> SUFFICES ASSUME FramesInv, [Next]_vars PROVE FramesInv'
  OBVIOUS
<1>1. OrderInv' /\ TypeOK'
  <2>1. OrderInv'
    BY OrderStep DEF FramesInv
  <2>2. QED
    BY <2>1 DEF OrderInv, ThreadInv, Safe
<1>2. SavedFrames' /\ AnimFrames'
  <2>1. CASE UNCHANGED vars
    <3>1. UNCHANGED <<JQManual, R, A, params, pngs>>
      BY <2>1 DEF vars, store, intake, queues, anim
    <3>2. QED
      BY <3>1, QuietFrames DEF KeepPngs
  <2>2. CASE MainStep
    <3>1. CASE ReapBusy \/ ReapStill \/ ReapFrame \/ ReapEnd
      BY <3>1, ReapFrames
    <3>2. CASE \/ AnimationTimeout \/ LockAnimations \/ QueueFrames
               \/ CheckProgress \/ UnlockAnimations
      BY <1>1, <3>2, AnimationFrames
    <3>3. CASE Dispatch
      BY <3>3, DispatchFrames
    <3>4. CASE FetchSubmittedJobs \/ PostJob
      BY <3>4, IntakeFrames
    <3>5. CASE NoCommand \/ CommandCancel \/ CommandDelete \/ CommandRename \/ WriteRename
      BY <3>5, RequestFrames
    <3>6. QED
      BY <2>2, <3>1, <3>2, <3>3, <3>4, <3>5 DEF MainStep
  <2>3. CASE \E i \in DOMAIN R : RenderStep(i)
    BY <1>1, <2>3, RenderFrames
  <2>4. CASE MuxStep \/ InsertFractal \/ ClientStep \/ DeliverStep
    BY <2>4, NetworkFrames
  <2>5. CASE CrashRestart
    <3>1. R' = <<>> /\ A' = <<>>
      BY <2>5 DEF CrashRestart
    <3>2. QED
      BY <3>1 DEF SavedFrames, AnimFrames
  <2>6. QED
    BY <2>1, <2>2, <2>3, <2>4, <2>5 DEF Next
<1>3. QED
  BY <1>1, <1>2 DEF FramesInv

LEMMA AlwaysFrames == Spec => []FramesInv
<1>1. Init => FramesInv
  <2> SUFFICES ASSUME Init PROVE FramesInv
    OBVIOUS
  <2>1. OrderInv /\ R = <<>> /\ A = <<>>
    BY OrderInit DEF Init
  <2>2. QED
    BY <2>1 DEF FramesInv, SavedFrames, AnimFrames
<1>2. QED
  BY <1>1, FramesStep, PTL DEF Spec

\* FractalGen::addAnimationFramesToRenderQueue: the muxer is handed only an
\* animation that has the image of every frame that was queued for it.
THEOREM MuxedFramesHaveImages == Spec => MuxesQueuedFrames
<1> DEFINE Muxes == \A id \in muxing' \ muxing :
                      \A f \in 2..params[id].frames : <<id, f>> \in pngs
<1>1. FramesInv /\ [Next]_vars => [Muxes]_vars
  <2> SUFFICES ASSUME FramesInv, Next PROVE Muxes
    OBVIOUS
  <2>1. CASE CheckProgress
    BY <2>1, ProgressFrames
  <2>2. CASE ~CheckProgress
    <3>1. CASE MainStep
      BY <2>2, <3>1 DEF MainStep, ReapBusy, ReapStill, ReapFrame, ReapEnd,
         AnimationTimeout, LockAnimations, QueueFrames, UnlockAnimations, Dispatch,
         FetchSubmittedJobs, PostJob, NoCommand, CommandCancel, CommandDelete,
         CommandRename, WriteRename, AtCommand, muxer
    <3>2. ASSUME NEW i \in DOMAIN R, RenderStep(i) PROVE Muxes
      BY <3>2 DEF RenderStep, Validate, SpawnJobs, AddAnimationToQueue, Construct,
         ProcessParams, BeginRender, RenderPasses, Expire, SaveImage, PostRender,
         LastStatus, ExpireLate, Exception, RenderFrame, muxer
    <3>3. CASE MuxStep \/ CrashRestart
      BY <3>3 DEF MuxStep, MuxRead, MuxWrite, MuxCopyJobs, MuxPostJobs, CrashRestart
    <3>4. CASE InsertFractal \/ ClientStep \/ DeliverStep
      BY <3>4 DEF InsertFractal, ClientStep, SubmitJob, PostRequest, QueryFractal,
         DeliverStep, DeliverReport, DeliverDeletion, NetworkFrame, muxer
    <3>5. QED
      BY <3>1, <3>2, <3>3, <3>4 DEF Next
  <2>3. QED
    BY <2>1, <2>2
<1>2. QED
  BY AlwaysFrames, <1>1, PTL DEF Spec, MuxesQueuedFrames

=============================================================================
