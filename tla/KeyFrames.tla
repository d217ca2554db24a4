----------------------------- MODULE KeyFrames -----------------------------
(***************************************************************************)
(* AnimationBuilder: how the key frames of one integer parameter become    *)
(* its value in every frame of an animation.  buildAnimatedParams puts the *)
(* value of the job as a key frame 1 before the submitted ones, which keep *)
(* the order they came in; interpolateFrame is called for frames 2, 3, ... *)
(* and works with the key frame it has reached last and the one after it.  *)
(***************************************************************************)
EXTENDS Integers, Sequences

CONSTANTS
  NotNumeric,   \* a JSON value that is no number, where a number should be
  Garbage       \* an int converted from a double that is infinite or no number

Methods  == {"none", "linear", "square", "cube", "sqroot", "cuberoot"}
Given    == Int \cup {NotNumeric}
Value    == Given \cup {Garbage}
KeyFrame == [frameno : Int, val : Given, interp : Methods]

ASSUME NoNumbers == NotNumeric \notin Int /\ Garbage \notin Int

VARIABLES
  pc,           \* of spawnJobs: "idle", "frames", "queued" or "failed"
  F,            \* the key frames of the parameter, <<>>: it is not animated
  lastSetIndex, \* the key frame reached last; the first one is 1
  param,        \* the parameter in the JSON document of the frames
  frames,       \* number of frames of the animation
  jobs          \* the parameter in the job of frame 2, 3, ...

keyVars == <<pc, F, lastSetIndex, param, frames, jobs>>

-----------------------------------------------------------------------------
(* animationInterpolate<int>: the slope and the result are doubles turned  *)
(* into ints, that is, cut off after the point.                            *)

Abs(n) == IF n < 0 THEN -n ELSE n

Slope(rise, steps) ==
  LET q == Abs(rise) \div Abs(steps)
  IN  IF (rise < 0) = (steps < 0) THEN q ELSE -q

Power(n, k) == IF k = 2 THEN n * n ELSE n * n * n      \* k is 2 or 3

\* b plus the k-th root of q, or minus it, cut off after the point.
Root(k, q) == CHOOSE n \in 0..q : Power(n, k) <= q /\ Power(n + 1, k) > q
RootUp(k, q) == LET n == Root(k, q) IN IF Power(n, k) = q THEN n ELSE n + 1
PlusRoot(b, k, q)  == IF b + Root(k, q) >= 0 THEN b + Root(k, q) ELSE b + RootUp(k, q)
MinusRoot(b, k, q) == -PlusRoot(-b, k, q)

\* b + m times the k-th root of progress
OnRoot(b, m, k, progress) ==
  IF m < 0 THEN MinusRoot(b, k, Power(-m, k) * progress)
           ELSE PlusRoot(b, k, Power(m, k) * progress)

\* Division by zero makes an infinity, or with no rise no number at all.
animationInterpolate(method, frame, fi, ff, i, f) ==
  LET steps == ff - fi
      progress == frame - fi
      m == Slope(f - i, steps)
  IN  IF steps = 0 THEN Garbage
      ELSE CASE method = "linear"   -> m * progress + i
             [] method = "square"   -> m * Power(progress, 2) + i
             [] method = "cube"     -> m * Power(progress, 3) + i
             [] method = "sqroot"   -> OnRoot(i, m, 2, progress)
             [] method = "cuberoot" -> OnRoot(i, m, 3, progress)
             [] OTHER               -> i

-----------------------------------------------------------------------------

KeysInit ==
  /\ pc = "idle" /\ F = <<>> /\ lastSetIndex = 1
  /\ param = NotNumeric /\ frames = 0 /\ jobs = <<>>

\* The sorting at the end sorts copies of the lists, so F stays as it is.
buildAnimatedParams(keyframes, base, n) ==
  /\ pc = "idle"
  /\ pc' = "frames"
  /\ F' = IF keyframes = <<>> THEN <<>>
          ELSE <<[frameno |-> 1, val |-> base, interp |-> "none"]>> \o keyframes
  /\ lastSetIndex' = 1
  /\ param' = base /\ frames' = n /\ jobs' = <<>>

thisframe == Len(jobs) + 2

LastFrame == F[lastSetIndex]
NextFrame == F[lastSetIndex + 1]
HasNext == lastSetIndex < Len(F)
ReachedLate(k) == k.frameno < thisframe     \* mutant: one frame late
ReachedNow(k) == k.frameno = thisframe

\* The frame's job is saved with the parameter as it is now.
SaveJob == jobs' = Append(jobs, param') /\ UNCHANGED <<F, frames>>
InFrames == pc = "frames" /\ thisframe <= frames

\* interpolateFrame: nothing changes after the last key frame, ...
Keep ==
  /\ InFrames
  /\ HasNext => ~ReachedNow(NextFrame) /\ NextFrame.interp = "none"
  /\ UNCHANGED <<pc, lastSetIndex, param>>
  /\ SaveJob

\* ... the next key frame is reached exactly at its number, ...
ReachKey ==
  /\ InFrames /\ HasNext /\ ReachedNow(NextFrame)
  /\ param' = NextFrame.val
  /\ lastSetIndex' = lastSetIndex + 1
  /\ UNCHANGED pc
  /\ SaveJob

Between == InFrames /\ HasNext /\ ~ReachedNow(NextFrame) /\ NextFrame.interp # "none"
Numeric == LastFrame.val # NotNumeric /\ NextFrame.val # NotNumeric

\* ... or else the value lies between the last key frame and the next one.
Interpolate ==
  /\ Between /\ Numeric
  /\ param' = animationInterpolate(NextFrame.interp, thisframe,
                LastFrame.frameno, NextFrame.frameno, LastFrame.val, NextFrame.val)
  /\ UNCHANGED <<pc, lastSetIndex>>
  /\ SaveJob

\* asInt raises an exception, which ends the job.
Throw ==
  /\ Between /\ ~Numeric
  /\ pc' = "failed"
  /\ UNCHANGED <<F, lastSetIndex, param, frames, jobs>>

interpolateFrame == Keep \/ ReachKey \/ Interpolate \/ Throw

\* All jobs are saved: the animation is queued.
AllSpawned ==
  /\ pc = "frames" /\ thisframe > frames
  /\ pc' = "queued"
  /\ UNCHANGED <<F, lastSetIndex, param, frames, jobs>>

KeysNext ==
  \/ \E keyframes \in Seq(KeyFrame), base \in Given, n \in Nat :
          buildAnimatedParams(keyframes, base, n)
  \/ interpolateFrame
  \/ AllSpawned

KeysSpec == KeysInit /\ [][KeysNext]_keyVars

-----------------------------------------------------------------------------

\* The builder's variables have their types.
KeyTypes ==
  /\ pc \in {"idle", "frames", "queued", "failed"}
  /\ F \in Seq(KeyFrame) /\ frames \in Nat
  /\ lastSetIndex \in Nat \ {0} /\ (F # <<>> => lastSetIndex <= Len(F))
  /\ param \in Value /\ jobs \in Seq(Value)

Ascending(k) == \A i, j \in 1..k : i < j => F[i].frameno < F[j].frameno

\* The key frame in force at a frame: the last one up to it, in the part of
\* the list that ascends from its start.
InForceAt(k, f) ==
  /\ k \in DOMAIN F /\ Ascending(k) /\ F[k].frameno <= f
  /\ k < Len(F) /\ F[k].frameno < F[k + 1].frameno => f < F[k + 1].frameno
InForce(f) == CHOOSE k \in DOMAIN F : InForceAt(k, f)

\* What the value of a frame should be, said without any state: at a key frame
\* and after the last one, that of the key frame; between two key frames,
\* what the method of the second one makes of both.
FrameValue(f) ==
  LET k == InForce(f)
      next == F[k + 1]
  IN  IF k = Len(F) \/ F[k].frameno = f \/ next.interp = "none"
      THEN F[k].val
      ELSE animationInterpolate(next.interp, f, F[k].frameno, next.frameno,
                                F[k].val, next.val)

\* Every frame gets the value its key frames define, whatever the order of the
\* list: the stepwise walk along it never misses or repeats a key frame of the
\* ascending part, and leaves no value of an earlier segment behind.
FollowsKeys ==
  F # <<>> => \A n \in DOMAIN jobs : jobs[n] = FrameValue(n + 1)

\* The list is in the order of the frames, as the sort at the end of
\* buildAnimatedParams promises.
KeysSorted == \A i, j \in DOMAIN F : i < j => F[i].frameno <= F[j].frameno
=============================================================================
