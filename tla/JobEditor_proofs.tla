--------------------------- MODULE JobEditor_proofs ---------------------------
(***************************************************************************)
(* Proofs about the way of a job from the editor to the frames of its      *)
(* animation: the key frames give every frame the value they define, the   *)
(* groups on display are enough for the server, and the frames pass its    *)
(* checks.  For every schema that is a tree, and every key frame.          *)
(***************************************************************************)
EXTENDS JobEditor, SequenceTheorems, WellFoundedInduction, TLAPS

\* A set of naturals that is not empty has a least member.
LEMMA LeastOf ==
  ASSUME NEW S, S \subseteq Nat, S # {}
  PROVE  \E n \in S : \A m \in S : n <= m
<1> DEFINE Less == {ss \in Nat \X Nat : ss[1] < ss[2]}
<1>1. Less = OpToRel(<, Nat)
  BY Zenon DEF OpToRel
<1>2. IsWellFoundedOn(Less, Nat)
  BY <1>1, NatLessThanWellFounded, Zenon
<1>3. ASSUME NEW m \in Nat, NEW n \in Nat, m < n PROVE <<m, n>> \in Less
  BY <1>3
<1> HIDE DEF Less
<1>4. PICK n \in S : \A m \in S : ~ (<<m, n>> \in Less)
  BY <1>2, WFMin
<1>5. ASSUME NEW m \in S PROVE n <= m
  <2>1. m \in Nat /\ n \in Nat /\ ~(m < n)
    BY <1>3, <1>4
  <2>. QED
    BY <2>1
<1>. QED
  BY <1>5

-----------------------------------------------------------------------------
(* Loops.                                                                  *)

\* Induction, for a set of naturals in place of a predicate.
LEMMA AllNaturals ==
  ASSUME NEW S, 0 \in S, \A n \in Nat : n \in S => n + 1 \in S
  PROVE  Nat \subseteq S
<1> DEFINE Left == Nat \ S
<1> SUFFICES ASSUME Left # {} PROVE FALSE
  OBVIOUS
<1>1. PICK n \in Left : \A m \in Left : n <= m
  <2>1. Left \subseteq Nat
    OBVIOUS
  <2>. QED
    BY <2>1, LeastOf
<1>2. n - 1 \in Nat /\ ~(n <= n - 1) /\ (n - 1) + 1 = n
  BY <1>1
<1>3. n - 1 \in S
  BY <1>1, <1>2
<1>. QED
  BY <1>2, <1>3

\* The state after each of m rounds of a loop.
IsRun(a, f, seq, st, m) == a = [n \in 0..m |-> IF n = 0 THEN st ELSE f[seq[n]][a[n - 1]]]

LEMMA RunExists ==
  ASSUME NEW f, NEW seq, NEW st, NEW len \in Nat
  PROVE  \E a : IsRun(a, f, seq, st, len)
<1> DEFINE Run(a, m) == IsRun(a, f, seq, st, m)
           S == {m \in Nat : \E a : Run(a, m)}
<1>1. 0 \in S
  <2>. DEFINE a == [n \in 0..0 |-> st]
  <2>1. Run(a, 0)
    BY DEF IsRun
  <2>. QED
    BY <2>1
<1>2. ASSUME NEW m \in Nat, m \in S PROVE m + 1 \in S
  <2>1. PICK a : Run(a, m)
    BY <1>2
  <2>. DEFINE b == [n \in 0..(m + 1) |-> IF n = m + 1 THEN f[seq[m + 1]][a[m]] ELSE a[n]]
  <2>2. \A n \in 0..m : b[n] = a[n] /\ a[n] = (IF n = 0 THEN st ELSE f[seq[n]][a[n - 1]])
    BY <2>1 DEF IsRun
  <2>3. b[m + 1] = f[seq[m + 1]][a[m]] /\ b = [n \in 0..(m + 1) |-> b[n]]
    OBVIOUS
  <2>. HIDE DEF b
  <2>4. \A n \in 0..(m + 1) : b[n] = (IF n = 0 THEN st ELSE f[seq[n]][b[n - 1]])
    <3>. TAKE n \in 0..(m + 1)
    <3>1. CASE n = 0
      BY <2>2, <3>1
    <3>2. CASE n \in 1..m
      <4>1. n \in 0..m /\ n - 1 \in 0..m /\ n # 0
        BY <3>2
      <4>. QED
        BY <2>2, <4>1
    <3>3. CASE n = m + 1
      <4>1. n # 0 /\ n - 1 = m /\ m \in 0..m
        BY <3>3
      <4>. QED
        BY <2>2, <2>3, <3>3, <4>1
    <3>. QED
      BY <3>1, <3>2, <3>3
  <2>5. Run(b, m + 1)
    BY <2>3, <2>4, Zenon DEF IsRun
  <2>. QED
    BY <2>5
<1>3. Nat \subseteq S
  <2>. HIDE DEF S
  <2>. QED
    BY <1>1, <1>2, AllNaturals
<1>. QED
  BY <1>3

\* What every round keeps is so after the loop: I[n] has the states that are
\* possible after n rounds.
LEMMA EachKeeps ==
  ASSUME NEW f, NEW seq, Len(seq) \in Nat, NEW st, NEW I, st \in I[0],
         \A n \in 1..Len(seq) : \A t \in I[n - 1] : f[seq[n]][t] \in I[n]
  PROVE  Each(f, seq, st) \in I[Len(seq)]
<1> DEFINE Run(a) == IsRun(a, f, seq, st, Len(seq))
           after == CHOOSE a : Run(a)
           S == {m \in Nat : m <= Len(seq) => after[m] \in I[m]}
<1>1. Run(after)
  <2>1. \E a : Run(a)
    BY RunExists
  <2>. QED
    BY <2>1
<1>. HIDE DEF after
<1>2. \A n \in 0..Len(seq) : after[n] = (IF n = 0 THEN st ELSE f[seq[n]][after[n - 1]])
  BY <1>1 DEF IsRun
<1>3. 0 \in S
  BY <1>2
<1>4. ASSUME NEW m \in Nat, m \in S PROVE m + 1 \in S
  <2>1. m + 1 <= Len(seq) =>
          /\ m + 1 \in 0..Len(seq) /\ m + 1 \in 1..Len(seq) /\ m <= Len(seq)
          /\ m + 1 # 0 /\ (m + 1) - 1 = m
    OBVIOUS
  <2>. QED
    <3>. SUFFICES ASSUME m + 1 <= Len(seq) PROVE after[m + 1] \in I[m + 1]
      OBVIOUS
    <3>1. after[m + 1] = f[seq[m + 1]][after[m]]
      BY <1>2, <2>1
    <3>2. after[m] \in I[(m + 1) - 1]
      BY <1>4, <2>1
    <3>. QED
      BY <2>1, <3>1, <3>2
<1>5. Nat \subseteq S
  <2>. HIDE DEF S
  <2>. QED
    BY <1>3, <1>4, AllNaturals
<1>. QED
  BY <1>5 DEF Each, after, IsRun

-----------------------------------------------------------------------------
(* The arithmetic of animationInterpolate.                                 *)

LEMMA PowerNat == ASSUME NEW n \in Int, NEW k PROVE Power(n, k) \in Int
  BY DEF Power

LEMMA PowerMonotone ==
  ASSUME NEW a \in Nat, NEW b \in Nat, NEW k
  PROVE  /\ Power(a, k) \in Nat /\ a <= Power(a, k)
         /\ a <= b => Power(a, k) <= Power(b, k)
         /\ Power(a, k) <= Power(b, k) => a <= b
         /\ Power(a, k) < Power(b, k) => a < b
<1>1. Power(a, k) \in Nat /\ Power(b, k) \in Nat /\ a <= Power(a, k)
  BY DEF Power
<1>2. a <= b => Power(a, k) <= Power(b, k)
  <2>1. a <= b => a * a <= b * b
    OBVIOUS
  <2>2. a <= b => a * a * a <= b * b * b
    OBVIOUS
  <2>. QED
    BY <2>1, <2>2 DEF Power
<1>3. Power(a, k) <= Power(b, k) => a <= b
  <2>1. a * a <= b * b => a <= b
    OBVIOUS
  <2>2. a * a * a <= b * b * b => a <= b
    OBVIOUS
  <2>. QED
    BY <2>1, <2>2 DEF Power
<1>. QED
  BY <1>1, <1>2, <1>3

\* Every natural has a root cut off after the point.
LEMMA RootFound ==
  ASSUME NEW q \in Nat, NEW k
  PROVE  /\ Root(k, q) \in 0..q
         /\ Power(Root(k, q), k) <= q /\ Power(Root(k, q) + 1, k) > q
<1> DEFINE S == {n \in Nat : Power(n + 1, k) > q}
<1>1. q \in S
  BY PowerMonotone
<1>2. PICK r \in S : \A m \in S : r <= m
  <2>1. S \subseteq Nat /\ S # {}
    BY <1>1
  <2>. QED
    BY <2>1, LeastOf
<1>3. r \in Nat /\ Power(r + 1, k) > q
  OBVIOUS
<1>4. Power(r, k) <= q
  <2>1. CASE r = 0
    BY <2>1 DEF Power
  <2>2. CASE r # 0
    <3>1. r - 1 \in Nat /\ ~(r <= r - 1) /\ (r - 1) + 1 = r
      BY <1>3, <2>2
    <3>2. r - 1 \notin S
      BY <1>2, <3>1
    <3>. QED
      BY <1>3, <3>1, <3>2, PowerMonotone
  <2>. QED
    BY <2>1, <2>2
<1>5. r \in 0..q
  BY <1>3, <1>4, PowerMonotone
<1>. QED
  BY <1>3, <1>4, <1>5 DEF Root

LEMMA RootBelow ==
  ASSUME NEW q \in Nat, NEW k, NEW c \in Nat, q <= Power(c, k)
  PROVE  /\ Root(k, q) \in 0..c /\ RootUp(k, q) \in 0..c
         /\ Root(k, q) <= RootUp(k, q)
<1> DEFINE n == Root(k, q)
<1>1. n \in Nat /\ Power(n, k) <= q
  BY RootFound
<1> HIDE DEF n
<1>2. Power(n, k) \in Nat /\ Power(c, k) \in Nat
  BY <1>1, PowerMonotone
<1>3. n <= c
  BY <1>1, <1>2, PowerMonotone
<1>4. Power(n, k) # q => n < c
  BY <1>1, <1>2, PowerMonotone
<1>5. RootUp(k, q) = IF Power(n, k) = q THEN n ELSE n + 1
  BY DEF RootUp, n
<1>. QED
  BY <1>1, <1>3, <1>4, <1>5 DEF n

LEMMA PlusRootBounds ==
  ASSUME NEW b \in Int, NEW q \in Nat, NEW k, NEW c \in Nat, q <= Power(c, k)
  PROVE  PlusRoot(b, k, q) \in b..(b + c) /\ MinusRoot(b, k, q) \in (b - c)..b
<1>1. ASSUME NEW a \in Int PROVE PlusRoot(a, k, q) \in a..(a + c)
  BY RootBelow DEF PlusRoot
<1>2. PlusRoot(-b, k, q) \in (-b)..(-b + c)
  BY <1>1
<1>. QED
  BY <1>1, <1>2 DEF MinusRoot

\* b + m times the k-th root of progress lies between b and b + m * progress.
LEMMA OnRootBounds ==
  ASSUME NEW b \in Int, NEW m \in Int, NEW k, NEW p \in Nat
  PROVE  /\ m >= 0 => OnRoot(b, m, k, p) \in b..(b + m * p)
         /\ m <= 0 => OnRoot(b, m, k, p) \in (b + m * p)..b
<1>1. ASSUME NEW a \in Nat
      PROVE  Power(a, k) * p \in Nat /\ a * p \in Nat /\ Power(a, k) * p <= Power(a * p, k)
  <2>1. a * p \in Nat /\ a * a \in Nat /\ a * a * a \in Nat
    OBVIOUS
  <2>2. p <= p * p /\ p <= p * p * p
    OBVIOUS
  <2>3. (a * a) * p <= (a * a) * (p * p)
    BY <2>1, <2>2
  <2>4. (a * a * a) * p <= (a * a * a) * (p * p * p)
    BY <2>1, <2>2
  <2>5. (a * p) * (a * p) = (a * a) * (p * p)
    OBVIOUS
  <2>6. (a * p) * (a * p) * (a * p) = (a * a * a) * (p * p * p)
    OBVIOUS
  <2>. QED
    BY <2>1, <2>3, <2>4, <2>5, <2>6 DEF Power
<1>2. CASE m >= 0
  <2>1. Power(m, k) * p \in Nat /\ m * p \in Nat /\ Power(m, k) * p <= Power(m * p, k)
    BY <1>1, <1>2
  <2>2. OnRoot(b, m, k, p) = PlusRoot(b, k, Power(m, k) * p)
    BY <1>2 DEF OnRoot
  <2>3. OnRoot(b, m, k, p) \in b..(b + m * p)
    BY <2>1, <2>2, PlusRootBounds
  <2>4. m <= 0 => b + m * p = b
    BY <1>2
  <2>. QED
    BY <2>3, <2>4
<1>3. CASE m < 0
  <2>1. -m \in Nat
    BY <1>3
  <2>2. /\ Power(-m, k) * p \in Nat /\ (-m) * p \in Nat
        /\ Power(-m, k) * p <= Power((-m) * p, k)
    BY <1>1, <2>1
  <2>3. OnRoot(b, m, k, p) = MinusRoot(b, k, Power(-m, k) * p)
    BY <1>3 DEF OnRoot
  <2>4. OnRoot(b, m, k, p) \in (b - (-m) * p)..b
    BY <2>2, <2>3, PlusRootBounds
  <2>5. b - (-m) * p = b + m * p
    OBVIOUS
  <2>. QED
    BY <1>3, <2>4, <2>5
<1>. QED
  BY <1>2, <1>3

LEMMA SlopeInt ==
  ASSUME NEW rise \in Int, NEW steps \in Int, steps # 0
  PROVE  Slope(rise, steps) \in Int
<1>1. Abs(rise) \in Nat /\ Abs(steps) \in Nat \ {0}
  BY DEF Abs
<1>. QED
  BY <1>1 DEF Slope

\* No frame on the way to the next key frame is beyond it.
LEMMA SlopeBounds ==
  ASSUME NEW rise \in Int, NEW steps \in Nat \ {0}, NEW p \in 0..steps
  PROVE  LET m == Slope(rise, steps)
         IN  /\ rise >= 0 => m >= 0 /\ m * p \in 0..rise
             /\ rise < 0 => m <= 0 /\ m * p \in rise..0
<1> DEFINE a == Abs(rise)
           q == a \div steps
<1>1. a \in Nat /\ Abs(steps) = steps
  BY DEF Abs
<1>2. q \in Nat /\ q * steps <= a
  BY <1>1
<1>3. Slope(rise, steps) = IF rise < 0 THEN -q ELSE q
  BY <1>1 DEF Slope
<1> HIDE DEF q
<1>4. q * p \in Nat /\ q * p <= q * steps
  BY <1>2
<1>5. q * p <= a
  BY <1>1, <1>2, <1>4
<1>6. (-q) * p = -(q * p)
  BY <1>2
<1>7. rise >= 0 => a = rise
  BY DEF Abs
<1>8. rise < 0 => a = -rise
  BY DEF Abs
<1> HIDE DEF a
<1>. QED
  BY <1>1, <1>2, <1>3, <1>4, <1>5, <1>6, <1>7, <1>8

\* The interpolation makes an int.
LEMMA InterpolatedInt ==
  ASSUME NEW method, NEW frame \in Int, NEW fi \in Int, NEW ff \in Int, fi <= frame,
         NEW i \in Int, NEW f \in Int
  PROVE  animationInterpolate(method, frame, fi, ff, i, f) \in Int \cup {Garbage}
<1> DEFINE p == frame - fi
           m == Slope(f - i, ff - fi)
<1>1. CASE ff - fi = 0
  BY <1>1 DEF animationInterpolate
<1>2. CASE ff - fi # 0
  <2>1. p \in Nat /\ m \in Int
    BY <1>2, SlopeInt
  <2>2. /\ OnRoot(i, m, 2, p) \in Int /\ OnRoot(i, m, 3, p) \in Int
        /\ Power(p, 2) \in Int /\ Power(p, 3) \in Int
    <3>1. m * p \in Int
      BY <2>1
    <3>2. ASSUME NEW k PROVE OnRoot(i, m, k, p) \in Int
      BY <2>1, <3>1, OnRootBounds
    <3>. QED
      BY <2>1, <3>2, PowerNat
  <2>3. animationInterpolate(method, frame, fi, ff, i, f) =
          CASE method = "linear"   -> m * p + i
             [] method = "square"   -> m * Power(p, 2) + i
             [] method = "cube"     -> m * Power(p, 3) + i
             [] method = "sqroot"   -> OnRoot(i, m, 2, p)
             [] method = "cuberoot" -> OnRoot(i, m, 3, p)
             [] OTHER               -> i
    BY <1>2 DEF animationInterpolate
  <2> HIDE DEF p, m
  <2>. QED
    BY <2>1, <2>2, <2>3
<1>. QED
  BY <1>1, <1>2

\* On its way from one key frame to the next, a method that does not overshoot stays
\* within any bounds that the values of both are in.
LEMMA InterpolatedBetween ==
  ASSUME NEW method, Tame(method), NEW frame \in Int, NEW fi \in Int, NEW ff \in Int,
         fi <= frame, frame <= ff, fi < ff,
         NEW low \in Int, NEW high \in Int, NEW i \in low..high, NEW f \in low..high
  PROVE  animationInterpolate(method, frame, fi, ff, i, f) \in low..high
<1> DEFINE p == frame - fi
           m == Slope(f - i, ff - fi)
<1>1. /\ p \in Nat /\ p \in 0..(ff - fi) /\ ff - fi \in Nat \ {0}
      /\ i \in Int /\ f \in Int /\ f - i \in Int
  OBVIOUS
<1>2. m \in Int
  BY <1>1, SlopeInt
<1>3. /\ f - i >= 0 => m >= 0 /\ m * p \in 0..(f - i)
      /\ f - i < 0 => m <= 0 /\ m * p \in (f - i)..0
  BY <1>1, SlopeBounds
<1>4. animationInterpolate(method, frame, fi, ff, i, f) =
        CASE method = "linear"   -> m * p + i
           [] method = "sqroot"   -> OnRoot(i, m, 2, p)
           [] method = "cuberoot" -> OnRoot(i, m, 3, p)
           [] OTHER               -> i
  BY DEF animationInterpolate, Tame
<1>5. ASSUME NEW k PROVE OnRoot(i, m, k, p) \in low..high
  <2>1. /\ m >= 0 => OnRoot(i, m, k, p) \in i..(i + m * p)
        /\ m <= 0 => OnRoot(i, m, k, p) \in (i + m * p)..i
    BY <1>1, <1>2, OnRootBounds
  <2> DEFINE r == OnRoot(i, m, k, p)
             x == m * p
  <2>2. x \in Int
    BY <1>1, <1>2
  <2> HIDE DEF p, m, r, x
  <2>. QED
    BY <1>1, <1>2, <1>3, <2>1, <2>2 DEF r, x
<1>6. m * p + i \in low..high
  <2> DEFINE x == m * p
  <2>1. x \in Int
    BY <1>1, <1>2
  <2> HIDE DEF p, m, x
  <2>. QED
    BY <1>1, <1>3, <2>1 DEF x
<1> HIDE DEF p, m
<1>. QED
  BY <1>4, <1>5, <1>6
-----------------------------------------------------------------------------
(* The walk along the key frames.                                          *)

\* lastSetIndex is the key frame in force at the frame built last ...
Reached == F # <<>> => InForceAt(lastSetIndex, Len(jobs) + 1)

\* ... and the parameter has its value, unless it is on its way to the next.
HoldsLast ==
  F # <<>> /\ (lastSetIndex = Len(F) \/ F[lastSetIndex + 1].interp = "none")
    => param = F[lastSetIndex].val

KeyInv == KeyTypes /\ Reached /\ HoldsLast /\ FollowsKeys

LEMMA InForceUnique ==
  ASSUME F \in Seq(KeyFrame), NEW f \in Nat, NEW k, InForceAt(k, f)
  PROVE  InForce(f) = k
<1>1. \A j \in DOMAIN F : j \in Nat /\ j <= Len(F) /\ F[j].frameno \in Int
  <2>1. DOMAIN F = 1..Len(F) /\ Len(F) \in Nat
    OBVIOUS
  <2>2. \A j \in 1..Len(F) : F[j] \in KeyFrame
    OBVIOUS
  <2>. QED
    BY <2>1, <2>2 DEF KeyFrame
<1>2. ASSUME NEW a, NEW b, InForceAt(a, f), InForceAt(b, f), a < b PROVE FALSE
  <2>1. a \in DOMAIN F /\ b \in DOMAIN F
    BY <1>2 DEF InForceAt
  <2>2. a + 1 \in 1..b /\ a \in 1..b /\ b \in 1..b /\ a < Len(F) /\ a + 1 \in DOMAIN F
    BY <1>1, <1>2, <2>1
  <2>3. F[a].frameno < F[a + 1].frameno
    BY <1>2, <2>2 DEF InForceAt, Ascending
  <2>4. f < F[a + 1].frameno
    BY <1>2, <2>2, <2>3 DEF InForceAt
  <2>5. F[a + 1].frameno <= F[b].frameno
    <3>1. CASE a + 1 = b
      BY <1>1, <2>1, <3>1
    <3>2. CASE a + 1 < b
      BY <1>1, <1>2, <2>1, <2>2, <3>2 DEF InForceAt, Ascending
    <3>. QED
      BY <1>1, <1>2, <2>1, <3>1, <3>2
  <2>6. F[b].frameno <= f
    BY <1>2 DEF InForceAt
  <2>. QED
    BY <1>1, <2>1, <2>2, <2>4, <2>5, <2>6
<1>3. \A j : InForceAt(j, f) => j = k
  <2>. SUFFICES ASSUME NEW j, InForceAt(j, f) PROVE j = k
    OBVIOUS
  <2>1. j \in Nat /\ k \in Nat
    BY <1>1 DEF InForceAt
  <2>2. ~(j < k) /\ ~(k < j)
    BY <1>2
  <2>. QED
    BY <2>1, <2>2
<1>4. k \in DOMAIN F
  BY DEF InForceAt
<1>. QED
  BY <1>3, <1>4 DEF InForce

\* A frame is saved with the value its key frames define.
LEMMA FrameSaved ==
  ASSUME KeyInv, SaveJob, param' \in Value,
         F # <<>> => param' = FrameValue(thisframe)
  PROVE  /\ jobs' \in Seq(Value) /\ Len(jobs') = Len(jobs) + 1
         /\ FollowsKeys'
<1>1. /\ jobs' = Append(jobs, param') /\ F' = F
      /\ jobs \in Seq(Value)
  BY DEF SaveJob, KeyInv, KeyTypes
<1>2. /\ jobs' \in Seq(Value) /\ Len(jobs') = Len(jobs) + 1
      /\ \A i \in 1..Len(jobs) : jobs'[i] = jobs[i]
      /\ jobs'[Len(jobs) + 1] = param'
  BY <1>1, AppendProperties
<1>3. \A f : FrameValue(f)' = FrameValue(f)
  <2>1. \A f : InForce(f)' = InForce(f)
    BY <1>1, Zenon DEF InForce, InForceAt, Ascending
  <2>. QED
    BY <1>1, <2>1, Zenon DEF FrameValue
<1>4. ASSUME F # <<>>, NEW n \in DOMAIN jobs' PROVE jobs'[n] = FrameValue(n + 1)
  <2>1. n \in Nat /\ (n \in 1..Len(jobs) \/ n = Len(jobs) + 1)
    BY <1>1, <1>2
  <2>2. CASE n \in 1..Len(jobs)
    BY <1>1, <1>2, <1>4, <2>2 DEF KeyInv, FollowsKeys
  <2>3. CASE n = Len(jobs) + 1
    <3>1. Len(jobs) \in Nat
      BY <1>1
    <3>2. thisframe = n + 1
      BY <2>3, <3>1 DEF thisframe
    <3>. QED
      BY <1>2, <1>4, <2>3, <3>2
  <2>. QED
    BY <2>1, <2>2, <2>3
<1>. QED
  BY <1>1, <1>2, <1>3, <1>4 DEF FollowsKeys

LEMMA InvInit == KeysInit => KeyInv
<1>1. NotNumeric \in Value
  <2>1. NotNumeric \in Value
    BY Zenon DEF Value, Given
  <2>. QED
    BY <2>1 DEF Value
<1>2. <<>> \in Seq(Value) /\ <<>> \in Seq(KeyFrame)
  OBVIOUS
<1>. QED
  BY <1>1, <1>2 DEF KeysInit, KeyInv, KeyTypes, Reached, HoldsLast, FollowsKeys

LEMMA BuildStep ==
  ASSUME KeyInv, NEW keyframes \in Seq(KeyFrame), NEW base \in Given, NEW n \in Nat,
         buildAnimatedParams(keyframes, base, n)
  PROVE  KeyInv'
<1>1. base \in Value /\ <<>> \in Seq(Value) /\ <<>> \in Seq(KeyFrame)
  BY EmptySeq DEF Value, Given
<1>2. /\ lastSetIndex' = 1 /\ param' = base /\ jobs' = <<>> /\ Len(jobs') = 0
      /\ pc' = "frames" /\ frames' = n
  BY DEF buildAnimatedParams
<1>3. CASE keyframes = <<>>
  <2>1. F' = <<>>
    BY <1>3 DEF buildAnimatedParams
  <2>. QED
    BY <1>1, <1>2, <2>1 DEF KeyInv, KeyTypes, Reached, HoldsLast, FollowsKeys
<1>4. CASE keyframes # <<>>
  <2>. DEFINE first == [frameno |-> 1, val |-> base, interp |-> "none"]
  <2>1. first \in KeyFrame /\ <<first>> \in Seq(KeyFrame) /\ Len(<<first>>) = 1
    BY DEF KeyFrame, Methods
  <2>2. F' = <<first>> \o keyframes
    BY <1>4 DEF buildAnimatedParams
  <2>3. F' \in Seq(KeyFrame) /\ Len(F') = 1 + Len(keyframes) /\ F'[1] = first
    BY <2>1, <2>2, ConcatProperties
  <2>4. first.frameno = 1 /\ first.val = base
    OBVIOUS
  <2>. HIDE DEF first
  <2>5. KeyTypes'
    BY <1>1, <1>2, <2>3 DEF KeyTypes
  <2>6. InForceAt(1, 1)'
    <3>1. 1 \in DOMAIN F' /\ F'[1].frameno <= 1
      BY <2>3, <2>4
    <3>2. Ascending(1)'
      BY DEF Ascending
    <3>3. Len(F') > 1 => F'[2].frameno \in Int
      <4>. SUFFICES ASSUME Len(F') > 1 PROVE F'[2].frameno \in Int
        OBVIOUS
      <4>1. 2 \in 1..Len(F')
        BY <2>3
      <4>2. F'[2] \in KeyFrame
        BY <2>3, <4>1, ElementOfSeq
      <4>. QED
        BY <4>2 DEF KeyFrame
    <3>. QED
      BY <2>3, <2>4, <3>1, <3>2, <3>3 DEF InForceAt
  <2>7. Reached' /\ HoldsLast'
    BY <1>2, <2>3, <2>4, <2>6 DEF Reached, HoldsLast
  <2>8. FollowsKeys'
    BY <1>2 DEF FollowsKeys
  <2>. QED
    BY <2>5, <2>7, <2>8 DEF KeyInv
<1>. QED
  BY <1>3, <1>4

\* What the invariant says of the frame built last.
LEMMA AtLast ==
  ASSUME KeyInv, F # <<>>
  PROVE  /\ lastSetIndex \in 1..Len(F) /\ Len(F) \in Nat /\ Len(jobs) \in Nat
         /\ thisframe = Len(jobs) + 2
         /\ LastFrame \in KeyFrame /\ LastFrame.frameno \in Int
         /\ LastFrame.frameno < thisframe
         /\ HasNext => NextFrame \in KeyFrame /\ NextFrame.frameno \in Int
<1>1. F \in Seq(KeyFrame) /\ jobs \in Seq(Value) /\ InForceAt(lastSetIndex, Len(jobs) + 1)
  BY DEF KeyInv, KeyTypes, Reached
<1>2. Len(jobs) \in Nat /\ Len(F) \in Nat /\ DOMAIN F = 1..Len(F)
  BY <1>1
<1>3. lastSetIndex \in 1..Len(F) /\ F[lastSetIndex].frameno <= Len(jobs) + 1
  BY <1>1, <1>2 DEF InForceAt
<1>4. LastFrame \in KeyFrame
  BY <1>1, <1>3, ElementOfSeq DEF LastFrame
<1>5. HasNext => NextFrame \in KeyFrame
  <2>1. HasNext => lastSetIndex + 1 \in 1..Len(F)
    BY <1>2, <1>3 DEF HasNext
  <2>. QED
    BY <1>1, <2>1, ElementOfSeq DEF NextFrame
<1>6. thisframe = Len(jobs) + 2
  BY DEF thisframe
<1>7. LastFrame.frameno \in Int /\ LastFrame.frameno <= Len(jobs) + 1
  BY <1>3, <1>4 DEF KeyFrame, LastFrame
<1>. QED
  BY <1>2, <1>3, <1>4, <1>5, <1>6, <1>7 DEF KeyFrame

\* Until the next key frame is reached the last one stays in force.
LEMMA StaysInForce ==
  ASSUME KeyInv, F # <<>>, HasNext => ~ReachedNow(NextFrame)
  PROVE  InForceAt(lastSetIndex, thisframe)
<1>1. InForceAt(lastSetIndex, Len(jobs) + 1)
  BY DEF KeyInv, Reached
<1>2. lastSetIndex < Len(F) /\ F[lastSetIndex].frameno < F[lastSetIndex + 1].frameno
        => thisframe < F[lastSetIndex + 1].frameno
  <2>. SUFFICES ASSUME lastSetIndex < Len(F),
                       F[lastSetIndex].frameno < F[lastSetIndex + 1].frameno
                PROVE  thisframe < F[lastSetIndex + 1].frameno
    OBVIOUS
  <2>1. HasNext /\ F[lastSetIndex + 1].frameno # thisframe
    BY DEF HasNext, ReachedNow, NextFrame
  <2>2. Len(jobs) + 1 < F[lastSetIndex + 1].frameno
    BY <1>1 DEF InForceAt
  <2>. QED
    BY <2>1, <2>2, AtLast DEF NextFrame
<1>3. lastSetIndex \in DOMAIN F /\ Ascending(lastSetIndex) /\ F[lastSetIndex].frameno <= thisframe
  BY <1>1, AtLast DEF InForceAt, LastFrame
<1>. QED
  BY <1>2, <1>3 DEF InForceAt

LEMMA KeepStep == ASSUME KeyInv, Keep PROVE KeyInv'
<1>1. /\ F' = F /\ lastSetIndex' = lastSetIndex /\ param' = param /\ SaveJob
      /\ pc' = pc /\ frames' = frames
  BY DEF Keep, SaveJob
<1>2. param' \in Value
  BY <1>1 DEF KeyInv, KeyTypes
<1>3. ASSUME F # <<>>
      PROVE  InForceAt(lastSetIndex, thisframe) /\ param = FrameValue(thisframe)
  <2>1. InForceAt(lastSetIndex, thisframe)
    BY <1>3, StaysInForce DEF Keep
  <2>2. InForce(thisframe) = lastSetIndex
    BY <1>3, <2>1, AtLast, InForceUnique DEF KeyInv, KeyTypes
  <2>3. lastSetIndex = Len(F) \/ F[lastSetIndex + 1].interp = "none"
    BY <1>3, AtLast DEF Keep, HasNext, NextFrame
  <2>4. param = F[lastSetIndex].val
    BY <1>3, <2>3 DEF KeyInv, HoldsLast
  <2>. QED
    BY <2>1, <2>2, <2>3, <2>4 DEF FrameValue
<1>4. jobs' \in Seq(Value) /\ Len(jobs') = Len(jobs) + 1 /\ FollowsKeys'
  BY <1>1, <1>2, <1>3, FrameSaved
<1>5. KeyTypes'
  BY <1>1, <1>2, <1>4 DEF KeyInv, KeyTypes
<1>6. Reached'
  <2>1. F # <<>> => thisframe = Len(jobs') + 1
    BY <1>4, AtLast
  <2>. QED
    BY <1>1, <1>3, <2>1 DEF Reached, InForceAt, Ascending
<1>7. HoldsLast'
  BY <1>1 DEF KeyInv, HoldsLast
<1>. QED
  BY <1>4, <1>5, <1>6, <1>7 DEF KeyInv

LEMMA ReachStep == ASSUME KeyInv, ReachKey PROVE KeyInv'
<1>1. /\ F' = F /\ lastSetIndex' = lastSetIndex + 1 /\ param' = NextFrame.val /\ SaveJob
      /\ pc' = pc /\ frames' = frames
      /\ HasNext /\ NextFrame.frameno = thisframe
  BY DEF ReachKey, SaveJob, ReachedNow
<1>2. F # <<>> /\ F \in Seq(KeyFrame)
  BY <1>1 DEF HasNext, KeyInv, KeyTypes
<1>3. lastSetIndex \in Nat /\ lastSetIndex + 1 \in 1..Len(F) /\ F[lastSetIndex + 1] = NextFrame
  BY <1>1, <1>2, AtLast DEF HasNext, NextFrame
<1>4. param' \in Value
  <2>1. NextFrame.val \in Given
    BY <1>1, <1>2, AtLast DEF KeyFrame
  <2>. QED
    BY <1>1, <2>1 DEF Value
<1>5. InForceAt(lastSetIndex + 1, thisframe)
  <2>1. Ascending(lastSetIndex + 1)
    <3>. SUFFICES ASSUME NEW i \in 1..(lastSetIndex + 1), NEW j \in 1..(lastSetIndex + 1), i < j
                  PROVE  F[i].frameno < F[j].frameno
      BY DEF Ascending
    <3>1. Ascending(lastSetIndex) /\ lastSetIndex \in 1..Len(F)
      BY <1>2, AtLast DEF KeyInv, Reached, InForceAt
    <3>2. CASE j <= lastSetIndex
      BY <1>3, <3>1, <3>2 DEF Ascending
    <3>3. CASE j = lastSetIndex + 1
      <4>1. F[j].frameno = thisframe /\ F[lastSetIndex].frameno < thisframe
        BY <1>1, <1>2, <1>3, <3>3, AtLast DEF LastFrame
      <4>2. CASE i = lastSetIndex
        BY <4>1, <4>2
      <4>3. CASE i < lastSetIndex
        <5>1. F[i].frameno < F[lastSetIndex].frameno
          <6>1. i \in 1..lastSetIndex /\ lastSetIndex \in 1..lastSetIndex
            BY <1>3, <3>1, <4>3
          <6>. QED
            BY <3>1, <4>3, <6>1 DEF Ascending
        <5>2. F[i] \in KeyFrame /\ F[lastSetIndex] \in KeyFrame
          BY <1>2, <1>3, <3>1, <4>3, ElementOfSeq
        <5>. QED
          BY <1>2, <4>1, <5>1, <5>2, AtLast DEF KeyFrame
      <4>. QED
        BY <1>3, <3>3, <4>2, <4>3
    <3>. QED
      BY <1>3, <3>2, <3>3
  <2>2. F[lastSetIndex + 1].frameno = thisframe /\ thisframe \in Nat
    BY <1>1, <1>2, <1>3, AtLast
  <2>3. lastSetIndex + 1 \in DOMAIN F
    BY <1>2, <1>3
  <2>. QED
    BY <2>1, <2>2, <2>3 DEF InForceAt
<1>6. param' = FrameValue(thisframe)
  <2>1. InForce(thisframe) = lastSetIndex + 1
    BY <1>2, <1>5, AtLast, InForceUnique
  <2>. QED
    BY <1>1, <1>3, <2>1 DEF FrameValue
<1>7. jobs' \in Seq(Value) /\ Len(jobs') = Len(jobs) + 1 /\ FollowsKeys'
  BY <1>1, <1>4, <1>6, FrameSaved
<1>8. KeyTypes'
  BY <1>1, <1>2, <1>3, <1>4, <1>7 DEF KeyInv, KeyTypes
<1>9. Reached'
  <2>1. thisframe = Len(jobs') + 1
    BY <1>2, <1>7, AtLast
  <2>. QED
    BY <1>1, <1>5, <2>1 DEF Reached, InForceAt, Ascending
<1>10. HoldsLast'
  BY <1>1, <1>3 DEF HoldsLast
<1>. QED
  BY <1>7, <1>8, <1>9, <1>10 DEF KeyInv

LEMMA InterpolateStep == ASSUME KeyInv, Interpolate PROVE KeyInv'
<1>1. /\ F' = F /\ lastSetIndex' = lastSetIndex /\ SaveJob
      /\ pc' = pc /\ frames' = frames
      /\ HasNext /\ ~ReachedNow(NextFrame) /\ NextFrame.interp # "none"
      /\ param' = animationInterpolate(NextFrame.interp, thisframe, LastFrame.frameno,
                    NextFrame.frameno, LastFrame.val, NextFrame.val)
  BY DEF Interpolate, Between, SaveJob
<1>2. F # <<>> /\ F \in Seq(KeyFrame)
  BY <1>1 DEF HasNext, KeyInv, KeyTypes
<1>3. param' \in Value
  <2>1. /\ thisframe \in Int /\ LastFrame.frameno \in Int /\ NextFrame.frameno \in Int
        /\ LastFrame.frameno <= thisframe
        /\ LastFrame.val \in Int /\ NextFrame.val \in Int
    BY <1>1, <1>2, AtLast DEF KeyFrame, Interpolate, Numeric, Given
  <2>. QED
    BY <1>1, <2>1, InterpolatedInt DEF Value, Given
<1>4. InForceAt(lastSetIndex, thisframe)
  BY <1>1, <1>2, StaysInForce
<1>5. param' = FrameValue(thisframe)
  <2>1. InForce(thisframe) = lastSetIndex
    BY <1>2, <1>4, AtLast, InForceUnique
  <2>2. ~(lastSetIndex = Len(F) \/ F[lastSetIndex].frameno = thisframe
          \/ F[lastSetIndex + 1].interp = "none")
    BY <1>1, <1>2, AtLast DEF HasNext, LastFrame, NextFrame
  <2>. QED
    BY <1>1, <2>1, <2>2 DEF FrameValue, LastFrame, NextFrame
<1>6. jobs' \in Seq(Value) /\ Len(jobs') = Len(jobs) + 1 /\ FollowsKeys'
  BY <1>1, <1>3, <1>5, FrameSaved
<1>7. KeyTypes'
  BY <1>1, <1>3, <1>6 DEF KeyInv, KeyTypes
<1>8. Reached'
  <2>1. thisframe = Len(jobs') + 1
    BY <1>2, <1>6, AtLast
  <2>. QED
    BY <1>1, <1>4, <2>1 DEF Reached, InForceAt, Ascending
<1>9. HoldsLast'
  BY <1>1, <1>2, AtLast DEF HoldsLast, HasNext, NextFrame
<1>. QED
  BY <1>6, <1>7, <1>8, <1>9 DEF KeyInv

LEMMA KeysStep == ASSUME KeyInv, [KeysNext]_keyVars PROVE KeyInv'
<1>1. ASSUME NEW keyframes \in Seq(KeyFrame), NEW base \in Given, NEW n \in Nat,
             buildAnimatedParams(keyframes, base, n)
      PROVE  KeyInv'
  BY <1>1, BuildStep
<1>2. CASE Keep
  BY <1>2, KeepStep
<1>3. CASE ReachKey
  BY <1>3, ReachStep
<1>4. CASE Interpolate
  BY <1>4, InterpolateStep
<1>5. ASSUME UNCHANGED <<F, lastSetIndex, param, frames, jobs>>, KeyTypes'
      PROVE  KeyInv'
  <2>1. KeyTypes' /\ Reached' /\ HoldsLast'
    BY <1>5 DEF KeyInv, Reached, HoldsLast, InForceAt, Ascending
  <2>2. \A f : FrameValue(f)' = FrameValue(f)
    <3>1. \A f : InForce(f)' = InForce(f)
      BY <1>5, Zenon DEF InForce, InForceAt, Ascending
    <3>. QED
      BY <1>5, <3>1, Zenon DEF FrameValue
  <2>3. FollowsKeys'
    BY <1>5, <2>2 DEF KeyInv, FollowsKeys
  <2>. QED
    BY <2>1, <2>3 DEF KeyInv
<1>6. CASE Throw
  BY <1>5, <1>6 DEF Throw, KeyInv, KeyTypes
<1>7. CASE AllSpawned
  BY <1>5, <1>7 DEF AllSpawned, KeyInv, KeyTypes
<1>8. CASE UNCHANGED keyVars
  BY <1>5, <1>8 DEF keyVars, KeyInv, KeyTypes
<1>. QED
  BY <1>1, <1>2, <1>3, <1>4, <1>6, <1>7, <1>8 DEF KeysNext, interpolateFrame

\* The builder keeps its types and its place among the key frames.
THEOREM KeysInvariant == KeysSpec => []KeyInv
<1>1. KeysInit => KeyInv
  BY InvInit
<1>2. KeyInv /\ [KeysNext]_keyVars => KeyInv'
  BY KeysStep
<1>. QED
  BY <1>1, <1>2, PTL DEF KeysSpec

\* Whatever the key frames are, every frame of an animation is given the value
\* they define for it (AnimationBuilder::interpolateFrame).
THEOREM FramesFollowKeys == KeysSpec => []FollowsKeys
<1>1. KeyInv => FollowsKeys
  BY DEF KeyInv
<1>. QED
  BY <1>1, KeysInvariant, PTL

-----------------------------------------------------------------------------
(* The groups on display.                                                  *)

LEMMA ToSetIs ==
  ASSUME NEW S, NEW s \in Seq(S)
  PROVE  /\ ToSet(s) = {s[i] : i \in 1..Len(s)} /\ ToSet(s) \subseteq S /\ Len(s) \in Nat
         /\ \A i \in 1..Len(s) : s[i] \in ToSet(s) /\ s[i] \in S
  BY DEF ToSet

IsChoice(c) == \A s \in DOMAIN Options : c[s] \in ChoiceOf(s)
SelectorsOf(g) == ToSet(Selectors[g])
Shown(c, s) == ToSet(Options[s][c[s]].show)

\* The groups that selectors of g hide or show.
Owned(g) == UNION {Mentions(s) : s \in SelectorsOf(g)}

IsDepth(depth) ==
  /\ depth \in [Groups -> 0..(MaxDepth - 1)]
  /\ \A g \in Groups : \A k \in Owned(g) : depth[k] < depth[g]

\* The schema is a tree: what a group hides and shows is less deep than the group.
LEMMA DepthExists == \E depth : IsDepth(depth)
<1>1. PICK depth \in [Groups -> 0..(MaxDepth - 1)] :
        \A g \in Groups : \A s \in ToSet(Selectors[g]) : \A k \in Mentions(s) : depth[k] < depth[g]
  BY SchemaIsTree
<1>2. ASSUME NEW g \in Groups, NEW k \in Owned(g) PROVE depth[k] < depth[g]
  <2>1. PICK s \in SelectorsOf(g) : k \in Mentions(s)
    BY DEF Owned
  <2>. QED
    BY <1>1, <2>1, Zenon DEF SelectorsOf
<1>. QED
  BY <1>1, <1>2, Zenon DEF IsDepth

\* Groups on display that lack one which a choice of theirs shows.
Lacking(c, t) == {g \in t.G : \E s \in SelectorsOf(g) : ~(Shown(c, s) \subseteq t.G)}

\* Of the groups of t, u has lost none but those that groups up to some depth own.
Lost(depth, d, t, u) ==
  \A k \in t.G \ u.G : \E h \in Groups : depth[h] < d /\ k \in Owned(h)

Grown(t, u) ==
  /\ t.job \subseteq u.job /\ (t.registered => u.registered)
  /\ t.G \subseteq t.job => u.G \subseteq u.job

\* What comes of t when g is added.
Added(c, depth, g, t) ==
  {u \in Panels : /\ Grown(t, u) /\ g \in u.G
                  /\ Lacking(c, u) \subseteq Lacking(c, t)
                  /\ Lost(depth, depth[g] + 1, t, u)}

LEMMA SelectorFacts ==
  ASSUME NEW g \in Groups, NEW s \in SelectorsOf(g)
  PROVE  /\ s \in DOMAIN Options /\ Mentions(s) \subseteq Owned(g)
         /\ \A c \in ChoiceOf(s) : /\ Options[s][c].hide \subseteq Mentions(s)
                                   /\ ToSet(Options[s][c].show) \subseteq Mentions(s)
                                   /\ Options[s][c].show \in Seq(Groups)
         /\ Mentions(s) \subseteq Groups
<1>1. Selectors[g] \in Seq(DOMAIN Options)
  BY SchemaAssumption
<1>2. s \in DOMAIN Options
  BY <1>1, ToSetIs DEF SelectorsOf
<1>3. Mentions(s) \subseteq Owned(g)
  BY DEF Owned
<1>4. \A c \in ChoiceOf(s) : /\ Options[s][c].hide \subseteq Mentions(s)
                             /\ ToSet(Options[s][c].show) \subseteq Mentions(s)
  BY DEF Mentions
<1>5. \A c \in ChoiceOf(s) : /\ Options[s][c].show \in Seq(Groups)
                             /\ Options[s][c].hide \subseteq Groups
                             /\ ToSet(Options[s][c].show) \subseteq Groups
  BY <1>2, SchemaAssumption, ToSetIs
<1>6. Mentions(s) \subseteq Groups
  BY <1>5 DEF Mentions
<1>. QED
  BY <1>2, <1>3, <1>4, <1>5, <1>6

\* A group that a selector mentions is no other selector's.
LEMMA OneOwner ==
  ASSUME NEW g \in Groups, NEW s \in SelectorsOf(g), NEW k \in Mentions(s),
         NEW h \in Groups, k \in Owned(h)
  PROVE  /\ h = g
         /\ \A r \in SelectorsOf(h) : k \in Mentions(r) => r = s
<1>1. PICK r \in SelectorsOf(h) : k \in Mentions(r)
  BY DEF Owned
<1>2. \A q \in SelectorsOf(h) : k \in Mentions(q) => q = s
  BY SchemaIsTree, Zenon DEF SelectorsOf
<1>3. r = s
  BY <1>1, <1>2
<1>. QED
  BY <1>2, <1>3, SchemaIsTree, Zenon DEF SelectorsOf

\* Selector s of g has acted: what it shows is there.
Acted(c, depth, g, s, t) ==
  {u \in Panels : /\ Grown(t, u) /\ Lacking(c, u) \subseteq Lacking(c, t) \cup {g}
                  /\ Shown(c, s) \subseteq u.G
                  /\ \A k \in t.G \ u.G : k \in Mentions(s)
                       \/ \E h \in Groups : depth[h] < depth[g] /\ k \in Owned(h)}

LEMMA VerifyKeeps ==
  ASSUME NEW c, IsChoice(c), NEW depth, IsDepth(depth), NEW g \in Groups,
         NEW s \in SelectorsOf(g), NEW t \in Panels, NEW add,
         \A k \in Groups : depth[k] < depth[g] =>
           \A u \in Panels : add[k][u] \in Added(c, depth, k, u)
  PROVE  VerifySelector(t, Options[s][c[s]], add) \in Acted(c, depth, g, s, t)
<1> DEFINE option == Options[s][c[s]]
           show == option.show
           hidden == hideActuator(t, option)
<1>1. /\ s \in DOMAIN Options /\ option.hide \subseteq Mentions(s)
      /\ show \in Seq(Groups) /\ ToSet(show) \subseteq Mentions(s)
      /\ Mentions(s) \subseteq Owned(g) /\ Shown(c, s) = ToSet(show)
      /\ Mentions(s) \subseteq Groups
  BY SelectorFacts DEF IsChoice, Shown
<1>2. \A i \in 1..Len(show) : show[i] \in Groups /\ show[i] \in Mentions(s)
  BY <1>1, ToSetIs
<1>3. /\ Len(show) \in Nat /\ ToSet(show) = {show[i] : i \in 1..Len(show)}
  BY <1>1, ToSetIs
<1>. HIDE DEF show
<1>4. depth \in [Groups -> Nat]
  BY DEF IsDepth
<1>5. /\ hidden \in Panels /\ hidden.job = t.job /\ hidden.G = t.G \ option.hide
      /\ hidden.registered = t.registered
  BY DEF hideActuator, Panels
<1>. HIDE DEF hidden
<1>6. Lacking(c, hidden) \subseteq Lacking(c, t) \cup {g}
  <2>. SUFFICES ASSUME NEW h \in Lacking(c, hidden), h # g PROVE h \in Lacking(c, t)
    OBVIOUS
  <2>1. PICK r \in SelectorsOf(h) : ~(Shown(c, r) \subseteq hidden.G)
    BY DEF Lacking
  <2>2. h \in t.G /\ h \in Groups
    BY <1>5 DEF Lacking, Panels
  <2>3. Shown(c, r) \subseteq Owned(h)
    BY <2>2, SelectorFacts DEF IsChoice, Shown
  <2>4. \A k \in option.hide : k \notin Shown(c, r)
    BY <1>1, <2>2, <2>3, OneOwner
  <2>5. ~(Shown(c, r) \subseteq t.G)
    BY <1>5, <2>1, <2>4
  <2>. QED
    BY <2>2, <2>5 DEF Lacking
<1> DEFINE f == [k \in Groups |-> [u \in Panels |-> IF k \in u.G THEN u ELSE add[k][u]]]
           I == [n \in 0..Len(show) |->
                  {u \in Panels :
                     /\ Grown(t, u) /\ Lacking(c, u) \subseteq Lacking(c, t) \cup {g}
                     /\ \A i \in 1..n : show[i] \in u.G
                     /\ \A k \in t.G \ u.G : k \in Mentions(s)
                          \/ \E h \in Groups : depth[h] < depth[g] /\ k \in Owned(h)}]
<1>7. hidden \in I[0]
  BY <1>1, <1>3, <1>5, <1>6 DEF Grown
<1>8. ASSUME NEW n \in 1..Len(show), NEW u \in I[n - 1] PROVE f[show[n]][u] \in I[n]
  <2> DEFINE k == show[n]
             v == f[k][u]
  <2>1. /\ n \in 0..Len(show) /\ n - 1 \in 0..Len(show)
        /\ \A i \in 1..n : i \in 1..Len(show) /\ (i = n \/ i \in 1..(n - 1))
    BY <1>3
  <2>2. /\ u \in Panels /\ Grown(t, u) /\ Lacking(c, u) \subseteq Lacking(c, t) \cup {g}
        /\ \A i \in 1..(n - 1) : show[i] \in u.G
        /\ \A j \in t.G \ u.G : j \in Mentions(s)
             \/ \E h \in Groups : depth[h] < depth[g] /\ j \in Owned(h)
    BY <2>1
  <2>3. k \in Groups /\ k \in Mentions(s)
    BY <1>2
  <2>4. v = IF k \in u.G THEN u ELSE add[k][u]
    BY <2>2, <2>3
  <2>5. depth[k] < depth[g]
    BY <1>1, <2>3 DEF IsDepth
  <2>. HIDE DEF f, k
  <2>6. CASE k \in u.G
    BY <2>1, <2>2, <2>4, <2>6 DEF k
  <2>7. CASE k \notin u.G
    <3>1. /\ v \in Panels /\ Grown(u, v) /\ k \in v.G /\ Lacking(c, v) \subseteq Lacking(c, u)
          /\ Lost(depth, depth[k] + 1, u, v)
      BY <2>2, <2>3, <2>4, <2>5, <2>7 DEF Added
    <3>2. Grown(t, v) /\ Lacking(c, v) \subseteq Lacking(c, t) \cup {g}
      BY <2>2, <3>1 DEF Grown
    <3>3. \A j \in u.G \ v.G : \E h \in Groups : depth[h] < depth[g] /\ j \in Owned(h)
      <4>1. \A h \in Groups : depth[h] < depth[k] + 1 => depth[h] < depth[g]
        BY <1>4, <2>3, <2>5
      <4>. QED
        BY <3>1, <4>1 DEF Lost
    <3>4. \A i \in 1..n : show[i] \in v.G
      <4>. SUFFICES ASSUME NEW i \in 1..(n - 1) PROVE show[i] \in v.G
        BY <2>1, <3>1 DEF k
      <4>1. show[i] \in u.G /\ show[i] \in Mentions(s)
        BY <1>2, <2>1, <2>2
      <4>2. \A h \in Groups : show[i] \in Owned(h) => h = g
        BY <4>1, OneOwner
      <4>3. ~(depth[g] < depth[g])
        BY <1>4
      <4>. QED
        BY <3>3, <4>1, <4>2, <4>3
    <3>5. \A j \in t.G \ v.G : j \in Mentions(s)
             \/ \E h \in Groups : depth[h] < depth[g] /\ j \in Owned(h)
      BY <2>2, <3>3
    <3>. HIDE DEF v
    <3>. QED
      BY <2>1, <3>1, <3>2, <3>4, <3>5 DEF v, k
  <2>. QED
    BY <2>6, <2>7
<1>9. Each(f, show, hidden) \in I[Len(show)]
  <2>. HIDE DEF f, I
  <2>. QED
    BY <1>3, <1>7, <1>8, EachKeeps
<1>10. VerifySelector(t, option, add) = Each(f, show, hidden)
  BY DEF VerifySelector, HideFirst, showActuator, hidden, show
<1>. HIDE DEF f
<1>. QED
  BY <1>1, <1>3, <1>9, <1>10 DEF Acted

\* A group is added when all its selectors have acted.
LEMMA BuildKeeps ==
  ASSUME NEW c, IsChoice(c), NEW depth, IsDepth(depth), NEW g \in Groups,
         NEW t \in Panels, NEW add,
         \A k \in Groups : depth[k] < depth[g] =>
           \A u \in Panels : add[k][u] \in Added(c, depth, k, u)
  PROVE  BuildGroup(g, c, t, add) \in Added(c, depth, g, t)
<1> DEFINE sels == Selectors[g]
           made == [t EXCEPT !.job = @ \cup {g}, !.registered = @ \/ g = NumberGroup]
           verify == [s \in DOMAIN Options |->
                       [u \in Panels |-> VerifySelector(u, Options[s][c[s]], add)]]
           I == [n \in 0..Len(sels) |->
                  {u \in Panels :
                     /\ Grown(t, u) /\ g \in u.job /\ Lacking(c, u) \subseteq Lacking(c, t) \cup {g}
                     /\ \A i \in 1..n : Shown(c, sels[i]) \subseteq u.G
                     /\ Lost(depth, depth[g] + 1, t, u)}]
<1>1. /\ Len(sels) \in Nat /\ SelectorsOf(g) = {sels[i] : i \in 1..Len(sels)}
      /\ \A i \in 1..Len(sels) : sels[i] \in SelectorsOf(g) /\ sels[i] \in DOMAIN Options
  <2>1. Selectors[g] \in Seq(DOMAIN Options)
    BY SchemaAssumption
  <2>. QED
    BY <2>1, ToSetIs DEF SelectorsOf
<1>. HIDE DEF sels
<1>2. depth \in [Groups -> Nat]
  BY DEF IsDepth
<1>3. /\ made \in Panels /\ made.job = t.job \cup {g} /\ made.G = t.G
      /\ t.registered => made.registered
  BY DEF Panels
<1>. HIDE DEF made
<1>4. made \in I[0]
  <2>1. Lacking(c, made) = Lacking(c, t)
    BY <1>3 DEF Lacking
  <2>. QED
    BY <1>1, <1>3, <2>1 DEF Grown, Lost
<1>5. ASSUME NEW n \in 1..Len(sels), NEW u \in I[n - 1] PROVE verify[sels[n]][u] \in I[n]
  <2> DEFINE s == sels[n]
             v == verify[s][u]
  <2>1. /\ n \in 0..Len(sels) /\ n - 1 \in 0..Len(sels)
        /\ \A i \in 1..n : i \in 1..Len(sels) /\ (i = n \/ i \in 1..(n - 1))
    BY <1>1
  <2>2. /\ u \in Panels /\ Grown(t, u) /\ g \in u.job
        /\ Lacking(c, u) \subseteq Lacking(c, t) \cup {g}
        /\ \A i \in 1..(n - 1) : Shown(c, sels[i]) \subseteq u.G
        /\ Lost(depth, depth[g] + 1, t, u)
    BY <2>1
  <2>3. s \in SelectorsOf(g) /\ s \in DOMAIN Options
    BY <1>1
  <2>4. v = VerifySelector(u, Options[s][c[s]], add)
    BY <2>2, <2>3
  <2>. HIDE DEF verify, s, v
  <2>5. v \in Acted(c, depth, g, s, u)
    BY <2>2, <2>3, <2>4, VerifyKeeps
  <2>6. /\ v \in Panels /\ Grown(u, v) /\ Lacking(c, v) \subseteq Lacking(c, u) \cup {g}
        /\ Shown(c, s) \subseteq v.G
        /\ \A k \in u.G \ v.G : k \in Mentions(s)
             \/ \E h \in Groups : depth[h] < depth[g] /\ k \in Owned(h)
    BY <2>5 DEF Acted
  <2>7. Grown(t, v) /\ g \in v.job /\ Lacking(c, v) \subseteq Lacking(c, t) \cup {g}
    BY <2>2, <2>6 DEF Grown
  <2>8. Lost(depth, depth[g] + 1, t, v)
    <3>1. Mentions(s) \subseteq Owned(g)
      BY <2>3, SelectorFacts
    <3>2. \A h \in Groups : depth[h] < depth[g] => depth[h] < depth[g] + 1
      BY <1>2
    <3>3. depth[g] < depth[g] + 1
      BY <1>2
    <3>4. \A k \in u.G \ v.G : \E h \in Groups : depth[h] < depth[g] + 1 /\ k \in Owned(h)
      BY <2>6, <3>1, <3>2, <3>3
    <3>. QED
      BY <2>2, <3>4 DEF Lost
  <2>9. \A i \in 1..n : Shown(c, sels[i]) \subseteq v.G
    <3>. SUFFICES ASSUME NEW i \in 1..(n - 1), sels[i] # s, NEW k \in Shown(c, sels[i])
                  PROVE  k \in v.G
      BY <2>1, <2>6 DEF s
    <3>1. k \in u.G /\ sels[i] \in SelectorsOf(g)
      BY <1>1, <2>1, <2>2
    <3>2. k \in Mentions(sels[i])
      BY <3>1, SelectorFacts DEF IsChoice, Shown
    <3>3. k \in Owned(g)
      BY <3>1, <3>2 DEF Owned
    <3>4. k \notin Mentions(s)
      BY <2>3, <3>1, <3>2, <3>3, OneOwner
    <3>5. \A h \in Groups : k \in Owned(h) => ~(depth[h] < depth[g])
      <4>1. \A h \in Groups : k \in Owned(h) => h = g
        BY <3>1, <3>2, OneOwner
      <4>. QED
        BY <1>2, <4>1
    <3>. QED
      BY <2>6, <3>1, <3>4, <3>5
  <2>. QED
    BY <2>1, <2>6, <2>7, <2>8, <2>9 DEF v, s
<1>6. Each(verify, sels, made) \in I[Len(sels)]
  <2>. HIDE DEF verify, I
  <2>. QED
    BY <1>1, <1>4, <1>5, EachKeeps
<1> DEFINE u == Each(verify, sels, made)
           v == [u EXCEPT !.G = @ \cup {g}]
<1>7. BuildGroup(g, c, t, add) = v
  BY DEF BuildGroup, sels, made
<1>. HIDE DEF u, verify
<1>8. /\ u \in Panels /\ Grown(t, u) /\ g \in u.job /\ Lacking(c, u) \subseteq Lacking(c, t) \cup {g}
      /\ \A s \in SelectorsOf(g) : Shown(c, s) \subseteq u.G
      /\ Lost(depth, depth[g] + 1, t, u)
  BY <1>1, <1>6 DEF u
<1>9. v \in Panels /\ v.job = u.job /\ v.G = u.G \cup {g} /\ v.registered = u.registered
  BY <1>8 DEF Panels
<1>. HIDE DEF v, I
<1>10. Lacking(c, v) \subseteq Lacking(c, t)
  <2>1. g \notin Lacking(c, v)
    BY <1>8, <1>9 DEF Lacking
  <2>2. Lacking(c, v) \subseteq Lacking(c, u) \cup {g}
    BY <1>9 DEF Lacking
  <2>. QED
    BY <1>8, <2>1, <2>2
<1>11. Grown(t, v) /\ Lost(depth, depth[g] + 1, t, v)
  BY <1>8, <1>9 DEF Grown, Lost
<1>. QED
  BY <1>7, <1>9, <1>10, <1>11 DEF Added

\* addGroup with d calls to go, by what it does with one call less.
Deeper(c, d, less) ==
  [g \in Groups |-> [st \in Panels |-> IF d = 0 THEN st ELSE BuildGroup(g, c, st, less)]]
AreDeeper(add, c, m) == add = [d \in 0..m |-> Deeper(c, d, add[d - 1])]

LEMMA DeeperExists == ASSUME NEW c, NEW len \in Nat PROVE \E add : AreDeeper(add, c, len)
<1> DEFINE S == {m \in Nat : \E add : AreDeeper(add, c, m)}
<1>0. \A x, y : Deeper(c, 0, x) = Deeper(c, 0, y)
  BY DEF Deeper
<1>1. 0 \in S
  <2>. DEFINE add == [d \in 0..0 |-> Deeper(c, 0, 0)]
  <2>1. \A d \in 0..0 : d = 0
    OBVIOUS
  <2>2. \A d \in 0..0 : add[d] = Deeper(c, d, add[d - 1])
    BY <1>0, <2>1
  <2>3. add = [d \in 0..0 |-> add[d]]
    OBVIOUS
  <2>. HIDE DEF add
  <2>4. AreDeeper(add, c, 0)
    BY <2>2, <2>3, Zenon DEF AreDeeper
  <2>. QED
    BY <2>4
<1>2. ASSUME NEW m \in Nat, m \in S PROVE m + 1 \in S
  <2>1. PICK a : AreDeeper(a, c, m)
    BY <1>2
  <2>. DEFINE b == [d \in 0..(m + 1) |-> IF d = m + 1 THEN Deeper(c, m + 1, a[m]) ELSE a[d]]
  <2>2. \A d \in 0..m : b[d] = a[d] /\ a[d] = Deeper(c, d, a[d - 1])
    BY <2>1 DEF AreDeeper
  <2>3. b[m + 1] = Deeper(c, m + 1, a[m]) /\ b = [d \in 0..(m + 1) |-> b[d]]
    OBVIOUS
  <2>. HIDE DEF b
  <2>4. \A d \in 0..(m + 1) : b[d] = Deeper(c, d, b[d - 1])
    <3>. TAKE d \in 0..(m + 1)
    <3>1. CASE d = 0
      BY <1>0, <2>2, <3>1
    <3>2. CASE d \in 1..m
      <4>1. d \in 0..m /\ d - 1 \in 0..m
        BY <3>2
      <4>. QED
        BY <2>2, <4>1
    <3>3. CASE d = m + 1
      <4>1. d - 1 = m /\ m \in 0..m
        BY <3>3
      <4>. QED
        BY <2>2, <2>3, <3>3, <4>1
    <3>. QED
      BY <3>1, <3>2, <3>3
  <2>5. AreDeeper(b, c, m + 1)
    BY <2>3, <2>4, Zenon DEF AreDeeper
  <2>. QED
    BY <2>5
<1>3. Nat \subseteq S
  <2>. HIDE DEF S
  <2>. QED
    BY <1>1, <1>2, AllNaturals
<1>. QED
  BY <1>3

\* addGroup keeps its promise: the calls suffice, since groups shown are ever less deep.
LEMMA AddKeeps ==
  ASSUME NEW c, IsChoice(c), NEW depth, IsDepth(depth)
  PROVE  \A g \in Groups : \A t \in Panels : addGroup(c)[g][t] \in Added(c, depth, g, t)
<1> DEFINE add == CHOOSE a : AreDeeper(a, c, MaxDepth)
           S == {d \in Nat : d <= MaxDepth => \A g \in Groups : depth[g] < d =>
                               \A t \in Panels : add[d][g][t] \in Added(c, depth, g, t)}
<1>0. MaxDepth \in Nat /\ depth \in [Groups -> Nat] /\ \A g \in Groups : depth[g] < MaxDepth
  BY EditorAssumption DEF IsDepth
<1>1. AreDeeper(add, c, MaxDepth)
  BY <1>0, DeeperExists
<1>2. addGroup(c) = add[MaxDepth]
  BY DEF addGroup, AreDeeper, Deeper
<1>. HIDE DEF add
<1>3. \A d \in 0..MaxDepth : add[d] = Deeper(c, d, add[d - 1])
  BY <1>1 DEF AreDeeper
<1>4. 0 \in S
  BY <1>0
<1>5. ASSUME NEW d \in Nat, d \in S PROVE d + 1 \in S
  <2>. SUFFICES ASSUME d + 1 <= MaxDepth, NEW g \in Groups, depth[g] < d + 1, NEW t \in Panels
                PROVE  add[d + 1][g][t] \in Added(c, depth, g, t)
    OBVIOUS
  <2>1. d + 1 \in 0..MaxDepth /\ d <= MaxDepth /\ d + 1 # 0 /\ (d + 1) - 1 = d
    BY <1>0
  <2>2. add[d + 1][g][t] = BuildGroup(g, c, t, add[d])
    <3>1. add[d + 1] = Deeper(c, d + 1, add[d])
      BY <1>3, <2>1
    <3>. QED
      BY <2>1, <3>1 DEF Deeper
  <2>3. \A k \in Groups : depth[k] < depth[g] => depth[k] < d
    BY <1>0
  <2>4. \A k \in Groups : depth[k] < depth[g] =>
          \A u \in Panels : add[d][k][u] \in Added(c, depth, k, u)
    BY <1>5, <2>1, <2>3
  <2>. QED
    BY <2>2, <2>4, BuildKeeps
<1>6. Nat \subseteq S
  <2>. HIDE DEF S
  <2>. QED
    BY <1>4, <1>5, AllNaturals
<1>7. MaxDepth \in S
  BY <1>0, <1>6
<1>. QED
  BY <1>0, <1>2, <1>7

\* What the editor keeps: the unconditional groups are on display, and with a group all
\* that its choices show.
Closed(c, t) ==
  t \in Panels /\ t.G \subseteq t.job /\ ToSet(ActiveGroups) \subseteq t.G /\ Lacking(c, t) = {}

LEMMA ActiveStay ==
  ASSUME NEW g \in ToSet(ActiveGroups), NEW h \in Groups PROVE g \notin Owned(h)
  BY SchemaIsTree, Zenon DEF Owned, SelectorsOf

LEMMA ContextClosed ==
  ASSUME NEW c, IsChoice(c), NEW groups \in SUBSET Groups
  PROVE  Closed(c, switchContext(groups, c))
<1>1. PICK depth : IsDepth(depth)
  BY DepthExists
<1> DEFINE st == [job |-> groups, G |-> {}, registered |-> FALSE]
           act == ActiveGroups
           I == [n \in 0..Len(act) |->
                  {t \in Panels : /\ t.G \subseteq t.job
                                  /\ \A i \in 1..n : act[i] \in t.G
                                  /\ Lacking(c, t) = {}}]
<1>2. /\ Len(act) \in Nat /\ ToSet(act) = {act[i] : i \in 1..Len(act)}
      /\ \A i \in 1..Len(act) : act[i] \in Groups /\ act[i] \in ToSet(act)
  <2>1. ActiveGroups \in Seq(Groups)
    BY SchemaAssumption
  <2>. QED
    BY <2>1, ToSetIs
<1>3. st \in I[0]
  <2>1. st \in Panels /\ st.G = {} /\ st.job = groups
    BY DEF Panels
  <2>. HIDE DEF st
  <2>. QED
    BY <1>2, <2>1 DEF Lacking
<1>4. ASSUME NEW n \in 1..Len(act), NEW t \in I[n - 1] PROVE addGroup(c)[act[n]][t] \in I[n]
  <2> DEFINE u == addGroup(c)[act[n]][t]
  <2>1. /\ n \in 0..Len(act) /\ n - 1 \in 0..Len(act)
        /\ \A i \in 1..n : i \in 1..Len(act) /\ (i = n \/ i \in 1..(n - 1))
    BY <1>2
  <2>2. /\ t \in Panels /\ t.G \subseteq t.job
        /\ \A i \in 1..(n - 1) : act[i] \in t.G
        /\ Lacking(c, t) = {}
    BY <2>1
  <2>3. u \in Added(c, depth, act[n], t)
    BY <1>1, <1>2, <2>2, AddKeeps
  <2>. HIDE DEF u, act
  <2>4. /\ u \in Panels /\ u.G \subseteq u.job
        /\ act[n] \in u.G /\ Lacking(c, u) = {}
    BY <2>2, <2>3 DEF Added, Grown
  <2>5. \A i \in 1..(n - 1) : act[i] \in u.G
    <3>. SUFFICES ASSUME NEW i \in 1..(n - 1), act[i] \notin u.G PROVE FALSE
      OBVIOUS
    <3>1. act[i] \in t.G \ u.G
      BY <2>2
    <3>2. \E h \in Groups : act[i] \in Owned(h)
      BY <2>3, <3>1 DEF Added, Lost
    <3>. QED
      BY <1>2, <2>1, <3>2, ActiveStay DEF act
  <2>. QED
    BY <2>1, <2>4, <2>5 DEF u
<1>5. switchContext(groups, c) \in I[Len(act)]
  <2>. HIDE DEF I, st
  <2>1. Each(addGroup(c), act, st) \in I[Len(act)]
    BY <1>2, <1>3, <1>4, EachKeeps
  <2>. QED
    BY <2>1 DEF switchContext, st
<1>. HIDE DEF act
<1>. QED
  BY <1>2, <1>5 DEF Closed, act

LEMMA ChoiceClosed ==
  ASSUME NEW c, NEW t, Closed(c, t), NEW g \in t.G, NEW s \in SelectorsOf(g),
         NEW d, IsChoice(d), \A r \in DOMAIN Options : r # s => d[r] = c[r]
  PROVE  /\ Closed(d, VerifySelector(t, Options[s][d[s]], addGroup(d)))
         /\ t.registered => VerifySelector(t, Options[s][d[s]], addGroup(d)).registered
<1>1. PICK depth : IsDepth(depth)
  BY DepthExists
<1> DEFINE u == VerifySelector(t, Options[s][d[s]], addGroup(d))
<1>2. /\ t \in Panels /\ g \in Groups /\ t.G \subseteq t.job /\ t.G \subseteq Groups
      /\ ToSet(ActiveGroups) \subseteq t.G /\ Lacking(c, t) = {}
  BY DEF Closed, Panels
<1>3. u \in Acted(d, depth, g, s, t)
  BY <1>1, <1>2, AddKeeps, VerifyKeeps
<1>. HIDE DEF u
<1>4. /\ u \in Panels /\ u.G \subseteq u.job /\ (t.registered => u.registered)
      /\ Lacking(d, u) \subseteq Lacking(d, t) \cup {g} /\ Shown(d, s) \subseteq u.G
      /\ \A k \in t.G \ u.G : k \in Mentions(s)
           \/ \E h \in Groups : depth[h] < depth[g] /\ k \in Owned(h)
  BY <1>2, <1>3 DEF Acted, Grown
<1>5. \A h \in Groups : \A r \in SelectorsOf(h) : r # s => Shown(d, r) = Shown(c, r)
  BY SelectorFacts DEF Shown
<1>6. Lacking(d, t) \subseteq {g}
  <2>. SUFFICES ASSUME NEW h \in Lacking(d, t), h # g PROVE FALSE
    OBVIOUS
  <2>1. h \in t.G /\ h \in Groups
    BY <1>2 DEF Lacking
  <2>2. s \notin SelectorsOf(h)
    BY <1>2, <2>1, SchemaIsTree, Zenon DEF SelectorsOf
  <2>3. h \in Lacking(c, t)
    BY <1>5, <2>1, <2>2 DEF Lacking
  <2>. QED
    BY <1>2, <2>3
<1>7. g \notin Lacking(d, u)
  <2>. SUFFICES ASSUME NEW r \in SelectorsOf(g), r # s, NEW k \in Shown(d, r) PROVE k \in u.G
    BY <1>4 DEF Lacking
  <2>1. k \in t.G
    BY <1>2, <1>5 DEF Lacking
  <2>2. k \in Mentions(r)
    BY <1>2, SelectorFacts DEF IsChoice, Shown
  <2>3. k \in Owned(g)
    BY <2>2 DEF Owned
  <2>4. k \notin Mentions(s)
    BY <1>2, <2>2, <2>3, OneOwner
  <2>5. \A h \in Groups : k \in Owned(h) => h = g
    BY <1>2, <2>2, OneOwner
  <2>6. ~(depth[g] < depth[g])
    BY <1>1, <1>2 DEF IsDepth
  <2>. QED
    BY <1>4, <2>1, <2>4, <2>5, <2>6
<1>8. ToSet(ActiveGroups) \subseteq u.G
  <2>. SUFFICES ASSUME NEW k \in ToSet(ActiveGroups), k \notin u.G PROVE FALSE
    OBVIOUS
  <2>1. k \notin Mentions(s)
    BY <1>2, SchemaIsTree, Zenon DEF SelectorsOf
  <2>. QED
    BY <1>2, <1>4, <2>1, ActiveStay
<1>9. Lacking(d, u) = {}
  BY <1>4, <1>6, <1>7
<1>. QED
  BY <1>4, <1>8, <1>9 DEF Closed, u

-----------------------------------------------------------------------------
(* The server's walk through the groups.                                   *)

\* The server looks only at groups on display, if what is on display is closed.
WalkWithin(t) ==
  {s \in Walks : ~s.missing /\ s.validated \subseteq t.G /\ ToSet(s.queue) \subseteq t.G}

LEMMA QueueFacts ==
  ASSUME NEW S, NEW q \in Seq(S), NEW r \in Seq(S)
  PROVE  /\ q \o r \in Seq(S) /\ ToSet(q \o r) = ToSet(q) \cup ToSet(r)
         /\ q # <<>> => /\ Head(q) \in ToSet(q) /\ Head(q) \in S
                        /\ Tail(q) \in Seq(S) /\ ToSet(Tail(q)) \subseteq ToSet(q)
<1>1. /\ q \o r \in Seq(S) /\ Len(q \o r) = Len(q) + Len(r) /\ Len(q) \in Nat /\ Len(r) \in Nat
      /\ \A i \in 1..Len(q \o r) : (q \o r)[i] = IF i <= Len(q) THEN q[i] ELSE r[i - Len(q)]
  BY ConcatProperties
<1>2. /\ ToSet(q) = {q[i] : i \in 1..Len(q)} /\ ToSet(r) = {r[i] : i \in 1..Len(r)}
      /\ ToSet(q \o r) = {(q \o r)[i] : i \in 1..Len(q \o r)}
  BY <1>1, ToSetIs
<1>3. ToSet(q \o r) \subseteq ToSet(q) \cup ToSet(r)
  <2>. SUFFICES ASSUME NEW i \in 1..Len(q \o r) PROVE (q \o r)[i] \in ToSet(q) \cup ToSet(r)
    BY <1>2
  <2>1. i <= Len(q) => i \in 1..Len(q)
    OBVIOUS
  <2>2. ~(i <= Len(q)) => i - Len(q) \in 1..Len(r)
    BY <1>1
  <2>. QED
    BY <1>1, <1>2, <2>1, <2>2
<1>4. ToSet(q) \subseteq ToSet(q \o r)
  <2>. SUFFICES ASSUME NEW i \in 1..Len(q) PROVE q[i] \in ToSet(q \o r)
    BY <1>2
  <2>1. i \in 1..Len(q \o r) /\ (q \o r)[i] = q[i]
    BY <1>1
  <2>. QED
    BY <1>2, <2>1
<1>5. ToSet(r) \subseteq ToSet(q \o r)
  <2>. SUFFICES ASSUME NEW i \in 1..Len(r) PROVE r[i] \in ToSet(q \o r)
    BY <1>2
  <2>1. /\ i + Len(q) \in 1..Len(q \o r) /\ ~(i + Len(q) <= Len(q))
        /\ (i + Len(q)) - Len(q) = i
    BY <1>1
  <2>. QED
    BY <1>1, <1>2, <2>1
<1>6. ASSUME q # <<>>
      PROVE  /\ Head(q) \in ToSet(q) /\ Head(q) \in S
             /\ Tail(q) \in Seq(S) /\ ToSet(Tail(q)) \subseteq ToSet(q)
  <2>1. /\ Tail(q) \in Seq(S) /\ Len(Tail(q)) = Len(q) - 1 /\ Len(q) >= 1
        /\ \A i \in 1..Len(Tail(q)) : Tail(q)[i] = q[i + 1]
        /\ Head(q) = q[1]
    BY <1>1, <1>6
  <2>2. ToSet(Tail(q)) = {Tail(q)[i] : i \in 1..Len(Tail(q))}
    BY <2>1, ToSetIs
  <2>3. 1 \in 1..Len(q) /\ \A i \in 1..Len(Tail(q)) : i + 1 \in 1..Len(q)
    BY <1>1, <2>1
  <2>. QED
    BY <1>2, <2>1, <2>2, <2>3
<1>. QED
  BY <1>1, <1>3, <1>4, <1>5, <1>6

LEMMA PopWithin ==
  ASSUME NEW c, IsChoice(c), NEW t, Closed(c, t), NEW s \in WalkWithin(t), s.queue # <<>>
  PROVE  PopGroup(t.job, c, s) \in WalkWithin(t)
<1> DEFINE id == Head(s.queue)
           sels == Selectors[id]
           rest == [s EXCEPT !.queue = Tail(@)]
           seen == [rest EXCEPT !.parsed = @ \cup {id}, !.validated = @ \cup {id}]
           insert == [r \in DOMAIN Options |->
                       [w \in Walks |-> InsertMatches(w, Options[r][c[r]])]]
<1>1. /\ s \in Walks /\ ~s.missing /\ s.validated \subseteq t.G /\ ToSet(s.queue) \subseteq t.G
      /\ s.queue \in Seq(Groups)
  BY DEF WalkWithin, Walks
<1>2. /\ id \in t.G /\ id \in t.job /\ id \in Groups
      /\ Tail(s.queue) \in Seq(Groups) /\ ToSet(Tail(s.queue)) \subseteq t.G
  BY <1>1, QueueFacts DEF Closed
<1>. HIDE DEF id
<1>3. rest \in WalkWithin(t) /\ rest.validated = s.validated
  <2>1. rest \in Walks /\ rest.missing = s.missing /\ rest.validated = s.validated
        /\ rest.queue = Tail(s.queue)
    BY <1>1, <1>2 DEF Walks
  <2>. QED
    BY <1>1, <1>2, <2>1 DEF WalkWithin
<1>. HIDE DEF rest
<1>4. seen \in WalkWithin(t)
  <2>1. seen \in Walks /\ seen.missing = rest.missing /\ seen.validated = rest.validated \cup {id}
        /\ seen.queue = rest.queue
    BY <1>2, <1>3 DEF Walks, WalkWithin
  <2>. QED
    BY <1>2, <1>3, <2>1 DEF WalkWithin
<1>. HIDE DEF seen
<1>5. /\ Len(sels) \in Nat
      /\ \A i \in 1..Len(sels) : sels[i] \in SelectorsOf(id) /\ sels[i] \in DOMAIN Options
  <2>1. Selectors[id] \in Seq(DOMAIN Options)
    BY <1>2, SchemaAssumption
  <2>. QED
    BY <2>1, ToSetIs DEF SelectorsOf
<1>. HIDE DEF sels
<1>6. ASSUME NEW n \in 1..Len(sels), NEW w \in WalkWithin(t)
      PROVE  insert[sels[n]][w] \in WalkWithin(t)
  <2> DEFINE r == sels[n]
             option == Options[r][c[r]]
             v == InsertMatches(w, option)
  <2>1. r \in SelectorsOf(id) /\ r \in DOMAIN Options
    BY <1>5
  <2>2. /\ option.show \in Seq(Groups) /\ option.hide \subseteq Groups
        /\ ToSet(option.show) = Shown(c, r)
    BY <1>2, <2>1, SelectorFacts DEF IsChoice, Shown
  <2>3. Shown(c, r) \subseteq t.G
    BY <1>2, <2>1 DEF Closed, Lacking
  <2>. HIDE DEF option
  <2>4. w \in Walks /\ ~w.missing /\ w.validated \subseteq t.G /\ ToSet(w.queue) \subseteq t.G
        /\ w.queue \in Seq(Groups)
    BY DEF WalkWithin, Walks
  <2>5. /\ w.queue \o option.show \in Seq(Groups)
        /\ ToSet(w.queue \o option.show) \subseteq t.G
    BY <2>2, <2>3, <2>4, QueueFacts
  <2>6. /\ v \in Walks /\ v.missing = w.missing /\ v.validated = w.validated
        /\ v.queue = w.queue \o option.show
    BY <2>2, <2>4, <2>5 DEF Walks, InsertMatches
  <2>7. insert[r][w] = v
    BY <2>1, <2>4 DEF option
  <2>. HIDE DEF v, insert
  <2>. QED
    BY <2>4, <2>5, <2>6, <2>7 DEF WalkWithin
<1>7. Each(insert, sels, seen) \in WalkWithin(t)
  <2> DEFINE I == [n \in 0..Len(sels) |-> WalkWithin(t)]
  <2>1. seen \in I[0] /\ \A n \in 1..Len(sels) : \A w \in I[n - 1] : insert[sels[n]][w] \in I[n]
    <3>1. \A n \in 0..Len(sels) : I[n] = WalkWithin(t)
      OBVIOUS
    <3>2. 0 \in 0..Len(sels) /\ \A n \in 1..Len(sels) : n \in 0..Len(sels) /\ n - 1 \in 0..Len(sels)
      BY <1>5
    <3>. HIDE DEF I, insert
    <3>. QED
      BY <1>4, <1>6, <3>1, <3>2
  <2>2. I[Len(sels)] = WalkWithin(t)
    BY <1>5
  <2>. HIDE DEF I, insert
  <2>3. Each(insert, sels, seen) \in I[Len(sels)]
    BY <1>5, <2>1, EachKeeps
  <2>. QED
    BY <2>2, <2>3
<1>8. PopGroup(t.job, c, s) = IF id \in s.parsed THEN rest ELSE Each(insert, sels, seen)
  BY <1>2 DEF PopGroup, id, rest, seen, sels
<1>. HIDE DEF insert
<1>. QED
  BY <1>3, <1>7, <1>8

LEMMA WalkStaysWithin ==
  ASSUME NEW c, IsChoice(c), NEW t, Closed(c, t)
  PROVE  Walk(t.job, c) \in WalkWithin(t)
<1> DEFINE round == [s \in Walks |-> IF s.queue = <<>> THEN s ELSE PopGroup(t.job, c, s)]
           rounds == [n \in 1..MaxPops |-> round]
           seq == [n \in 1..MaxPops |-> n]
           start == Queued(ActiveGroups)
           I == [n \in 0..MaxPops |-> WalkWithin(t)]
<1>1. MaxPops \in Nat /\ Len(seq) = MaxPops /\ \A n \in 1..MaxPops : seq[n] = n
  BY SchemaAssumption
<1>2. start \in WalkWithin(t)
  <2>1. /\ start.queue = ActiveGroups /\ start.validated = {} /\ start.missing = FALSE
        /\ start \in Walks
    BY SchemaAssumption DEF Queued, Walks
  <2>. QED
    BY <2>1 DEF WalkWithin, Closed
<1>3. ASSUME NEW s \in WalkWithin(t) PROVE round[s] \in WalkWithin(t)
  <2>1. s \in Walks
    BY DEF WalkWithin
  <2>2. round[s] = IF s.queue = <<>> THEN s ELSE PopGroup(t.job, c, s)
    BY <2>1
  <2>. HIDE DEF round
  <2>. QED
    BY <2>2, PopWithin
<1>. HIDE DEF round, start
<1>4. /\ \A n \in 0..MaxPops : I[n] = WalkWithin(t)
      /\ \A n \in 1..MaxPops : rounds[seq[n]] = round
  BY <1>1
<1>5. /\ 0 \in 0..MaxPops /\ MaxPops \in 0..MaxPops
      /\ \A n \in 1..MaxPops : n \in 0..MaxPops /\ n - 1 \in 0..MaxPops
  BY <1>1
<1>. HIDE DEF rounds, seq, I
<1>6. start \in I[0] /\ \A n \in 1..Len(seq) : \A s \in I[n - 1] : rounds[seq[n]][s] \in I[n]
  BY <1>1, <1>2, <1>3, <1>4, <1>5
<1>7. Each(rounds, seq, start) \in I[Len(seq)]
  BY <1>1, <1>6, EachKeeps
<1>8. Walk(t.job, c) = Each(rounds, seq, start)
  BY DEF Walk, rounds, seq, round, start
<1>. QED
  BY <1>1, <1>4, <1>5, <1>7, <1>8

-----------------------------------------------------------------------------
(* The editor.                                                             *)

EditorTypes ==
  /\ phase \in {"edit", "submitted", "valid", "spawned", "rejected"}
  /\ edits \in 0..MaxEdits /\ open \in BOOLEAN
  /\ kfs \in Seq(KeyFrame) /\ sel \in 0..Len(kfs)
  /\ number \in Given /\ frameCount \in Given

\* Only an open window has a selected key frame, and none without a text field for
\* the integer has key frames; so none goes while its index is kept.
WindowInv == (sel # 0 => open) /\ (open /\ ~registered => kfs = <<>>)

ShowsChosen == DOMAIN choice = DOMAIN Options /\ IsChoice(choice) /\ Closed(choice, Panel)

EditInv == EditorTypes /\ WindowInv /\ ShowsChosen

LEMMA UpdatedKeys ==
  ASSUME NEW keys \in Seq(KeyFrame), NEW reg, NEW n \in Given
  PROVE  /\ Updated(keys, reg, n) \in Seq(KeyFrame)
         /\ Len(Updated(keys, reg, n)) = IF reg THEN Len(keys) ELSE 0
<1>1. IntVal(n) \in Int
  BY DEF IntVal, Given
<1>2. \A k \in KeyFrame : Clamped(k, n) \in KeyFrame
  BY <1>1 DEF Clamped, KeyFrame
<1>3. /\ DOMAIN keys = 1..Len(keys) /\ Len(keys) \in Nat
      /\ \A i \in 1..Len(keys) : keys[i] \in KeyFrame
  OBVIOUS
<1> DEFINE moved == [i \in 1..Len(keys) |-> Clamped(keys[i], n)]
<1>4. moved \in [1..Len(keys) -> KeyFrame]
  BY <1>2, <1>3
<1>5. moved \in Seq(KeyFrame) /\ Len(moved) = Len(keys)
  <2>. HIDE DEF moved
  <2>. QED
    BY <1>3, <1>4
<1>6. Updated(keys, reg, n) = IF reg THEN moved ELSE <<>>
  BY <1>3 DEF Updated
<1>. HIDE DEF moved
<1>. QED
  BY <1>5, <1>6, EmptySeq

LEMMA FirstOf ==
  ASSUME NEW S, S \subseteq Nat, S # {}
  PROVE  Min(S) \in S
  BY LeastOf DEF Min

LEMMA RemovedKey ==
  ASSUME NEW keys \in Seq(KeyFrame), NEW i \in 1..Len(keys)
  PROVE  RemoveAt(keys, i) \in Seq(KeyFrame)
<1>1. /\ Len(keys) \in Nat /\ i \in Int /\ i - 1 \in Int /\ i + 1 \in Int
      /\ \A j \in 1..Len(keys) : keys[j] \in KeyFrame
  OBVIOUS
<1>2. \A j \in 1..(i - 1) : keys[j] \in KeyFrame
  BY <1>1
<1>3. \A j \in (i + 1)..Len(keys) : keys[j] \in KeyFrame
  BY <1>1
<1>4. SubSeq(keys, 1, i - 1) \in Seq(KeyFrame)
  BY <1>1, <1>2, SubSeqProperties
<1>5. SubSeq(keys, i + 1, Len(keys)) \in Seq(KeyFrame)
  BY <1>1, <1>3, SubSeqProperties
<1>. QED
  BY <1>4, <1>5, ConcatProperties DEF RemoveAt

\* Both ways to a key frame select one that exists.
LEMMA KeySelected ==
  ASSUME EditorTypes, NEW f \in Int, registered, frameSelected(f)
  PROVE  kfs' \in Seq(KeyFrame) /\ sel' \in 0..Len(kfs')
<1> DEFINE I == {i \in 1..Len(kfs) : kfs[i].frameno = f}
           at == IF I # {} THEN Min(I) ELSE 0
           new == [frameno |-> f, val |-> DefaultNumber, interp |-> "linear"]
           keys == IF at = 0 THEN Append(kfs, new) ELSE kfs
<1>1. kfs \in Seq(KeyFrame) /\ frameCount \in Given /\ Len(kfs) \in Nat
  BY DEF EditorTypes
<1>2. /\ kfs' = Updated(keys, registered, frameCount)
      /\ sel' = IF at = 0 THEN Len(keys) ELSE at
  BY DEF frameSelected, SelectInSeq
<1>3. at \in 0..Len(kfs)
  <2>1. I \subseteq 1..Len(kfs) /\ 1..Len(kfs) \subseteq Nat
    OBVIOUS
  <2>2. I # {} => Min(I) \in I
    BY <2>1, FirstOf
  <2>3. 1..Len(kfs) \subseteq 0..Len(kfs) /\ 0 \in 0..Len(kfs)
    BY <1>1
  <2>. HIDE DEF I
  <2>. QED
    BY <2>1, <2>2, <2>3, Zenon
<1>. HIDE DEF at
<1>4. new \in KeyFrame
  <2>1. DefaultNumber \in Int
    BY SchemaAssumption
  <2>. QED
    BY <2>1 DEF KeyFrame, Given, Methods
<1>. HIDE DEF new
<1>5. keys \in Seq(KeyFrame) /\ Len(keys) \in Nat /\ Len(kfs) <= Len(keys)
  BY <1>1, <1>4, AppendProperties
<1>. HIDE DEF keys
<1>6. kfs' \in Seq(KeyFrame) /\ Len(kfs') = Len(keys)
  BY <1>1, <1>2, <1>5, UpdatedKeys
<1>7. CASE at = 0
  <2>1. sel' = Len(kfs')
    BY <1>2, <1>6, <1>7
  <2>. QED
    BY <1>5, <1>6, <2>1
<1>8. CASE at # 0
  <2>1. sel' = at
    BY <1>2, <1>8
  <2>. QED
    BY <1>1, <1>3, <1>5, <1>6, <2>1
<1>. QED
  BY <1>7, <1>8

LEMMA EditInit == Init => EditInv
<1>. SUFFICES ASSUME Init PROVE EditInv
  OBVIOUS
<1> DEFINE st == switchContext({}, choice)
<1>1. /\ phase = "edit" /\ edits = 0 /\ choice = [s \in DOMAIN Options |-> Default[s]]
      /\ job = st.job /\ G = st.G /\ registered = st.registered
      /\ number = DefaultNumber /\ kfs = <<>> /\ frameCount = NoAnim /\ open = FALSE /\ sel = 0
  BY DEF Init
<1>2. DOMAIN choice = DOMAIN Options /\ IsChoice(choice)
  BY <1>1, SchemaAssumption DEF IsChoice
<1>3. Closed(choice, st)
  BY <1>2, ContextClosed
<1>. HIDE DEF st
<1>4. Closed(choice, Panel)
  <2>1. Panel = st
    BY <1>1, <1>3 DEF Panel, Closed, Panels
  <2>. QED
    BY <1>3, <2>1
<1>5. EditorTypes
  <2>1. DefaultNumber \in Int /\ MaxEdits \in Nat
    BY SchemaAssumption, EditorAssumption
  <2>2. kfs \in Seq(KeyFrame) /\ Len(kfs) = 0
    BY <1>1, EmptySeq
  <2>3. number \in Given /\ frameCount \in Given
    BY <1>1, <2>1 DEF Given, NoAnim
  <2>4. edits \in 0..MaxEdits /\ sel \in 0..Len(kfs)
    BY <1>1, <2>1, <2>2
  <2>. QED
    BY <1>1, <2>2, <2>3, <2>4 DEF EditorTypes
<1>. QED
  BY <1>1, <1>2, <1>4, <1>5 DEF EditInv, WindowInv, ShowsChosen

\* The groups on display change with a choice and with the context only.
LEMMA SameGroups ==
  ASSUME EditInv, UNCHANGED <<job, choice, G, registered>>
  PROVE  ShowsChosen'
<1>1. Panel' = Panel
  BY DEF Panel
<1>2. Closed(choice, Panel)' = Closed(choice, Panel)
  BY <1>1, Zenon DEF Closed, Lacking, Shown
<1>. QED
  BY <1>2, Zenon DEF EditInv, ShowsChosen, IsChoice

LEMMA ChoiceStep ==
  ASSUME EditInv, NEW g \in G, NEW s \in SelectorsOf(g), NEW c \in ChoiceOf(s),
         SelectChoice(g, s, c)
  PROVE  EditInv'
<1> DEFINE d == [choice EXCEPT ![s] = c]
           st == VerifySelector(Panel, Options[s][c], addGroup(d))
<1>1. /\ choice' = d /\ SetPanel(st)
      /\ kfs' = IF open THEN Updated(kfs, st.registered, frameCount) ELSE kfs
      /\ phase' = phase /\ edits' = edits + 1 /\ edits < MaxEdits
      /\ number' = number /\ frameCount' = frameCount /\ open' = open /\ sel' = sel
  BY DEF SelectChoice, Edit
<1>2. g \in Groups /\ s \in DOMAIN Options /\ Panel.G = G /\ Panel.registered = registered
  <2>1. g \in Groups
    BY DEF EditInv, ShowsChosen, Closed, Panels, Panel
  <2>. QED
    BY <2>1, SelectorFacts DEF Panel
<1>3. /\ DOMAIN d = DOMAIN Options /\ IsChoice(d) /\ d[s] = c
      /\ \A r \in DOMAIN Options : r # s => d[r] = choice[r]
  BY <1>2 DEF EditInv, ShowsChosen, IsChoice
<1>. HIDE DEF d
<1>4. Closed(d, st) /\ (registered => st.registered)
  BY <1>2, <1>3, ChoiceClosed DEF EditInv, ShowsChosen
<1>. HIDE DEF st
<1>5. ShowsChosen'
  <2>1. Panel' = st
    BY <1>1, <1>4 DEF Panel, SetPanel, Closed, Panels
  <2>2. Closed(d, st) = Closed(choice, Panel)'
    BY <1>1, <2>1, Zenon DEF Closed, Lacking, Shown
  <2>3. IsChoice(choice)' = IsChoice(d)
    BY <1>1, Zenon DEF IsChoice
  <2>. QED
    BY <1>1, <1>3, <1>4, <2>2, <2>3 DEF ShowsChosen
<1>6. /\ kfs \in Seq(KeyFrame) /\ frameCount \in Given /\ Len(kfs) \in Nat
      /\ sel \in 0..Len(kfs) /\ edits \in 0..MaxEdits
      /\ sel # 0 => open
      /\ open /\ ~registered => kfs = <<>>
  BY DEF EditInv, EditorTypes, WindowInv
<1>7. /\ kfs' \in Seq(KeyFrame) /\ (sel # 0 => Len(kfs') = Len(kfs))
      /\ open /\ ~st.registered => kfs' = <<>>
  <2>1. CASE ~open
    BY <1>1, <1>6, <2>1
  <2>2. CASE open
    <3>1. /\ Updated(kfs, st.registered, frameCount) \in Seq(KeyFrame)
          /\ Len(Updated(kfs, st.registered, frameCount)) =
               IF st.registered THEN Len(kfs) ELSE 0
      BY <1>6, UpdatedKeys
    <3>2. kfs' \in Seq(KeyFrame) /\ Len(kfs') = IF st.registered THEN Len(kfs) ELSE 0
      BY <1>1, <2>2, <3>1
    <3>3. ~st.registered => kfs' = <<>>
      BY <3>2, EmptySeq
    <3>4. sel # 0 => st.registered
      <4>1. sel # 0 => kfs # <<>>
        BY <1>6
      <4>. QED
        BY <1>4, <1>6, <2>2, <4>1
    <3>. QED
      BY <3>2, <3>3, <3>4
  <2>. QED
    BY <2>1, <2>2
<1>8. EditorTypes'
  <2>1. edits' \in 0..MaxEdits
    BY <1>1, <1>6, EditorAssumption
  <2>2. sel' \in 0..Len(kfs')
    BY <1>1, <1>6, <1>7
  <2>. QED
    BY <1>1, <1>7, <2>1, <2>2 DEF EditInv, EditorTypes
<1>9. WindowInv'
  BY <1>1, <1>6, <1>7 DEF WindowInv, SetPanel
<1>. QED
  BY <1>5, <1>8, <1>9 DEF EditInv

LEMMA ContextStep == ASSUME EditInv, SwitchContext PROVE EditInv'
<1> DEFINE st == switchContext(job, choice)
<1>1. /\ SetPanel(st) /\ choice' = choice /\ kfs' = kfs
      /\ phase' = phase /\ edits' = edits + 1 /\ edits < MaxEdits
      /\ number' = number /\ frameCount' = frameCount /\ open' = FALSE /\ sel' = 0
  BY DEF SwitchContext, Edit
<1>2. Closed(choice, st)
  <2>1. job \in SUBSET Groups
    BY DEF EditInv, ShowsChosen, Closed, Panels, Panel
  <2>. QED
    BY <2>1, ContextClosed DEF EditInv, ShowsChosen
<1>. HIDE DEF st
<1>3. ShowsChosen'
  <2>1. Panel' = st
    BY <1>1, <1>2 DEF Panel, SetPanel, Closed, Panels
  <2>2. Closed(choice, st) = Closed(choice, Panel)'
    BY <1>1, <2>1, Zenon DEF Closed, Lacking, Shown
  <2>3. IsChoice(choice)' = IsChoice(choice)
    BY <1>1, Zenon DEF IsChoice
  <2>. QED
    BY <1>1, <1>2, <2>2, <2>3 DEF EditInv, ShowsChosen
<1>4. EditorTypes'
  <2>1. edits' \in 0..MaxEdits
    BY <1>1, EditorAssumption DEF EditInv, EditorTypes
  <2>2. kfs' \in Seq(KeyFrame) /\ Len(kfs') \in Nat
    BY <1>1 DEF EditInv, EditorTypes
  <2>3. sel' \in 0..Len(kfs')
    BY <1>1, <2>2
  <2>. QED
    BY <1>1, <2>1, <2>2, <2>3 DEF EditInv, EditorTypes
<1>5. WindowInv'
  BY <1>1 DEF WindowInv
<1>. QED
  BY <1>3, <1>4, <1>5 DEF EditInv

\* What the user does in the animation window, and to the integer.
LEMMA WindowStep ==
  ASSUME EditInv, Edit, UNCHANGED <<job, choice, G, registered>>,
         kfs' \in Seq(KeyFrame), sel' \in 0..Len(kfs'), open' \in BOOLEAN,
         number' \in Given, frameCount' \in Given, WindowInv'
  PROVE  EditInv'
<1>1. ShowsChosen'
  BY SameGroups
<1>2. EditorTypes'
  BY EditorAssumption DEF Edit, EditInv, EditorTypes
<1>. QED
  BY <1>1, <1>2 DEF EditInv

LEMMA NumberStep == ASSUME EditInv, NEW v \in EditValues, EditNumber(v) PROVE EditInv'
<1>1. v \in Given
  BY EditorAssumption
<1>. QED
  BY <1>1, WindowStep DEF EditNumber, EditInv, EditorTypes, WindowInv

LEMMA OpenStep == ASSUME EditInv, OpenWindow PROVE EditInv'
<1>1. frameCount' \in Given
  BY EditorAssumption DEF OpenWindow, EditInv, EditorTypes, Given
<1>2. /\ kfs' \in Seq(KeyFrame)
      /\ Len(kfs') = IF registered THEN Len(kfs) ELSE 0
  BY <1>1, UpdatedKeys DEF OpenWindow, EditInv, EditorTypes
<1>3. Edit /\ open' = TRUE /\ sel' = 0 /\ number' = number
      /\ UNCHANGED <<job, choice, G, registered>>
  BY DEF OpenWindow
<1>4. sel' \in 0..Len(kfs')
  BY <1>2, <1>3
<1>5. WindowInv'
  <2>1. ~registered => kfs' = <<>>
    BY <1>2, EmptySeq
  <2>. QED
    BY <1>3, <2>1 DEF WindowInv
<1>. QED
  BY <1>1, <1>2, <1>3, <1>4, <1>5, WindowStep DEF EditInv, EditorTypes

LEMMA CountStep == ASSUME EditInv, NEW n \in FrameCounts, SetFrameCount(n) PROVE EditInv'
<1>1. n \in Given
  BY EditorAssumption
<1>. QED
  BY <1>1, WindowStep DEF SetFrameCount, EditInv, EditorTypes, WindowInv

\* The two ways to select a key frame.
LEMMA SelectStep ==
  ASSUME EditInv, Edit, open, registered, NEW f \in Int, frameSelected(f),
         UNCHANGED <<job, choice, number, G, registered, frameCount, open>>
  PROVE  EditInv'
<1>1. kfs' \in Seq(KeyFrame) /\ sel' \in 0..Len(kfs')
  BY KeySelected DEF EditInv
<1>. QED
  BY <1>1, WindowStep DEF EditInv, EditorTypes, WindowInv

\* What becomes of a key frame that is selected.
LEMMA KeyStep ==
  ASSUME EditInv, Edit, open, sel # 0,
         kfs' \in Seq(KeyFrame), sel' \in {0, sel}, sel' = sel => Len(kfs') = Len(kfs),
         UNCHANGED <<job, choice, number, G, registered, frameCount, open>>
  PROVE  EditInv'
<1>1. /\ kfs \in Seq(KeyFrame) /\ Len(kfs) \in Nat /\ sel \in 0..Len(kfs) /\ kfs # <<>>
      /\ registered
  BY DEF EditInv, EditorTypes, WindowInv
<1>2. sel' \in 0..Len(kfs')
  <2>1. Len(kfs') \in Nat
    OBVIOUS
  <2>. QED
    BY <1>1, <2>1
<1>3. WindowInv'
  BY <1>1 DEF WindowInv
<1>. QED
  BY <1>1, <1>2, <1>3, WindowStep DEF EditInv, EditorTypes

LEMMA KeyEdited ==
  ASSUME EditInv, sel # 0, NEW k \in KeyFrame
  PROVE  [kfs EXCEPT ![sel] = k] \in Seq(KeyFrame) /\ Len([kfs EXCEPT ![sel] = k]) = Len(kfs)
<1>1. kfs \in Seq(KeyFrame) /\ sel \in 1..Len(kfs)
  BY DEF EditInv, EditorTypes
<1>. QED
  BY <1>1, ExceptSeq

LEMMA EditKeyStep == ASSUME EditInv, NEW v \in EditValues, EditKey(v) PROVE EditInv'
<1>1. /\ Edit /\ open /\ sel # 0 /\ sel' = sel
      /\ kfs' = [kfs EXCEPT ![sel].val = v]
      /\ UNCHANGED <<job, choice, number, G, registered, frameCount, open>>
  BY DEF EditKey
<1> DEFINE k == [kfs[sel] EXCEPT !.val = v]
<1>2. kfs[sel] \in KeyFrame
  BY <1>1 DEF EditInv, EditorTypes
<1>3. k \in KeyFrame
  BY <1>2, EditorAssumption DEF KeyFrame
<1>4. kfs' = [kfs EXCEPT ![sel] = k]
  BY <1>1
<1>. HIDE DEF k
<1>5. kfs' \in Seq(KeyFrame) /\ Len(kfs') = Len(kfs)
  BY <1>1, <1>3, <1>4, KeyEdited
<1>. QED
  BY <1>1, <1>5, KeyStep

LEMMA EditInterpStep == ASSUME EditInv, NEW m \in EditMethods, EditInterp(m) PROVE EditInv'
<1>1. /\ Edit /\ open /\ sel # 0 /\ sel' = sel
      /\ kfs' = [kfs EXCEPT ![sel].interp = m]
      /\ UNCHANGED <<job, choice, number, G, registered, frameCount, open>>
  BY DEF EditInterp
<1> DEFINE k == [kfs[sel] EXCEPT !.interp = m]
<1>2. kfs[sel] \in KeyFrame
  BY <1>1 DEF EditInv, EditorTypes
<1>3. k \in KeyFrame
  BY <1>2, EditorAssumption DEF KeyFrame
<1>4. kfs' = [kfs EXCEPT ![sel] = k]
  BY <1>1
<1>. HIDE DEF k
<1>5. kfs' \in Seq(KeyFrame) /\ Len(kfs') = Len(kfs)
  BY <1>1, <1>3, <1>4, KeyEdited
<1>. QED
  BY <1>1, <1>5, KeyStep

LEMMA DeleteStep == ASSUME EditInv, DeleteKey PROVE EditInv'
<1> DEFINE I == {i \in 1..Len(kfs) : kfs[i] = kfs[sel]}
           i == IF I # {} THEN Min(I) ELSE 0
<1>1. /\ Edit /\ open /\ sel # 0 /\ sel' = 0
      /\ kfs' = Updated(RemoveAt(kfs, i), registered, frameCount)
      /\ UNCHANGED <<job, choice, number, G, registered, frameCount, open>>
  BY DEF DeleteKey, AfterDelete, SelectInSeq
<1>2. kfs \in Seq(KeyFrame) /\ sel \in 1..Len(kfs) /\ frameCount \in Given
  BY <1>1 DEF EditInv, EditorTypes
<1>3. i \in 1..Len(kfs)
  <2>1. I \subseteq Nat /\ sel \in I /\ I \subseteq 1..Len(kfs)
    BY <1>2
  <2>. HIDE DEF I
  <2>. QED
    BY <2>1, FirstOf
<1>. HIDE DEF i
<1>4. kfs' \in Seq(KeyFrame)
  BY <1>1, <1>2, <1>3, RemovedKey, UpdatedKeys
<1>5. sel' \in {0, sel} /\ (sel' = sel => Len(kfs') = Len(kfs))
  BY <1>1
<1>. QED
  BY <1>1, <1>4, <1>5, KeyStep

\* After the job is sent the editor is closed.
LEMMA ServerStep ==
  ASSUME EditInv, Submit \/ Validate \/ SpawnJobs \/ RejectAnimation \/ BuildFrame \/ Spawned
  PROVE  EditInv'
<1>1. /\ UNCHANGED <<edits, job, choice, G, registered, kfs, frameCount>>
      /\ \/ sel' = 0 /\ open' = FALSE
         \/ UNCHANGED <<sel, open>>
      /\ phase' \in {"edit", "submitted", "valid", "spawned", "rejected"}
  BY DEF Submit, Validate, SpawnJobs, RejectAnimation, BuildFrame, Spawned, editor,
         EditInv, EditorTypes
<1>2. number' \in Given
  <2>1. number \in Given /\ DefaultNumber \in Given
    BY SchemaAssumption DEF EditInv, EditorTypes, Given
  <2>2. number' \in {number, Verified(number)}
    BY DEF Submit, Validate, SpawnJobs, RejectAnimation, BuildFrame, Spawned, editor
  <2>. QED
    BY <2>1, <2>2 DEF Verified
<1>3. ShowsChosen'
  BY <1>1, SameGroups
<1>4. EditorTypes'
  <2>1. kfs' \in Seq(KeyFrame) /\ Len(kfs) \in Nat /\ sel \in 0..Len(kfs) /\ open \in BOOLEAN
    BY <1>1 DEF EditInv, EditorTypes
  <2>2. sel' \in 0..Len(kfs') /\ open' \in BOOLEAN
    <3>1. 0 \in 0..Len(kfs) /\ Len(kfs') = Len(kfs)
      BY <1>1, <2>1
    <3>. QED
      BY <1>1, <2>1, <3>1
  <2>. QED
    BY <1>1, <1>2, <2>1, <2>2 DEF EditInv, EditorTypes
<1>5. WindowInv'
  BY <1>1 DEF EditInv, WindowInv
<1>. QED
  BY <1>3, <1>4, <1>5 DEF EditInv

LEMMA EditStep == ASSUME EditInv, [Next]_vars PROVE EditInv'
<1>1. ASSUME NEW g \in G, NEW s \in ToSet(Selectors[g]), NEW c \in ChoiceOf(s),
             SelectChoice(g, s, c)
      PROVE  EditInv'
  BY <1>1, ChoiceStep DEF SelectorsOf
<1>2. ASSUME NEW v \in EditValues, EditNumber(v) \/ EditKey(v) PROVE EditInv'
  BY <1>2, NumberStep, EditKeyStep
<1>3. CASE SwitchContext
  BY <1>3, ContextStep
<1>4. CASE OpenWindow
  BY <1>4, OpenStep
<1>5. ASSUME NEW n \in FrameCounts, SetFrameCount(n) PROVE EditInv'
  BY <1>5, CountStep
<1>6. ASSUME NEW f \in 2..IntVal(frameCount), SelectKF(f) PROVE EditInv'
  BY <1>6, SelectStep DEF SelectKF
<1>7. ASSUME NEW i \in DOMAIN kfs, ClickKF(i) PROVE EditInv'
  <2>1. Edit /\ open /\ UNCHANGED <<job, choice, number, G, registered, frameCount, open>>
    BY <1>7 DEF ClickKF
  <2>2. kfs \in Seq(KeyFrame) /\ kfs # <<>> /\ kfs[i] \in KeyFrame
    BY DEF EditInv, EditorTypes
  <2>3. registered
    BY <2>1, <2>2 DEF EditInv, WindowInv
  <2>4. PICK f \in Int : frameSelected(f)
    BY <1>7, <2>2 DEF ClickKF, KeyFrame
  <2>. QED
    BY <2>1, <2>3, <2>4, SelectStep
<1>8. ASSUME NEW m \in EditMethods, EditInterp(m) PROVE EditInv'
  BY <1>8, EditInterpStep
<1>9. CASE DeleteKey
  BY <1>9, DeleteStep
<1>10. CASE Submit \/ Validate \/ SpawnJobs \/ RejectAnimation \/ BuildFrame \/ Spawned
  BY <1>10, ServerStep
<1>11. CASE UNCHANGED vars
  <2>1. ShowsChosen'
    BY <1>11, SameGroups DEF vars, editor
  <2>2. EditorTypes' /\ WindowInv'
    BY <1>11 DEF vars, editor, EditInv, EditorTypes, WindowInv
  <2>. QED
    BY <2>1, <2>2 DEF EditInv
<1>. QED
  BY <1>1, <1>2, <1>3, <1>4, <1>5, <1>6, <1>7, <1>8, <1>9, <1>10, <1>11 DEF Next

\* The editor keeps its types, its window's key frames and what its choices show.
THEOREM EditorInvariant == Spec => []EditInv
<1>1. Init => EditInv
  BY EditInit
<1>2. EditInv /\ [Next]_vars => EditInv'
  BY EditStep
<1>. QED
  BY <1>1, <1>2, PTL DEF Spec

\* No job of the editor lacks a group the server looks at, and all it looks at is on
\* display (PanelProperties::addGroup and switchContext against
\* SchemaManager::validateParamaters).
THEOREM JobsComplete == Spec => []GroupsShown
<1>1. EditInv => GroupsShown
  BY WalkStaysWithin DEF EditInv, ShowsChosen, GroupsShown, WalkWithin, Panel
<1>. QED
  BY <1>1, EditorInvariant, PTL

\* Whatever the editor submits and the server accepts is a start of the animation builder
\* as it is specified on its own (spawnJobs calls buildAnimatedParams).
THEOREM EditorDrivesBuilder == Spec => KeysSpec
<1>1. Init => KeysInit
  BY DEF Init
<1>2. EditInv /\ [Next]_vars => [KeysNext]_keyVars
  <2>. SUFFICES ASSUME EditInv, [Next]_vars PROVE [KeysNext]_keyVars
    OBVIOUS
  <2>1. ASSUME NEW g \in G, NEW s \in ToSet(Selectors[g]), NEW c \in ChoiceOf(s),
               SelectChoice(g, s, c)
        PROVE  UNCHANGED keyVars
    BY <2>1 DEF SelectChoice, Edit
  <2>2. ASSUME NEW v \in EditValues, EditNumber(v) \/ EditKey(v) PROVE UNCHANGED keyVars
    BY <2>2 DEF EditNumber, EditKey, Edit
  <2>3. CASE SwitchContext \/ OpenWindow \/ DeleteKey
    BY <2>3 DEF SwitchContext, OpenWindow, DeleteKey, Edit
  <2>4. ASSUME NEW n \in FrameCounts, SetFrameCount(n) PROVE UNCHANGED keyVars
    BY <2>4 DEF SetFrameCount, Edit
  <2>5. ASSUME NEW f \in 2..IntVal(frameCount), SelectKF(f) PROVE UNCHANGED keyVars
    BY <2>5 DEF SelectKF, Edit
  <2>6. ASSUME NEW i \in DOMAIN kfs, ClickKF(i) PROVE UNCHANGED keyVars
    BY <2>6 DEF ClickKF, Edit
  <2>7. ASSUME NEW m \in EditMethods, EditInterp(m) PROVE UNCHANGED keyVars
    BY <2>7 DEF EditInterp, Edit
  <2>8. CASE Submit \/ Validate \/ RejectAnimation
    BY <2>8 DEF Submit, Validate, RejectAnimation
  <2>9. CASE SpawnJobs
    <3>1. buildAnimatedParams(IF NumberGroup \in job THEN kfs ELSE <<>>, number, frameCount)
      BY <2>9 DEF SpawnJobs
    <3>2. kfs \in Seq(KeyFrame) /\ <<>> \in Seq(KeyFrame) /\ number \in Given
      BY EmptySeq DEF EditInv, EditorTypes
    <3>3. frameCount \in Nat
      BY <2>9, NoNumbers DEF SpawnJobs, FramesOK, EditInv, EditorTypes, Given
    <3>4. \E keyframes \in Seq(KeyFrame), base \in Given, n \in Nat :
            buildAnimatedParams(keyframes, base, n)
      BY <3>1, <3>2, <3>3
    <3>. QED
      BY <3>4 DEF KeysNext
  <2>10. CASE BuildFrame \/ Spawned
    BY <2>10 DEF BuildFrame, Spawned, KeysNext
  <2>11. CASE UNCHANGED vars
    BY <2>11 DEF vars
  <2>. QED
    BY <2>1, <2>2, <2>3, <2>4, <2>5, <2>6, <2>7, <2>8, <2>9, <2>10, <2>11 DEF Next
<1>. QED
  BY <1>1, <1>2, EditorInvariant, PTL DEF Spec, KeysSpec

\* So the frames of every animation that is submitted get the values its key frames define
\* (AnimationBuilder::interpolateFrame).
THEOREM SubmittedFramesFollow == Spec => []FollowsKeys
  BY EditorDrivesBuilder, FramesFollowKeys, PTL

\* The types of the editor and of the builder, and what is displayed is in the job.
THEOREM EditorTypesHold == Spec => []JobTypeOK
<1>1. EditInv /\ KeyInv => JobTypeOK
  BY DEF EditInv, EditorTypes, ShowsChosen, IsChoice, Closed, Panels, Panel, KeyInv,
         JobTypeOK, Given
<1>. QED
  BY <1>1, EditorInvariant, EditorDrivesBuilder, KeysInvariant, PTL

-----------------------------------------------------------------------------
(* The frames of an animation.                                             *)

Looked == NumberGroup \in Walk(job, choice).validated

\* What was accepted is right, and frames are built of nothing else.
AcceptedInv ==
  /\ pc # "idle" => phase = "spawned"
  /\ phase = "valid" /\ Looked => NumberOK(number)
  /\ phase = "spawned" /\ Looked /\ AscendingKeys /\ (\A i \in DOMAIN F : Tame(F[i].interp))
       => /\ \A i \in DOMAIN F : NumberOK(F[i].val)
          /\ NumberOK(param) /\ \A n \in DOMAIN jobs : NumberOK(jobs[n])

FrameInv == EditInv /\ KeyInv /\ AcceptedInv

LEMMA VerifiedOK == ASSUME NEW v \in Given, NumberOK(v) PROVE NumberOK(Verified(v))
  BY NoNumbers, SchemaAssumption DEF NumberOK, Verified

\* Neither the groups on display nor the key frames of the builder change.
LEMMA EditAccepted ==
  ASSUME FrameInv, phase = "edit", phase' \in {"edit", "submitted"}, UNCHANGED keyVars
  PROVE  AcceptedInv'
  BY DEF FrameInv, AcceptedInv, keyVars

LEMMA ValidateAccepted == ASSUME FrameInv, Validate PROVE AcceptedInv'
<1>1. /\ phase = "submitted" /\ phase' \in {"valid", "rejected"} /\ pc' = pc
      /\ job' = job /\ choice' = choice
      /\ number' = IF Looked THEN Verified(number) ELSE number
      /\ phase' = "valid" /\ Looked => NumberOK(number)
  BY DEF Validate, keyVars, Looked, validateParamaters
<1>2. Looked' = Looked
  BY <1>1, Zenon DEF Looked
<1>3. number \in Given
  BY DEF FrameInv, EditInv, EditorTypes
<1>4. phase' = "valid" /\ Looked => NumberOK(number)'
  <2>. SUFFICES ASSUME phase' = "valid", Looked PROVE NumberOK(number')
    BY DEF NumberOK
  <2>1. NumberOK(Verified(number))
    BY <1>1, <1>3, VerifiedOK
  <2>. QED
    BY <1>1, <2>1
<1>. QED
  BY <1>1, <1>2, <1>4 DEF FrameInv, AcceptedInv

LEMMA SpawnAccepted == ASSUME FrameInv, SpawnJobs PROVE AcceptedInv'
<1> DEFINE keys == IF NumberGroup \in job THEN kfs ELSE <<>>
           first == [frameno |-> 1, val |-> number, interp |-> "none"]
<1>1. /\ phase = "valid" /\ phase' = "spawned" /\ job' = job /\ choice' = choice
      /\ validateAnimationParam(kfs, frameCount) /\ param' = number /\ jobs' = <<>>
      /\ F' = IF keys = <<>> THEN <<>> ELSE <<first>> \o keys
  BY DEF SpawnJobs, buildAnimatedParams, editor
<1>2. Looked' = Looked
  BY <1>1, Zenon DEF Looked
<1>. SUFFICES ASSUME Looked
              PROVE  /\ \A i \in DOMAIN F' : NumberOK(F'[i].val)
                     /\ NumberOK(param') /\ \A n \in DOMAIN jobs' : NumberOK(jobs'[n])
  BY <1>1, <1>2 DEF AcceptedInv, NumberOK
<1>3. NumberOK(number)
  BY <1>1 DEF FrameInv, AcceptedInv
<1>4. keys \in Seq(KeyFrame) /\ \A i \in 1..Len(keys) : NumberOK(keys[i].val)
  <2>1. /\ kfs \in Seq(KeyFrame)
        /\ \A i \in DOMAIN kfs : NumberOK(kfs[i].val)
    BY <1>1 DEF FrameInv, EditInv, EditorTypes, validateAnimationParam, InConstraints
  <2>2. \A i \in 1..Len(kfs) : NumberOK(kfs[i].val)
    BY <2>1
  <2>3. <<>> \in Seq(KeyFrame) /\ \A i \in 1..Len(<<>>) : FALSE
    BY EmptySeq
  <2>. QED
    BY <2>1, <2>2, <2>3
<1>. HIDE DEF keys
<1>5. ASSUME NEW i \in DOMAIN F' PROVE NumberOK(F'[i].val)
  <2>1. F' = <<first>> \o keys
    BY <1>1, <1>5
  <2>2. first \in KeyFrame /\ <<first>> \in Seq(KeyFrame) /\ Len(<<first>>) = 1 /\ <<first>>[1] = first
        /\ first.val = number
    BY DEF FrameInv, EditInv, EditorTypes, KeyFrame, Methods
  <2>. HIDE DEF first
  <2>3. /\ F' \in Seq(KeyFrame) /\ Len(F') = 1 + Len(keys) /\ Len(keys) \in Nat
        /\ F'[1] = first /\ \A j \in 2..Len(F') : F'[j] = keys[j - 1]
    BY <1>4, <2>1, <2>2, ConcatProperties
  <2>4. i = 1 \/ (i \in 2..Len(F') /\ i - 1 \in 1..Len(keys))
    BY <2>3
  <2>. QED
    BY <1>3, <1>4, <2>2, <2>3, <2>4
<1>. QED
  BY <1>1, <1>3, <1>5

\* What the last frame leaves for the next one, if all was right so far.
RightSoFar ==
  /\ AscendingKeys /\ \A i \in DOMAIN F : Tame(F[i].interp) /\ NumberOK(F[i].val)
  /\ NumberOK(param)

\* A frame is saved whose value is right.
LEMMA SaveAccepted ==
  ASSUME FrameInv, phase' = phase, job' = job, choice' = choice, number' = number,
         pc' = pc, pc = "frames", SaveJob, param' \in Value, RightSoFar => NumberOK(param')
  PROVE  AcceptedInv'
<1>1. F' = F /\ jobs' = Append(jobs, param') /\ jobs \in Seq(Value) /\ phase = "spawned"
  BY DEF SaveJob, FrameInv, KeyInv, KeyTypes, AcceptedInv
<1>2. Looked' = Looked /\ AscendingKeys' = AscendingKeys
  BY <1>1, Zenon DEF Looked, AscendingKeys
<1>. SUFFICES ASSUME Looked, AscendingKeys, \A i \in DOMAIN F : Tame(F[i].interp)
              PROVE  /\ \A i \in DOMAIN F : NumberOK(F[i].val)
                     /\ NumberOK(param') /\ \A n \in DOMAIN jobs' : NumberOK(jobs'[n])
  BY <1>1, <1>2 DEF FrameInv, AcceptedInv, NumberOK, Tame
<1>3. /\ \A i \in DOMAIN F : NumberOK(F[i].val)
      /\ NumberOK(param) /\ \A n \in DOMAIN jobs : NumberOK(jobs[n])
  BY <1>1 DEF FrameInv, AcceptedInv
<1>4. NumberOK(param')
  BY <1>3 DEF RightSoFar
<1>5. \A n \in DOMAIN jobs' : NumberOK(jobs'[n])
  <2>1. /\ DOMAIN jobs = 1..Len(jobs) /\ Len(jobs) \in Nat
        /\ DOMAIN jobs' = 1..(Len(jobs) + 1)
        /\ \A n \in 1..Len(jobs) : jobs'[n] = jobs[n]
        /\ jobs'[Len(jobs) + 1] = param'
    BY <1>1, AppendProperties
  <2>2. \A n \in 1..(Len(jobs) + 1) : n \in 1..Len(jobs) \/ n = Len(jobs) + 1
    BY <2>1
  <2>. QED
    BY <1>3, <1>4, <2>1, <2>2
<1>. QED
  BY <1>3, <1>4, <1>5

\* The value between two key frames is one between two checked ones.
LEMMA BetweenOK ==
  ASSUME KeyInv, Interpolate, AscendingKeys, \A i \in DOMAIN F : Tame(F[i].interp),
         \A i \in DOMAIN F : NumberOK(F[i].val)
  PROVE  NumberOK(param')
<1>1. /\ HasNext /\ ~ReachedNow(NextFrame) /\ Numeric
      /\ param' = animationInterpolate(NextFrame.interp, thisframe, LastFrame.frameno,
                    NextFrame.frameno, LastFrame.val, NextFrame.val)
  BY DEF Interpolate, Between
<1>2. F # <<>> /\ F \in Seq(KeyFrame)
  BY <1>1 DEF HasNext, KeyInv, KeyTypes
<1>3. /\ thisframe \in Int /\ LastFrame.frameno \in Int /\ NextFrame.frameno \in Int
      /\ LastFrame.frameno <= thisframe
      /\ LastFrame.val \in Int /\ NextFrame.val \in Int
  BY <1>1, <1>2, AtLast DEF KeyFrame, Numeric, Given
<1>4. /\ lastSetIndex \in 1..(Len(F) - 1) /\ lastSetIndex \in DOMAIN F
      /\ lastSetIndex + 1 \in DOMAIN F
  BY <1>1, <1>2, AtLast DEF HasNext
<1>5. LastFrame.frameno < NextFrame.frameno
  BY <1>4 DEF AscendingKeys, LastFrame, NextFrame
<1>6. thisframe <= NextFrame.frameno
  <2>1. InForceAt(lastSetIndex, thisframe)
    BY <1>1, <1>2, StaysInForce
  <2>2. thisframe < NextFrame.frameno
    BY <1>1, <1>5, <2>1 DEF InForceAt, HasNext, LastFrame, NextFrame
  <2>. QED
    BY <1>3, <2>2
<1>7. Tame(NextFrame.interp) /\ NumberOK(LastFrame.val) /\ NumberOK(NextFrame.val)
  BY <1>4 DEF LastFrame, NextFrame
<1>8. LastFrame.val \in MinNumber..MaxNumber /\ NextFrame.val \in MinNumber..MaxNumber
  BY <1>3, <1>7, NoNumbers DEF NumberOK
<1>9. MinNumber \in Int /\ MaxNumber \in Int
  BY SchemaAssumption
<1>10. param' \in MinNumber..MaxNumber
  BY <1>1, <1>3, <1>5, <1>6, <1>7, <1>8, <1>9, InterpolatedBetween
<1>11. param' # Garbage
  BY <1>9, <1>10, NoNumbers
<1>. QED
  BY <1>10, <1>11 DEF NumberOK

LEMMA FrameAccepted == ASSUME FrameInv, BuildFrame, KeyInv' PROVE AcceptedInv'
<1>1. phase' = phase /\ job' = job /\ choice' = choice /\ number' = number /\ param' \in Value
  BY DEF BuildFrame, editor, KeyInv, KeyTypes
<1>2. CASE Keep
  <2>1. SaveJob /\ pc' = pc /\ pc = "frames" /\ param' = param
    BY <1>2 DEF Keep, InFrames
  <2>2. RightSoFar => NumberOK(param')
    BY <2>1 DEF RightSoFar
  <2>. QED
    BY <1>1, <2>1, <2>2, SaveAccepted
<1>3. CASE ReachKey
  <2>1. lastSetIndex + 1 \in DOMAIN F
    <3>1. HasNext /\ F \in Seq(KeyFrame) /\ F # <<>>
      BY <1>3 DEF ReachKey, HasNext, FrameInv, KeyInv, KeyTypes
    <3>. QED
      BY <3>1, AtLast DEF HasNext, FrameInv
  <2>2. param' = F[lastSetIndex + 1].val
    BY <1>3 DEF ReachKey, NextFrame
  <2>3. RightSoFar => NumberOK(param')
    BY <2>1, <2>2 DEF RightSoFar
  <2>4. SaveJob /\ pc' = pc /\ pc = "frames"
    BY <1>3 DEF ReachKey, InFrames
  <2>. QED
    BY <1>1, <2>3, <2>4, SaveAccepted
<1>4. CASE Interpolate
  <2>1. KeyInv /\ SaveJob /\ pc' = pc /\ pc = "frames"
    BY <1>4 DEF FrameInv, Interpolate, Between, InFrames
  <2>2. RightSoFar => NumberOK(param')
    BY <1>4, <2>1, BetweenOK DEF RightSoFar
  <2>. QED
    BY <1>1, <2>1, <2>2, SaveAccepted
<1>5. CASE Throw
  <2>1. UNCHANGED <<F, param, jobs>> /\ pc = "frames"
    BY <1>5 DEF Throw, Between, InFrames
  <2>2. Looked' = Looked
    BY <1>1, Zenon DEF Looked
  <2>. QED
    BY <1>1, <2>1, <2>2 DEF FrameInv, AcceptedInv, AscendingKeys, NumberOK
<1>. QED
  BY <1>2, <1>3, <1>4, <1>5 DEF BuildFrame, interpolateFrame

LEMMA AcceptedStep == ASSUME FrameInv, [Next]_vars, KeyInv' PROVE AcceptedInv'
<1>1. ASSUME Edit PROVE AcceptedInv'
  BY <1>1, EditAccepted DEF Edit
<1>2. ASSUME NEW g \in G, NEW s \in ToSet(Selectors[g]), NEW c \in ChoiceOf(s),
             SelectChoice(g, s, c)
      PROVE  AcceptedInv'
  BY <1>1, <1>2 DEF SelectChoice
<1>3. ASSUME NEW v \in EditValues, EditNumber(v) \/ EditKey(v) PROVE AcceptedInv'
  BY <1>1, <1>3 DEF EditNumber, EditKey
<1>4. CASE SwitchContext \/ OpenWindow \/ DeleteKey
  BY <1>1, <1>4 DEF SwitchContext, OpenWindow, DeleteKey
<1>5. ASSUME NEW n \in FrameCounts, SetFrameCount(n) PROVE AcceptedInv'
  BY <1>1, <1>5 DEF SetFrameCount
<1>6. ASSUME NEW f \in 2..IntVal(frameCount), SelectKF(f) PROVE AcceptedInv'
  BY <1>1, <1>6 DEF SelectKF
<1>7. ASSUME NEW i \in DOMAIN kfs, ClickKF(i) PROVE AcceptedInv'
  BY <1>1, <1>7 DEF ClickKF
<1>8. ASSUME NEW m \in EditMethods, EditInterp(m) PROVE AcceptedInv'
  BY <1>1, <1>8 DEF EditInterp
<1>9. CASE Submit
  BY <1>9, EditAccepted DEF Submit
<1>10. CASE Validate
  BY <1>10, ValidateAccepted
<1>11. CASE SpawnJobs
  BY <1>11, SpawnAccepted
<1>12. CASE RejectAnimation
  BY <1>12 DEF RejectAnimation, FrameInv, AcceptedInv, keyVars
<1>13. CASE BuildFrame
  BY <1>13, FrameAccepted
<1>14. ASSUME UNCHANGED <<phase, editor>>, UNCHANGED <<F, param, jobs>>, pc # "idle" \/ pc' = pc
       PROVE  AcceptedInv'
  <2>1. Looked' = Looked
    BY <1>14, Zenon DEF Looked, editor
  <2>. QED
    BY <1>14, <2>1 DEF FrameInv, AcceptedInv, AscendingKeys, NumberOK, editor
<1>15. CASE Spawned
  BY <1>14, <1>15 DEF Spawned, AllSpawned
<1>16. CASE UNCHANGED vars
  BY <1>14, <1>16 DEF vars, keyVars
<1>. QED
  BY <1>2, <1>3, <1>4, <1>5, <1>6, <1>7, <1>8, <1>9, <1>10, <1>11, <1>12, <1>13, <1>15, <1>16
     DEF Next

\* Of an animation whose key frames ascend and do not overshoot, every frame's job passes
\* the validation that its job passed (SchemaManager::validateParamaters, before and
\* after AnimationBuilder::interpolateFrame).
THEOREM FramesAccepted == Spec => []FramesValid
<1>1. Init => AcceptedInv
  BY DEF Init, KeysInit, AcceptedInv
<1>2. EditInv /\ KeyInv /\ KeyInv' /\ AcceptedInv /\ [Next]_vars => AcceptedInv'
  BY AcceptedStep DEF FrameInv
<1>3. EditInv /\ AcceptedInv => FramesValid
  <2>1. EditInv => ~Walk(job, choice).missing
    BY WalkStaysWithin DEF EditInv, ShowsChosen, WalkWithin, Panel
  <2>. QED
    BY <2>1 DEF AcceptedInv, FramesValid, validateParamaters, Looked
<1>. QED
  BY <1>1, <1>2, <1>3, EditorInvariant, EditorDrivesBuilder, KeysInvariant, PTL DEF Spec
=============================================================================
