---------------------------- MODULE WorldProofs ----------------------------
(***************************************************************************)
(* Proofs about two parts of WorldSystem.cpp.                              *)
(*                                                                         *)
(* Interpolation, for every delay, history length and clock: the frame     *)
(* puts the body where every sample Delay old has been reached and none    *)
(* beyond the newest, and from frame to frame it moves forward.  The       *)
(* argument has three parts: where the loop over the history stops,        *)
(* between which ticks the target lies, and how the history of one frame   *)
(* lines up with that of the next.                                         *)
(*                                                                         *)
(* SpawnRegistry: where the id of an entity is.                            *)
(***************************************************************************)
EXTENDS Interpolation, SpawnRegistry, WellFoundedInduction, TLAPS

Sample == [localMs : Nat, tick : Nat]

\* The body is where the last frame put it, if that frame interpolated.
Placed == Smooth => samples # <<>> /\ position = Target(samples, now)

IInv == TypeOK /\ Placed

-----------------------------------------------------------------------------
(* Where the loop stops.                                                   *)

LEMMA RenderTyped ==
    ASSUME NEW at \in Nat
    PROVE  RenderMs(at) \in Nat
    BY SampleAssumption DEF RenderMs

\* A later frame renders a later time.
LEMMA RenderRises ==
    ASSUME NEW at \in Nat, NEW later \in Nat, at <= later
    PROVE  RenderMs(at) <= RenderMs(later)
    BY SampleAssumption DEF RenderMs

LEMMA SampleTyped ==
    ASSUME NEW s \in Seq(Sample), NEW j \in DOMAIN s
    PROVE  s[j].localMs \in Nat /\ s[j].tick \in Nat
<1>1. s[j] \in Sample
    OBVIOUS
<1> QED
    BY <1>1 DEF Sample

\* The loop over a history stops at some index: the first whose next sample
\* lies ahead, or the end.
LEMMA LoopStops ==
    ASSUME NEW s \in Seq(Sample), NEW at \in Nat
    PROVE  /\ BeforeIndex(s, at) \in 0 .. Len(s)
           /\ StopsAt(s, BeforeIndex(s, at), at)
<1> DEFINE R == RenderMs(at)
           Ahead == {k \in 0 .. Len(s) : k < Len(s) => s[k + 1].localMs > R}
<1>1. Len(s) \in Nat /\ R \in Nat
    BY RenderTyped
<1>2. Ahead \subseteq Nat /\ Len(s) \in Ahead
    BY <1>1
<1>3. PICK k \in Ahead : \A j \in Ahead : ~ (<<j, k>> \in OpToRel(<, Nat))
  <2>1. Ahead # {}
      BY <1>2
  <2> HIDE DEF Ahead
  <2> QED
      BY <1>2, <2>1, NatLessThanWellFounded, WFMin
<1>4. \A j \in Ahead : ~ (j < k)
    BY <1>2, <1>3 DEF OpToRel
<1>5. StopsAt(s, k, at)
  <2>1. ASSUME NEW j \in 1 .. k
        PROVE  s[j].localMs <= R
    <3>1. j - 1 \in 0 .. Len(s) /\ j - 1 < k /\ j - 1 < Len(s) /\ (j - 1) + 1 = j
        BY <1>1
    <3>2. j - 1 \notin Ahead
        BY <3>1, <1>4
    <3>3. ~ (s[j].localMs > R)
        BY <3>1, <3>2
    <3>4. s[j].localMs \in Nat
        BY <3>1, <1>1, SampleTyped
    <3> QED
        BY <3>3, <3>4, <1>1
  <2> QED
      BY <2>1 DEF StopsAt
<1> QED
    BY <1>5 DEF BeforeIndex

\* In a history in order of arrival, the samples up to that index are those
\* the render time has reached.
LEMMA ReachedOnes ==
    ASSUME NEW s \in Seq(Sample), InOrder(s), NEW at \in Nat, NEW j \in DOMAIN s
    PROVE  s[j].localMs <= RenderMs(at) <=> j <= BeforeIndex(s, at)
<1> DEFINE b == BeforeIndex(s, at)
<1>1. b \in 0 .. Len(s) /\ StopsAt(s, b, at)
    BY LoopStops
<1>2. j \in 1 .. Len(s) /\ Len(s) \in Nat /\ s[j].localMs \in Nat /\ RenderMs(at) \in Nat
  <2>1. s[j].localMs \in Nat
      BY SampleTyped
  <2>2. RenderMs(at) \in Nat
      BY RenderTyped
  <2>3. j \in 1 .. Len(s) /\ Len(s) \in Nat
      OBVIOUS
  <2> QED
      BY <2>1, <2>2, <2>3
<1> HIDE DEF b
<1>3. CASE j <= b
    BY <1>1, <1>2, <1>3 DEF StopsAt, b
<1>4. CASE ~ (j <= b)
  <2>1. b + 1 \in DOMAIN s /\ b < Len(s) /\ b + 1 <= j
      BY <1>1, <1>2, <1>4
  <2>2. s[b + 1].localMs > RenderMs(at) /\ s[b + 1].localMs \in Nat
      BY <1>1, <2>1, SampleTyped DEF StopsAt
  <2>3. s[b + 1].localMs <= s[j].localMs
      BY <2>1, <2>2, <1>2 DEF InOrder
  <2> QED
      BY <1>2, <2>2, <2>3, <1>4 DEF b
<1> QED
    BY <1>3, <1>4

\* Two indices the loop cannot both stop at are one.
LEMMA StopIsUnique ==
    ASSUME NEW s \in Seq(Sample), InOrder(s), NEW at \in Nat,
           NEW k \in 0 .. Len(s), StopsAt(s, k, at)
    PROVE  k = BeforeIndex(s, at)
<1> DEFINE b == BeforeIndex(s, at)
<1>1. b \in 0 .. Len(s) /\ StopsAt(s, b, at) /\ Len(s) \in Nat
    BY LoopStops
<1>2. \A j \in DOMAIN s : s[j].localMs \in Nat
    BY SampleTyped
<1>3. RenderMs(at) \in Nat
    BY RenderTyped
<1> HIDE DEF b
<1>4. ASSUME b < k PROVE FALSE
  <2>1. b + 1 \in 1 .. k /\ b + 1 \in DOMAIN s /\ b < Len(s)
      BY <1>1, <1>4
  <2> QED
      BY <1>1, <1>2, <1>3, <2>1 DEF StopsAt
<1>5. ASSUME k < b PROVE FALSE
  <2>1. k + 1 \in 1 .. b /\ k + 1 \in DOMAIN s /\ k < Len(s)
      BY <1>1, <1>5
  <2> QED
      BY <1>1, <1>2, <1>3, <2>1 DEF StopsAt
<1> QED
    BY <1>1, <1>4, <1>5 DEF b

-----------------------------------------------------------------------------
(* Arithmetic of fractions.                                                *)

LEMMA Product ==
    ASSUME NEW x \in Nat, NEW y \in Nat, NEW z \in Nat, x <= y
    PROVE  z * x \in Nat /\ z * x <= z * y
<1> DEFINE w == y - x
<1>1. w \in Nat /\ y = x + w
    OBVIOUS
<1>2. z * x \in Nat /\ z * w \in Nat
    BY <1>1
<1>3. z * y = z * x + z * w
  <2> HIDE DEF w
  <2> QED
      BY <1>1
<1> QED
    BY <1>2, <1>3

\* A weighted mean lies between its ends, and rises with the weight.
LEMMA Mean ==
    ASSUME NEW p \in Nat, NEW q \in Nat, p <= q,
           NEW e \in Nat, NEW f \in Nat, NEW d \in Nat, e <= f, f <= d
    PROVE  /\ p * d + (q - p) * e \in Nat
           /\ p * d <= p * d + (q - p) * e
           /\ p * d + (q - p) * e <= p * d + (q - p) * f
           /\ p * d + (q - p) * f <= q * d
<1> DEFINE w == q - p
<1>1. w \in Nat /\ q = p + w
    OBVIOUS
<1> HIDE DEF w
<1>2. w * e \in Nat /\ w * e <= w * f /\ w * f \in Nat /\ w * f <= w * d
    BY <1>1, Product
<1>3. p * d \in Nat /\ q * d = p * d + w * d
    BY <1>1
<1>4. w * d \in Nat
    BY <1>1
<1>5. /\ p * d + w * e \in Nat
      /\ p * d <= p * d + w * e
      /\ p * d + w * e <= p * d + w * f
      /\ p * d + w * f <= q * d
  <2> DEFINE pd == p * d
             we == w * e
             wf == w * f
             wd == w * d
  <2>1. /\ pd \in Nat /\ we \in Nat /\ wf \in Nat /\ wd \in Nat
        /\ we <= wf /\ wf <= wd /\ q * d = pd + wd
      BY <1>2, <1>3, <1>4
  <2> HIDE DEF pd, we, wf, wd
  <2>2. /\ pd + we \in Nat /\ pd <= pd + we
        /\ pd + we <= pd + wf /\ pd + wf <= pd + wd
      BY <2>1
  <2> QED
      BY <2>1, <2>2 DEF pd, we, wf, wd
<1> QED
    BY <1>5 DEF w

-----------------------------------------------------------------------------
(* Where the target lies.                                                  *)

IsFraction(p) == p.n \in Nat /\ p.d \in Nat \ {0}

LEMMA AtMostTransitive ==
    ASSUME NEW p, IsFraction(p), NEW tick \in Nat, NEW q, IsFraction(q),
           AtMost(p, At(tick)), AtMost(At(tick), q)
    PROVE  AtMost(p, q)
<1>1. p.n * 1 <= tick * p.d /\ tick * q.d <= q.n * 1
    BY DEF AtMost, At
<1> DEFINE a == p.n
           b == p.d
           c == q.n
           d == q.d
<1>2. a \in Nat /\ b \in Nat /\ c \in Nat /\ d \in Nat
    BY DEF IsFraction
<1>3. a <= tick * b /\ tick * d <= c
    BY <1>1, <1>2
<1> HIDE DEF a, b, c, d
<1>4. tick * b \in Nat /\ tick * d \in Nat
    BY <1>2
<1>5. d * a <= d * (tick * b) /\ b * (tick * d) <= b * c
    BY <1>2, <1>3, <1>4, Product
<1>6. d * (tick * b) = b * (tick * d) /\ a * d = d * a /\ c * b = b * c
    BY <1>2
<1>7. d * a \in Nat /\ d * (tick * b) \in Nat /\ b * c \in Nat
    BY <1>2, <1>4
<1>8. a * d <= c * b
    BY <1>5, <1>6, <1>7
<1> QED
    BY <1>8 DEF AtMost, a, b, c, d

\* Beyond a tick is beyond an earlier one, and short of it short of a later.
LEMMA AtMostEarlier ==
    ASSUME NEW p, IsFraction(p), NEW tick \in Nat, NEW earlier \in Nat,
           earlier <= tick, AtMost(At(tick), p)
    PROVE  AtMost(At(earlier), p)
<1> DEFINE d == p.d
<1>1. d \in Nat /\ p.n \in Nat
    BY DEF IsFraction
<1>2. tick * d <= p.n * 1
    BY DEF AtMost, At
<1> HIDE DEF d
<1>3. d * earlier \in Nat /\ d * earlier <= d * tick /\ d * tick \in Nat
    BY <1>1, Product
<1>4. earlier * d = d * earlier /\ tick * d = d * tick
    BY <1>1
<1>5. earlier * d <= p.n * 1
    BY <1>1, <1>2, <1>3, <1>4
<1> QED
    BY <1>5 DEF AtMost, At, d

LEMMA AtMostLater ==
    ASSUME NEW p, IsFraction(p), NEW tick \in Nat, NEW later \in Nat,
           tick <= later, AtMost(p, At(tick))
    PROVE  AtMost(p, At(later))
<1> DEFINE d == p.d
<1>1. d \in Nat /\ p.n \in Nat
    BY DEF IsFraction
<1>2. p.n * 1 <= tick * d
    BY DEF AtMost, At
<1> HIDE DEF d
<1>3. d * tick \in Nat /\ d * tick <= d * later /\ d * later \in Nat
    BY <1>1, Product
<1>4. later * d = d * later /\ tick * d = d * tick
    BY <1>1
<1>5. p.n * 1 <= later * d
    BY <1>1, <1>2, <1>3, <1>4
<1> QED
    BY <1>5 DEF AtMost, At, d

\* Between two samples, of which the render time has reached the first only.
LEMMA BetweenBounds ==
    ASSUME NEW a \in Sample, NEW b \in Sample, NEW at \in Nat,
           a.tick <= b.tick, a.localMs <= RenderMs(at), RenderMs(at) < b.localMs
    PROVE  /\ IsFraction(Between(a, b, at))
           /\ AtMost(At(a.tick), Between(a, b, at))
           /\ AtMost(Between(a, b, at), At(b.tick))
<1> DEFINE p == a.tick
           q == b.tick
           d == b.localMs - a.localMs
           e == RenderMs(at) - a.localMs
           n == p * d + (q - p) * e
<1>1. /\ p \in Nat /\ q \in Nat /\ p <= q
      /\ a.localMs \in Nat /\ b.localMs \in Nat /\ RenderMs(at) \in Nat
    BY RenderTyped DEF Sample
<1>2. d \in Nat \ {0} /\ e \in Nat /\ e <= d
    BY <1>1
<1>3. Between(a, b, at) = [n |-> n, d |-> d]
    BY DEF Between
<1> HIDE DEF p, q, d, e
<1>4. n \in Nat /\ p * d <= n /\ n <= q * d
    BY <1>1, <1>2, Mean
<1> HIDE DEF n
<1>5. Between(a, b, at).n = n /\ Between(a, b, at).d = d
    BY <1>3
<1>6. At(p).n = p /\ At(p).d = 1 /\ At(q).n = q /\ At(q).d = 1
    BY DEF At
<1>7. IsFraction(Between(a, b, at))
    BY <1>2, <1>4, <1>5 DEF IsFraction
<1>8. AtMost(At(p), Between(a, b, at)) /\ AtMost(Between(a, b, at), At(q))
    BY <1>1, <1>2, <1>4, <1>5, <1>6 DEF AtMost
<1> QED
    BY <1>7, <1>8 DEF p, q

\* A later frame between the same two samples puts the body further on.
LEMMA BetweenRises ==
    ASSUME NEW a \in Sample, NEW b \in Sample, NEW at \in Nat, NEW later \in Nat,
           a.tick <= b.tick, a.localMs <= RenderMs(at), RenderMs(later) < b.localMs,
           at <= later
    PROVE  AtMost(Between(a, b, at), Between(a, b, later))
<1> DEFINE p == a.tick
           q == b.tick
           d == b.localMs - a.localMs
           e == RenderMs(at) - a.localMs
           f == RenderMs(later) - a.localMs
           m == p * d + (q - p) * e
           n == p * d + (q - p) * f
<1>1. /\ p \in Nat /\ q \in Nat /\ p <= q
      /\ a.localMs \in Nat /\ b.localMs \in Nat
      /\ RenderMs(at) \in Nat /\ RenderMs(later) \in Nat
      /\ RenderMs(at) <= RenderMs(later)
    BY RenderTyped, RenderRises DEF Sample
<1>2. d \in Nat /\ e \in Nat /\ f \in Nat /\ e <= f /\ f <= d
    BY <1>1
<1>3. /\ Between(a, b, at) = [n |-> m, d |-> d]
      /\ Between(a, b, later) = [n |-> n, d |-> d]
    BY DEF Between
<1> HIDE DEF p, q, d, e, f
<1>4. m \in Nat /\ n \in Nat /\ m <= n
  <2>1. m \in Nat /\ m <= n
      BY <1>1, <1>2, Mean
  <2>2. n \in Nat
      BY <1>1, <1>2, Mean
  <2> QED
      BY <2>1, <2>2
<1> HIDE DEF m, n
<1>5. d * m <= d * n /\ m * d = d * m /\ n * d = d * n
    BY <1>2, <1>4, Product
<1>6. m * d <= n * d
    BY <1>5
<1>7. /\ Between(a, b, at).n = m /\ Between(a, b, at).d = d
      /\ Between(a, b, later).n = n /\ Between(a, b, later).d = d
    BY <1>3
<1> QED
    BY <1>6, <1>7 DEF AtMost

\* The target is no further than the newest sample, or than the first the
\* render time has not reached, and not behind any that it has.
LEMMA TargetBounds ==
    ASSUME NEW s \in Seq(Sample), s # <<>>, InOrder(s), NEW at \in Nat
    PROVE  /\ IsFraction(Target(s, at))
           /\ AtMost(Target(s, at), At(Newest(s).tick))
           /\ \A k \in DOMAIN s :
                 s[k].localMs <= RenderMs(at) => AtMost(At(s[k].tick), Target(s, at))
           /\ BeforeIndex(s, at) \in 1 .. Len(s) - 1 =>
                 AtMost(Target(s, at), At(s[BeforeIndex(s, at) + 1].tick))
<1> DEFINE b == BeforeIndex(s, at)
<1>1. b \in 0 .. Len(s) /\ StopsAt(s, b, at)
    BY LoopStops
<1>2. Len(s) \in DOMAIN s /\ Len(s) \in Nat
    OBVIOUS
<1>3. \A k \in DOMAIN s : s[k] \in Sample /\ s[k].tick \in Nat /\ s[k].localMs \in Nat
    BY SampleTyped
<1>4. \A j, k \in DOMAIN s : j <= k => s[j].tick <= s[k].tick
    BY <1>3 DEF InOrder
<1>5. \A k \in DOMAIN s : s[k].localMs <= RenderMs(at) => k <= b
    BY ReachedOnes
<1> HIDE DEF b
<1>6. CASE Starved(s, at)
  <2>1. Target(s, at) = [n |-> s[Len(s)].tick, d |-> 1] /\ (b = 0 \/ b = Len(s))
      BY <1>6 DEF Target, At, Newest, Starved, b
  <2>2. \A k \in DOMAIN s : AtMost(At(s[k].tick), Target(s, at))
      BY <2>1, <1>2, <1>3, <1>4 DEF AtMost, At
  <2>3. IsFraction(Target(s, at))
      BY <2>1, <1>2, <1>3 DEF IsFraction
  <2>4. Newest(s) = s[Len(s)]
      BY DEF Newest
  <2>5. AtMost(Target(s, at), At(Newest(s).tick))
      BY <2>1, <2>4, <1>2, <1>3 DEF AtMost, At
  <2> QED
      BY <2>1, <2>2, <2>3, <2>5, <1>2 DEF b
<1>7. CASE ~ Starved(s, at)
  <2>1. b \in 1 .. Len(s) - 1 /\ b \in DOMAIN s /\ b + 1 \in DOMAIN s
      BY <1>7, <1>1, <1>2 DEF Starved, b
  <2>2. Target(s, at) = Between(s[b], s[b + 1], at)
      BY <1>7 DEF Target, b
  <2>3. s[b].localMs <= RenderMs(at) /\ RenderMs(at) < s[b + 1].localMs
    <3>1. b \in 1 .. b /\ b < Len(s)
        BY <2>1, <1>2
    <3>2. s[b].localMs <= RenderMs(at) /\ s[b + 1].localMs > RenderMs(at)
        BY <1>1, <3>1 DEF StopsAt
    <3> QED
        BY <3>2, <2>1, <1>3, RenderTyped
  <2>4. s[b].tick <= s[b + 1].tick
      BY <2>1, <1>4, <1>2
  <2>5. /\ IsFraction(Target(s, at))
        /\ AtMost(At(s[b].tick), Target(s, at))
        /\ AtMost(Target(s, at), At(s[b + 1].tick))
      BY <2>1, <2>2, <2>3, <2>4, <1>3, BetweenBounds
  <2>6. AtMost(Target(s, at), At(s[Len(s)].tick))
    <3>1. s[b + 1].tick <= s[Len(s)].tick
        BY <2>1, <1>2, <1>4
    <3> QED
        BY <3>1, <2>1, <2>5, <1>2, <1>3, AtMostLater
  <2>7. ASSUME NEW k \in DOMAIN s, s[k].localMs <= RenderMs(at)
        PROVE  AtMost(At(s[k].tick), Target(s, at))
    <3>1. s[k].tick <= s[b].tick
        BY <2>7, <2>1, <1>4, <1>5
    <3> QED
        BY <3>1, <2>1, <2>5, <1>3, AtMostEarlier
  <2> QED
      BY <2>5, <2>6, <2>7 DEF Newest, b
<1> QED
    BY <1>6, <1>7

-----------------------------------------------------------------------------
(* How the history of one frame lines up with that of the next.            *)

\* The history t is s without its first c samples, and with what joined.
LinesUp(s, t, c) ==
    /\ \A k \in DOMAIN s : k > c => k - c \in DOMAIN t /\ t[k - c] = s[k]
    /\ \A j \in DOMAIN t, k \in DOMAIN s : j + c > Len(s) => s[k].tick <= t[j].tick

\* In the next frame the target is further on.
LEMMA TargetRises ==
    ASSUME NEW s \in Seq(Sample), s # <<>>, InOrder(s), NEW at \in Nat,
           NEW t \in Seq(Sample), t # <<>>, InOrder(t), NEW later \in Nat, at <= later,
           NEW c \in {0, 1}, LinesUp(s, t, c),
           BeforeIndex(s, at) > 0, BeforeIndex(t, later) > 0
    PROVE  AtMost(Target(s, at), Target(t, later))
<1> DEFINE i == BeforeIndex(s, at)
           j == BeforeIndex(t, later)
<1>1. i \in 1 .. Len(s) /\ j \in 1 .. Len(t)
  <2>1. i \in 0 .. Len(s)
      BY LoopStops
  <2>2. j \in 0 .. Len(t)
      BY LoopStops
  <2> QED
      BY <2>1, <2>2
<1>2. Len(s) \in DOMAIN s /\ Len(s) \in Nat /\ Len(t) \in Nat
    OBVIOUS
<1>3. \A k \in DOMAIN s : s[k] \in Sample /\ s[k].tick \in Nat /\ s[k].localMs \in Nat
    BY SampleTyped
<1>4. \A k \in DOMAIN t : t[k] \in Sample /\ t[k].tick \in Nat /\ t[k].localMs \in Nat
    BY SampleTyped
<1>5. RenderMs(at) \in Nat /\ RenderMs(later) \in Nat /\ RenderMs(at) <= RenderMs(later)
    BY RenderTyped, RenderRises
<1>6. \A k \in DOMAIN s : s[k].localMs <= RenderMs(at) <=> k <= i
    BY ReachedOnes
<1>7. \A k \in DOMAIN t : t[k].localMs <= RenderMs(later) <=> k <= j
    BY ReachedOnes
<1>8. \A k, l \in DOMAIN t : k <= l => t[k].tick <= t[l].tick
    BY <1>4 DEF InOrder
<1>9. IsFraction(Target(s, at)) /\ IsFraction(Target(t, later))
    BY TargetBounds
<1>10. AtMost(At(t[j].tick), Target(t, later))
    BY <1>1, <1>7, TargetBounds
<1>11. /\ AtMost(Target(s, at), At(s[Len(s)].tick))
       /\ i < Len(s) => AtMost(Target(s, at), At(s[i + 1].tick))
  <2>1. i < Len(s) => i \in 1 .. Len(s) - 1
      BY <1>1, <1>2
  <2> QED
      BY <2>1, TargetBounds DEF Newest
<1> HIDE DEF i, j
<1>12. i - c <= j
  <2>1. CASE i > c
    <3>1. i - c \in DOMAIN t /\ t[i - c] = s[i] /\ i \in DOMAIN s
        BY <1>1, <1>2, <2>1 DEF LinesUp
    <3>2. t[i - c].localMs <= RenderMs(later)
        BY <3>1, <1>1, <1>3, <1>5, <1>6
    <3> QED
        BY <3>1, <3>2, <1>7
  <2>2. CASE ~ (i > c)
      BY <1>1, <2>2
  <2> QED
      BY <2>1, <2>2
\* A tick the target has not passed and the new history has reached.
<1>13. ASSUME NEW k \in DOMAIN s, AtMost(Target(s, at), At(s[k].tick)), k - c <= j,
              k > c \/ Len(s) = k
       PROVE  AtMost(Target(s, at), Target(t, later))
  <2>1. s[k].tick <= t[j].tick
    <3>1. CASE k > c
      <4>1. k - c \in DOMAIN t /\ t[k - c] = s[k]
          BY <3>1 DEF LinesUp
      <4> QED
          BY <4>1, <1>1, <1>8, <1>13
    <3>2. CASE ~ (k > c)
      <4>1. j \in DOMAIN t /\ j + c > Len(s)
          BY <1>1, <1>2, <1>13, <3>2
      <4> QED
          BY <4>1 DEF LinesUp
    <3> QED
        BY <3>1, <3>2
  <2>2. AtMost(Target(s, at), At(t[j].tick))
      BY <2>1, <1>1, <1>3, <1>4, <1>9, <1>13, AtMostLater
  <2> QED
      BY <2>2, <1>1, <1>4, <1>9, <1>10, AtMostTransitive
<1>14. CASE i = Len(s)
    BY <1>2, <1>11, <1>12, <1>13, <1>14
<1>15. CASE i < Len(s) /\ i - c < j
  <2>1. i + 1 \in DOMAIN s /\ (i + 1) - c <= j /\ i + 1 > c
      BY <1>1, <1>2, <1>15
  <2> QED
      BY <2>1, <1>11, <1>13, <1>15
<1>16. CASE i < Len(s) /\ i - c = j
  <2>1. i > c /\ i \in DOMAIN s /\ i + 1 \in DOMAIN s /\ i + 1 > c /\ (i + 1) - c = j + 1
      BY <1>1, <1>2, <1>16
  <2>2. t[j] = s[i] /\ j + 1 \in DOMAIN t /\ t[j + 1] = s[i + 1]
      BY <2>1, <1>16 DEF LinesUp
  <2>3. ~ Starved(s, at) /\ ~ Starved(t, later)
      BY <1>1, <1>2, <1>16, <2>2 DEF Starved, i, j
  <2>4. /\ Target(s, at) = Between(s[i], s[i + 1], at)
        /\ Target(t, later) = Between(s[i], s[i + 1], later)
      BY <2>2, <2>3 DEF Target, i, j
  <2>5. s[i].tick <= s[i + 1].tick /\ s[i].localMs <= RenderMs(at)
    <3>1. s[i].localMs <= RenderMs(at) /\ i < i + 1
        BY <1>1, <1>6, <2>1
    <3>2. s[i].tick < s[i + 1].tick
        BY <2>1, <3>1 DEF InOrder
    <3> QED
        BY <1>3, <2>1, <3>1, <3>2
  <2>6. RenderMs(later) < s[i + 1].localMs
    <3>1. ~ (t[j + 1].localMs <= RenderMs(later))
        BY <1>1, <1>7, <2>2
    <3> QED
        BY <3>1, <2>1, <2>2, <1>3, <1>5
  <2> QED
      BY <2>1, <2>4, <2>5, <2>6, <1>3, BetweenRises
<1> QED
    BY <1>1, <1>2, <1>12, <1>14, <1>15, <1>16

\* What a frame does to the history.
LEMMA HistoryGoesOn ==
    ASSUME TypeOK, NEW at \in Nat, now <= at, NEW tick \in 1 .. MaxTick
    PROVE  /\ WithSample(at, tick) \in Seq([localMs : 0 .. at, tick : 1 .. MaxTick])
           /\ WithSample(at, tick) # <<>> /\ Len(WithSample(at, tick)) <= MaxSamples
           /\ InOrder(WithSample(at, tick))
           /\ \E c \in {0, 1} : LinesUp(samples, WithSample(at, tick), c)
<1> DEFINE Past == [localMs : 0 .. now, tick : 1 .. MaxTick]
           Held == [localMs : 0 .. at, tick : 1 .. MaxTick]
           new == [localMs |-> at, tick |-> tick]
           longer == Append(samples, new)
           L == Len(samples)
<1>1. now \in Nat /\ MaxSamples \in Nat \ {0} /\ MaxTick \in Nat /\ MaxTime \in Nat
    BY SampleAssumption, BoundAssumption DEF TypeOK
<1>2. /\ samples \in Seq(Past) /\ DOMAIN samples = 1 .. L
      /\ L \in Nat /\ L <= MaxSamples /\ InOrder(samples)
    BY DEF TypeOK
<1>3. \A k \in DOMAIN samples : /\ samples[k] \in Held
                                /\ samples[k].localMs \in 0 .. at
                                /\ samples[k].tick \in 1 .. MaxTick
  <2>1. \A p \in Past : p \in Held /\ p.localMs \in 0 .. at /\ p.tick \in 1 .. MaxTick
      BY <1>1
  <2> HIDE DEF Past, Held
  <2>2. ASSUME NEW k \in DOMAIN samples
        PROVE  samples[k] \in Past
      BY <1>2
  <2> QED
      BY <2>1, <2>2
<1> HIDE DEF Past, Held
<1>4. samples \in Seq(Held)
    BY <1>2, <1>3
<1>5. CASE tick <= lastTick
  <2>1. WithSample(at, tick) = samples
      BY <1>5 DEF WithSample
  <2>2. samples # <<>>
      BY <1>5 DEF lastTick
  <2>3. LinesUp(samples, samples, 0)
      BY <1>2, <1>3 DEF LinesUp
  <2> QED
      BY <2>1, <2>2, <2>3, <1>2, <1>4 DEF Held
<1>6. CASE ~ (tick <= lastTick)
  <2>1. \A k \in DOMAIN samples : samples[k].tick < tick
    <3>1. ASSUME NEW k \in DOMAIN samples PROVE samples[k].tick < tick
      <4>1. samples # <<>> /\ L \in DOMAIN samples /\ k <= L
          BY <1>2
      <4>2. lastTick = samples[L].tick
          BY <4>1 DEF lastTick, Newest
      <4>3. samples[k].tick <= samples[L].tick
          BY <4>1, <1>2, <1>3 DEF InOrder
      <4> QED
          BY <4>1, <4>2, <4>3, <1>3, <1>6
    <3> QED
        BY <3>1
  <2>2. new \in Held /\ new.localMs = at /\ new.tick = tick
      BY DEF Held
  <2> HIDE DEF new
  <2>3. /\ longer \in Seq(Held) /\ Len(longer) = L + 1
        /\ \A k \in DOMAIN samples : longer[k] = samples[k]
        /\ longer[L + 1] = new
      BY <2>2, <1>2, <1>4
  <2> HIDE DEF longer
  <2>4. DOMAIN longer = 1 .. L + 1 /\ DOMAIN samples = 1 .. L
      BY <2>3, <1>2
  <2>5. InOrder(longer)
    <3>1. ASSUME NEW j \in DOMAIN longer, NEW k \in DOMAIN longer, j < k
          PROVE  longer[j].tick < longer[k].tick /\ longer[j].localMs <= longer[k].localMs
      <4>1. j \in DOMAIN samples /\ longer[j] = samples[j]
          BY <3>1, <2>3, <2>4, <1>2
      <4>2. CASE k \in DOMAIN samples
          BY <3>1, <4>1, <4>2, <2>3, <1>2 DEF InOrder
      <4>3. CASE k \notin DOMAIN samples
        <5>1. longer[k] = new
            BY <4>3, <2>3, <2>4, <1>2
        <5> QED
            BY <5>1, <4>1, <2>1, <2>2, <1>3
      <4> QED
          BY <4>2, <4>3
    <3> QED
        BY <3>1 DEF InOrder
  <2>6. ASSUME NEW j \in DOMAIN longer, j > L, NEW k \in DOMAIN samples
        PROVE  samples[k].tick <= longer[j].tick
    <3>1. longer[j] = new
        BY <2>6, <2>3, <2>4, <1>2
    <3> QED
        BY <3>1, <2>1, <2>2, <1>3
  <2>7. CASE Len(longer) > MaxSamples
    <3>1. WithSample(at, tick) = Tail(longer)
        BY <1>6, <2>7 DEF WithSample, longer, new
    <3> DEFINE t == Tail(longer)
    <3>2. L >= 1 /\ longer # <<>>
        BY <2>7, <2>3, <1>1, <1>2
    <3>3. /\ t \in Seq(Held) /\ Len(t) = L
          /\ \A k \in 1 .. L : t[k] = longer[k + 1]
        BY <3>2, <2>3, <1>2
    <3> HIDE DEF t
    <3>4. DOMAIN t = 1 .. L
        BY <3>3, <1>2
    <3>5. InOrder(t)
      <4>1. ASSUME NEW j \in DOMAIN t, NEW k \in DOMAIN t, j < k
            PROVE  t[j].tick < t[k].tick /\ t[j].localMs <= t[k].localMs
        <5>1. /\ t[j] = longer[j + 1] /\ t[k] = longer[k + 1] /\ j + 1 < k + 1
              /\ j + 1 \in DOMAIN longer /\ k + 1 \in DOMAIN longer
            BY <4>1, <3>3, <3>4, <2>4, <1>2
        <5> QED
            BY <5>1, <2>5 DEF InOrder
      <4> QED
          BY <4>1 DEF InOrder
    <3>6. LinesUp(samples, t, 1)
      <4>1. ASSUME NEW k \in DOMAIN samples, k > 1
            PROVE  k - 1 \in DOMAIN t /\ t[k - 1] = samples[k]
        <5>1. k - 1 \in 1 .. L /\ (k - 1) + 1 = k
            BY <4>1, <2>4, <1>2
        <5> QED
            BY <5>1, <3>3, <3>4, <2>3
      <4>2. ASSUME NEW j \in DOMAIN t, NEW k \in DOMAIN samples, j + 1 > L
            PROVE  samples[k].tick <= t[j].tick
        <5>1. t[j] = longer[j + 1] /\ j + 1 \in DOMAIN longer
            BY <3>3, <3>4, <2>4, <1>2
        <5> QED
            BY <5>1, <4>2, <2>6
      <4> QED
          BY <4>1, <4>2 DEF LinesUp
    <3>7. t # <<>> /\ Len(t) <= MaxSamples
        BY <3>2, <3>3, <1>2
    <3> QED
        BY <3>1, <3>3, <3>5, <3>6, <3>7 DEF t, Held
  <2>8. CASE ~ (Len(longer) > MaxSamples)
    <3>1. WithSample(at, tick) = longer
        BY <1>6, <2>8 DEF WithSample, longer, new
    <3>2. LinesUp(samples, longer, 0)
      <4>1. ASSUME NEW k \in DOMAIN samples, k > 0
            PROVE  k - 0 \in DOMAIN longer /\ longer[k - 0] = samples[k]
          BY <2>3, <2>4, <1>2
      <4>2. ASSUME NEW j \in DOMAIN longer, NEW k \in DOMAIN samples, j + 0 > L
            PROVE  samples[k].tick <= longer[j].tick
          BY <4>2, <2>4, <2>6, <1>2
      <4> QED
          BY <4>1, <4>2 DEF LinesUp
    <3>3. longer # <<>> /\ Len(longer) <= MaxSamples
        BY <2>8, <2>3, <1>1, <1>2
    <3> QED
        BY <3>1, <3>2, <3>3, <2>3, <2>5 DEF Held
  <2> QED
      BY <2>7, <2>8
<1> QED
    BY <1>5, <1>6

-----------------------------------------------------------------------------
(* The inductive invariant.                                                *)

LEMMA HistoryTyped ==
    ASSUME NEW at \in Nat, NEW s \in Seq([localMs : 0 .. at, tick : 1 .. MaxTick])
    PROVE  s \in Seq(Sample)
<1>1. [localMs : 0 .. at, tick : 1 .. MaxTick] \subseteq Sample
    BY BoundAssumption DEF Sample
<1> DEFINE Held == [localMs : 0 .. at, tick : 1 .. MaxTick]
<1> HIDE DEF Held
<1>2. s \in Seq(Held) /\ Held \subseteq Sample
    BY <1>1 DEF Held
<1> QED
    BY <1>2

LEMMA StateTyped ==
    ASSUME TypeOK
    PROVE  samples \in Seq(Sample) /\ InOrder(samples) /\ now \in Nat
<1>1. now \in Nat
    BY SampleAssumption DEF TypeOK
<1> QED
    BY <1>1, HistoryTyped DEF TypeOK

LEMMA Starts == Init => IInv
<1> SUFFICES ASSUME Init PROVE IInv
    OBVIOUS
<1>1. Delay \in 0 .. MaxTime /\ Delay \in Delay .. MaxTime
    BY SampleAssumption, BoundAssumption
<1>2. InOrder(<<>>) /\ <<>> \in Seq([localMs : 0 .. now, tick : 1 .. MaxTick])
      /\ Len(<<>>) = 0
    BY DEF InOrder
<1>3. TypeOK
    BY <1>1, <1>2, SampleAssumption DEF Init, TypeOK, Nowhere
<1> QED
    BY <1>3 DEF Init, IInv, Placed, Smooth

LEMMA FrameKeeps ==
    ASSUME IInv, NEW d \in 0 .. MaxStep, NEW tick \in 1 .. MaxTick, Frame(d, tick)
    PROVE  IInv'
<1>1. /\ now \in Delay .. MaxTime /\ now \in Nat /\ now' = now + d /\ now' <= MaxTime
      /\ now' \in Delay .. MaxTime /\ now' \in Nat /\ now <= now' /\ tick \in Nat
    BY SampleAssumption, BoundAssumption DEF IInv, TypeOK, Frame
<1>2. samples' = WithSample(now', tick)
    BY DEF Frame
<1>3. /\ samples' \in Seq([localMs : 0 .. now', tick : 1 .. MaxTick])
      /\ samples' # <<>> /\ Len(samples') <= MaxSamples /\ InOrder(samples')
    BY <1>1, <1>2, HistoryGoesOn DEF IInv
<1>4. samples' \in Seq(Sample)
    BY <1>1, <1>3, HistoryTyped
<1>5. IsFraction(Target(samples', now'))
    BY <1>1, <1>3, <1>4, TargetBounds
<1>6. IsFraction(At(tick))
    BY <1>1 DEF IsFraction, At
<1>7. IsFraction(position')
    BY <1>5, <1>6 DEF Frame
<1>8. interpolate' \in BOOLEAN /\ how' \in {"none", "snapshot", "held", "interpolated"}
    BY DEF Frame, IInv, TypeOK
<1>9. InOrder(samples)'
    BY <1>3 DEF InOrder
<1>10. TypeOK'
    BY <1>1, <1>3, <1>7, <1>8, <1>9 DEF TypeOK, IsFraction
<1>11. how' \in {"held", "interpolated"} => position' = Target(samples', now')
    BY DEF Frame
<1>12. Placed'
    BY <1>3, <1>11 DEF Placed, Smooth, Target, Starved, BeforeIndex, StopsAt, RenderMs, Between,
                      At, Newest
<1> QED
    BY <1>10, <1>12 DEF IInv

LEMMA Keeps == IInv /\ [Next]_vars => IInv'
<1> SUFFICES ASSUME IInv, [Next]_vars PROVE IInv'
    OBVIOUS
<1>1. ASSUME NEW d \in 0 .. MaxStep, NEW tick \in 1 .. MaxTick, Frame(d, tick)
      PROVE  IInv'
    BY <1>1, FrameKeeps
<1>2. CASE SetInterpolation
    BY <1>2 DEF SetInterpolation, IInv, TypeOK, InOrder, Placed, Smooth, Target, Starved,
                BeforeIndex, StopsAt, RenderMs, Between, At, Newest
<1>3. CASE UNCHANGED vars
    BY <1>3 DEF vars, IInv, TypeOK, InOrder, Placed, Smooth, Target, Starved,
                BeforeIndex, StopsAt, RenderMs, Between, At, Newest
<1> QED
    BY <1>1, <1>2, <1>3 DEF Next

LEMMA Invariant == Spec => []IInv
<1>1. Init => IInv
    BY Starts
<1>2. IInv /\ [Next]_vars => IInv'
    BY Keeps
<1> QED
    BY <1>1, <1>2, PTL DEF Spec

-----------------------------------------------------------------------------
(* The theorems.                                                           *)

\* The history is in the order of ticks and of arrivals and no longer than
\* kMaxSamples, whatever snapshots the frames find.
THEOREM TypeCorrect == Spec => []TypeOK
<1>1. IInv => TypeOK
    BY DEF IInv
<1> QED
    BY <1>1, Invariant, PTL

\* Every sample that is Delay old has been reached, and the newest is not
\* passed, wherever between two samples PumpRemotePlayers put the body.
THEOREM BodyOnTime == Spec => []OnTime
<1>1. IInv => OnTime
  <2> SUFFICES ASSUME IInv, Smooth
               PROVE  /\ AtMost(position, At(Newest(samples).tick))
                      /\ \A k \in DOMAIN samples :
                            samples[k].localMs <= RenderMs(now)
                                => AtMost(At(samples[k].tick), position)
      BY DEF OnTime
  <2>1. samples # <<>> /\ position = Target(samples, now)
      BY DEF IInv, Placed
  <2>2. samples \in Seq(Sample) /\ InOrder(samples) /\ now \in Nat
      BY StateTyped DEF IInv
  <2> QED
      BY <2>1, <2>2, TargetBounds
<1> QED
    BY <1>1, Invariant, PTL

\* From one interpolated frame to the next the body moves forward only, also
\* when the oldest sample leaves the history or a frame finds no newer one.
THEOREM BodyForward == Spec => SettledForward
<1> DEFINE Forward == Smooth /\ Smooth' /\ BeforeIndex(samples, now) > 0
                         /\ BeforeIndex(samples', now') > 0
                         => AtMost(position, position')
<1>1. IInv /\ [Next]_vars => [Forward]_vars
  <2> SUFFICES ASSUME IInv, Next, Smooth, Smooth', BeforeIndex(samples, now) > 0,
                      BeforeIndex(samples', now') > 0
               PROVE  AtMost(position, position')
      OBVIOUS
  <2>1. IInv'
      BY Keeps
  <2>2. /\ samples # <<>> /\ position = Target(samples, now)
        /\ samples \in Seq(Sample) /\ InOrder(samples) /\ now \in Nat
      BY StateTyped DEF IInv, Placed
  <2>3. ASSUME NEW d \in 0 .. MaxStep, NEW tick \in 1 .. MaxTick, Frame(d, tick)
        PROVE  AtMost(position, position')
    <3>1. now' \in Nat /\ now <= now'
        BY <2>2, <2>3 DEF Frame
    <3>2. samples' = WithSample(now', tick)
        BY <2>3 DEF Frame
    <3>3. /\ samples' \in Seq([localMs : 0 .. now', tick : 1 .. MaxTick])
          /\ samples' # <<>> /\ InOrder(samples')
        BY <3>1, <3>2, HistoryGoesOn DEF IInv
    <3>4. samples' \in Seq(Sample)
        BY <3>1, <3>3, HistoryTyped
    <3>5. PICK c \in {0, 1} : LinesUp(samples, samples', c)
        BY <3>1, <3>2, HistoryGoesOn DEF IInv
    <3>6. how' \in {"held", "interpolated"}
        BY DEF Smooth
    <3>7. position' = Target(samples', now')
        BY <2>3, <3>6 DEF Frame
    <3>8. AtMost(Target(samples, now), Target(samples', now'))
        BY <2>2, <3>1, <3>3, <3>4, <3>5, TargetRises
    <3> QED
        BY <2>2, <3>7, <3>8
  <2>4. CASE SetInterpolation
    <3>1. position.n \in Nat /\ position.d \in Nat /\ position' = position
        BY <2>4 DEF SetInterpolation, IInv, TypeOK
    <3> QED
        BY <3>1 DEF AtMost
  <2> QED
      BY <2>3, <2>4 DEF Next
<1>2. []IInv /\ [][Next]_vars => [][Forward]_vars
    BY <1>1, PTL
<1> QED
    BY <1>2, Invariant, PTL DEF Spec, SettledForward

-----------------------------------------------------------------------------
(* SpawnRegistry, for any number of threads and of entities.               *)

\* An id is in one place: in the registry or in one caller's hands; once it
\* has been deleted it is in none.  Hands are empty unless something is to be
\* done with them, and nothing lives without a world.
OnePlace ==
    /\ created \in 0 .. MaxEntity
    /\ alive \subseteq 1 .. created
    /\ spawned \subseteq 1 .. created
    /\ hands \in [Caller -> SUBSET (1 .. created)]
    /\ pc \in [Caller -> {"idle", "track", "system", "delete"}]
    /\ deletes \in [Entity -> Nat]
    /\ ~world => alive = {}
    /\ \A c \in Caller : pc[c] = "idle" => hands[c] = {}
    /\ \A c \in Caller : hands[c] \cap spawned = {}
    /\ \A c, d \in Caller : c # d => hands[c] \cap hands[d] = {}
    /\ \A e \in Entity : deletes[e] <= 1
    /\ \A e \in Entity : deletes[e] = 1 =>
          e \notin spawned /\ \A c \in Caller : e \notin hands[c]
    /\ \A e \in Entity : e > created => deletes[e] = 0

RegistryInv == OnePlace /\ NoLeak

LEMMA RegistryStart == RegistryInit => RegistryInv
<1> SUFFICES ASSUME RegistryInit PROVE RegistryInv
  OBVIOUS
<1>1. /\ created \in 0 .. MaxEntity /\ deletes \in [Entity -> Nat]
      /\ \A e \in Entity : deletes[e] = 0
  BY MaxEntityAssumption DEF RegistryInit
<1>2. /\ hands \in [Caller -> SUBSET (1 .. created)]
      /\ pc \in [Caller -> {"idle", "track", "system", "delete"}]
      /\ \A c \in Caller : hands[c] = {}
  BY DEF RegistryInit
<1>3. alive = {} /\ spawned = {} /\ world = FALSE
  BY DEF RegistryInit
<1> QED BY <1>1, <1>2, <1>3 DEF RegistryInv, OnePlace, NoLeak

LEMMA RegistryStep == RegistryInv /\ [RegistryNext]_registryVars => RegistryInv'
<1> SUFFICES ASSUME RegistryInv, [RegistryNext]_registryVars PROVE RegistryInv'
  OBVIOUS
<1> USE MaxEntityAssumption DEF RegistryInv, OnePlace, NoLeak, game
<1>1. CASE UNCHANGED registryVars
  BY <1>1 DEF registryVars
<1>2. CASE OnWorldAttached
  BY <1>2 DEF OnWorldAttached
<1>3. CASE WorldEnds
  BY <1>3 DEF WorldEnds
<1>4. CASE OnWorldDetached
  BY <1>4 DEF OnWorldDetached
\* The new id is in nobody else's hands and was never deleted.
<1>5. ASSUME NEW c \in Caller, SubmitSpec(c) PROVE RegistryInv'
  <2>1. /\ created + 1 \in Entity
        /\ created' = created + 1
        /\ alive' = alive \cup {created + 1}
        /\ hands' = [hands EXCEPT ![c] = {created + 1}]
        /\ hands[c] = {}
        /\ deletes[created + 1] = 0
    BY <1>5 DEF SubmitSpec, Entity
  <2>2. /\ hands'[c] = {created + 1} /\ \A d \in Caller \ {c} : hands'[d] = hands[d]
        /\ hands' \in [Caller -> SUBSET (1 .. created')]
        /\ alive' \subseteq 1 .. created' /\ spawned' \subseteq 1 .. created'
        /\ created' \in 0 .. MaxEntity
    BY <1>5, <2>1 DEF SubmitSpec
  <2>3. created + 1 \notin spawned /\ \A d \in Caller : created + 1 \notin hands[d]
    OBVIOUS
  <2>4. NoLeak'
    BY <1>5, <2>1, <2>2 DEF SubmitSpec
  <2>5. \A d, f \in Caller : d # f => hands'[d] \cap hands'[f] = {}
    BY <2>2, <2>3
  <2>6. \A e \in Entity : deletes[e] = 1 => e # created + 1
    BY <2>1
  <2>7. \A e \in Entity : e > created' => deletes[e] = 0
    BY <2>1 DEF Entity
  <2>8. pc' = [pc EXCEPT ![c] = "track"] /\ UNCHANGED <<world, spawned, deletes>>
    BY <1>5 DEF SubmitSpec
  <2>9. ~world' => alive' = {}
    BY <1>5 DEF SubmitSpec
  <2> QED BY <2>2, <2>3, <2>4, <2>5, <2>6, <2>7, <2>8, <2>9
<1>6. ASSUME NEW c \in Caller, TrackSpawned(c) PROVE RegistryInv'
  <2>1. /\ spawned' = spawned \cup hands[c]
        /\ hands'[c] = {} /\ \A d \in Caller \ {c} : hands'[d] = hands[d]
        /\ hands' \in [Caller -> SUBSET (1 .. created)]
    BY <1>6 DEF TrackSpawned
  <2> QED BY <1>6, <2>1 DEF TrackSpawned
<1>7. ASSUME NEW c \in Caller, Take(c) PROVE RegistryInv'
  <2>1. /\ spawned' = {} /\ hands[c] = {}
        /\ hands'[c] = spawned /\ \A d \in Caller \ {c} : hands'[d] = hands[d]
        /\ hands' \in [Caller -> SUBSET (1 .. created)]
    BY <1>7 DEF Take
  <2> QED BY <1>7, <2>1 DEF Take
<1>8. ASSUME NEW c \in Caller, GetSystem(c) PROVE RegistryInv'
  BY <1>8 DEF GetSystem
\* Of the ids that are dropped, those of living entities are recorded.
<1>11. ASSUME NEW c \in Caller, DropPending(c) PROVE RegistryInv'
  <2>1. /\ hands'[c] = {} /\ \A d \in Caller \ {c} : hands'[d] = hands[d]
        /\ hands' \in [Caller -> SUBSET (1 .. created)]
        /\ lost' = lost \cup (hands[c] \cap alive)
    BY <1>11 DEF DropPending
  <2> QED BY <1>11, <2>1 DEF DropPending
<1>9. ASSUME NEW c \in Caller, Delete(c) PROVE RegistryInv'
  <2>1. PICK e \in hands[c] :
          /\ deletes' = [deletes EXCEPT ![e] = @ + 1]
          /\ hands' = [hands EXCEPT ![c] = @ \ {e}]
          /\ \/ alive' = alive \ {e} /\ UNCHANGED lost
             \/ lost' = lost \cup ({e} \cap alive) /\ UNCHANGED alive
    BY <1>9 DEF Delete
  <2>2. /\ hands'[c] = hands[c] \ {e} /\ \A d \in Caller \ {c} : hands'[d] = hands[d]
        /\ hands' \in [Caller -> SUBSET (1 .. created)]
    BY <2>1
  <2>3. /\ \A f \in Entity : deletes'[f] = IF f = e THEN 1 ELSE deletes[f]
        /\ deletes' \in [Entity -> Nat]
    <3>1. e \in Entity
      BY DEF Entity
    <3>2. deletes[e] = 0
      BY <3>1
    <3> QED BY <2>1, <3>1, <3>2
  <2>4. e \notin spawned /\ \A d \in Caller : e \notin hands'[d]
    BY <2>2
  <2>5. /\ alive' \subseteq alive /\ lost \subseteq lost'
        /\ e \in alive' => e \in lost'
    BY <2>1
  <2>6. NoLeak'
    BY <1>9, <2>2, <2>5 DEF Delete
  <2> QED BY <1>9, <2>2, <2>3, <2>4, <2>5, <2>6 DEF Delete
<1>10. ASSUME NEW c \in Caller, Despawned(c) PROVE RegistryInv'
  BY <1>10 DEF Despawned
<1> QED BY <1>1, <1>2, <1>3, <1>4, <1>5, <1>6, <1>7, <1>8, <1>9, <1>10, <1>11 DEF RegistryNext

LEMMA RegistryInvariant == RegistrySpec => []RegistryInv
  BY RegistryStart, RegistryStep, PTL DEF RegistrySpec

\* Whatever commands of any number of threads and changes of the world come
\* together, an entity that lives can still be found and deleted, unless the
\* game failed while DespawnAll held its id and the loss was logged.
THEOREM NothingLeaks == RegistrySpec => []NoLeak
<1>1. RegistryInv => NoLeak
  BY DEF RegistryInv
<1> QED BY <1>1, RegistryInvariant, PTL

\* No entity is deleted by two calls of DespawnAll.
THEOREM NothingDeletedTwice == RegistrySpec => []DeletedOnce
<1>1. RegistryInv => DeletedOnce
  BY DEF RegistryInv, OnePlace, DeletedOnce
<1> QED BY <1>1, RegistryInvariant, PTL
=============================================================================
