--------------------------- MODULE Interpolation ---------------------------
(***************************************************************************)
(* How a spawned remote body is moved: the second half of                  *)
(* WorldSystem::PumpRemotePlayers, for one body whose entity is there.     *)
(* Each frame takes the newest snapshot into a short history, stamped with *)
(* the local clock, and puts the body where the history says it was Delay  *)
(* ago, or at the newest snapshot if it cannot.                            *)
(*                                                                         *)
(* The remote player walks along a line, one unit per tick: its position   *)
(* at a tick is that tick.  A position in between is a fraction [n, d].    *)
(***************************************************************************)
EXTENDS Naturals, Sequences

CONSTANTS
    Delay,          \* kInterpolationDelayMs, in units of the model's clock
    MaxSamples,     \* kMaxSamples
    MaxStep,        \* bound: time from one frame to the next
    MaxTime,        \* bound: the clock
    MaxTick         \* bound: ticks of snapshots

ASSUME SampleAssumption == Delay \in Nat \ {0} /\ MaxSamples \in Nat \ {0}
ASSUME BoundAssumption  ==
    MaxStep \in Nat /\ MaxTime \in Nat /\ MaxTick \in Nat /\ Delay <= MaxTime

VARIABLES
    now,            \* aNowMs of the last frame
    samples,        \* body.samples: [localMs, tick]
    interpolate,    \* m_interpolate
    position,       \* where the last frame put the body; [n |-> 0, d |-> 0] before
    how             \* how it did so: at the snapshot, held, or interpolated

vars == <<now, samples, interpolate, position, how>>

Nowhere == [n |-> 0, d |-> 0]

Init ==
    /\ now = Delay
    /\ samples = <<>>
    /\ interpolate = TRUE
    /\ position = Nowhere
    /\ how = "none"

Newest(s) == s[Len(s)]

lastTick == IF samples = <<>> THEN 0 ELSE Newest(samples).tick

\* (mutated) Every snapshot joins the history, also one of an older tick.
WithSampleUnchecked(at, tick) == Append(samples, [localMs |-> at, tick |-> tick])

\* A newer snapshot joins the history, and the oldest goes if it is full.
WithSample(at, tick) ==
    IF tick <= lastTick THEN samples
    ELSE LET longer == Append(samples, [localMs |-> at, tick |-> tick])
         IN  IF Len(longer) > MaxSamples THEN Tail(longer) ELSE longer

RenderMs(at) == IF at > Delay THEN at - Delay ELSE 0

\* The render time lies behind the first k samples, and the loop stops there:
\* the next one is ahead of it.
StopsAt(s, k, at) ==
    /\ \A j \in 1 .. k : s[j].localMs <= RenderMs(at)
    /\ k < Len(s) => s[k + 1].localMs > RenderMs(at)

\* before of the loop over the history s, as an index (0: none); after is the
\* sample behind it.
BeforeIndex(s, at) == CHOOSE k \in 0 .. Len(s) : StopsAt(s, k, at)

At(tick) == [n |-> tick, d |-> 1]

Between(a, b, at) ==
    LET span == b.localMs - a.localMs
    IN  [n |-> a.tick * span + (b.tick - a.tick) * (RenderMs(at) - a.localMs), d |-> span]

\* (mutated) The frame looks at the two newest samples only.
TargetOfNewest(s, at) ==
    IF Len(s) >= 2 THEN Between(s[Len(s) - 1], s[Len(s)], at) ELSE At(Newest(s).tick)

Starved(s, at) == BeforeIndex(s, at) \in {0, Len(s)}

Target(s, at) ==
    IF Starved(s, at) THEN At(Newest(s).tick)
    ELSE Between(s[BeforeIndex(s, at)], s[BeforeIndex(s, at) + 1], at)

\* One frame, d after the one before, in which the snapshot copied has this tick.
Frame(d, tick) ==
    /\ now + d <= MaxTime
    /\ now' = now + d
    /\ samples' = WithSample(now', tick)
    /\ position' = IF interpolate THEN Target(samples', now') ELSE At(tick)
    /\ how' = IF ~interpolate THEN "snapshot"
              ELSE IF Starved(samples', now') THEN "held" ELSE "interpolated"
    /\ UNCHANGED interpolate

SetInterpolation ==
    /\ interpolate' = ~interpolate
    /\ UNCHANGED <<now, samples, position, how>>

Next ==
    \/ \E d \in 0 .. MaxStep, tick \in 1 .. MaxTick : Frame(d, tick)
    \/ SetInterpolation

Spec == Init /\ [][Next]_vars

-----------------------------------------------------------------------------
(* Properties.                                                             *)

AtMost(p, q) == p.n * q.d <= q.n * p.d

Smooth == how \in {"held", "interpolated"}

\* Ticks rise along the history and so do arrivals.
InOrder(s) ==
    \A j, k \in DOMAIN s : j < k =>
        s[j].tick < s[k].tick /\ s[j].localMs <= s[k].localMs

\* The values the variables may take; the history is in the order of ticks
\* and of arrivals, and never longer than kMaxSamples.
TypeOK ==
    /\ now \in Delay .. MaxTime
    /\ samples \in Seq([localMs : 0 .. now, tick : 1 .. MaxTick])
    /\ Len(samples) <= MaxSamples /\ InOrder(samples)
    /\ interpolate \in BOOLEAN /\ how \in {"none", "snapshot", "held", "interpolated"}
    /\ position.n \in Nat /\ position.d \in Nat

\* The body is never put behind a sample that is Delay old: every snapshot
\* is rendered Delay after it arrived, whatever frames and samples came
\* since; and never beyond the newest, "into a position that never existed".
OnTime ==
    Smooth =>
       /\ AtMost(position, At(Newest(samples).tick))
       /\ \A k \in DOMAIN samples :
             samples[k].localMs <= RenderMs(now) => AtMost(At(samples[k].tick), position)

\* From one interpolated frame to the next, with the history reaching back
\* to the render time in both, the body only moves forward: new samples, late
\* snapshots and running out of samples do not make it jump back.
SettledForward ==
    [][Smooth /\ Smooth' /\ BeforeIndex(samples, now) > 0 /\ BeforeIndex(samples', now') > 0
         => AtMost(position, position')]_vars
=============================================================================
