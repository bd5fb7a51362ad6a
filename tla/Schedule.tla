------------------------------ MODULE Schedule ------------------------------
(***************************************************************************)
(* internal/schedule: a load profile compiled from stages, and the         *)
(* instants at which its arrivals fall due.                                *)
(*                                                                         *)
(* Time is in whole ticks.  An amount of arrivals is kept doubled, so that *)
(* the area under a ramp stays a whole number; rates and cumulative counts *)
(* inside a segment are fractions <<numerator, denominator>>.  An arrival  *)
(* that falls due inside a tick is given the tick that ends it, where the  *)
(* code rounds to a nanosecond.                                            *)
(***************************************************************************)
EXTENDS Integers, Sequences, SequencesExt, FiniteSetsExt

\* NewProfile refuses a profile without stages, and a stage it could not integrate.
ProfileRefused(startRate, stages) ==
  \/ stages = <<>>
  \/ startRate < 0
  \/ \E i \in DOMAIN stages : stages[i].duration <= 0 \/ stages[i].target < 0

\* Mutant of AddSegment: every stage ramps from the start rate.
AddSegmentFromStart(at, stage) ==
  LET p        == at.profile
      capacity == (at.prev + stage.target) * stage.duration
  IN [prev |-> at.prev,
      profile |-> [segs |-> Append(p.segs, [startOffset |-> p.duration, d |-> stage.duration,
                                            r0 |-> at.prev, r1 |-> stage.target,
                                            cumStart |-> p.total, capacity |-> capacity]),
                   duration |-> p.duration + stage.duration, total |-> p.total + capacity]]

\* A stage ramps linearly from the rate before it to its target.
AddSegment(at, stage) ==
  LET p   == at.profile
      seg == [startOffset |-> p.duration, d |-> stage.duration, r0 |-> at.prev,
              r1 |-> stage.target, cumStart |-> p.total,
              capacity |-> (at.prev + stage.target) * stage.duration]
  IN [prev |-> stage.target,
      profile |-> [segs |-> Append(p.segs, seg), duration |-> p.duration + seg.d,
                   total |-> p.total + seg.capacity]]

NewProfile(startRate, stages) ==
  FoldLeft(AddSegment,
           [prev |-> startRate, profile |-> [segs |-> <<>>, duration |-> 0, total |-> 0]],
           stages).profile

\* What the binary searches end at: the last segment of those that qualify, or the first.
LastOf(qualifying) == Max({1} \cup qualifying)

SegmentAtTime(p, t) ==
  p.segs[LastOf({i \in DOMAIN p.segs : p.segs[i].startOffset <= t})]

\* Segments that offer nothing are stepped over, unless there is no later one.
SegmentAtCount(p, twice) ==
  LET found == LastOf({i \in DOMAIN p.segs : p.segs[i].cumStart < twice})
      ahead == {i \in found..Len(p.segs) : i = Len(p.segs) \/ p.segs[i].capacity # 0}
  IN p.segs[Min(ahead)]

\* The rate at an instant, as a fraction; nothing is offered outside the profile.
RateAt(p, t) ==
  IF t < 0 \/ t > p.duration THEN <<0, 1>>
  ELSE LET seg == SegmentAtTime(p, t)
           s   == Min({t - seg.startOffset, seg.d})
       IN <<seg.r0 * seg.d + (seg.r1 - seg.r0) * s, seg.d>>

\* Twice the arrivals of a segment's first s ticks, times its length.
LocalLambda(seg, s) == (seg.r1 - seg.r0) * s * s + 2 * seg.r0 * s * seg.d

\* Twice the arrivals expected by an instant, as a fraction.
Lambda(p, t) ==
  IF t <= 0 THEN <<0, 1>>
  ELSE IF t >= p.duration THEN <<p.total, 1>>
  ELSE LET seg == SegmentAtTime(p, t)
       IN <<seg.cumStart * seg.d + LocalLambda(seg, t - seg.startOffset), seg.d>>

\* The non-negative root of the segment's quadratic, kept inside the segment.
Solve(seg, twice) ==
  Min({s \in 0..seg.d : s = seg.d \/ LocalLambda(seg, s) >= twice * seg.d})

\* The profile offers no k-th arrival beyond its total.
Offers(p, k) == 2 * k <= p.total

Invert(p, k) ==
  IF k <= 0 THEN 0
  ELSE LET seg == SegmentAtCount(p, 2 * k)
       IN seg.startOffset + Solve(seg, 2 * k - seg.cumStart)

\* One schedule belongs to one arrival loop and hands out its instants in order.
NewSchedule(p) == [profile |-> p, consumed |-> 0, last |-> 0, count |-> 0, done |-> FALSE]

\* Next with a draw: uniform arrivals always draw 1.
NextArrival(s, draw) ==
  LET consumed == s.consumed + draw
  IN IF s.done \/ ~Offers(s.profile, consumed)
     THEN [s EXCEPT !.consumed = IF s.done THEN @ ELSE consumed, !.done = TRUE]
     ELSE [s EXCEPT !.consumed = consumed, !.count = @ + 1,
                    !.last = Max({@, Invert(s.profile, consumed)})]
=============================================================================
