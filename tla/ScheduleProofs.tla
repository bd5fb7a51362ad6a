--------------------------- MODULE ScheduleProofs ----------------------------
(***************************************************************************)
(* What a load profile promises, for every list of stages: its segments    *)
(* lie end to end, its arrivals fall within it and come no faster than the *)
(* highest of its rates, and it offers what a plan says of it.             *)
(*                                                                         *)
(* Time, rates and counts are any naturals.  The profile, the duration and *)
(* the plan are folds over the stages, so each is followed stage by stage  *)
(* with what LeftFolds says of its operator.  Shape is what AddSegment     *)
(* keeps: one segment for each stage, beginning where the one before it    *)
(* ended, in time and in count.  An instant then has a segment, a count    *)
(* has one, and an inequality on quadratics (ComesToItInTime) bounds what  *)
(* a ramp has offered by what its higher end would have.                   *)
(***************************************************************************)
EXTENDS Preview, Schedule, TLAPS

Segmenting == INSTANCE LeftFolds WITH Op <- AddSegment
Lasting == INSTANCE LeftFolds WITH Op <- AddDuration
Offering == INSTANCE LeftFolds WITH Op <- AddArea

-----------------------------------------------------------------------------
(* Profiles *)

\* What NewProfile accepts.
Acceptable(start, stages) ==
  start \in Int /\ stages \in Seq(Stages) /\ ~ProfileRefused(start, stages)

\* A stage ramps from the target of the one before it.
From(start, stages, i) == IF i = 1 THEN start ELSE stages[i - 1].target

Segments ==
  [startOffset : Nat, d : Nat, r0 : Nat, r1 : Nat, cumStart : Nat, capacity : Nat]

Fits(seg, from, stage) ==
  /\ seg = [startOffset |-> seg.startOffset, d |-> stage.duration, r0 |-> from,
            r1 |-> stage.target, cumStart |-> seg.cumStart,
            capacity |-> (from + stage.target) * stage.duration]
  /\ seg \in Segments

\* A profile of the first k stages: a segment for each, end to end in time and in count.
Shape(p, k, start, stages) ==
  /\ p = [segs |-> p.segs, duration |-> p.duration, total |-> p.total]
  /\ p.segs \in Seq(Segments) /\ Len(p.segs) = k
  /\ \A i \in 1..k : Fits(p.segs[i], From(start, stages, i), stages[i])
  /\ \A i \in 1..k :
       /\ p.segs[i].startOffset = IF i = 1 THEN 0 ELSE p.segs[i - 1].startOffset + p.segs[i - 1].d
       /\ p.segs[i].cumStart = IF i = 1 THEN 0 ELSE p.segs[i - 1].cumStart + p.segs[i - 1].capacity
  /\ p.duration = IF k = 0 THEN 0 ELSE p.segs[k].startOffset + p.segs[k].d
  /\ p.total = IF k = 0 THEN 0 ELSE p.segs[k].cumStart + p.segs[k].capacity
  /\ p.duration \in Nat /\ p.total \in Nat

\* The numbers of an acceptable profile are natural.
LEMMA StagesAreNatural ==
  ASSUME NEW start, NEW stages, Acceptable(start, stages)
  PROVE  /\ Len(stages) \in Nat \ {0} /\ DOMAIN stages = 1..Len(stages)
         /\ \A i \in 1..Len(stages) :
              /\ stages[i].duration \in Nat \ {0} /\ stages[i].target \in Nat
              /\ From(start, stages, i) \in Nat
<1>1. /\ stages \in Seq(Stages) /\ stages # <<>> /\ start \in Int /\ ~(start < 0)
      /\ \A i \in DOMAIN stages : ~(stages[i].duration <= 0) /\ ~(stages[i].target < 0)
  BY DEF Acceptable, ProfileRefused
<1>2. Len(stages) \in Nat \ {0} /\ DOMAIN stages = 1..Len(stages)
  BY <1>1
<1>3. ASSUME NEW i \in 1..Len(stages)
      PROVE  stages[i].duration \in Int /\ stages[i].target \in Int
  <2>1. stages[i] \in Stages
    BY <1>1, <1>2
  <2> QED
    BY <2>1 DEF Stages
<1>4. \A i \in 1..Len(stages) : stages[i].duration \in Nat \ {0} /\ stages[i].target \in Nat
  BY <1>1, <1>2, <1>3
<1>5. \A i \in 1..Len(stages) : i # 1 => i - 1 \in 1..Len(stages)
  BY <1>2
<1> QED
  BY <1>1, <1>2, <1>4, <1>5 DEF From

\* What a segment offers, doubled, is a natural number.
LEMMA CapacityIsNatural ==
  ASSUME NEW a \in Nat, NEW b \in Nat, NEW d \in Nat
  PROVE  (a + b) * d \in Nat
OBVIOUS

\* One more stage is one more segment.
LEMMA OneMoreSegment ==
  ASSUME NEW start, NEW stages, Acceptable(start, stages), NEW k \in 1..Len(stages),
         NEW p, Shape(p, k - 1, start, stages)
  PROVE  LET next == AddSegment([prev |-> From(start, stages, k), profile |-> p], stages[k])
         IN next.prev = stages[k].target /\ Shape(next.profile, k, start, stages)
<1> DEFINE from == From(start, stages, k)
           stage == stages[k]
           capacity == (from + stage.target) * stage.duration
           seg == [startOffset |-> p.duration, d |-> stage.duration, r0 |-> from,
                   r1 |-> stage.target, cumStart |-> p.total, capacity |-> capacity]
           q == [segs |-> Append(p.segs, seg), duration |-> p.duration + stage.duration,
                 total |-> p.total + capacity]
<1>1. AddSegment([prev |-> from, profile |-> p], stage) = [prev |-> stage.target, profile |-> q]
  BY DEF AddSegment
<1>2. /\ stage.duration \in Nat /\ stage.target \in Nat /\ from \in Nat /\ k \in Nat
      /\ Len(stages) \in Nat
  BY StagesAreNatural
<1>3. capacity \in Nat
  BY <1>2, CapacityIsNatural
<1>4. p.duration \in Nat /\ p.total \in Nat
  BY DEF Shape
<1>5. Fits(seg, from, stage) /\ seg \in Segments
  BY <1>2, <1>3, <1>4 DEF Fits, Segments
<1>6. /\ seg.startOffset = p.duration /\ seg.d = stage.duration /\ seg.cumStart = p.total
      /\ seg.capacity = capacity
  OBVIOUS
<1> HIDE DEF seg, capacity
<1>7. p.segs \in Seq(Segments) /\ Len(p.segs) = k - 1
  BY DEF Shape
<1>8. q.segs \in Seq(Segments) /\ Len(q.segs) = k
  BY <1>2, <1>5, <1>7
<1>9. q.segs[k] = seg /\ \A i \in 1..(k - 1) : q.segs[i] = p.segs[i]
  BY <1>2, <1>5, <1>7
<1>10. /\ q.duration = p.duration + stage.duration /\ q.total = p.total + capacity
      /\ q = [segs |-> q.segs, duration |-> q.duration, total |-> q.total]
  OBVIOUS
<1> HIDE DEF q
<1>11. \A i \in 1..k : i = k \/ i \in 1..(k - 1)
  BY <1>2
<1>12. \A i \in 1..k : Fits(q.segs[i], From(start, stages, i), stages[i])
  BY <1>5, <1>9, <1>11 DEF Shape
<1>13. ASSUME NEW i \in 1..k
       PROVE  /\ q.segs[i].startOffset = IF i = 1 THEN 0
                                         ELSE q.segs[i - 1].startOffset + q.segs[i - 1].d
              /\ q.segs[i].cumStart = IF i = 1 THEN 0
                                      ELSE q.segs[i - 1].cumStart + q.segs[i - 1].capacity
  <2>1. CASE i \in 1..(k - 1)
    <3>1. i # 1 => i - 1 \in 1..(k - 1)
      BY <1>2, <2>1
    <3> QED
      BY <1>9, <2>1, <3>1 DEF Shape
  <2>2. CASE i = k /\ k = 1
    BY <1>2, <1>6, <1>9, <2>2 DEF Shape
  <2>3. CASE i = k /\ k # 1
    <3>1. k - 1 \in 1..(k - 1) /\ k - 1 # 0
      BY <1>2, <2>3
    <3>2. /\ p.duration = p.segs[k - 1].startOffset + p.segs[k - 1].d
          /\ p.total = p.segs[k - 1].cumStart + p.segs[k - 1].capacity
      BY <3>1 DEF Shape
    <3> QED
      BY <1>6, <1>9, <2>3, <3>1, <3>2
  <2> QED
    BY <1>11, <2>1, <2>2, <2>3
<1>14. /\ q.duration = q.segs[k].startOffset + q.segs[k].d
       /\ q.total = q.segs[k].cumStart + q.segs[k].capacity
       /\ q.duration \in Nat /\ q.total \in Nat /\ k # 0
  BY <1>2, <1>3, <1>4, <1>6, <1>9, <1>10
<1>15. Shape(q, k, start, stages)
  BY <1>8, <1>10, <1>12, <1>13, <1>14 DEF Shape
<1> QED
  BY <1>1, <1>15

\* What NewProfile compiles.
LEMMA ProfileShape ==
  ASSUME NEW start, NEW stages, Acceptable(start, stages)
  PROVE  Shape(NewProfile(start, stages), Len(stages), start, stages)
<1> DEFINE n == Len(stages)
           none == [segs |-> <<>>, duration |-> 0, total |-> 0]
           base == [prev |-> start, profile |-> none]
<1>1. n \in Nat \ {0} /\ DOMAIN stages = 1..n
  BY StagesAreNatural
<1>2. NewProfile(start, stages) = Segmenting!Fold(base, stages).profile
  BY DEF NewProfile, Segmenting!Fold, FoldLeft, Segmenting!FoldLeft, MapThenFoldSet,
         Segmenting!MapThenFoldSet, Max, Segmenting!Max
<1>3. PICK acc : Segmenting!GoesThrough(acc, base, stages, n)
  <2> HIDE DEF base, n
  <2> QED
    BY <1>1, Segmenting!FoldGoesThrough
<1>4. /\ acc[0] = base
      /\ \A k \in 1..n : acc[k] = AddSegment(acc[k - 1], stages[k])
      /\ Segmenting!Fold(base, stages) = acc[n]
  BY <1>3 DEF Segmenting!GoesThrough
<1> DEFINE Good == {k \in 0..n : /\ acc[k] = [prev |-> acc[k].prev, profile |-> acc[k].profile]
                                 /\ acc[k].prev = IF k = 0 THEN start ELSE stages[k].target
                                 /\ Shape(acc[k].profile, k, start, stages)}
<1>5. 0 \in Good
  <2>1. Shape(none, 0, start, stages)
    BY DEF Shape
  <2>2. acc[0] = [prev |-> start, profile |-> none]
    BY <1>4
  <2> HIDE DEF none
  <2> QED
    BY <1>1, <2>1, <2>2
<1>6. ASSUME NEW k \in 1..n, k - 1 \in Good
      PROVE  k \in Good
  <2>1. /\ acc[k - 1] = [prev |-> acc[k - 1].prev, profile |-> acc[k - 1].profile]
        /\ acc[k - 1].prev = IF k - 1 = 0 THEN start ELSE stages[k - 1].target
        /\ Shape(acc[k - 1].profile, k - 1, start, stages)
    BY <1>6
  <2>2. acc[k - 1].prev = From(start, stages, k)
    BY <1>1, <2>1 DEF From
  <2>3. acc[k - 1] = [prev |-> From(start, stages, k), profile |-> acc[k - 1].profile]
    BY <2>1, <2>2
  <2>4. acc[k] = AddSegment([prev |-> From(start, stages, k), profile |-> acc[k - 1].profile],
                            stages[k])
    BY <1>4, <2>3
  <2>5. acc[k].prev = stages[k].target /\ Shape(acc[k].profile, k, start, stages)
    BY <2>1, <2>4, OneMoreSegment
  <2>6. acc[k] = [prev |-> acc[k].prev, profile |-> acc[k].profile]
    BY <2>4 DEF AddSegment
  <2>7. k # 0 /\ k \in 0..n
    BY <1>1
  <2> QED
    BY <2>5, <2>6, <2>7
<1> HIDE DEF Good
<1>7. n \in Good
  <2>1. \A k \in 0..n : k \in Good
    BY <1>1, <1>5, <1>6, Segmenting!UpTo
  <2> QED
    BY <1>1, <2>1
<1> QED
  BY <1>1, <1>2, <1>4, <1>7 DEF Good

-----------------------------------------------------------------------------
(* Instants and rates *)

\* Max picks the greatest element of a set of indices that has one.
LEMMA GreatestOf ==
  ASSUME NEW n \in Nat, NEW s \in SUBSET (1..n), s # {}
  PROVE  Max(s) \in s /\ \A y \in s : Max(s) >= y
BY Segmenting!TopIsIn DEF Segmenting!Top, Max

\* Min picks the least element of a set of naturals that has one.
LEMMA LeastOf ==
  ASSUME NEW s \in SUBSET Nat, s # {}
  PROVE  Min(s) \in s /\ \A y \in s : Min(s) <= y
<1>1. \E x \in s : \A y \in s : x <= y
  BY Segmenting!LeastNumber
<1> QED
  BY <1>1 DEF Min

\* A search whose set of qualifying segments is not empty ends at the last of them.
LEMMA LastOfIs ==
  ASSUME NEW n \in Nat \ {0}, NEW q \in SUBSET (1..n), q # {}
  PROVE  LastOf(q) \in q /\ \A y \in q : LastOf(q) >= y
<1>1. /\ {1} \cup q \in SUBSET (1..n) /\ {1} \cup q # {}
  OBVIOUS
<1>2. LastOf(q) \in {1} \cup q /\ \A y \in {1} \cup q : LastOf(q) >= y
  BY <1>1, GreatestOf DEF LastOf
<1>3. PICK y \in q : TRUE
  OBVIOUS
<1>4. y \in Nat /\ y >= 1 /\ LastOf(q) >= y
  BY <1>2, <1>3
<1> QED
  BY <1>2, <1>3, <1>4

\* A profile under way: its stages are acceptable, and m is no less than any of its rates.
Bounded(p, n, start, stages, m) ==
  /\ Acceptable(start, stages) /\ n = Len(stages) /\ Shape(p, n, start, stages)
  /\ m \in Nat /\ start <= m /\ \A i \in 1..n : stages[i].target <= m

\* What a segment of a compiled profile says of its stage.
LEMMA SegmentIs ==
  ASSUME NEW p, NEW n, NEW start, NEW stages, Shape(p, n, start, stages), n = Len(stages),
         Acceptable(start, stages), NEW i \in 1..n
  PROVE  /\ p.segs[i].startOffset \in Nat /\ p.segs[i].cumStart \in Nat
         /\ p.segs[i].d \in Nat \ {0} /\ p.segs[i].r0 \in Nat /\ p.segs[i].r1 \in Nat
         /\ p.segs[i].capacity \in Nat
         /\ p.segs[i].capacity = (p.segs[i].r0 + p.segs[i].r1) * p.segs[i].d
         /\ p.segs[i].r0 = From(start, stages, i) /\ p.segs[i].r1 = stages[i].target
         /\ p.segs[i].d = stages[i].duration
<1>1. /\ Fits(p.segs[i], From(start, stages, i), stages[i])
      /\ stages[i].duration \in Nat \ {0}
  BY StagesAreNatural DEF Shape
<1>2. p.segs[i] \in Segments
  BY <1>1 DEF Fits
<1>3. /\ p.segs[i].d = stages[i].duration /\ p.segs[i].r1 = stages[i].target
      /\ p.segs[i].r0 = From(start, stages, i)
      /\ p.segs[i].capacity = (From(start, stages, i) + stages[i].target) * stages[i].duration
  BY <1>1 DEF Fits
<1>4. /\ p.segs[i].startOffset \in Nat /\ p.segs[i].cumStart \in Nat /\ p.segs[i].r0 \in Nat
      /\ p.segs[i].r1 \in Nat /\ p.segs[i].capacity \in Nat
  BY <1>2 DEF Segments
<1> QED
  BY <1>1, <1>3, <1>4

\* Every segment ends by the end of the profile.
LEMMA SegmentsEndInTime ==
  ASSUME NEW p, NEW n, NEW start, NEW stages, Shape(p, n, start, stages), n = Len(stages),
         Acceptable(start, stages)
  PROVE  \A i \in 1..n : p.segs[i].startOffset + p.segs[i].d <= p.duration
<1>1. n \in Nat \ {0}
  BY StagesAreNatural
<1> DEFINE Good == {k \in 0..(n - 1) :
                      p.segs[n - k].startOffset + p.segs[n - k].d <= p.duration}
<1>2. 0 \in Good
  <2>1. /\ n - 0 = n /\ n \in 1..n /\ 0 \in 0..(n - 1) /\ n # 0
    BY <1>1
  <2>2. p.duration = p.segs[n].startOffset + p.segs[n].d
    BY <2>1 DEF Shape
  <2>3. p.segs[n].startOffset \in Nat /\ p.segs[n].d \in Nat
    BY <2>1, SegmentIs
  <2> QED
    BY <2>1, <2>2, <2>3
<1>3. ASSUME NEW k \in 1..(n - 1), k - 1 \in Good
      PROVE  k \in Good
  <2>1. /\ n - k \in 1..n /\ n - (k - 1) \in 1..n /\ n - (k - 1) # 1
        /\ (n - (k - 1)) - 1 = n - k /\ k \in 0..(n - 1)
    BY <1>1
  <2> DEFINE i == n - k
             j == n - (k - 1)
  <2>2. p.segs[j].startOffset = p.segs[i].startOffset + p.segs[i].d
    BY <2>1 DEF Shape
  <2>3. p.segs[j].startOffset \in Nat /\ p.segs[j].d \in Nat /\ p.duration \in Nat
    BY <2>1, SegmentIs DEF Shape
  <2>4. p.segs[j].startOffset + p.segs[j].d <= p.duration
    BY <1>3
  <2>5. p.segs[i].startOffset + p.segs[i].d <= p.duration
    BY <2>2, <2>3, <2>4
  <2> QED
    BY <2>1, <2>5
<1> HIDE DEF Good
<1>4. n - 1 \in Nat
  BY <1>1
<1>5. \A k \in 0..(n - 1) : k \in Good
  BY <1>2, <1>3, <1>4, Segmenting!UpTo
<1>6. ASSUME NEW i \in 1..n
      PROVE  p.segs[i].startOffset + p.segs[i].d <= p.duration
  <2>1. n - i \in 0..(n - 1) /\ n - (n - i) = i
    BY <1>1
  <2> QED
    BY <1>5, <2>1 DEF Good
<1> QED
  BY <1>6

\* No segment starts before its place.
LEMMA SegmentAtTimeIs ==
  ASSUME NEW p, NEW n, NEW start, NEW stages, Shape(p, n, start, stages), n = Len(stages),
         Acceptable(start, stages), NEW t \in Nat
  PROVE  \E i \in 1..n : SegmentAtTime(p, t) = p.segs[i] /\ p.segs[i].startOffset <= t
<1> DEFINE q == {i \in DOMAIN p.segs : p.segs[i].startOffset <= t}
<1>1. n \in Nat \ {0}
  BY StagesAreNatural
<1>2. DOMAIN p.segs = 1..n
  BY <1>1 DEF Shape
<1>3. 1 \in q
  <2>1. 1 \in 1..n /\ p.segs[1].startOffset = 0
    BY <1>1 DEF Shape
  <2> QED
    BY <1>2, <2>1
<1>4. q \in SUBSET (1..n)
  BY <1>2
<1>5. SegmentAtTime(p, t) = p.segs[LastOf(q)]
  BY DEF SegmentAtTime
<1>6. LastOf(q) \in q
  <2> HIDE DEF q
  <2> QED
    BY <1>1, <1>3, <1>4, LastOfIs
<1> QED
  BY <1>4, <1>5, <1>6

\* Between two rates that m bounds, every rate on the way is bounded.
LEMMA Between ==
  ASSUME NEW a \in Nat, NEW b \in Nat, NEW m \in Nat, a <= m, b <= m,
         NEW d \in Nat, NEW s \in 0..d
  PROVE  a * d + (b - a) * s <= m * d
<1>1. d - s \in Nat /\ s \in Nat
  OBVIOUS
<1>2. \A x, y, z \in Nat : x <= y => x * z <= y * z
  OBVIOUS
<1>3. a * (d - s) <= m * (d - s) /\ b * s <= m * s
  BY <1>1, <1>2
<1>4. a * d + (b - a) * s = a * (d - s) + b * s
  BY <1>1
<1>5. m * d = m * (d - s) + m * s
  BY <1>1
<1>6. /\ a * (d - s) \in Int /\ b * s \in Int /\ m * (d - s) \in Int /\ m * s \in Int
  BY <1>1
<1> QED
  BY <1>3, <1>4, <1>5, <1>6

\* At no instant is the rate above m.
LEMMA RateIsBounded ==
  ASSUME NEW p, NEW n, NEW start, NEW stages, NEW m, Bounded(p, n, start, stages, m),
         NEW t \in 0..p.duration
  PROVE  RateAt(p, t)[1] <= m * RateAt(p, t)[2]
<1>1. /\ Acceptable(start, stages) /\ n = Len(stages) /\ Shape(p, n, start, stages)
      /\ m \in Nat /\ start <= m /\ \A i \in 1..n : stages[i].target <= m
  BY DEF Bounded
<1>2. p.duration \in Nat /\ t \in Nat /\ t <= p.duration /\ ~(t < 0 \/ t > p.duration)
  BY <1>1 DEF Shape
<1>3. PICK i \in 1..n : SegmentAtTime(p, t) = p.segs[i] /\ p.segs[i].startOffset <= t
  BY <1>1, <1>2, SegmentAtTimeIs
<1> DEFINE seg == p.segs[i]
           s == Min({t - seg.startOffset, seg.d})
<1>4. /\ seg.startOffset \in Nat /\ seg.d \in Nat /\ seg.r0 \in Nat /\ seg.r1 \in Nat
      /\ seg.r0 = From(start, stages, i) /\ seg.r1 = stages[i].target
  BY <1>1, SegmentIs
<1>5. seg.r0 <= m /\ seg.r1 <= m
  <2>1. n \in Nat \ {0}
    BY <1>1, StagesAreNatural
  <2>2. i # 1 => i - 1 \in 1..n
    BY <2>1
  <2> QED
    BY <1>1, <1>4, <2>2 DEF From
<1>6. RateAt(p, t) = <<seg.r0 * seg.d + (seg.r1 - seg.r0) * s, seg.d>>
  BY <1>2, <1>3 DEF RateAt
<1> HIDE DEF seg
<1>7. s \in 0..seg.d
  <2>1. {t - seg.startOffset, seg.d} \in SUBSET Nat /\ {t - seg.startOffset, seg.d} # {}
    BY <1>2, <1>3, <1>4 DEF seg
  <2>2. s \in {t - seg.startOffset, seg.d} /\ s <= seg.d
    BY <2>1, LeastOf
  <2> QED
    BY <2>1, <2>2, <1>4
<1> HIDE DEF s
<1>8. seg.r0 * seg.d + (seg.r1 - seg.r0) * s <= m * seg.d
  BY <1>1, <1>4, <1>5, <1>7, Between
<1> QED
  BY <1>6, <1>8

-----------------------------------------------------------------------------
(* Counts *)

\* In s ticks of a segment at most 2 * m * s fall due, doubled as they are.
LEMMA LocalIsBounded ==
  ASSUME NEW a \in Nat, NEW b \in Nat, NEW m \in Nat, a <= m, b <= m,
         NEW d \in Nat, NEW s \in 0..d
  PROVE  (b - a) * s * s + 2 * a * s * d <= 2 * m * s * d
<1>1. d - s \in Nat /\ s \in Nat /\ 2 * d - s \in Nat
  OBVIOUS
<1>2. \A x, y, z \in Nat : x <= y => x * z <= y * z
  OBVIOUS
<1>3. a * (2 * d - s) <= m * (2 * d - s) /\ b * s <= m * s
  BY <1>1, <1>2
<1> DEFINE u == a * (2 * d - s) + b * s
           v == m * (2 * d)
<1>4. u \in Nat /\ v \in Nat /\ u <= v
  <2>1. m * (2 * d) = m * (2 * d - s) + m * s
    BY <1>1
  <2>2. /\ a * (2 * d - s) \in Nat /\ b * s \in Nat /\ m * (2 * d - s) \in Nat /\ m * s \in Nat
    BY <1>1
  <2> QED
    BY <1>3, <2>1, <2>2
<1>5. (b - a) * s * s + 2 * a * s * d = u * s
  BY <1>1
<1>6. 2 * m * s * d = v * s
  BY <1>1
<1> HIDE DEF u, v
<1>7. u * s <= v * s
  BY <1>1, <1>2, <1>4
<1> QED
  BY <1>5, <1>6, <1>7

\* No segment begins with more than 2 * m for each tick before it.
LEMMA StartsAreBounded ==
  ASSUME NEW p, NEW n, NEW start, NEW stages, NEW m, Bounded(p, n, start, stages, m)
  PROVE  \A i \in 1..n : p.segs[i].cumStart <= 2 * m * p.segs[i].startOffset
<1>1. /\ Acceptable(start, stages) /\ n = Len(stages) /\ Shape(p, n, start, stages)
      /\ m \in Nat /\ start <= m /\ \A i \in 1..n : stages[i].target <= m
  BY DEF Bounded
<1>2. n \in Nat \ {0} /\ n - 1 \in Nat
  BY <1>1, StagesAreNatural
<1> DEFINE Good == {k \in 0..(n - 1) :
                      p.segs[k + 1].cumStart <= 2 * m * p.segs[k + 1].startOffset}
<1>3. 0 \in Good
  <2>1. 0 + 1 = 1 /\ 1 \in 1..n /\ 0 \in 0..(n - 1)
    BY <1>2
  <2>2. p.segs[1].cumStart = 0 /\ p.segs[1].startOffset = 0
    BY <1>1, <2>1 DEF Shape
  <2> QED
    BY <1>1, <2>1, <2>2
<1>4. ASSUME NEW k \in 1..(n - 1), k - 1 \in Good
      PROVE  k \in Good
  <2> DEFINE a == p.segs[k]
             b == p.segs[k + 1]
  <2>1. /\ k \in 1..n /\ k + 1 \in 1..n /\ k + 1 # 1 /\ (k + 1) - 1 = k /\ (k - 1) + 1 = k
        /\ k \in 0..(n - 1)
    BY <1>2
  <2>2. /\ b.cumStart = a.cumStart + a.capacity /\ b.startOffset = a.startOffset + a.d
    BY <1>1, <2>1 DEF Shape
  <2>3. a.cumStart <= 2 * m * a.startOffset
    BY <1>4, <2>1
  <2>4. /\ a.startOffset \in Nat /\ a.cumStart \in Nat /\ a.d \in Nat /\ a.r0 \in Nat
        /\ a.r1 \in Nat /\ a.capacity = (a.r0 + a.r1) * a.d
        /\ a.r0 = From(start, stages, k) /\ a.r1 = stages[k].target
    <3>1. Shape(p, n, start, stages) /\ n = Len(stages) /\ Acceptable(start, stages)
      BY <1>1
    <3>2. k \in 1..n
      BY <2>1
    <3>3. a.capacity = (a.r0 + a.r1) * a.d
      BY ONLY <3>1, <3>2, SegmentIs
    <3>4. /\ a.startOffset \in Nat /\ a.cumStart \in Nat /\ a.d \in Nat \ {0} /\ a.r0 \in Nat
          /\ a.r1 \in Nat /\ a.r0 = From(start, stages, k) /\ a.r1 = stages[k].target
      BY ONLY <3>1, <3>2, SegmentIs
    <3> QED
      BY <3>3, <3>4
  <2>5. a.r0 <= m /\ a.r1 <= m
    <3>1. k # 1 => k - 1 \in 1..n
      BY <1>2, <2>1
    <3> QED
      BY <1>1, <2>1, <2>4, <3>1 DEF From
  <2> HIDE DEF a, b
  <2>6. (a.r0 + a.r1) * a.d <= 2 * m * a.d
    <3>1. \A x, y, z \in Nat : x <= y => x * z <= y * z
      OBVIOUS
    <3>2. a.r0 + a.r1 \in Nat /\ 2 * m \in Nat /\ a.r0 + a.r1 <= 2 * m
      BY <1>1, <2>4, <2>5
    <3> QED
      BY <2>4, <3>1, <3>2
  <2>7. 2 * m * (a.startOffset + a.d) = 2 * m * a.startOffset + 2 * m * a.d
    BY <1>1, <2>4
  <2>8. 2 * m * a.startOffset \in Nat /\ 2 * m * a.d \in Nat /\ (a.r0 + a.r1) * a.d \in Nat
    <3>1. \A x, y \in Nat : x * y \in Nat
      OBVIOUS
    <3>2. 2 * m \in Nat /\ a.r0 + a.r1 \in Nat
      BY <1>1, <2>4
    <3> QED
      BY <2>4, <3>1, <3>2
  <2>9. b.cumStart <= 2 * m * b.startOffset
    BY <2>2, <2>3, <2>4, <2>6, <2>7, <2>8
  <2> QED
    BY <2>1, <2>9 DEF b
<1> HIDE DEF Good
<1>5. \A k \in 0..(n - 1) : k \in Good
  BY <1>2, <1>3, <1>4, Segmenting!UpTo
<1>6. ASSUME NEW i \in 1..n
      PROVE  p.segs[i].cumStart <= 2 * m * p.segs[i].startOffset
  <2>1. i - 1 \in 0..(n - 1) /\ (i - 1) + 1 = i
    BY <1>2
  <2> QED
    BY <1>5, <2>1 DEF Good
<1> QED
  BY <1>6

\* Solve stays in the segment, and comes no sooner than what it solves for.
LEMMA SolveIs ==
  ASSUME NEW seg, seg.d \in Nat, NEW twice
  PROVE  /\ Solve(seg, twice) \in 0..seg.d
         /\ Solve(seg, twice) = seg.d \/ LocalLambda(seg, Solve(seg, twice)) >= twice * seg.d
<1> DEFINE S == {s \in 0..seg.d : s = seg.d \/ LocalLambda(seg, s) >= twice * seg.d}
<1>1. S \in SUBSET Nat /\ S # {}
  <2>1. seg.d \in S
    OBVIOUS
  <2> QED
    BY <2>1
<1>2. Min(S) \in S
  <2> HIDE DEF S
  <2> QED
    BY <1>1, LeastOf
<1> QED
  BY <1>2 DEF Solve

\* The segment an arrival falls due in: it begins below its count and ends at it or beyond.
LEMMA SegmentAtCountIs ==
  ASSUME NEW p, NEW n, NEW start, NEW stages, Shape(p, n, start, stages), n = Len(stages),
         Acceptable(start, stages), NEW c \in Nat \ {0}, c <= p.total
  PROVE  \E i \in 1..n : /\ SegmentAtCount(p, c) = p.segs[i]
                         /\ p.segs[i].cumStart < c /\ c <= p.segs[i].cumStart + p.segs[i].capacity
<1> DEFINE below == {i \in DOMAIN p.segs : p.segs[i].cumStart < c}
           found == LastOf(below)
           ahead == {i \in found..Len(p.segs) : i = Len(p.segs) \/ p.segs[i].capacity # 0}
<1>1. n \in Nat \ {0}
  BY StagesAreNatural
<1>2. DOMAIN p.segs = 1..n /\ Len(p.segs) = n
  BY <1>1 DEF Shape
<1>3. 1 \in below
  <2>1. 1 \in 1..n /\ p.segs[1].cumStart = 0
    BY <1>1 DEF Shape
  <2> QED
    BY <1>2, <2>1
<1>4. below \in SUBSET (1..n)
  BY <1>2
<1>5. found \in below /\ \A i \in below : found >= i
  <2> HIDE DEF below
  <2> QED
    BY <1>1, <1>3, <1>4, LastOfIs
<1>6. found \in 1..n /\ p.segs[found].cumStart < c
  BY <1>4, <1>5
<1>7. SegmentAtCount(p, c) = p.segs[Min(ahead)]
  BY DEF SegmentAtCount
<1> HIDE DEF found
<1>8. /\ p.segs[found].cumStart \in Nat /\ p.segs[found].capacity \in Nat
  BY <1>6, SegmentIs
<1>9. c <= p.segs[found].cumStart + p.segs[found].capacity
  <2>1. CASE found = n
    BY <1>1, <2>1 DEF Shape
  <2>2. CASE found # n
    <3>1. found + 1 \in 1..n /\ found + 1 # 1 /\ (found + 1) - 1 = found
      BY <1>1, <1>6, <2>2
    <3>2. found + 1 \notin below
      <4> HIDE DEF below
      <4> QED
        BY <1>5, <1>6
    <3>3. ~(p.segs[found + 1].cumStart < c)
      BY <1>2, <3>1, <3>2
    <3>4. /\ p.segs[found + 1].cumStart \in Nat
          /\ p.segs[found + 1].cumStart = p.segs[found].cumStart + p.segs[found].capacity
      BY <3>1, SegmentIs DEF Shape
    <3> QED
      BY <3>3, <3>4
  <2> QED
    BY <2>1, <2>2
<1>10. p.segs[found].capacity # 0
  BY <1>6, <1>8, <1>9
<1>11. found \in ahead /\ ahead \in SUBSET Nat /\ \A i \in ahead : found <= i
  BY <1>1, <1>2, <1>6, <1>10
<1>12. Min(ahead) = found
  <2> HIDE DEF ahead
  <2>1. Min(ahead) \in ahead /\ Min(ahead) <= found
    BY <1>11, LeastOf
  <2>2. Min(ahead) \in Nat /\ found <= Min(ahead) /\ found \in Nat
    BY <1>11, <2>1
  <2> QED
    BY <2>1, <2>2
<1> QED
  BY <1>6, <1>7, <1>9, <1>12

\* By the instant an arrival is given, the profile has come to it.
LEMMA InvertIs ==
  ASSUME NEW p, NEW n, NEW start, NEW stages, Shape(p, n, start, stages), n = Len(stages),
         Acceptable(start, stages), NEW k \in Nat \ {0}, Offers(p, k)
  PROVE  \E i \in 1..n : \E s \in 0..p.segs[i].d :
           /\ Invert(p, k) = p.segs[i].startOffset + s
           /\ (2 * k) * p.segs[i].d <= p.segs[i].cumStart * p.segs[i].d + LocalLambda(p.segs[i], s)
<1> DEFINE c == 2 * k
<1>1. c \in Nat \ {0} /\ c <= p.total /\ ~(k <= 0)
  BY DEF Offers
<1> HIDE DEF c
<1>2. PICK i \in 1..n : /\ SegmentAtCount(p, c) = p.segs[i]
                        /\ p.segs[i].cumStart < c
                        /\ c <= p.segs[i].cumStart + p.segs[i].capacity
  BY <1>1, SegmentAtCountIs
<1> DEFINE seg == p.segs[i]
           s == Solve(seg, c - seg.cumStart)
<1>3. Invert(p, k) = seg.startOffset + s
  BY <1>1, <1>2 DEF Invert, c
<1>4. /\ seg.cumStart \in Nat /\ seg.d \in Nat /\ seg.r0 \in Nat /\ seg.r1 \in Nat
      /\ seg.capacity \in Nat /\ seg.capacity = (seg.r0 + seg.r1) * seg.d
  BY SegmentIs
<1>5. c <= seg.cumStart + seg.capacity
  BY <1>2
<1> HIDE DEF seg
<1>6. s \in 0..seg.d /\ (s = seg.d \/ LocalLambda(seg, s) >= (c - seg.cumStart) * seg.d)
  BY <1>4, SolveIs
<1> HIDE DEF s
<1>7. c * seg.d <= seg.cumStart * seg.d + LocalLambda(seg, s)
  <2>1. LocalLambda(seg, s) \in Int
    <3>1. /\ s \in Int /\ seg.r1 - seg.r0 \in Int /\ 2 * seg.r0 \in Int /\ seg.d \in Int
      BY <1>4, <1>6
    <3>2. \A x, y, z \in Int : x * y * z \in Int
      OBVIOUS
    <3>3. (seg.r1 - seg.r0) * s * s \in Int /\ 2 * seg.r0 * s * seg.d \in Int
      BY <3>1, <3>2
    <3> QED
      BY <3>3 DEF LocalLambda
  <2>2. CASE LocalLambda(seg, s) >= (c - seg.cumStart) * seg.d
    <3>1. (c - seg.cumStart) * seg.d = c * seg.d - seg.cumStart * seg.d
      BY <1>1, <1>4
    <3>2. c * seg.d \in Nat /\ seg.cumStart * seg.d \in Nat
      BY <1>1, <1>4
    <3> QED
      BY <2>1, <2>2, <3>1, <3>2
  <2>3. CASE s = seg.d
    <3>1. LocalLambda(seg, s) = seg.capacity * seg.d
      <4>1. \A a, b, d \in Nat : (b - a) * d * d + 2 * a * d * d = ((a + b) * d) * d
        OBVIOUS
      <4>2. LocalLambda(seg, s) = (seg.r1 - seg.r0) * seg.d * seg.d + 2 * seg.r0 * seg.d * seg.d
        BY <2>3 DEF LocalLambda
      <4> QED
        BY <1>4, <4>1, <4>2
    <3>2. \A x, y, z \in Nat : x <= y => x * z <= y * z
      OBVIOUS
    <3>3. c * seg.d <= (seg.cumStart + seg.capacity) * seg.d
      <4>1. c \in Nat /\ seg.cumStart + seg.capacity \in Nat /\ seg.d \in Nat
        BY <1>1, <1>4
      <4> QED
        BY <1>5, <3>2, <4>1
    <3>4. (seg.cumStart + seg.capacity) * seg.d = seg.cumStart * seg.d + seg.capacity * seg.d
      BY <1>4
    <3> QED
      BY <3>1, <3>3, <3>4
  <2> QED
    BY <1>6, <2>2, <2>3
<1>8. \E i2 \in 1..n : \E s2 \in 0..p.segs[i2].d :
        /\ Invert(p, k) = p.segs[i2].startOffset + s2
        /\ c * p.segs[i2].d <= p.segs[i2].cumStart * p.segs[i2].d + LocalLambda(p.segs[i2], s2)
  BY <1>3, <1>6, <1>7 DEF seg
<1> QED
  BY <1>8 DEF c

\* Under a rate of at most m, no more than m for each tick has come by a tick of a segment
\* if no more than that had come before the segment.
LEMMA ComesToItInTime ==
  ASSUME NEW k \in Nat, NEW m \in Nat, NEW before \in Nat, NEW c \in Nat, c <= 2 * m * before,
         NEW a \in Nat, NEW b \in Nat, a <= m, b <= m, NEW d \in Nat \ {0}, NEW s \in 0..d,
         (2 * k) * d <= c * d + ((b - a) * s * s + 2 * a * s * d)
  PROVE  k <= m * (before + s)
<1> DEFINE local == (b - a) * s * s + 2 * a * s * d
           bound == 2 * m * s * d
           all == 2 * m * before
           reach == 2 * m * (before + s)
<1>1. local <= bound
  BY LocalIsBounded
<1>2. /\ s \in Nat /\ d \in Nat /\ 2 * m \in Nat /\ before + s \in Nat /\ 2 * k \in Nat
      /\ s \in Int /\ d \in Int /\ b - a \in Int /\ 2 * a \in Int
  OBVIOUS
<1>3. \A x, y \in Nat : x * y \in Nat
  OBVIOUS
<1>4. /\ all \in Nat /\ reach \in Nat /\ c * d \in Nat /\ (2 * k) * d \in Nat
  BY <1>2, <1>3
<1>5. bound \in Nat
  <2>1. 2 * m * s \in Nat
    BY <1>2, <1>3
  <2> QED
    BY <1>2, <1>3, <2>1
<1>6. local \in Int
  <2>1. \A x, y, z \in Int : x * y * z \in Int
    OBVIOUS
  <2>2. (b - a) * s * s \in Int /\ 2 * a * s * d \in Int
    BY <1>2, <2>1
  <2> QED
    BY <2>2
<1>7. c * d <= all * d
  <2>1. \A x, y, z \in Nat : x <= y => x * z <= y * z
    OBVIOUS
  <2>2. c <= all
    OBVIOUS
  <2> QED
    BY <1>2, <1>4, <2>1, <2>2
<1>8. reach * d = all * d + bound
  <2>1. \A x, y, z, w \in Nat : x * (y + z) * w = x * y * w + x * z * w
    OBVIOUS
  <2> QED
    BY <1>2, <2>1
<1>9. (2 * k) * d <= c * d + local
  OBVIOUS
<1> HIDE DEF local, bound, all, reach
<1>10. (2 * k) * d <= reach * d
  <2>1. all * d \in Nat
    BY <1>2, <1>3, <1>4
  <2> QED
    BY <1>1, <1>4, <1>5, <1>6, <1>7, <1>8, <1>9, <2>1
<1>11. 2 * k <= reach
  <2>1. \A x, y \in Nat : \A z \in Nat \ {0} : x * z <= y * z => x <= y
    OBVIOUS
  <2> QED
    BY <1>2, <1>4, <1>10, <2>1
<1>12. reach = 2 * (m * (before + s)) /\ m * (before + s) \in Nat
  BY <1>2, <1>3 DEF reach
<1> QED
  BY <1>11, <1>12

\* Arrivals come no faster than m: the k-th not before k / m.
LEMMA InvertKeepsUp ==
  ASSUME NEW p, NEW n, NEW start, NEW stages, NEW m, Bounded(p, n, start, stages, m),
         NEW k \in Nat \ {0}, Offers(p, k)
  PROVE  k <= m * Invert(p, k)
<1>1. /\ Acceptable(start, stages) /\ n = Len(stages) /\ Shape(p, n, start, stages)
      /\ m \in Nat /\ start <= m /\ \A i \in 1..n : stages[i].target <= m
  BY DEF Bounded
<1>2. PICK i \in 1..n : \E s \in 0..p.segs[i].d :
        /\ Invert(p, k) = p.segs[i].startOffset + s
        /\ (2 * k) * p.segs[i].d <= p.segs[i].cumStart * p.segs[i].d + LocalLambda(p.segs[i], s)
  BY <1>1, InvertIs
<1> DEFINE seg == p.segs[i]
<1>3. PICK s \in 0..seg.d :
        /\ Invert(p, k) = seg.startOffset + s
        /\ (2 * k) * seg.d <= seg.cumStart * seg.d + LocalLambda(seg, s)
  BY <1>2
<1>4. /\ seg.startOffset \in Nat /\ seg.cumStart \in Nat /\ seg.d \in Nat \ {0}
      /\ seg.r0 \in Nat /\ seg.r1 \in Nat
      /\ seg.r0 = From(start, stages, i) /\ seg.r1 = stages[i].target
  BY <1>1, SegmentIs
<1>5. seg.r0 <= m /\ seg.r1 <= m
  <2>1. n \in Nat \ {0}
    BY <1>1, StagesAreNatural
  <2>2. i # 1 => i - 1 \in 1..n
    BY <2>1
  <2> QED
    BY <1>1, <1>4, <2>2 DEF From
<1>6. seg.cumStart <= 2 * m * seg.startOffset
  BY StartsAreBounded
<1> HIDE DEF seg
<1>7. (2 * k) * seg.d
        <= seg.cumStart * seg.d + ((seg.r1 - seg.r0) * s * s + 2 * seg.r0 * s * seg.d)
  BY <1>3 DEF LocalLambda
<1>8. k <= m * (seg.startOffset + s)
  BY <1>1, <1>4, <1>5, <1>6, <1>7, ComesToItInTime
<1> QED
  BY <1>3, <1>8

\* No arrival comes after the end of the profile (schedule.go, Invert): the executors sleep
\* until the instant of an arrival without asking whether the run is over by then.
THEOREM InvertEndsInTime ==
  ASSUME NEW p, NEW n, NEW start, NEW stages, Shape(p, n, start, stages), n = Len(stages),
         Acceptable(start, stages), NEW k \in Nat \ {0}, Offers(p, k)
  PROVE  Invert(p, k) \in 0..p.duration
<1>1. PICK i \in 1..n : \E s \in 0..p.segs[i].d : Invert(p, k) = p.segs[i].startOffset + s
  BY InvertIs
<1>2. PICK s \in 0..p.segs[i].d : Invert(p, k) = p.segs[i].startOffset + s
  BY <1>1
<1>3. /\ p.segs[i].startOffset \in Nat /\ p.segs[i].d \in Nat /\ p.duration \in Nat
      /\ p.segs[i].startOffset + p.segs[i].d <= p.duration
  BY SegmentIs, SegmentsEndInTime DEF Shape
<1> QED
  BY <1>2, <1>3

-----------------------------------------------------------------------------
(* Schedules *)

\* A schedule of a profile; with uniform arrivals it takes up the arrivals one by one, and
\* it is done when the next is one the profile does not offer.
UnderWay(s, uniform) ==
  /\ s = [profile |-> s.profile, consumed |-> s.consumed, last |-> s.last, count |-> s.count,
          done |-> s.done]
  /\ s.consumed \in Nat /\ s.count \in Nat /\ s.last \in 0..s.profile.duration
  /\ s.done \in BOOLEAN
  /\ uniform => /\ s.consumed = IF s.done THEN s.count + 1 ELSE s.count
                /\ s.done => ~Offers(s.profile, s.consumed)
                /\ Offers(s.profile, s.count)
                /\ s.count # 0 => Invert(s.profile, s.count) <= s.last

\* A new schedule is under way.
LEMMA ScheduleBegins ==
  ASSUME NEW p, NEW n, NEW start, NEW stages, Shape(p, n, start, stages), NEW uniform
  PROVE  UnderWay(NewSchedule(p), uniform) /\ NewSchedule(p).profile = p
<1>1. p.duration \in Nat /\ p.total \in Nat
  BY DEF Shape
<1> QED
  BY <1>1 DEF UnderWay, NewSchedule, Offers

\* And so is one after its next arrival.
LEMMA ScheduleGoesOn ==
  ASSUME NEW n, NEW start, NEW stages, NEW s, Shape(s.profile, n, start, stages),
         n = Len(stages), Acceptable(start, stages), NEW uniform \in BOOLEAN, UnderWay(s, uniform), ~s.done,
         NEW draw \in Nat \ {0}, uniform => draw = 1
  PROVE  /\ UnderWay(NextArrival(s, draw), uniform)
         /\ NextArrival(s, draw).profile = s.profile
<1> DEFINE p == s.profile
           c == s.consumed + draw
           t == NextArrival(s, draw)
<1>1. /\ s = [profile |-> s.profile, consumed |-> s.consumed, last |-> s.last,
              count |-> s.count, done |-> s.done]
      /\ s.consumed \in Nat /\ s.count \in Nat /\ s.last \in 0..p.duration /\ s.done \in BOOLEAN
      /\ uniform => /\ s.consumed = s.count /\ Offers(p, s.count)
                    /\ s.count # 0 => Invert(p, s.count) <= s.last
  BY DEF UnderWay
<1>2. c \in Nat \ {0} /\ (uniform => c = s.count + 1)
  BY <1>1
<1> HIDE DEF c
<1>3. CASE ~Offers(p, c)
  <2>1. t = [s EXCEPT !.consumed = c, !.done = TRUE]
    BY <1>3 DEF NextArrival, c
  <2>2. t = [profile |-> p, consumed |-> c, last |-> s.last, count |-> s.count, done |-> TRUE]
    BY <1>1, <2>1
  <2> HIDE DEF t
  <2>3. /\ t.profile = p /\ t.consumed = c /\ t.last = s.last /\ t.count = s.count /\ t.done = TRUE
        /\ t = [profile |-> t.profile, consumed |-> t.consumed, last |-> t.last,
                count |-> t.count, done |-> t.done]
    BY <2>2
  <2>4. UnderWay(t, uniform)
    BY <1>1, <1>2, <1>3, <2>3 DEF UnderWay
  <2> QED
    BY <2>3, <2>4 DEF t
<1>4. CASE Offers(p, c)
  <2> DEFINE at == Invert(p, c)
             later == Max({s.last, at})
  <2>1. t = [s EXCEPT !.consumed = c, !.count = s.count + 1, !.last = later]
    BY <1>4 DEF NextArrival, c
  <2>2. t = [profile |-> p, consumed |-> c, last |-> later, count |-> s.count + 1, done |-> FALSE]
    <3>1. s.done = FALSE
      BY <1>1
    <3> QED
      BY <1>1, <2>1, <3>1
  <2>3. at \in 0..p.duration
    BY <1>2, <1>4, InvertEndsInTime
  <2>4. later \in 0..p.duration /\ at <= later
    <3>1. s.last \in Int /\ at \in Int /\ p.duration \in Nat
      BY <1>1, <2>3 DEF Shape
    <3>2. \E x \in {s.last, at} : \A y \in {s.last, at} : x >= y
      BY <3>1
    <3>3. later \in {s.last, at} /\ \A y \in {s.last, at} : later >= y
      BY <3>2 DEF Max
    <3> QED
      BY <1>1, <2>3, <3>1, <3>3
  <2> HIDE DEF t, later, at
  <2>5. /\ t.profile = p /\ t.consumed = c /\ t.last = later /\ t.count = s.count + 1
        /\ t.done = FALSE
        /\ t = [profile |-> t.profile, consumed |-> t.consumed, last |-> t.last,
                count |-> t.count, done |-> t.done]
    BY <2>2
  <2>6. /\ t.consumed \in Nat /\ t.count \in Nat /\ t.last \in 0..t.profile.duration
        /\ t.done \in BOOLEAN /\ ~t.done
    <3>1. t.consumed \in Nat /\ t.count \in Nat
      BY <1>1, <1>2, <2>5
    <3>2. t.last \in 0..t.profile.duration
      BY <2>4, <2>5
    <3>3. t.done \in BOOLEAN /\ ~t.done
      BY <2>5
    <3> QED
      BY <3>1, <3>2, <3>3
  <2>7. ASSUME uniform
        PROVE  /\ t.consumed = t.count /\ Offers(t.profile, t.count)
               /\ Invert(t.profile, t.count) <= t.last
    <3>1. t.count = c
      BY <1>1, <1>2, <2>5, <2>7
    <3> QED
      BY <1>4, <2>4, <2>5, <3>1 DEF at
  <2>8. UnderWay(t, uniform)
    <3>1. CASE uniform
      BY <2>5, <2>6, <2>7, <3>1 DEF UnderWay
    <3>2. CASE ~uniform
      BY <2>5, <2>6, <3>2 DEF UnderWay
    <3> QED
      BY <3>1, <3>2
  <2> QED
    BY <2>5, <2>8 DEF t
<1> QED
  BY <1>3, <1>4

\* Uniform arrivals never outrun the stages: whatever the stages, if none of their rates is
\* above m then the arrivals handed out so far are no more than m for each tick until the last
\* of them, which is what a check of the peak rate alone (policy.go, CheckRate) relies on.
THEOREM ScheduleKeepsUp ==
  ASSUME NEW n, NEW start, NEW stages, NEW m, NEW s, Bounded(s.profile, n, start, stages, m),
         UnderWay(s, TRUE)
  PROVE  s.count <= m * s.last
<1>1. s.count \in Nat /\ s.last \in Nat /\ m \in Nat
  BY DEF UnderWay, Bounded
<1>2. CASE s.count = 0
  BY <1>1, <1>2
<1>3. CASE s.count # 0
  <2> DEFINE at == Invert(s.profile, s.count)
  <2>1. s.count \in Nat \ {0} /\ Offers(s.profile, s.count) /\ at <= s.last
    BY <1>1, <1>3 DEF UnderWay
  <2>2. s.count <= m * at /\ at \in 0..s.profile.duration
    BY <2>1, InvertKeepsUp, InvertEndsInTime DEF Bounded
  <2> HIDE DEF at
  <2>3. at \in Nat
    BY <2>2
  <2>4. m * at <= m * s.last
    <3>1. \A x, y, z \in Nat : x <= y => z * x <= z * y
      OBVIOUS
    <3> QED
      BY <1>1, <2>1, <2>3, <3>1
  <2>5. m * at \in Nat /\ m * s.last \in Nat
    BY <1>1, <2>3
  <2> QED
    BY <1>1, <2>2, <2>4, <2>5
<1> QED
  BY <1>2, <1>3

-----------------------------------------------------------------------------
(* The plan and the profile *)

\* A profile lasts as long as the stages of its executor.
LEMMA LastsAsLong ==
  ASSUME NEW e, NEW start, NEW p, Acceptable(start, e.stages),
         Shape(p, Len(e.stages), start, e.stages)
  PROVE  TotalDuration(e) = p.duration
<1> DEFINE stages == e.stages
           n == Len(stages)
<1>1. n \in Nat \ {0} /\ DOMAIN stages = 1..n
  BY StagesAreNatural
<1>2. TotalDuration(e) = Lasting!Fold(0, stages)
  BY DEF TotalDuration, Lasting!Fold, FoldLeft, Lasting!FoldLeft, MapThenFoldSet,
         Lasting!MapThenFoldSet, Max, Lasting!Max
<1>3. PICK acc : Lasting!GoesThrough(acc, 0, stages, n)
  <2> HIDE DEF n, stages
  <2> QED
    BY <1>1, Lasting!FoldGoesThrough
<1>4. /\ acc[0] = 0 /\ \A k \in 1..n : acc[k] = acc[k - 1] + stages[k].duration
      /\ Lasting!Fold(0, stages) = acc[n]
  BY <1>3 DEF Lasting!GoesThrough, AddDuration
<1> DEFINE Good == {k \in 0..n : acc[k] = IF k = 0 THEN 0 ELSE p.segs[k].startOffset + p.segs[k].d}
<1>5. 0 \in Good
  BY <1>1, <1>4
<1>6. ASSUME NEW k \in 1..n, k - 1 \in Good
      PROVE  k \in Good
  <2>1. k \in 0..n /\ k # 0 /\ (k - 1 = 0 <=> k = 1)
    BY <1>1
  <2>2. p.segs[k].startOffset = IF k = 1 THEN 0 ELSE p.segs[k - 1].startOffset + p.segs[k - 1].d
    BY DEF Shape
  <2>3. acc[k - 1] = p.segs[k].startOffset
    BY <1>6, <2>1, <2>2
  <2>4. p.segs[k].d = stages[k].duration
    BY SegmentIs
  <2>5. acc[k] = p.segs[k].startOffset + p.segs[k].d
    BY <1>4, <2>3, <2>4
  <2> QED
    BY <2>1, <2>5
<1> HIDE DEF Good
<1>7. n \in Good
  <2>1. \A k \in 0..n : k \in Good
    BY <1>1, <1>5, <1>6, Segmenting!UpTo
  <2> QED
    BY <1>1, <2>1
<1> QED
  BY <1>1, <1>2, <1>4, <1>7 DEF Good, Shape

\* The number of operations a plan foretells (plan.go) is what the profile compiled from the
\* same stages offers (both doubled here), though the two are computed separately.
THEOREM PlanOffersAsMuch ==
  ASSUME NEW e, NEW p, Acceptable(StartRate(e), e.stages), e.type # "vus",
         Shape(p, Len(e.stages), StartRate(e), e.stages)
  PROVE  OfferedOperations(e) = p.total
<1> DEFINE stages == e.stages
           n == Len(stages)
           plan == DescribeProfile(e)
<1>1. n \in Nat \ {0} /\ DOMAIN stages = 1..n
  BY StagesAreNatural
<1>2. /\ DOMAIN plan = 1..n
      /\ \A k \in 1..n : (plan[k].from + plan[k].to) * plan[k].over
                           = (From(StartRate(e), stages, k) + stages[k].target) * stages[k].duration
  BY <1>1 DEF DescribeProfile, From
<1>3. OfferedOperations(e) = Offering!Fold(0, plan)
  BY DEF OfferedOperations, Offering!Fold, FoldLeft, Offering!FoldLeft, MapThenFoldSet,
         Offering!MapThenFoldSet, Max, Offering!Max
<1>4. PICK acc : Offering!GoesThrough(acc, 0, plan, n)
  <2> HIDE DEF n, plan
  <2> QED
    BY <1>1, <1>2, Offering!FoldGoesThrough
<1>5. /\ acc[0] = 0
      /\ \A k \in 1..n : acc[k] = acc[k - 1] + (plan[k].from + plan[k].to) * plan[k].over
      /\ Offering!Fold(0, plan) = acc[n]
  BY <1>4 DEF Offering!GoesThrough, AddArea
<1> HIDE DEF plan
<1> DEFINE Good == {k \in 0..n : acc[k] = IF k = 0 THEN 0 ELSE p.segs[k].cumStart + p.segs[k].capacity}
<1>6. 0 \in Good
  BY <1>1, <1>5
<1>7. ASSUME NEW k \in 1..n, k - 1 \in Good
      PROVE  k \in Good
  <2>1. k \in 0..n /\ k # 0 /\ (k - 1 = 0 <=> k = 1)
    BY <1>1
  <2>2. p.segs[k].cumStart = IF k = 1 THEN 0 ELSE p.segs[k - 1].cumStart + p.segs[k - 1].capacity
    BY DEF Shape
  <2>3. acc[k - 1] = p.segs[k].cumStart
    BY <1>7, <2>1, <2>2
  <2>4. p.segs[k].capacity
          = (From(StartRate(e), stages, k) + stages[k].target) * stages[k].duration
    <3>1. /\ p.segs[k].capacity = (p.segs[k].r0 + p.segs[k].r1) * p.segs[k].d
          /\ p.segs[k].r0 = From(StartRate(e), stages, k) /\ p.segs[k].r1 = stages[k].target
          /\ p.segs[k].d = stages[k].duration
      BY SegmentIs
    <3> QED
      BY <3>1
  <2>5. acc[k] = p.segs[k].cumStart + p.segs[k].capacity
    BY <1>2, <1>5, <2>3, <2>4
  <2> QED
    BY <2>1, <2>5
<1> HIDE DEF Good
<1>8. n \in Good
  <2>1. \A k \in 0..n : k \in Good
    BY <1>1, <1>6, <1>7, Segmenting!UpTo
  <2> QED
    BY <1>1, <2>1
<1> QED
  BY <1>1, <1>3, <1>5, <1>8 DEF Good, Shape
=============================================================================
