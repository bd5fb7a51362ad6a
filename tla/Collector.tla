------------------------------ MODULE Collector ------------------------------
(***************************************************************************)
(* The metrics collector of one runner (internal/metrics/collector.go)     *)
(* with the goroutines that drive it: the generator and the workers of     *)
(* the executor, the engine's sweeper, and the engine goroutine that calls *)
(* Finish once the other three have stopped.                               *)
(*                                                                         *)
(* A counter or an accumulator is kept as the bag of operations it has     *)
(* counted (a function from operations to how often), so that "counted     *)
(* exactly once" can be said of each operation and not only of a total.    *)
(* Latency sketches, byte counts, error classes and the HTTP status table  *)
(* ride along with the count in the code and are left out.                 *)
(*                                                                         *)
(* Grain of atomicity.  Everything the code does while it holds one slot's *)
(* mutex is one step: a slot is only touched under its mutex, the whole    *)
(* run accumulators and the sealed maps have mutexes of their own and are  *)
(* only added to, and sealedAbove is raised last.  What is NOT under the   *)
(* slot's mutex is a step of its own: the read of sealedAbove, noteBucket, *)
(* the look at the slot under the read lock, the three writes of           *)
(* recordLate, and the sketches Snapshot encodes without a lock.           *)
(***************************************************************************)
EXTENDS Integers, Sequences, FiniteSets

CONSTANTS
  Workers,              \* the executor's worker goroutines
  Schedule,             \* the intended offsets of the arrivals, in order
  Labels,               \* label identifiers
  LabelOf,              \* the label each operation reports
  BucketWidth,          \* cfg.BucketWidth
  SealDelay,            \* cfg.SealDelay, the longest operation timeout
  Warmup,               \* cfg.Warmup
  LabelTimelineBudget,  \* cfg.LabelTimelineBudget
  MaxNow                \* bound on the clock, for model checking only

Ops == DOMAIN Schedule

ASSUME ScheduleAssumption ==
  /\ Schedule \in Seq(Nat)
  /\ \A i, j \in Ops : i <= j => Schedule[i] <= Schedule[j]
ASSUME LabelAssumption == LabelOf \in [Ops -> Labels]
ASSUME ConfigAssumption ==
  /\ BucketWidth \in Nat \ {0}
  /\ SealDelay \in Nat
  /\ Warmup \in Nat
  /\ LabelTimelineBudget \in Nat
  /\ MaxNow \in Nat
ASSUME FiniteAssumption == IsFiniteSet(Workers) /\ IsFiniteSet(Labels)

Generator == "generator"
Sweeper   == "sweeper"
Engine    == "engine"
Callers   == Workers \cup {Generator}
Threads   == Callers \cup {Sweeper, Engine}

ASSUME ThreadAssumption == {Generator, Sweeper, Engine} \cap Workers = {}

-----------------------------------------------------------------------------
(* Buckets and the ring of slots that holds the open ones. *)

BucketIndexOf(at) == at \div BucketWidth
BucketOf(o)       == BucketIndexOf(Schedule[o])

\* A bucket any part of which is in the warm-up window is a warm-up bucket.
WarmupBucketsRoundedDown == Warmup \div BucketWidth   \* mutant
WarmupBuckets == (Warmup + BucketWidth - 1) \div BucketWidth
Measured(o)   == BucketOf(o) >= WarmupBuckets

RingSize == (SealDelay \div BucketWidth) + 4
Slots    == 0 .. RingSize - 1
SlotOfShortRing(o) == BucketOf(o) % (RingSize - 1)       \* mutant
SlotOf(o) == BucketOf(o) % RingSize

SealDeadline(idx) == (idx + 1) * BucketWidth + SealDelay

Larger(a, b) == IF a >= b THEN a ELSE b

\* Bags of operations.
Bag         == [Ops -> Nat]
Nothing     == [o \in Ops |-> 0]
Count(b, o) == [b EXCEPT ![o] = @ + 1]
Merge(a, b) == [o \in Ops |-> a[o] + b[o]]

FreeSlot == [index |-> -1, n |-> Nothing, offered |-> Nothing,
             dropped |-> Nothing, inFlightMax |-> 0]

VARIABLES
  now,                  \* the clock, as an offset from the run's start
  status,               \* how far each arrival has come
  pc,                   \* where each goroutine is
  call,                 \* the collector call each caller is in
  ring,                 \* the slots
  seenAny, maxBucket,   \* noteBucket's marks
  sealedAbove,          \* highest bucket sealed so far, -1 for none
  late,                 \* outcomes booked after their bucket had sealed
  wholeLabels,          \* whole-run accumulators per label, post warm-up
  wholeRunner,          \* the whole-run accumulator of the runner
  buckets,              \* the sealed summaries, by bucket index
  labelBuckets,         \* the sealed per-label timelines
  labelEntries,         \* labelTimelineEntries
  labelDropped,         \* labelTimelineDropped
  cursor,               \* the slot the sweeper, later Finish, looks at
  sweepNow              \* the instant the current sweep works with

sealedVars == <<sealedAbove, wholeLabels, wholeRunner, buckets,
                labelBuckets, labelEntries, labelDropped>>
noteVars   == <<seenAny, maxBucket>>
scanVars   == <<cursor, sweepNow>>
vars == <<now, status, pc, call, ring, noteVars, late, sealedVars, scanVars>>

Kinds == {"offered", "dropped", "inFlight", "record"}

\* Where a caller resumes when its call returns, and what the call has made
\* of the arrival by then.
ResumeAt(kind) ==
  CASE kind = "offered"  -> "dispatch"
    [] kind = "inFlight" -> "do"
    [] OTHER             -> "idle"
StatusAfter(kind) ==
  CASE kind = "offered"  -> "offered"
    [] kind = "dropped"  -> "dropped"
    [] kind = "inFlight" -> "taken"
    [] kind = "record"   -> "filed"

NoCall == [kind |-> "record", op |-> 0, reading |-> 0, dest |-> "idle"]

\* A caller that goes on with the same operation remembers it.
Returned(c) ==
  IF ResumeAt(c.kind) = "idle" THEN NoCall
  ELSE [NoCall EXCEPT !.kind = c.kind, !.op = c.op]

Init ==
  /\ now = 0
  /\ status = [o \in Ops |-> "scheduled"]
  /\ pc = [t \in Threads |-> "idle"]
  /\ call = [t \in Callers |-> NoCall]
  /\ ring = [s \in Slots |-> FreeSlot]
  /\ seenAny = FALSE /\ maxBucket = 0
  /\ sealedAbove = -1
  /\ late = Nothing
  /\ wholeLabels = Nothing /\ wholeRunner = Nothing
  /\ buckets = <<>>
  /\ labelBuckets = [l \in Labels |-> <<>>]
  /\ labelEntries = 0 /\ labelDropped = FALSE
  /\ cursor = 0 /\ sweepNow = 0

-----------------------------------------------------------------------------
(* Sealing. *)

\* The part of a slot's accumulators that belongs to label l.
OfLabel(b, l) == [o \in Ops |-> IF LabelOf[o] = l THEN b[o] ELSE 0]

\* Labels with anything in the slot; only these reach recordLabelBucket.
ActiveLabels(b) == {l \in Labels : \E o \in Ops : LabelOf[o] = l /\ b[o] > 0}

\* Mutants of RecordLabelBuckets: an entry replaces the earlier ones; the
\* timelines are not thrown away when the budget is exhausted.
RecordLabelBucketsReplacing(idx, b) ==
  /\ labelBuckets' = [l \in Labels |->
       IF l \in ActiveLabels(b) THEN <<[index |-> idx, n |-> OfLabel(b, l)]>>
       ELSE labelBuckets[l]]
  /\ labelEntries' = labelEntries + Cardinality(ActiveLabels(b))
  /\ UNCHANGED labelDropped
RecordLabelBucketsKeeping(idx, b) ==
  LET active == ActiveLabels(b)
      fits   == labelEntries + Cardinality(active) <= LabelTimelineBudget
  IN  /\ labelBuckets' = [l \in Labels |->
           IF l \in active /\ fits /\ ~labelDropped
           THEN Append(labelBuckets[l], [index |-> idx, n |-> OfLabel(b, l)])
           ELSE labelBuckets[l]]
      /\ labelEntries' = IF fits THEN labelEntries + Cardinality(active)
                         ELSE LabelTimelineBudget
      /\ labelDropped' = (labelDropped \/ ~fits)

\* The label loop's calls of recordLabelBucket, taken together: once an entry
\* does not fit the budget every label's timeline is thrown away for good.
RecordLabelBuckets(idx, b) ==
  LET active == ActiveLabels(b)
      fits   == labelEntries + Cardinality(active) <= LabelTimelineBudget
  IN  \/ /\ labelDropped \/ active = {}
         /\ UNCHANGED <<labelBuckets, labelEntries, labelDropped>>
      \/ /\ ~labelDropped /\ active # {} /\ fits
         /\ labelBuckets' = [l \in Labels |->
              IF l \in active
              THEN Append(labelBuckets[l], [index |-> idx, n |-> OfLabel(b, l)])
              ELSE labelBuckets[l]]
         /\ labelEntries' = labelEntries + Cardinality(active)
         /\ UNCHANGED labelDropped
      \/ /\ ~labelDropped /\ active # {} /\ ~fits
         /\ labelBuckets' = [l \in Labels |-> <<>>]
         /\ labelEntries' = LabelTimelineBudget
         /\ labelDropped' = TRUE

Summary(sl) == [n |-> sl.n, offered |-> sl.offered, dropped |-> sl.dropped,
                inFlightMax |-> sl.inFlightMax]

\* The map assignment c.buckets[idx] = &summary, which replaces whatever the
\* index already held.
PutBucket(m, idx, summary) ==
  [i \in DOMAIN m \cup {idx} |-> IF i = idx THEN summary ELSE m[i]]

\* sealSlotLocked without its last lines, which free the slot: the caller says
\* what becomes of ring[s].
SealSlotLocked(s) ==
  LET b == ring[s] IN
  /\ RecordLabelBuckets(b.index, b.n)
  /\ IF b.index < WarmupBuckets
     THEN UNCHANGED <<wholeLabels, wholeRunner>>
     ELSE /\ wholeLabels' = Merge(wholeLabels, b.n)
          /\ wholeRunner' = Merge(wholeRunner, b.n)
  /\ buckets' = PutBucket(buckets, b.index, Summary(b))
  /\ sealedAbove' = Larger(sealedAbove, b.index)

-----------------------------------------------------------------------------
(* A caller's way through Record or counterSlot. *)

\* The call of t begins; its first step is the read of sealedAbove (Record) or
\* noteBucket (the counters).
Begin(t, kind, o, reading) ==
  /\ call' = [call EXCEPT ![t] = [kind |-> kind, op |-> o,
                                  reading |-> reading, dest |-> "idle"]]
  /\ pc' = [pc EXCEPT ![t] = "enter"]

\* The call of t returns.
Return(t) ==
  /\ pc' = [pc EXCEPT ![t] = ResumeAt(call[t].kind)]
  /\ status' = [status EXCEPT ![call[t].op] = StatusAfter(call[t].kind)]
  /\ call' = [call EXCEPT ![t] = Returned(@)]

\* Mutant of NoteBucket: the mark follows the last bucket noted.
NoteBucketLast(t, dest) ==
  /\ seenAny' = TRUE
  /\ maxBucket' = BucketOf(call[t].op)
  /\ pc' = [pc EXCEPT ![t] = dest]
  /\ UNCHANGED call

\* noteBucket: the very first caller goes on to store the mark, any other
\* raises it; either then goes to dest.
NoteBucket(t, dest) ==
  \/ /\ ~seenAny
     /\ seenAny' = TRUE
     /\ pc' = [pc EXCEPT ![t] = "noteStore"]
     /\ call' = [call EXCEPT ![t].dest = dest]
     /\ UNCHANGED maxBucket
  \/ /\ seenAny
     /\ maxBucket' = Larger(maxBucket, BucketOf(call[t].op))
     /\ pc' = [pc EXCEPT ![t] = dest]
     /\ UNCHANGED <<seenAny, call>>

NoteStore(t) ==
  /\ pc[t] = "noteStore"
  /\ maxBucket' = BucketOf(call[t].op)
  /\ pc' = [pc EXCEPT ![t] = call[t].dest]
  /\ UNCHANGED <<now, status, call, ring, seenAny, late, sealedVars, scanVars>>

\* Mutant of RecordEnter: one bucket too many counts as sealed.
RecordEnterOneAbove(t) ==
  /\ pc[t] = "enter" /\ call[t].kind = "record"
  /\ NoteBucket(t, IF BucketOf(call[t].op) <= sealedAbove + 1 THEN "late" ELSE "fast")
  /\ UNCHANGED <<now, status, ring, late, sealedVars, scanVars>>

\* Record decides by sealedAbove, then notes the bucket.
RecordEnter(t) ==
  /\ pc[t] = "enter" /\ call[t].kind = "record"
  /\ NoteBucket(t, IF BucketOf(call[t].op) <= sealedAbove THEN "late" ELSE "fast")
  /\ UNCHANGED <<now, status, ring, late, sealedVars, scanVars>>

\* counterSlot notes the bucket, then decides by sealedAbove.
CounterEnter(t) ==
  /\ pc[t] = "enter" /\ call[t].kind # "record"
  /\ NoteBucket(t, "check")
  /\ UNCHANGED <<now, status, ring, late, sealedVars, scanVars>>

CounterCheck(t) ==
  /\ pc[t] = "check"
  /\ \/ /\ BucketOf(call[t].op) <= sealedAbove
        /\ Return(t)
     \/ /\ BucketOf(call[t].op) > sealedAbove
        /\ pc' = [pc EXCEPT ![t] = "fast"]
        /\ UNCHANGED <<status, call>>
  /\ UNCHANGED <<now, ring, noteVars, late, sealedVars, scanVars>>

\* A slot after the call c has been applied to it.
Applied(sl, c) ==
  CASE c.kind = "record"   -> [sl EXCEPT !.n = Count(@, c.op)]
    [] c.kind = "offered"  -> [sl EXCEPT !.offered = Count(@, c.op)]
    [] c.kind = "dropped"  -> [sl EXCEPT !.dropped = Count(@, c.op)]
    [] c.kind = "inFlight" -> [sl EXCEPT !.inFlightMax = Larger(@, c.reading)]

\* Under the read lock: add, if the slot already holds the bucket.
FastPath(t) ==
  LET s == SlotOf(call[t].op) IN
  /\ pc[t] = "fast"
  /\ \/ /\ ring[s].index = BucketOf(call[t].op)
        /\ ring' = [ring EXCEPT ![s] = Applied(@, call[t])]
        /\ Return(t)
     \/ /\ ring[s].index # BucketOf(call[t].op)
        /\ pc' = [pc EXCEPT ![t] = "slow"]
        /\ UNCHANGED <<status, call, ring>>
  /\ UNCHANGED <<now, noteVars, late, sealedVars, scanVars>>

\* Under the write lock: the slot holds the bucket by now, or is free.
SlowPathClaim(t) ==
  LET s   == SlotOf(call[t].op)
      idx == BucketOf(call[t].op)
  IN /\ pc[t] = "slow"
     /\ ring[s].index \in {-1, idx}
     /\ ring' = [ring EXCEPT ![s] = Applied([@ EXCEPT !.index = idx], call[t])]
     /\ Return(t)
     /\ UNCHANGED <<now, noteVars, late, sealedVars, scanVars>>

\* Mutants of SlowPathSeal: the older bucket is discarded; it is sealed but its
\* counts stay in the slot.
SlowPathDiscard(t) ==
  LET s == SlotOf(call[t].op) IN
  /\ pc[t] = "slow"
  /\ ring[s].index # -1 /\ ring[s].index < BucketOf(call[t].op)
  /\ ring' = [ring EXCEPT ![s] =
       Applied([FreeSlot EXCEPT !.index = BucketOf(call[t].op)], call[t])]
  /\ Return(t)
  /\ UNCHANGED <<now, noteVars, late, sealedVars, scanVars>>
SlowPathSealNoReset(t) ==
  LET s == SlotOf(call[t].op) IN
  /\ pc[t] = "slow"
  /\ ring[s].index # -1 /\ ring[s].index < BucketOf(call[t].op)
  /\ SealSlotLocked(s)
  /\ ring' = [ring EXCEPT ![s] =
       Applied([@ EXCEPT !.index = BucketOf(call[t].op)], call[t])]
  /\ Return(t)
  /\ UNCHANGED <<now, noteVars, late, scanVars>>

\* Under the write lock: the slot holds an older bucket, sealed on the spot.
SlowPathSeal(t) ==
  LET s   == SlotOf(call[t].op)
      idx == BucketOf(call[t].op)
  IN /\ pc[t] = "slow"
     /\ ring[s].index # -1 /\ ring[s].index < idx
     /\ SealSlotLocked(s)
     /\ ring' = [ring EXCEPT ![s] = Applied([FreeSlot EXCEPT !.index = idx], call[t])]
     /\ Return(t)
     /\ UNCHANGED <<now, noteVars, late, scanVars>>

\* Under the write lock: the slot holds a newer bucket.  An outcome is booked
\* as late, a counter is given up.
SlowPathGone(t) ==
  /\ pc[t] = "slow"
  /\ ring[SlotOf(call[t].op)].index > BucketOf(call[t].op)
  /\ \/ /\ call[t].kind = "record"
        /\ pc' = [pc EXCEPT ![t] = "late"]
        /\ UNCHANGED <<status, call>>
     \/ /\ call[t].kind # "record"
        /\ Return(t)
  /\ UNCHANGED <<now, ring, noteVars, late, sealedVars, scanVars>>

\* Mutants of LateTally: the label is forgotten; warm-up is not looked at.
LateTallyRunnerOnly(t) ==
  /\ pc[t] = "late"
  /\ late' = Count(late, call[t].op)
  /\ pc' = [pc EXCEPT ![t] = "lateRunner"]
  /\ UNCHANGED <<now, status, call, ring, noteVars, sealedVars, scanVars>>
LateTallyAlways(t) ==
  /\ pc[t] = "late"
  /\ late' = Count(late, call[t].op)
  /\ pc' = [pc EXCEPT ![t] = "lateLabel"]
  /\ UNCHANGED <<now, status, call, ring, noteVars, sealedVars, scanVars>>

\* recordLate: the late tally, then (after warm-up) the label's and the
\* runner's whole-run accumulators, each under its own mutex.
LateTally(t) ==
  /\ pc[t] = "late"
  /\ late' = Count(late, call[t].op)
  /\ \/ /\ ~Measured(call[t].op)
        /\ Return(t)
     \/ /\ Measured(call[t].op)
        /\ pc' = [pc EXCEPT ![t] = "lateLabel"]
        /\ UNCHANGED <<status, call>>
  /\ UNCHANGED <<now, ring, noteVars, sealedVars, scanVars>>

LateLabel(t) ==
  /\ pc[t] = "lateLabel"
  /\ wholeLabels' = Count(wholeLabels, call[t].op)
  /\ pc' = [pc EXCEPT ![t] = "lateRunner"]
  /\ UNCHANGED <<now, status, call, ring, noteVars, late, sealedAbove, wholeRunner,
                 buckets, labelBuckets, labelEntries, labelDropped, scanVars>>

LateRunner(t) ==
  /\ pc[t] = "lateRunner"
  /\ wholeRunner' = Count(wholeRunner, call[t].op)
  /\ Return(t)
  /\ UNCHANGED <<now, ring, noteVars, late, sealedAbove, wholeLabels,
                 buckets, labelBuckets, labelEntries, labelDropped, scanVars>>

CollectorStep(t) ==
  \/ NoteStore(t) \/ RecordEnter(t) \/ CounterEnter(t) \/ CounterCheck(t)
  \/ FastPath(t) \/ SlowPathClaim(t) \/ SlowPathSeal(t) \/ SlowPathGone(t)
  \/ LateTally(t) \/ LateLabel(t) \/ LateRunner(t)

-----------------------------------------------------------------------------
(* The goroutines that make the calls. *)

InStatus(st)  == {o \in Ops : status[o] = st}
IsFirst(o, S) == o \in S /\ \A p \in S : o <= p

\* The generator offers the next arrival once it is due ...
Offer ==
  /\ pc[Generator] = "idle"
  /\ \E o \in Ops :
       /\ IsFirst(o, InStatus("scheduled")) /\ Schedule[o] <= now
       /\ Begin(Generator, "offered", o, 0)
  /\ UNCHANGED <<now, status, ring, noteVars, late, sealedVars, scanVars>>

\* ... then hands it to the workers ...
Dispatch ==
  /\ pc[Generator] = "dispatch"
  /\ status' = [status EXCEPT ![call[Generator].op] = "queued"]
  /\ pc' = [pc EXCEPT ![Generator] = "idle"]
  /\ call' = [call EXCEPT ![Generator] = NoCall]
  /\ UNCHANGED <<now, ring, noteVars, late, sealedVars, scanVars>>

\* ... or drops it, which the executor decides by its queue.
Drop ==
  /\ pc[Generator] = "dispatch"
  /\ Begin(Generator, "dropped", call[Generator].op, 0)
  /\ UNCHANGED <<now, status, ring, noteVars, late, sealedVars, scanVars>>

\* The profile is exhausted, or a context was cancelled.
StopArrivals ==
  /\ pc[Generator] = "idle"
  /\ pc' = [pc EXCEPT ![Generator] = "stopped"]
  /\ UNCHANGED <<now, status, call, ring, noteVars, late, sealedVars, scanVars>>

\* Mutant of Take: a worker leaves once arrivals have stopped.
TakeWhileArriving(w) ==
  /\ pc[w] = "idle" /\ pc[Generator] # "stopped"
  /\ \E o \in Ops :
       /\ IsFirst(o, InStatus("queued"))
       /\ status' = [status EXCEPT ![o] = "taken"]
       /\ Begin(w, "inFlight", o, 1)
  /\ UNCHANGED <<now, ring, noteVars, late, sealedVars, scanVars>>

\* A worker takes the oldest job and reports the concurrency it now sees.
Take(w) ==
  /\ pc[w] = "idle"
  /\ \E o \in Ops :
       /\ IsFirst(o, InStatus("queued"))
       /\ status' = [status EXCEPT ![o] = "taken"]
       /\ Begin(w, "inFlight", o, Cardinality({v \in Workers : pc[v] # "idle"}) + 1)
  /\ UNCHANGED <<now, ring, noteVars, late, sealedVars, scanVars>>

\* The operation ends, whenever that is, and the runner records its outcome.
Complete(w) ==
  /\ pc[w] = "do"
  /\ Begin(w, "record", call[w].op, 0)
  /\ UNCHANGED <<now, status, ring, noteVars, late, sealedVars, scanVars>>

ExecutorDone ==
  /\ pc[Generator] = "stopped"
  /\ \A w \in Workers : pc[w] = "idle"
  /\ InStatus("queued") = {}

-----------------------------------------------------------------------------
(* The sweeper's SealThrough and the engine's Finish. *)

\* The ticker fires (at most once per instant) and the sweep begins.
SweepTick ==
  /\ pc[Sweeper] = "idle"
  /\ now > sweepNow
  /\ sweepNow' = now /\ cursor' = 0
  /\ pc' = [pc EXCEPT ![Sweeper] = "peek"]
  /\ UNCHANGED <<now, status, call, ring, noteVars, late, sealedVars>>

SealDueAtOnce(s) == ring[s].index >= 0                     \* mutant
SealDue(s) == ring[s].index >= 0 /\ SealDeadline(ring[s].index) <= sweepNow

\* Under the read lock: is the slot's bucket due?
SweepPeek ==
  /\ pc[Sweeper] = "peek" /\ cursor \in Slots
  /\ \/ /\ SealDue(cursor)
        /\ pc' = [pc EXCEPT ![Sweeper] = "lock"]
        /\ UNCHANGED cursor
     \/ /\ ~SealDue(cursor)
        /\ cursor' = cursor + 1
        /\ UNCHANGED pc
  /\ UNCHANGED <<now, status, call, ring, noteVars, late, sealedVars, sweepNow>>

\* Under the write lock: look again, and seal.
SweepSeal ==
  /\ pc[Sweeper] = "lock" /\ cursor \in Slots
  /\ \/ /\ SealDue(cursor)
        /\ SealSlotLocked(cursor)
        /\ ring' = [ring EXCEPT ![cursor] = FreeSlot]
     \/ /\ ~SealDue(cursor)
        /\ UNCHANGED <<ring, sealedVars>>
  /\ cursor' = cursor + 1
  /\ pc' = [pc EXCEPT ![Sweeper] = "peek"]
  /\ UNCHANGED <<now, status, call, noteVars, late, sweepNow>>

\* The sweep is over; now and then a progress report follows, whose Snapshot
\* reads the counts under their mutexes and is then about to encode the
\* whole-run sketches.
SweepOver ==
  /\ pc[Sweeper] = "peek" /\ cursor = RingSize
  /\ cursor' = 0
  /\ \E next \in {"idle", "encode"} : pc' = [pc EXCEPT ![Sweeper] = next]
  /\ UNCHANGED <<now, status, call, ring, noteVars, late, sealedVars, sweepNow>>

\* Snapshot encodes the sketches; the collector's counts are not changed.
EncodeSketches ==
  /\ pc[Sweeper] = "encode"
  /\ pc' = [pc EXCEPT ![Sweeper] = "idle"]
  /\ UNCHANGED <<now, status, call, ring, noteVars, late, sealedVars, scanVars>>

\* Mutant of SweeperStop: the sweeper stays until every bucket is sealed.
SweeperStopWhenSealed ==
  /\ pc[Sweeper] = "idle"
  /\ \A s \in Slots : ring[s].index = -1
  /\ pc' = [pc EXCEPT ![Sweeper] = "stopped"]
  /\ UNCHANGED <<now, status, call, ring, noteVars, late, sealedVars, scanVars>>

\* The engine closes the stop channel, or the work context is cancelled.
SweeperStop ==
  /\ pc[Sweeper] = "idle"
  /\ pc' = [pc EXCEPT ![Sweeper] = "stopped"]
  /\ UNCHANGED <<now, status, call, ring, noteVars, late, sealedVars, scanVars>>

\* The executors are done and the sweeper has stopped: Finish begins.
FinishBegin ==
  /\ pc[Engine] = "idle" /\ pc[Sweeper] = "stopped" /\ ExecutorDone
  /\ pc' = [pc EXCEPT ![Engine] = "finish"]
  /\ UNCHANGED <<now, status, call, ring, noteVars, late, sealedVars, scanVars>>

\* Mutant of FinishSlot: Finish respects the seal delay.
FinishSlotWhenDue ==
  /\ pc[Engine] = "finish" /\ cursor \in Slots
  /\ \/ /\ SealDue(cursor)
        /\ SealSlotLocked(cursor)
        /\ ring' = [ring EXCEPT ![cursor] = FreeSlot]
     \/ /\ ~SealDue(cursor)
        /\ UNCHANGED <<ring, sealedVars>>
  /\ cursor' = cursor + 1
  /\ UNCHANGED <<now, status, pc, call, noteVars, late, sweepNow>>

\* Finish seals whatever the next slot holds.
FinishSlot ==
  /\ pc[Engine] = "finish" /\ cursor \in Slots
  /\ \/ /\ ring[cursor].index >= 0
        /\ SealSlotLocked(cursor)
        /\ ring' = [ring EXCEPT ![cursor] = FreeSlot]
     \/ /\ ring[cursor].index < 0
        /\ UNCHANGED <<ring, sealedVars>>
  /\ cursor' = cursor + 1
  /\ UNCHANGED <<now, status, pc, call, noteVars, late, sweepNow>>

FinishEnd ==
  /\ pc[Engine] = "finish" /\ cursor = RingSize
  /\ pc' = [pc EXCEPT ![Engine] = "finished"]
  /\ UNCHANGED <<now, status, call, ring, noteVars, late, sealedVars, scanVars>>

Tick ==
  /\ now < MaxNow
  /\ now' = now + 1
  /\ UNCHANGED <<status, pc, call, ring, noteVars, late, sealedVars, scanVars>>

\* The run is over; nothing more happens.
Over == pc[Engine] = "finished" /\ UNCHANGED vars

GeneratorStep ==
  Offer \/ Dispatch \/ Drop \/ StopArrivals \/ CollectorStep(Generator)
WorkerStep(w) == Take(w) \/ Complete(w) \/ CollectorStep(w)
SweeperStep ==
  SweepTick \/ SweepPeek \/ SweepSeal \/ SweepOver \/ EncodeSketches \/ SweeperStop
EngineStep == FinishBegin \/ FinishSlot \/ FinishEnd

Next ==
  \/ GeneratorStep
  \/ \E w \in Workers : WorkerStep(w)
  \/ SweeperStep
  \/ EngineStep
  \/ Tick
  \/ Over

Spec == Init /\ [][Next]_vars

\* Every goroutine is scheduled; an operation ends (its timeout sees to that);
\* the sweeper's select, between a closed stop channel and a ticker that fires
\* only now and then, gets to the stop channel.
FairSpec ==
  /\ Spec
  /\ WF_vars(GeneratorStep)
  /\ \A w \in Workers : WF_vars(WorkerStep(w))
  /\ WF_vars(SweeperStep) /\ SF_vars(SweeperStop /\ ExecutorDone)
  /\ WF_vars(EngineStep)

-----------------------------------------------------------------------------
(* Correctness. *)

BucketIdx == {BucketOf(o) : o \in Ops}
SlotType  == [index : {-1} \cup BucketIdx, n : Bag, offered : Bag,
              dropped : Bag, inFlightMax : Nat]
CallType  == [kind : Kinds, op : Ops \cup {0}, reading : Nat,
              dest : {"idle", "check", "fast", "late"}]
CallerPC  == {"idle", "enter", "noteStore", "check", "fast", "slow", "late",
              "lateLabel", "lateRunner", "dispatch", "do", "stopped"}
Statuses  == {"scheduled", "offered", "queued", "dropped", "taken", "filed"}

\* Every variable has the type the code declares for it; a slot never holds a
\* bucket of another residue class, nor the sealed map an index nobody used.
TypeOK ==
  /\ now \in Nat
  /\ status \in [Ops -> Statuses]
  /\ pc \in [Threads -> CallerPC \cup {"peek", "lock", "encode", "finish", "finished"}]
  /\ call \in [Callers -> CallType]
  /\ ring \in [Slots -> SlotType]
  /\ \A s \in Slots : ring[s].index # -1 => ring[s].index % RingSize = s
  /\ seenAny \in BOOLEAN /\ maxBucket \in Nat
  /\ sealedAbove \in {-1} \cup BucketIdx
  /\ late \in Bag /\ wholeLabels \in Bag /\ wholeRunner \in Bag
  /\ DOMAIN buckets \subseteq BucketIdx
  /\ \A i \in DOMAIN buckets :
       buckets[i] \in [n : Bag, offered : Bag, dropped : Bag, inFlightMax : Nat]
  /\ labelBuckets \in [Labels -> Seq([index : Nat, n : Bag])]
  /\ labelEntries \in Nat /\ labelDropped \in BOOLEAN
  /\ cursor \in Nat /\ sweepNow \in Nat

Open(o) == ring[SlotOf(o)].n[o]

\* Every outcome that Record has filed is in the run's totals or in an open
\* bucket, never in both and never twice, late or not, and a warm-up outcome is
\* never in the totals (collector.go, Record, recordLate, sealSlotLocked).
CountedExactlyOnce ==
  \A o \in Ops :
    IF Measured(o)
    THEN wholeRunner[o] + Open(o) = IF status[o] = "filed" THEN 1 ELSE 0
    ELSE wholeRunner[o] = 0 /\ wholeLabels[o] = 0 /\ Open(o) <= 1

\* Nothing intended inside the warm-up window ever enters a whole-run total, by
\* whichever path it comes, however the window lies across the buckets
\* (NewCollector's rounding, sealSlotLocked, recordLate).
WarmupNeverCounted ==
  \A o \in Ops : Schedule[o] < Warmup => wholeRunner[o] = 0 /\ wholeLabels[o] = 0

\* What is in a slot belongs to the bucket the slot holds, so sealing it can
\* never charge one bucket with another's outcomes, arrivals or drops.
SlotHoldsItsBucket ==
  \A s \in Slots : \A o \in Ops :
    ring[s].n[o] + ring[s].offered[o] + ring[s].dropped[o] > 0
      => ring[s].index = BucketOf(o)

\* Once no worker is inside the collector the per-label totals add up to the
\* runner's total, operation by operation (summary.go, Snapshot).
LabelsAddUp == ExecutorDone => wholeLabels = wholeRunner

\* Before Finish, a bucket is sealed only after its end plus the seal delay,
\* whoever seals it: the sweeper, or a caller that needs the slot
\* (metrics_test.go, TestSealingWaitsForTheTimeoutThenFreesMemory).
NoEarlySeal ==
  pc[Engine] = "idle" => \A i \in DOMAIN buckets : SealDeadline(i) <= now

\* An outcome is tallied as late only when its own bucket's seal deadline has
\* passed, although the test is made against the highest bucket sealed.
LateMeansLate ==
  \A o \in Ops : late[o] > 0 => late[o] = 1 /\ SealDeadline(BucketOf(o)) <= now

\* noteBucket's first-come store never wipes out a higher mark: the measured
\* window reaches every bucket that had an arrival.
WindowCoversArrivals ==
  \A o \in Ops : status[o] # "scheduled" => seenAny /\ BucketOf(o) <= maxBucket

\* The per-label timelines stay within their budget, and once they have been
\* given up nothing is retained again (recordLabelBucket, ADR-002).
RetentionBudget ==
  LET retained == {e \in Labels \X (1 .. LabelTimelineBudget + 1) :
                     e[2] <= Len(labelBuckets[e[1]])}
  IN  Cardinality(retained) = IF labelDropped THEN 0 ELSE labelEntries

\* After Finish, unless the timelines were given up, every outcome that was not
\* late is in exactly one entry of its label's timeline, at its own bucket.
LabelTimelineComplete ==
  pc[Engine] = "finished" /\ ~labelDropped =>
    \A o \in Ops : status[o] = "filed" /\ late[o] = 0 =>
      LET tl   == labelBuckets[LabelOf[o]]
          here == {i \in DOMAIN tl : tl[i].n[o] > 0}
      IN  /\ Cardinality(here) = 1
          /\ \A i \in here : tl[i].n[o] = 1 /\ tl[i].index = BucketOf(o)

\* Finish leaves no slot open, and nothing sealed can be waiting behind it.
FinishedIsSealed ==
  pc[Engine] = "finished" => \A s \in Slots : ring[s] = FreeSlot

\* Every dispatched operation is filed in the end, and the run comes to its end.
DispatchedIsFiled == \A o \in Ops : status[o] = "queued" ~> status[o] = "filed"
RunEnds           == <>(pc[Engine] = "finished")

\* The comment in Record: "A bucket that has already sealed cannot be reopened -
\* its summary is written and its sketches are freed."
SealedBucketStaysClosed ==
  [][\A i \in DOMAIN buckets : i \in DOMAIN buckets' /\ buckets'[i] = buckets[i]]_vars

\* The comment on mergeInto: dst "takes its own lock because the whole-run
\* accumulators are also read by Snapshot"; so no write of a whole-run sketch is
\* pending while Snapshot is encoding them.
AboutToWriteTotals(t) ==
  \/ pc[t] \in {"lateLabel", "lateRunner"}
  \/ /\ pc[t] = "slow"
     /\ LET b == ring[SlotOf(call[t].op)]
        IN  /\ b.index >= WarmupBuckets /\ b.index < BucketOf(call[t].op)
            /\ b.n # Nothing
SnapshotReadsLocked ==
  pc[Sweeper] = "encode" => \A t \in Callers : ~AboutToWriteTotals(t)

\* The promise of OutcomeLedger, kept by this collector.
Ledger == INSTANCE OutcomeLedger WITH
  Outcomes <- Ops,
  InWindow <- {o \in Ops : Measured(o)},
  reported <- {o \in Ops : status[o] = "filed"},
  totals   <- wholeRunner,
  closed   <- pc[Engine] = "finished"
ImplementsLedger == Ledger!LedgerSpec
=============================================================================
