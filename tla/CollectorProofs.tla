--------------------------- MODULE CollectorProofs ---------------------------
(***************************************************************************)
(* Proofs about Collector, for every schedule, every finite set of workers *)
(* and every sizing: its typing; that a slot never mixes buckets and every *)
(* outcome is counted exactly once; when it seals; what the labels'        *)
(* timelines hold; and that the whole keeps the promise of OutcomeLedger.  *)
(*                                                                         *)
(* The argument begins with three layers, each inductive relative to the   *)
(* ones before it:                                                         *)
(*   CallInv   an operation belongs to at most one call in progress, and   *)
(*             the call is of the kind the operation's status allows;      *)
(*   TypeInv   CallInv and the types of the ring, the totals and the rest; *)
(*   CountInv  what the ring and the totals hold of every operation, the   *)
(*             window between the two additions of recordLate included.    *)
(* CountedExactlyOnce alone is not inductive: a step of one call is only   *)
(* harmless because no other call is filing the same operation (CallInv),  *)
(* and sealing a slot only moves counts because whatever the slot holds    *)
(* belongs to the bucket it is named for (SlotHoldsItsBucket).             *)
(***************************************************************************)
EXTENDS Collector, FiniteSetTheorems, TLAPS

\* A natural divided by a positive natural is a natural.
LEMMA DivNat ==
  ASSUME NEW a \in Nat, NEW b \in Nat \ {0}
  PROVE  a \div b \in Nat
  OBVIOUS

\* The remainder modulo b is one of the b slots of a ring of b.
LEMMA ModRange ==
  ASSUME NEW a \in Nat, NEW b \in Nat \ {0}
  PROVE  a % b \in 0 .. b - 1
  OBVIOUS

\* An intended instant falls in a bucket the model knows
\* (Collector.BucketIndexOf).
LEMMA BucketOfNat ==
  ASSUME NEW o \in Ops
  PROVE  /\ BucketOf(o) \in Nat
         /\ BucketOf(o) \in BucketIdx
<1>1. Schedule[o] \in Nat
  BY ScheduleAssumption DEF Ops
<1>2. QED
  BY <1>1, DivNat, ConfigAssumption DEF BucketOf, BucketIndexOf, BucketIdx

\* NewCollector never builds an empty ring.
LEMMA RingSizeNat == RingSize \in Nat \ {0}
<1>1. SealDelay \div BucketWidth \in Nat
  BY DivNat, ConfigAssumption
<1>2. QED
  BY <1>1 DEF RingSize

\* The rounded-up warm-up is a whole number of buckets (NewCollector).
LEMMA WarmupBucketsNat == WarmupBuckets \in Nat
<1>1. Warmup + BucketWidth - 1 \in Nat
  BY ConfigAssumption
<1>2. QED
  BY <1>1, DivNat, ConfigAssumption DEF WarmupBuckets

\* The slot Record computes is inside the ring.
LEMMA SlotOfSlots ==
  ASSUME NEW o \in Ops
  PROVE  SlotOf(o) \in Slots
  BY BucketOfNat, RingSizeNat, ModRange DEF SlotOf, Slots

-----------------------------------------------------------------------------
\* Where a thread is while a call into the collector is in progress.
Inside == {"enter", "noteStore", "check", "fast", "slow",
           "late", "lateLabel", "lateRunner"}

\* A thread that holds an operation.
Busy(t) == pc[t] \in Inside \cup {"dispatch", "do"}

\* The status an operation has while a call of this kind is made about it.
StatusBefore(kind) ==
  CASE kind = "offered"  -> "scheduled"
    [] kind = "dropped"  -> "offered"
    [] kind = "inFlight" -> "taken"
    [] kind = "record"   -> "taken"

\* The types of the threads' part of the state.
ThreadsOK ==
  /\ status \in [Ops -> Statuses]
  /\ pc \in [Threads -> CallerPC \cup {"peek", "lock", "encode", "finish", "finished"}]
  /\ call \in [Callers -> CallType]

\* A call in progress is about an operation in the status that allows it, the
\* generator makes the generator's calls and the workers the others, and only
\* Record takes the late path.
CallsMatch ==
  \A t \in Callers :
    /\ pc[t] \in CallerPC
    /\ Busy(t) => call[t].op \in Ops
    /\ pc[t] \in Inside =>
         /\ status[call[t].op] = StatusBefore(call[t].kind)
         /\ t = Generator <=> call[t].kind \in {"offered", "dropped"}
    /\ pc[t] = "noteStore" =>
         /\ call[t].dest \in {"check", "fast", "late"}
         /\ call[t].dest = "late" => call[t].kind = "record"
         /\ call[t].dest = "check" => call[t].kind # "record"
    /\ pc[t] = "check" => call[t].kind # "record"
    /\ pc[t] \in {"late", "lateLabel", "lateRunner"} => call[t].kind = "record"
    /\ pc[t] \in {"lateLabel", "lateRunner"} => Measured(call[t].op)
    /\ pc[t] = "dispatch" => t = Generator /\ status[call[t].op] = "offered"
    /\ pc[t] = "do" => t # Generator /\ status[call[t].op] = "taken"

\* No two threads hold the same operation: it is handed over through the queue
\* (executor.go, job).
OpsDistinct ==
  \A t, u \in Callers : t # u /\ Busy(t) /\ Busy(u) => call[t].op # call[u].op

\* The invariant of the calls in progress.
CallInv == ThreadsOK /\ CallsMatch /\ OpsDistinct

\* The sweeper, the engine, the generator and the workers are all different.
LEMMA ThreadsDistinct ==
  /\ Sweeper \notin Callers /\ Engine \notin Callers /\ Generator \notin Workers
  /\ Sweeper \in Threads /\ Engine \in Threads /\ Callers \subseteq Threads
  /\ Generator \in Callers /\ Workers \subseteq Callers
  BY ThreadAssumption DEF Sweeper, Engine, Generator, Callers, Threads

\* A call that returns hands its operation on and keeps CallInv.
LEMMA ReturnStep ==
  ASSUME CallInv, NEW t \in Callers, pc[t] \in Inside, Return(t)
  PROVE  CallInv'
<1> USE ThreadsDistinct
    DEF CallInv, CallerPC, Inside, Busy, StatusBefore, NoCall, Returned, ResumeAt,
        StatusAfter, Return
<1> DEFINE c == call[t]
<1>1. /\ c \in CallType /\ c.op \in Ops /\ c.kind \in Kinds
      /\ status[c.op] = StatusBefore(c.kind)
      /\ t = Generator <=> c.kind \in {"offered", "dropped"}
  BY DEF CallsMatch, ThreadsOK, CallType
<1>2. /\ ResumeAt(c.kind) \in {"dispatch", "do", "idle"}
      /\ StatusAfter(c.kind) \in Statuses
      /\ ResumeAt(c.kind) = "dispatch" => c.kind = "offered"
      /\ ResumeAt(c.kind) = "do" => c.kind = "inFlight"
  BY <1>1 DEF Kinds, Statuses
<1>3. /\ Returned(c) \in CallType
      /\ ResumeAt(c.kind) # "idle" => Returned(c).op = c.op
  BY <1>1, <1>2 DEF CallType, Kinds
<1>4. ThreadsOK'
  BY <1>1, <1>2, <1>3 DEF ThreadsOK
<1>5. \A u \in Callers \ {t} :
        /\ pc'[u] = pc[u] /\ call'[u] = call[u]
        /\ Busy(u) => status'[call[u].op] = status[call[u].op]
  BY <1>1 DEF ThreadsOK, CallsMatch, OpsDistinct
<1>6. pc'[t] = ResumeAt(c.kind) /\ call'[t] = Returned(c) /\ status'[c.op] = StatusAfter(c.kind)
  BY <1>1 DEF ThreadsOK
<1>7. OpsDistinct'
  BY <1>2, <1>3, <1>5, <1>6 DEF OpsDistinct
<1>8. CallsMatch'
  <2> SUFFICES ASSUME NEW u \in Callers
               PROVE  CallsMatch!(u)'
    BY DEF CallsMatch
  <2>1. CASE u = t
    BY <2>1, <1>1, <1>2, <1>3, <1>6 DEF CallsMatch
  <2>2. CASE u # t
    <3>1. /\ pc'[u] = pc[u] /\ call'[u] = call[u]
          /\ Busy(u) => status'[call[u].op] = status[call[u].op]
      BY <2>2, <1>5
    <3>2. Measured(call[u].op)' = Measured(call[u].op)
      BY <3>1 DEF Measured, BucketOf, BucketIndexOf
    <3>3. CallsMatch!(u)
      BY DEF CallsMatch
    <3>4. QED
      BY <3>1, <3>2, <3>3 DEF Busy, Inside
  <2>3. QED
    BY <2>1, <2>2
<1>9. QED
  BY <1>4, <1>7, <1>8

\* A call that moves on inside the collector keeps CallInv.
LEMMA MoveStep ==
  ASSUME CallInv, NEW t \in Callers, pc[t] \in Inside, NEW x \in Inside \ {"noteStore"},
         pc' = [pc EXCEPT ![t] = x], UNCHANGED <<status, call>>,
         x = "check" => call[t].kind # "record",
         x \in {"late", "lateLabel", "lateRunner"} => call[t].kind = "record",
         x \in {"lateLabel", "lateRunner"} => Measured(call[t].op)
  PROVE  CallInv'
<1> USE ThreadsDistinct DEF CallInv, CallerPC, Inside, Busy
<1>1. ThreadsOK'
  BY DEF ThreadsOK
<1>2. OpsDistinct'
  BY DEF OpsDistinct, ThreadsOK
<1>3. CallsMatch'
  BY DEF CallsMatch, ThreadsOK
<1>4. QED
  BY <1>1, <1>2, <1>3

\* noteBucket, with or without the pause before its store, keeps CallInv.
LEMMA NoteStep ==
  ASSUME CallInv, NEW t \in Callers, pc[t] = "enter", NEW dest \in {"check", "fast", "late"},
         NoteBucket(t, dest), UNCHANGED status,
         dest = "late" => call[t].kind = "record", dest = "check" => call[t].kind # "record"
  PROVE  CallInv'
<1>1. CASE pc' = [pc EXCEPT ![t] = dest] /\ UNCHANGED call
  BY <1>1, MoveStep DEF Inside
<1>2. CASE /\ pc' = [pc EXCEPT ![t] = "noteStore"]
           /\ call' = [call EXCEPT ![t].dest = dest]
  <2> USE ThreadsDistinct DEF CallInv, CallerPC, Inside, Busy
  <2>1. ThreadsOK'
    BY <1>2 DEF ThreadsOK, CallType
  <2>2. /\ call'[t].op = call[t].op /\ call'[t].kind = call[t].kind
        /\ call'[t].dest = dest /\ pc'[t] = "noteStore"
        /\ \A u \in Callers \ {t} : call'[u] = call[u] /\ pc'[u] = pc[u]
    BY <1>2 DEF ThreadsOK, CallType
  <2>3. OpsDistinct'
    BY <2>2 DEF OpsDistinct
  <2>4. CallsMatch'
    BY <2>2 DEF CallsMatch
  <2>5. QED
    BY <2>1, <2>3, <2>4
<1>3. QED
  BY <1>1, <1>2 DEF NoteBucket

\* Every step of a call into the collector keeps CallInv.
LEMMA CallStep ==
  ASSUME CallInv, NEW t \in Callers, CollectorStep(t)
  PROVE  CallInv'
<1> USE DEF Inside
<1>1. CASE NoteStore(t)
  <2>1. /\ call[t].dest \in {"check", "fast", "late"}
        /\ call[t].dest = "late" => call[t].kind = "record"
        /\ call[t].dest = "check" => call[t].kind # "record"
    BY <1>1 DEF NoteStore, CallInv, CallsMatch
  <2>2. QED
    BY <1>1, <2>1, MoveStep DEF NoteStore
<1>2. CASE RecordEnter(t)
  BY <1>2, NoteStep DEF RecordEnter
<1>3. CASE CounterEnter(t)
  BY <1>3, NoteStep DEF CounterEnter
<1>4. CASE CounterCheck(t)
  BY <1>4, MoveStep, ReturnStep DEF CounterCheck
<1>5. CASE FastPath(t)
  BY <1>5, MoveStep, ReturnStep DEF FastPath
<1>6. CASE SlowPathClaim(t)
  BY <1>6, ReturnStep DEF SlowPathClaim
<1>7. CASE SlowPathSeal(t)
  BY <1>7, ReturnStep DEF SlowPathSeal
<1>8. CASE SlowPathGone(t)
  BY <1>8, MoveStep, ReturnStep DEF SlowPathGone
<1>9. CASE LateTally(t)
  <2>1. call[t].kind = "record"
    BY <1>9 DEF LateTally, CallInv, CallsMatch
  <2>2. QED
    BY <1>9, <2>1, MoveStep, ReturnStep DEF LateTally
<1>10. CASE LateLabel(t)
  <2>1. call[t].kind = "record" /\ Measured(call[t].op)
    BY <1>10 DEF LateLabel, CallInv, CallsMatch
  <2>2. QED
    BY <1>10, <2>1, MoveStep DEF LateLabel
<1>11. CASE LateRunner(t)
  BY <1>11, ReturnStep DEF LateRunner
<1>12. QED
  BY <1>1, <1>2, <1>3, <1>4, <1>5, <1>6, <1>7, <1>8, <1>9, <1>10, <1>11
  DEF CollectorStep

\* A call begun about an operation nobody else holds keeps CallInv.
LEMMA BeginStep ==
  ASSUME CallInv, NEW t \in Callers, NEW kind \in Kinds, NEW o \in Ops, NEW r \in Nat,
         Begin(t, kind, o, r),
         status' \in [Ops -> Statuses],
         \A p \in Ops \ {o} : status'[p] = status[p],
         status'[o] = StatusBefore(kind),
         t = Generator <=> kind \in {"offered", "dropped"},
         \A u \in Callers \ {t} : Busy(u) => call[u].op # o
  PROVE  CallInv'
<1>1. ThreadsOK'
  BY ThreadsDistinct DEF ThreadsOK, CallInv, Begin, CallType, CallerPC
<1>2. /\ pc'[t] = "enter" /\ call'[t].op = o /\ call'[t].kind = kind
      /\ \A u \in Callers \ {t} : pc'[u] = pc[u] /\ call'[u] = call[u]
  BY ThreadsDistinct DEF ThreadsOK, CallInv, Begin
<1>3. OpsDistinct'
  BY <1>2 DEF OpsDistinct, CallInv, Busy
<1>4. CallsMatch'
  <2> SUFFICES ASSUME NEW u \in Callers
               PROVE  CallsMatch!(u)'
    BY DEF CallsMatch
  <2>1. CASE u = t
    BY <2>1, <1>2 DEF CallerPC, Inside, Busy
  <2>2. CASE u # t
    <3>1. /\ pc'[u] = pc[u] /\ call'[u] = call[u]
      BY <2>2, <1>2
    <3>2. Measured(call[u].op)' = Measured(call[u].op)
      BY <3>1 DEF Measured, BucketOf, BucketIndexOf
    <3>3. CallsMatch!(u)
      BY DEF CallsMatch, CallInv
    <3>4. Busy(u) => status'[call[u].op] = status[call[u].op]
      BY <3>3, <2>2
    <3>5. QED
      BY <3>1, <3>2, <3>3, <3>4 DEF Busy, Inside
  <2>3. QED
    BY <2>1, <2>2
<1>5. QED
  BY <1>1, <1>3, <1>4 DEF CallInv

\* A step that moves no caller keeps CallInv.
LEMMA OutsideStep ==
  ASSUME CallInv, UNCHANGED <<status, call>>,
         pc' \in [Threads -> CallerPC \cup {"peek", "lock", "encode", "finish", "finished"}],
         \A u \in Callers : pc'[u] = pc[u]
  PROVE  CallInv'
<1>1. ThreadsOK'
  BY DEF ThreadsOK, CallInv
<1>2. OpsDistinct'
  BY DEF OpsDistinct, CallInv, Busy
<1>3. CallsMatch'
  BY DEF CallsMatch, CallInv, Busy
<1>4. QED
  BY <1>1, <1>2, <1>3 DEF CallInv

\* CallInv holds at the start of a run.
LEMMA CallInvInit == Init => CallInv
<1> SUFFICES ASSUME Init PROVE CallInv
  OBVIOUS
<1>1. ThreadsOK
  BY DEF Init, ThreadsOK, Statuses, CallerPC, CallType, NoCall, Kinds
<1>2. CallsMatch /\ OpsDistinct
  BY ThreadsDistinct DEF Init, CallsMatch, OpsDistinct, Busy, Inside, CallerPC
<1>3. QED
  BY <1>1, <1>2 DEF CallInv

\* CallInv is inductive on its own.
LEMMA CallInvStep == CallInv /\ [Next]_vars => CallInv'
<1> SUFFICES ASSUME CallInv, [Next]_vars PROVE CallInv'
  OBVIOUS
<1>1. ASSUME NEW t \in Callers, CollectorStep(t) PROVE CallInv'
  BY <1>1, CallStep
<1>2. CASE Offer
  <2>1. PICK o \in Ops : status[o] = "scheduled" /\ Begin(Generator, "offered", o, 0)
    BY <1>2 DEF Offer, IsFirst, InStatus
  <2>2. \A u \in Callers \ {Generator} : Busy(u) => call[u].op # o
    BY <2>1 DEF CallInv, CallsMatch, Busy, Inside, StatusBefore, CallType, Kinds, ThreadsOK
  <2>3. /\ UNCHANGED status /\ status \in [Ops -> Statuses]
        /\ status[o] = StatusBefore("offered")
    BY <1>2, <2>1 DEF Offer, CallInv, ThreadsOK, StatusBefore
  <2>4. QED
    BY <2>1, <2>2, <2>3, BeginStep, ThreadsDistinct DEF Kinds
<1>3. CASE Dispatch
  <2> DEFINE c == call[Generator]
  <2>1. c.op \in Ops
    BY <1>3, ThreadsDistinct DEF Dispatch, CallInv, CallsMatch, Busy
  <2>2. ThreadsOK'
    BY <1>3, <2>1, ThreadsDistinct
    DEF Dispatch, CallInv, ThreadsOK, Statuses, CallerPC, NoCall, CallType, Kinds
  <2>3. /\ pc'[Generator] = "idle"
        /\ \A u \in Callers \ {Generator} : pc'[u] = pc[u] /\ call'[u] = call[u]
    BY <1>3, ThreadsDistinct DEF Dispatch, CallInv, ThreadsOK
  <2>4. \A u \in Callers \ {Generator} : Busy(u) => status'[call[u].op] = status[call[u].op]
    BY <1>3, <2>1, ThreadsDistinct
    DEF Dispatch, CallInv, ThreadsOK, OpsDistinct, CallsMatch, Busy, Inside
  <2>5. OpsDistinct'
    BY <2>3 DEF OpsDistinct, CallInv, Busy, Inside
  <2>6. CallsMatch'
    <3> SUFFICES ASSUME NEW u \in Callers
                 PROVE  CallsMatch!(u)'
      BY DEF CallsMatch
    <3>1. CASE u = Generator
      BY <3>1, <2>3 DEF CallerPC, Inside, Busy
    <3>2. CASE u # Generator
      <4>1. /\ pc'[u] = pc[u] /\ call'[u] = call[u]
            /\ Busy(u) => status'[call[u].op] = status[call[u].op]
        BY <3>2, <2>3, <2>4
      <4>2. Measured(call[u].op)' = Measured(call[u].op)
        BY <4>1 DEF Measured, BucketOf, BucketIndexOf
      <4>3. CallsMatch!(u)
        BY DEF CallsMatch, CallInv
      <4>4. QED
        BY <4>1, <4>2, <4>3 DEF Busy, Inside
    <3>3. QED
      BY <3>1, <3>2
  <2>7. QED
    BY <2>2, <2>5, <2>6 DEF CallInv
<1>4. CASE Drop
  <2> DEFINE o == call[Generator].op
  <2>1. o \in Ops /\ status[o] = "offered" /\ pc[Generator] = "dispatch"
    BY <1>4, ThreadsDistinct DEF Drop, CallInv, CallsMatch, Busy
  <2>2. \A u \in Callers \ {Generator} : Busy(u) => call[u].op # o
    BY <2>1, ThreadsDistinct DEF CallInv, OpsDistinct, Busy
  <2>3. /\ UNCHANGED status /\ status \in [Ops -> Statuses]
        /\ status[o] = StatusBefore("dropped") /\ Begin(Generator, "dropped", o, 0)
    BY <1>4, <2>1 DEF Drop, CallInv, ThreadsOK, StatusBefore
  <2> HIDE DEF o
  <2>4. QED
    BY <2>1, <2>2, <2>3, BeginStep, ThreadsDistinct DEF Kinds
<1>5. CASE StopArrivals
  <2>1. /\ UNCHANGED <<status, call>> /\ pc' = [pc EXCEPT ![Generator] = "stopped"]
    BY <1>5 DEF StopArrivals
  <2>2. ThreadsOK'
    BY <2>1 DEF CallInv, ThreadsOK, CallerPC
  <2>3. OpsDistinct'
    BY <2>1, ThreadsDistinct DEF CallInv, ThreadsOK, OpsDistinct, Busy, Inside
  <2>4. CallsMatch'
    BY <2>1, ThreadsDistinct DEF CallInv, ThreadsOK, CallsMatch, Busy, Inside, CallerPC
  <2>5. QED
    BY <2>2, <2>3, <2>4 DEF CallInv
<1>6. ASSUME NEW w \in Workers, Take(w) PROVE CallInv'
  <2> DEFINE n == Cardinality({v \in Workers : pc[v] # "idle"}) + 1
  <2>1. n \in Nat
    BY FiniteAssumption, FS_Subset, FS_CardinalityType
  <2>2. PICK o \in Ops : /\ status[o] = "queued"
                         /\ status' = [status EXCEPT ![o] = "taken"]
                         /\ Begin(w, "inFlight", o, n)
    BY <1>6 DEF Take, IsFirst, InStatus
  <2>3. \A u \in Callers \ {w} : Busy(u) => call[u].op # o
    BY <2>2 DEF CallInv, CallsMatch, Busy, Inside, StatusBefore, CallType, Kinds, ThreadsOK
  <2>4. /\ status' \in [Ops -> Statuses] /\ status'[o] = StatusBefore("inFlight")
        /\ \A p \in Ops \ {o} : status'[p] = status[p]
    BY <2>2 DEF CallInv, ThreadsOK, StatusBefore, Statuses
  <2> HIDE DEF n
  <2>5. QED
    BY <2>1, <2>2, <2>3, <2>4, BeginStep, ThreadsDistinct DEF Kinds
<1>7. ASSUME NEW w \in Workers, Complete(w) PROVE CallInv'
  <2> DEFINE o == call[w].op
  <2>1. o \in Ops /\ status[o] = "taken" /\ pc[w] = "do"
    BY <1>7, ThreadsDistinct DEF Complete, CallInv, CallsMatch, Busy
  <2>2. \A u \in Callers \ {w} : Busy(u) => call[u].op # o
    BY <2>1, ThreadsDistinct DEF CallInv, OpsDistinct, Busy
  <2>3. /\ UNCHANGED status /\ status \in [Ops -> Statuses]
        /\ status[o] = StatusBefore("record") /\ Begin(w, "record", o, 0)
    BY <1>7, <2>1 DEF Complete, CallInv, ThreadsOK, StatusBefore
  <2> HIDE DEF o
  <2>4. QED
    BY <2>1, <2>2, <2>3, BeginStep, ThreadsDistinct DEF Kinds
<1>8. CASE SweeperStep \/ EngineStep \/ Tick \/ Over \/ UNCHANGED vars
  <2>1. /\ UNCHANGED <<status, call>>
        /\ \/ UNCHANGED pc
           \/ \E x \in {"idle", "peek", "lock", "encode", "stopped"} :
                pc' = [pc EXCEPT ![Sweeper] = x]
           \/ \E x \in {"finish", "finished"} : pc' = [pc EXCEPT ![Engine] = x]
    BY <1>8 DEF SweeperStep, EngineStep, Tick, Over, vars, SweepTick, SweepPeek, SweepSeal,
                SweepOver, EncodeSketches, SweeperStop, FinishBegin, FinishSlot, FinishEnd
  <2>2. /\ pc' \in [Threads -> CallerPC \cup {"peek", "lock", "encode", "finish", "finished"}]
        /\ \A u \in Callers : pc'[u] = pc[u]
    BY <2>1, ThreadsDistinct DEF CallInv, ThreadsOK, CallerPC
  <2>3. QED
    BY <2>1, <2>2, OutsideStep
<1>9. QED
  BY <1>1, <1>2, <1>3, <1>4, <1>5, <1>6, <1>7, <1>8, ThreadsDistinct
  DEF Next, GeneratorStep, WorkerStep

-----------------------------------------------------------------------------
\* The ring holds slots, and a slot only ever holds a bucket that maps to it.
RingOK ==
  /\ ring \in [Slots -> SlotType]
  /\ \A s \in Slots : ring[s].index # -1 => ring[s].index % RingSize = s

\* The types of what sealing writes.
SealedOK ==
  /\ sealedAbove \in {-1} \cup BucketIdx
  /\ wholeLabels \in Bag /\ wholeRunner \in Bag
  /\ DOMAIN buckets \subseteq BucketIdx
  /\ \A i \in DOMAIN buckets :
       buckets[i] \in [n : Bag, offered : Bag, dropped : Bag, inFlightMax : Nat]
  /\ labelBuckets \in [Labels -> Seq([index : Nat, n : Bag])]
  /\ labelEntries \in Nat /\ labelDropped \in BOOLEAN

\* The types of the remaining variables.
RestOK ==
  /\ now \in Nat /\ late \in Bag
  /\ seenAny \in BOOLEAN /\ maxBucket \in Nat
  /\ cursor \in Nat /\ sweepNow \in Nat

\* The type invariant of Collector, cut into the parts used here.
LEMMA TypeParts == TypeOK <=> ThreadsOK /\ RingOK /\ SealedOK /\ RestOK
  BY DEF TypeOK, ThreadsOK, RingOK, SealedOK, RestOK

\* Bucket indices are naturals.
LEMMA BucketIdxNat == BucketIdx \subseteq Nat
  BY BucketOfNat DEF BucketIdx

\* Counting an operation and merging two tallies stay within the tallies.
LEMMA BagOps ==
  /\ Nothing \in Bag
  /\ \A b \in Bag : \A o \in Ops :
       /\ Count(b, o) \in Bag
       /\ \A p \in Ops : Count(b, o)[p] = IF p = o THEN b[o] + 1 ELSE b[p]
  /\ \A b1, b2 \in Bag : Merge(b1, b2) \in Bag
  /\ \A b \in Bag : \A l \in Labels : OfLabel(b, l) \in Bag
  BY DEF Bag, Nothing, Count, Merge, OfLabel

\* A free slot is a slot, and claiming a slot or applying a call to it changes
\* the one field it names.
LEMMA SlotTypes ==
  /\ FreeSlot \in SlotType /\ FreeSlot.index = -1 /\ FreeSlot.n = Nothing
  /\ FreeSlot.offered = Nothing /\ FreeSlot.dropped = Nothing
  /\ \A sl \in SlotType : \A i \in BucketIdx :
       /\ [sl EXCEPT !.index = i] \in SlotType
       /\ [sl EXCEPT !.index = i].index = i /\ [sl EXCEPT !.index = i].n = sl.n
       /\ [sl EXCEPT !.index = i].offered = sl.offered
       /\ [sl EXCEPT !.index = i].dropped = sl.dropped
  /\ \A sl \in SlotType : \A c \in CallType : c.op \in Ops =>
       /\ Applied(sl, c) \in SlotType
       /\ Applied(sl, c).index = sl.index
       /\ Applied(sl, c).n = (IF c.kind = "record" THEN Count(sl.n, c.op) ELSE sl.n)
       /\ Applied(sl, c).offered
            = (IF c.kind = "offered" THEN Count(sl.offered, c.op) ELSE sl.offered)
       /\ Applied(sl, c).dropped
            = (IF c.kind = "dropped" THEN Count(sl.dropped, c.op) ELSE sl.dropped)
<1>1. /\ FreeSlot \in SlotType /\ FreeSlot.index = -1 /\ FreeSlot.n = Nothing
      /\ FreeSlot.offered = Nothing /\ FreeSlot.dropped = Nothing
  BY BagOps DEF FreeSlot, SlotType
<1>2. ASSUME NEW sl \in SlotType, NEW i \in BucketIdx
      PROVE  /\ [sl EXCEPT !.index = i] \in SlotType
             /\ [sl EXCEPT !.index = i].index = i /\ [sl EXCEPT !.index = i].n = sl.n
             /\ [sl EXCEPT !.index = i].offered = sl.offered
             /\ [sl EXCEPT !.index = i].dropped = sl.dropped
  BY DEF SlotType
<1>3. ASSUME NEW sl \in SlotType, NEW c \in CallType, c.op \in Ops
      PROVE  /\ Applied(sl, c) \in SlotType
             /\ Applied(sl, c).index = sl.index
             /\ Applied(sl, c).n = (IF c.kind = "record" THEN Count(sl.n, c.op) ELSE sl.n)
             /\ Applied(sl, c).offered
                  = (IF c.kind = "offered" THEN Count(sl.offered, c.op) ELSE sl.offered)
             /\ Applied(sl, c).dropped
                  = (IF c.kind = "dropped" THEN Count(sl.dropped, c.op) ELSE sl.dropped)
  <2>1. CASE c.kind = "record"
    BY <1>3, <2>1, BagOps DEF Applied, SlotType
  <2>2. CASE c.kind = "offered"
    BY <1>3, <2>2, BagOps DEF Applied, SlotType
  <2>3. CASE c.kind = "dropped"
    BY <1>3, <2>3, BagOps DEF Applied, SlotType
  <2>4. CASE c.kind = "inFlight"
    BY <1>3, <2>4, BagOps DEF Applied, SlotType, CallType, Larger
  <2>5. QED
    BY <1>3, <2>1, <2>2, <2>3, <2>4 DEF CallType, Kinds
<1>4. QED
  BY <1>1, <1>2, <1>3

\* sealSlotLocked keeps the types of the summaries and totals.
LEMMA SealType ==
  ASSUME RingOK, SealedOK, NEW s \in Slots, ring[s].index >= 0, SealSlotLocked(s)
  PROVE  SealedOK'
<1> DEFINE b == ring[s]
           active == ActiveLabels(b.n)
<1>1. /\ b \in SlotType /\ b.index \in BucketIdx /\ b.index \in Nat /\ b.n \in Bag
  <2>1. b \in SlotType
    BY DEF RingOK
  <2>2. b.index \in {-1} \cup BucketIdx /\ b.n \in Bag
    BY <2>1 DEF SlotType
  <2>3. b.index # -1
    OBVIOUS
  <2>4. QED
    BY <2>1, <2>2, <2>3, BucketIdxNat
<1>2. /\ wholeLabels' \in Bag /\ wholeRunner' \in Bag
  BY <1>1, BagOps DEF SealSlotLocked, SealedOK
<1>2a. sealedAbove' \in {-1} \cup BucketIdx
  BY <1>1, BucketIdxNat DEF SealSlotLocked, SealedOK, Larger
<1>3. /\ DOMAIN buckets' \subseteq BucketIdx
      /\ \A i \in DOMAIN buckets' :
           buckets'[i] \in [n : Bag, offered : Bag, dropped : Bag, inFlightMax : Nat]
  <2>1. Summary(b) \in [n : Bag, offered : Bag, dropped : Bag, inFlightMax : Nat]
    BY <1>1 DEF Summary, SlotType
  <2>2. QED
    BY <1>1, <2>1 DEF SealSlotLocked, PutBucket, SealedOK
<1>4. active \subseteq Labels /\ Cardinality(active) \in Nat
  BY FiniteAssumption, FS_Subset, FS_CardinalityType DEF ActiveLabels
<1>5. RecordLabelBuckets(b.index, b.n)
  BY DEF SealSlotLocked
<1> DEFINE Entry == [index : Nat, n : Bag]
<1>6. \A l \in Labels : [index |-> b.index, n |-> OfLabel(b.n, l)] \in Entry
  BY <1>1, BagOps
<1>7. labelBuckets \in [Labels -> Seq(Entry)]
  BY DEF SealedOK
<1>8. labelBuckets' \in [Labels -> Seq(Entry)] /\ labelEntries' \in Nat /\ labelDropped' \in BOOLEAN
  <2>1. CASE UNCHANGED <<labelBuckets, labelEntries, labelDropped>>
    BY <2>1 DEF SealedOK
  <2>2. CASE /\ labelBuckets' = [l \in Labels |->
                  IF l \in active
                  THEN Append(labelBuckets[l], [index |-> b.index, n |-> OfLabel(b.n, l)])
                  ELSE labelBuckets[l]]
             /\ labelEntries' = labelEntries + Cardinality(active)
             /\ UNCHANGED labelDropped
    <3> HIDE DEF Entry, active
    <3>1. \A l \in Labels : Append(labelBuckets[l], [index |-> b.index, n |-> OfLabel(b.n, l)])
                              \in Seq(Entry)
      BY <1>6, <1>7
    <3>2. labelBuckets' \in [Labels -> Seq(Entry)]
      BY <2>2, <3>1, <1>7
    <3>3. QED
      BY <2>2, <3>2, <1>4 DEF SealedOK
  <2>3. CASE /\ labelBuckets' = [l \in Labels |-> <<>>]
             /\ labelEntries' = LabelTimelineBudget
             /\ labelDropped' = TRUE
    BY <2>3, ConfigAssumption
  <2>4. QED
    BY <1>5, <2>1, <2>2, <2>3 DEF RecordLabelBuckets
<1>9. QED
  BY <1>2, <1>2a, <1>3, <1>8 DEF SealedOK

\* Storing a slot whose bucket maps there keeps the ring.
LEMMA PutSlot ==
  ASSUME RingOK, NEW s \in Slots, NEW sl \in SlotType,
         sl.index # -1 => sl.index % RingSize = s,
         ring' = [ring EXCEPT ![s] = sl]
  PROVE  RingOK'
<1>1. ring' \in [Slots -> SlotType]
  BY DEF RingOK
<1>2. \A i \in Slots : ring'[i] = IF i = s THEN sl ELSE ring[i]
  BY DEF RingOK
<1>3. QED
  BY <1>1, <1>2 DEF RingOK

\* Freeing a slot keeps the ring.
LEMMA FreedRing ==
  ASSUME RingOK, NEW s \in Slots, ring' = [ring EXCEPT ![s] = FreeSlot]
  PROVE  RingOK'
  BY PutSlot, SlotTypes

\* Applying a call to the slot of its bucket keeps the ring.
LEMMA AppliedRing ==
  ASSUME CallInv, RingOK, NEW t \in Callers, Busy(t), NEW sl \in SlotType,
         sl.index = BucketOf(call[t].op),
         ring' = [ring EXCEPT ![SlotOf(call[t].op)] = Applied(sl, call[t])]
  PROVE  RingOK'
<1>1. call[t] \in CallType /\ call[t].op \in Ops
  BY DEF CallInv, ThreadsOK, CallsMatch
<1>2. Applied(sl, call[t]) \in SlotType /\ Applied(sl, call[t]).index = sl.index
  BY <1>1, SlotTypes
<1>3. sl.index % RingSize = SlotOf(call[t].op) /\ SlotOf(call[t].op) \in Slots
  BY <1>1, SlotOfSlots DEF SlotOf
<1>4. QED
  BY <1>2, <1>3, PutSlot

\* Every step of a call into the collector keeps the types.
LEMMA CollectorTypeStep ==
  ASSUME CallInv, RingOK, SealedOK, RestOK, NEW t \in Callers, CollectorStep(t)
  PROVE  RingOK' /\ SealedOK' /\ RestOK'
<1> DEFINE o == call[t].op
           s == SlotOf(o)
<1>1. Busy(t)
  BY DEF CollectorStep, NoteStore, RecordEnter, CounterEnter, CounterCheck, FastPath,
         SlowPathClaim, SlowPathSeal, SlowPathGone, LateTally, LateLabel, LateRunner,
         Busy, Inside
<1>2. /\ o \in Ops /\ s \in Slots
      /\ BucketOf(o) \in Nat /\ BucketOf(o) \in BucketIdx
  BY <1>1, SlotOfSlots, BucketOfNat DEF CallInv, CallsMatch
<1>3. ring[s] \in SlotType
  BY <1>2 DEF RingOK
<1>4. CASE UNCHANGED <<now, ring, late, sealedVars, scanVars>>
  <2>1. seenAny' \in BOOLEAN /\ maxBucket' \in Nat
    BY <1>2, <1>4 DEF CollectorStep, NoteStore, RecordEnter, CounterEnter, CounterCheck,
         FastPath, SlowPathClaim, SlowPathSeal, SlowPathGone, LateTally, LateLabel,
         LateRunner, NoteBucket, Larger, noteVars, RestOK
  <2>2. QED
    BY <1>4, <2>1 DEF RingOK, SealedOK, RestOK, sealedVars, scanVars
<1>5. CASE FastPath(t)
  <2>1. RingOK'
    BY <1>1, <1>3, <1>5, AppliedRing DEF FastPath, RingOK
  <2>2. QED
    BY <1>5, <2>1 DEF FastPath, SealedOK, RestOK, sealedVars, scanVars, noteVars
<1>6. CASE SlowPathClaim(t)
  <2>1. RingOK'
    BY <1>1, <1>2, <1>3, <1>6, SlotTypes, AppliedRing DEF SlowPathClaim
  <2>2. QED
    BY <1>6, <2>1 DEF SlowPathClaim, SealedOK, RestOK, sealedVars, scanVars, noteVars
<1>7. CASE SlowPathSeal(t)
  <2>1. RingOK'
    BY <1>1, <1>2, <1>7, SlotTypes, AppliedRing DEF SlowPathSeal
  <2>2. ring[s].index >= 0 /\ SealSlotLocked(s)
    BY <1>2, <1>3, <1>7, BucketIdxNat DEF SlowPathSeal, SlotType
  <2>3. SealedOK'
    BY <1>2, <2>2, SealType
  <2>4. QED
    BY <1>7, <2>1, <2>3 DEF SlowPathSeal, RestOK, scanVars, noteVars
<1>8. CASE LateTally(t)
  BY <1>2, <1>8, BagOps DEF LateTally, RingOK, SealedOK, RestOK, sealedVars, scanVars, noteVars
<1>9. CASE LateLabel(t)
  BY <1>2, <1>9, BagOps DEF LateLabel, RingOK, SealedOK, RestOK, scanVars, noteVars
<1>10. CASE LateRunner(t)
  BY <1>2, <1>10, BagOps DEF LateRunner, RingOK, SealedOK, RestOK, scanVars, noteVars
<1>11. QED
  BY <1>4, <1>5, <1>6, <1>7, <1>8, <1>9, <1>10
  DEF CollectorStep, NoteStore, RecordEnter, CounterEnter, CounterCheck, SlowPathGone

\* Every step of the system keeps the types.
LEMMA TypeStep ==
  ASSUME CallInv, RingOK, SealedOK, RestOK, [Next]_vars
  PROVE  RingOK' /\ SealedOK' /\ RestOK'
<1> USE DEF sealedVars, scanVars, noteVars
<1>1. ASSUME NEW t \in Callers, CollectorStep(t) PROVE RingOK' /\ SealedOK' /\ RestOK'
  BY <1>1, CollectorTypeStep
<1>2. CASE UNCHANGED <<now, ring, late, sealedVars, scanVars, noteVars>>
  BY <1>2 DEF RingOK, SealedOK, RestOK
<1>3. CASE Tick
  <2>1. now' \in Nat
    BY <1>3 DEF Tick, RestOK
  <2>2. QED
    BY <1>3, <2>1 DEF Tick, RingOK, SealedOK, RestOK
<1>4. CASE UNCHANGED <<now, ring, late, sealedVars, noteVars>> /\ cursor' \in Nat /\ sweepNow' \in Nat
  BY <1>4 DEF RingOK, SealedOK, RestOK
<1>5. ASSUME cursor \in Slots, ring[cursor].index >= 0, SealSlotLocked(cursor),
             ring' = [ring EXCEPT ![cursor] = FreeSlot], cursor' = cursor + 1,
             UNCHANGED <<now, noteVars, late, sweepNow>>
      PROVE  RingOK' /\ SealedOK' /\ RestOK'
  <2>1. cursor' \in Nat
    BY <1>5 DEF RestOK
  <2>2. RingOK' /\ SealedOK'
    BY <1>5, SealType, FreedRing
  <2>3. QED
    BY <1>5, <2>1, <2>2 DEF RestOK
<1>6. CASE SweepSeal \/ FinishSlot
  <2>1. CASE UNCHANGED <<ring, sealedVars>>
    BY <1>4, <1>6, <2>1 DEF SweepSeal, FinishSlot, RestOK
  <2>2. CASE ~UNCHANGED <<ring, sealedVars>>
    BY <1>5, <1>6, <2>2 DEF SweepSeal, FinishSlot, SealDue
  <2>3. QED
    BY <1>6, <2>1, <2>2 DEF SweepSeal, FinishSlot
<1>7. QED
  BY <1>1, <1>2, <1>3, <1>4, <1>6, ThreadsDistinct
  DEF Next, vars, GeneratorStep, WorkerStep, SweeperStep, EngineStep, Offer, Dispatch, Drop,
      StopArrivals, Take, Complete, Over, SweepTick, SweepPeek, SweepOver, EncodeSketches,
      SweeperStop, FinishBegin, FinishEnd, RestOK

\* The typing together with the calls it needs to be inductive.
TypeInv == CallInv /\ RingOK /\ SealedOK /\ RestOK

\* TypeInv holds throughout every run.
LEMMA TypeInvInvariant == Spec => []TypeInv
<1>1. Init => TypeInv
  <2> SUFFICES ASSUME Init PROVE TypeInv
    OBVIOUS
  <2>1. RingOK
    BY SlotTypes DEF Init, RingOK
  <2>2. SealedOK
    <3>1. DOMAIN buckets = {} /\ sealedAbove = -1
      BY DEF Init
    <3>2. labelBuckets \in [Labels -> Seq([index : Nat, n : Bag])]
      BY DEF Init
    <3>3. QED
      BY <3>1, <3>2, BagOps DEF Init, SealedOK
  <2>3. RestOK
    BY BagOps DEF Init, RestOK
  <2>4. QED
    BY <2>1, <2>2, <2>3, CallInvInit DEF TypeInv
<1>2. TypeInv /\ [Next]_vars => TypeInv'
  BY CallInvStep, TypeStep DEF TypeInv
<1>3. QED
  BY <1>1, <1>2, PTL DEF Spec

\* The type invariant holds for every schedule, number of workers and sizing
\* of the collector: in particular no index ever leaves the ring, and no counter
\* of the ring or of the totals goes below zero.
THEOREM TypeCorrect == Spec => []TypeOK
<1>1. TypeInv => TypeOK
  BY TypeParts DEF TypeInv, CallInv
<1>2. QED
  BY <1>1, TypeInvInvariant, PTL

-----------------------------------------------------------------------------
\* Applying a call to a slot that holds the call's bucket keeps the slots pure.
LEMMA AppliedHolds ==
  ASSUME TypeInv, SlotHoldsItsBucket, NEW t \in Callers, Busy(t), NEW sl \in SlotType,
         sl.index = BucketOf(call[t].op),
         \A o \in Ops : sl.n[o] + sl.offered[o] + sl.dropped[o] > 0
                          => BucketOf(o) = sl.index,
         ring' = [ring EXCEPT ![SlotOf(call[t].op)] = Applied(sl, call[t])]
  PROVE  SlotHoldsItsBucket'
<1> DEFINE c == call[t]
           s == SlotOf(c.op)
           new == Applied(sl, c)
<1>1. c \in CallType /\ c.op \in Ops /\ s \in Slots
  BY SlotOfSlots DEF TypeInv, CallInv, ThreadsOK, CallsMatch
<1>2. new.index = sl.index
  BY <1>1, SlotTypes
<1>3. \A o \in Ops : /\ sl.n[o] \in Nat /\ sl.offered[o] \in Nat /\ sl.dropped[o] \in Nat
                     /\ o # c.op => /\ new.n[o] = sl.n[o] /\ new.offered[o] = sl.offered[o]
                                    /\ new.dropped[o] = sl.dropped[o]
  <2>1. sl.n \in Bag /\ sl.offered \in Bag /\ sl.dropped \in Bag
    BY DEF SlotType
  <2>2. /\ new.n \in {sl.n, Count(sl.n, c.op)}
        /\ new.offered \in {sl.offered, Count(sl.offered, c.op)}
        /\ new.dropped \in {sl.dropped, Count(sl.dropped, c.op)}
    BY <1>1, SlotTypes
  <2>3. \A b \in Bag : \A o \in Ops :
          b[o] \in Nat /\ (o # c.op => Count(b, c.op)[o] = b[o])
    BY <1>1, BagOps DEF Bag
  <2> HIDE DEF new
  <2>4. QED
    BY <2>1, <2>2, <2>3
<1>4. \A o \in Ops : new.n[o] + new.offered[o] + new.dropped[o] > 0 => new.index = BucketOf(o)
  BY <1>1, <1>2, <1>3
<1>5. \A i \in Slots : ring'[i] = IF i = s THEN new ELSE ring[i]
  BY <1>1 DEF TypeInv, RingOK
<1>6. \A i \in Slots : \A o \in Ops :
        ring'[i].n[o] + ring'[i].offered[o] + ring'[i].dropped[o] > 0
          => ring'[i].index = BucketOf(o)
  BY <1>4, <1>5 DEF SlotHoldsItsBucket
<1>7. QED
  BY <1>6 DEF SlotHoldsItsBucket, BucketOf, BucketIndexOf

\* A freed slot holds nothing.
LEMMA FreedHolds ==
  ASSUME TypeInv, SlotHoldsItsBucket, NEW s \in Slots, ring' = [ring EXCEPT ![s] = FreeSlot]
  PROVE  SlotHoldsItsBucket'
<1>1. \A i \in Slots : ring'[i] = IF i = s THEN FreeSlot ELSE ring[i]
  BY DEF TypeInv, RingOK
<1>2. \A o \in Ops : FreeSlot.n[o] + FreeSlot.offered[o] + FreeSlot.dropped[o] = 0
  BY SlotTypes DEF Nothing
<1>3. \A i \in Slots : \A o \in Ops :
        ring'[i].n[o] + ring'[i].offered[o] + ring'[i].dropped[o] > 0
          => ring'[i].index = BucketOf(o)
  BY <1>1, <1>2 DEF SlotHoldsItsBucket
<1>4. QED
  BY <1>3 DEF SlotHoldsItsBucket, BucketOf, BucketIndexOf

\* Every step keeps the slots pure.
LEMMA HoldsStep ==
  ASSUME TypeInv, SlotHoldsItsBucket, [Next]_vars
  PROVE  SlotHoldsItsBucket'
<1>1. CASE UNCHANGED ring
  BY <1>1 DEF SlotHoldsItsBucket, BucketOf, BucketIndexOf
<1>2. ASSUME NEW t \in Callers, FastPath(t) \/ SlowPathClaim(t) \/ SlowPathSeal(t)
      PROVE  SlotHoldsItsBucket'
  <2> DEFINE o == call[t].op
             s == SlotOf(o)
  <2>1. Busy(t)
    BY <1>2 DEF FastPath, SlowPathClaim, SlowPathSeal, Busy, Inside
  <2>2. /\ o \in Ops /\ s \in Slots /\ ring[s] \in SlotType
        /\ BucketOf(o) \in BucketIdx
    BY <2>1, SlotOfSlots, BucketOfNat DEF TypeInv, CallInv, CallsMatch, RingOK
  <2>3. CASE UNCHANGED ring
    BY <1>1, <2>3
  <2>4. CASE /\ ring[s].index = BucketOf(o)
             /\ ring' = [ring EXCEPT ![s] = Applied(ring[s], call[t])]
    BY <2>1, <2>2, <2>4, AppliedHolds DEF SlotHoldsItsBucket
  <2>5. CASE SlowPathClaim(t)
    <3> DEFINE sl == [ring[s] EXCEPT !.index = BucketOf(o)]
    <3>1. \A p \in Ops : sl.n[p] + sl.offered[p] + sl.dropped[p] > 0 => BucketOf(p) = BucketOf(o)
      <4>1. \A p \in Ops : ring[s].n[p] + ring[s].offered[p] + ring[s].dropped[p] > 0
                             => ring[s].index = BucketOf(p)
        BY <2>2 DEF SlotHoldsItsBucket
      <4>2. ring[s].index \in {-1, BucketOf(o)}
        BY <2>5 DEF SlowPathClaim
      <4>3. \A p \in Ops : BucketOf(p) # -1
        BY BucketOfNat
      <4>4. QED
        BY <2>2, <4>1, <4>2, <4>3, SlotTypes
    <3>2. sl \in SlotType /\ sl.index = BucketOf(o)
      BY <2>2, SlotTypes
    <3>3. ring' = [ring EXCEPT ![s] = Applied(sl, call[t])]
      BY <2>5 DEF SlowPathClaim
    <3> HIDE DEF sl
    <3>4. QED
      BY <2>1, <3>1, <3>2, <3>3, AppliedHolds
  <2>6. CASE SlowPathSeal(t)
    <3> DEFINE sl == [FreeSlot EXCEPT !.index = BucketOf(o)]
    <3>1. \A p \in Ops : sl.n[p] + sl.offered[p] + sl.dropped[p] = 0
      BY <2>2, SlotTypes DEF Nothing
    <3>2. sl \in SlotType /\ sl.index = BucketOf(o)
      BY <2>2, SlotTypes
    <3>3. ring' = [ring EXCEPT ![s] = Applied(sl, call[t])]
      BY <2>6 DEF SlowPathSeal
    <3> HIDE DEF sl
    <3>4. \A p \in Ops : sl.n[p] + sl.offered[p] + sl.dropped[p] > 0
                           => BucketOf(p) = sl.index
      BY <3>1
    <3>5. QED
      BY <2>1, <3>2, <3>3, <3>4, AppliedHolds
  <2>7. QED
    BY <1>2, <2>3, <2>4, <2>5, <2>6 DEF FastPath
<1>3. CASE SweepSeal \/ FinishSlot
  BY <1>1, <1>3, FreedHolds DEF SweepSeal, FinishSlot
<1>4. QED
  BY <1>1, <1>2, <1>3, ThreadsDistinct
  DEF Next, vars, GeneratorStep, WorkerStep, SweeperStep, EngineStep, Offer, Dispatch, Drop,
      StopArrivals, Take, Complete, Over, SweepTick, SweepPeek, SweepOver, EncodeSketches,
      SweeperStop, FinishBegin, FinishEnd, Tick, CollectorStep, NoteStore, RecordEnter,
      CounterEnter, CounterCheck, SlowPathGone, LateTally, LateLabel, LateRunner

\* Whatever a slot has counted was intended in the bucket the slot is named for,
\* so a seal never charges one bucket with the outcomes, arrivals or drops of
\* another (collector.go, Record, counterSlot and sealSlotLocked reuse the ring).
THEOREM SlotHoldsItsBucketAlways == Spec => []SlotHoldsItsBucket
<1>1. Init => SlotHoldsItsBucket
  BY SlotTypes DEF Init, SlotHoldsItsBucket, Nothing
<1>2. TypeInv /\ SlotHoldsItsBucket /\ [Next]_vars => SlotHoldsItsBucket'
  BY HoldsStep
<1>3. QED
  BY <1>1, <1>2, TypeInvInvariant, PTL DEF Spec

-----------------------------------------------------------------------------
\* The call for o has added it to its label's total and not yet to the run's:
\* recordLate takes the two locks one after the other.
InLateRunner(o) == \E t \in Callers : pc[t] = "lateRunner" /\ call[t].op = o

\* What the ring and the totals hold of one operation.
Counted(o) ==
  /\ status[o] # "filed" => Open(o) = 0
  /\ Open(o) \in {0, 1}
  /\ Measured(o) => wholeRunner[o] + Open(o) = IF status[o] = "filed" THEN 1 ELSE 0
  /\ ~Measured(o) => wholeRunner[o] = 0
  /\ wholeLabels[o] = wholeRunner[o] + IF InLateRunner(o) THEN 1 ELSE 0

\* The inductive strengthening of CountedExactlyOnce and LabelsAddUp.
CountInv == SlotHoldsItsBucket /\ \A o \in Ops : Counted(o)

\* The readings of the ring and of the totals that the steps below use.
LEMMA BagsAreFunctions ==
  ASSUME TypeInv, NEW o \in Ops
  PROVE  /\ wholeRunner[o] \in Nat /\ wholeLabels[o] \in Nat
         /\ SlotOf(o) \in Slots /\ Open(o) \in Nat
         /\ \A s \in Slots : ring[s] \in SlotType /\ ring[s].n[o] \in Nat
<1>1. \A s \in Slots : ring[s] \in SlotType /\ ring[s].n \in Bag
  BY DEF TypeInv, RingOK, SlotType
<1>2. \A s \in Slots : ring[s].n[o] \in Nat
  BY <1>1 DEF Bag
<1>3. QED
  BY <1>1, <1>2, SlotOfSlots DEF TypeInv, SealedOK, Bag, Open

\* What sealing slot s adds to the totals for o.
Moved(s, o) == IF Measured(o) /\ SlotOf(o) = s THEN ring[s].n[o] ELSE 0

\* Sealing a slot adds to the totals exactly what the slot held.
LEMMA SealMoves ==
  ASSUME TypeInv, SlotHoldsItsBucket, NEW s \in Slots, ring[s].index >= 0, SealSlotLocked(s),
         NEW o \in Ops
  PROVE  /\ wholeRunner'[o] = wholeRunner[o] + Moved(s, o)
         /\ wholeLabels'[o] = wholeLabels[o] + Moved(s, o)
         /\ SlotOf(o) # s => ring[s].n[o] = 0
<1> DEFINE b == ring[s]
<1>1. b \in SlotType /\ b.n \in Bag /\ b.offered \in Bag /\ b.dropped \in Bag
  BY DEF TypeInv, RingOK, SlotType
<1>2. b.n[o] > 0 => b.index = BucketOf(o)
  <2>1. b.n[o] \in Nat /\ b.offered[o] \in Nat /\ b.dropped[o] \in Nat
    BY <1>1 DEF Bag
  <2>2. b.n[o] + b.offered[o] + b.dropped[o] > 0 => b.index = BucketOf(o)
    BY DEF SlotHoldsItsBucket
  <2>3. QED
    BY <2>1, <2>2
<1>3. b.n[o] > 0 => SlotOf(o) = s
  <2>1. b.index # -1 => b.index % RingSize = s
    BY DEF TypeInv, RingOK
  <2>2. QED
    BY <1>2, <2>1, BucketOfNat DEF SlotOf
<1>4. b.n[o] \in Nat /\ wholeRunner[o] \in Nat /\ wholeLabels[o] \in Nat
  BY BagsAreFunctions
<1>5. /\ wholeRunner'[o] = wholeRunner[o] + (IF b.index < WarmupBuckets THEN 0 ELSE b.n[o])
      /\ wholeLabels'[o] = wholeLabels[o] + (IF b.index < WarmupBuckets THEN 0 ELSE b.n[o])
  BY <1>4 DEF SealSlotLocked, Merge
<1>6. b.n[o] > 0 => (Measured(o) <=> ~(b.index < WarmupBuckets))
  BY <1>2, BucketOfNat, WarmupBucketsNat DEF Measured
<1>7. CASE b.n[o] = 0
  BY <1>3, <1>4, <1>5, <1>7 DEF Moved
<1>8. CASE b.n[o] > 0
  BY <1>3, <1>4, <1>5, <1>6, <1>8 DEF Moved
<1>9. QED
  BY <1>4, <1>7, <1>8

\* Whether an operation is measured, and its slot, never change.
LEMMA MeasuredConstant ==
  \A o \in Ops : Measured(o)' = Measured(o) /\ SlotOf(o)' = SlotOf(o)
  BY DEF Measured, SlotOf, BucketOf, BucketIndexOf

\* What a returning call does to the facts about an operation.
LEMMA ReturnFacts ==
  ASSUME TypeInv, NEW t \in Callers, pc[t] \in Inside, Return(t), NEW o \in Ops
  PROVE  /\ call[t].op \in Ops /\ status[call[t].op] # "filed"
         /\ status'[o] = "filed" <=>
              status[o] = "filed" \/ (o = call[t].op /\ call[t].kind = "record")
         /\ InLateRunner(o)' <=> InLateRunner(o) /\ o # call[t].op
<1> DEFINE c == call[t]
<1>1. /\ c \in CallType /\ c.op \in Ops /\ c.kind \in Kinds
      /\ status[c.op] = StatusBefore(c.kind)
  BY DEF TypeInv, CallInv, CallsMatch, ThreadsOK, CallType, Busy
<1>2. status[c.op] # "filed" /\ (StatusAfter(c.kind) = "filed" <=> c.kind = "record")
  BY <1>1 DEF StatusBefore, StatusAfter, Kinds
<1>3. status'[o] = IF o = c.op THEN StatusAfter(c.kind) ELSE status[o]
  BY <1>1 DEF TypeInv, CallInv, ThreadsOK, Return
<1>4. /\ pc'[t] = ResumeAt(c.kind) /\ pc'[t] # "lateRunner"
      /\ \A u \in Callers \ {t} : pc'[u] = pc[u] /\ call'[u] = call[u]
  BY <1>1, ThreadsDistinct DEF TypeInv, CallInv, ThreadsOK, Return, ResumeAt, Kinds
<1>5. \A u \in Callers \ {t} : pc[u] = "lateRunner" => call[u].op # c.op
  BY DEF TypeInv, CallInv, OpsDistinct, Busy, Inside
<1>6. InLateRunner(o)' <=> \E u \in Callers : pc'[u] = "lateRunner" /\ call'[u].op = o
  BY DEF InLateRunner
<1>7. InLateRunner(o)' <=> InLateRunner(o) /\ o # c.op
  BY <1>4, <1>5, <1>6 DEF InLateRunner
<1>8. QED
  BY <1>1, <1>2, <1>3, <1>7

\* Filing an outcome in its slot, whether or not another bucket was sealed out of
\* the slot in the same critical section, keeps the count of every operation.
LEMMA FileStep ==
  ASSUME TypeInv, NEW t \in Callers, pc[t] \in Inside \ {"lateRunner"}, Return(t),
         NEW sl \in SlotType,
         ring' = [ring EXCEPT ![SlotOf(call[t].op)] = Applied(sl, call[t])],
         NEW o \in Ops, Counted(o),
         wholeRunner'[o] \in Nat, wholeLabels'[o] \in Nat,
         wholeLabels'[o] + wholeRunner[o] = wholeLabels[o] + wholeRunner'[o],
         ~Measured(o) => wholeRunner'[o] = wholeRunner[o],
         SlotOf(o) # SlotOf(call[t].op) => wholeRunner'[o] = wholeRunner[o],
         SlotOf(o) = SlotOf(call[t].op) =>
           /\ sl.n[o] \in {0, Open(o)}
           /\ Measured(o) => wholeRunner'[o] + sl.n[o] = wholeRunner[o] + Open(o)
  PROVE  Counted(o)'
<1> DEFINE c == call[t]
           s == SlotOf(c.op)
           new == Applied(sl, c)
           here == IF SlotOf(o) = s THEN sl.n[o] ELSE Open(o)
<1>1. /\ c.op \in Ops /\ status[c.op] # "filed"
      /\ status'[o] = "filed" <=> status[o] = "filed" \/ (o = c.op /\ c.kind = "record")
      /\ InLateRunner(o)' <=> InLateRunner(o) /\ o # c.op
  BY ReturnFacts
<1>2. /\ wholeRunner[o] \in Nat /\ wholeLabels[o] \in Nat /\ Open(o) \in Nat /\ s \in Slots
      /\ sl.n \in Bag /\ sl.n[o] \in Nat /\ c \in CallType
  BY <1>1, BagsAreFunctions, SlotOfSlots DEF SlotType, Bag, TypeInv, CallInv, ThreadsOK
<1>3. new.n = IF c.kind = "record" THEN Count(sl.n, c.op) ELSE sl.n
  BY <1>1, <1>2, SlotTypes
<1>4. Open(o)' = ring'[SlotOf(o)].n[o]
  BY MeasuredConstant DEF Open
<1>5. ring'[SlotOf(o)] = IF SlotOf(o) = s THEN new ELSE ring[SlotOf(o)]
  BY <1>2, SlotOfSlots DEF TypeInv, RingOK
<1>6. Open(o)' = here + IF o = c.op /\ c.kind = "record" THEN 1 ELSE 0
  <2>1. CASE SlotOf(o) = s
    BY <1>1, <1>2, <1>3, <1>4, <1>5, <2>1, BagOps
  <2>2. CASE SlotOf(o) # s
    BY <1>2, <1>4, <1>5, <2>2 DEF Open
  <2>3. QED
    BY <2>1, <2>2
<1>7. o = c.op => ~InLateRunner(o)
  <2>1. pc[t] # "lateRunner" /\ Busy(t)
    BY DEF Busy
  <2>2. QED
    BY <2>1 DEF InLateRunner, TypeInv, CallInv, OpsDistinct, Busy, Inside
<1> HIDE DEF new
<1>8. /\ status[o] # "filed" => Open(o) = 0
      /\ Open(o) \in {0, 1} /\ here \in {0, Open(o)} /\ here \in Nat
      /\ Measured(o) => wholeRunner[o] + Open(o) = IF status[o] = "filed" THEN 1 ELSE 0
      /\ Measured(o) => wholeRunner'[o] + here = wholeRunner[o] + Open(o)
      /\ ~Measured(o) => wholeRunner'[o] = 0
  BY <1>2 DEF Counted
<1> HIDE DEF here
<1>9. wholeLabels'[o] = wholeRunner'[o] + IF InLateRunner(o)' THEN 1 ELSE 0
  <2>1. InLateRunner(o)' <=> InLateRunner(o)
    BY <1>1, <1>7
  <2> DEFINE half == IF InLateRunner(o) THEN 1 ELSE 0
  <2>2. /\ wholeLabels[o] = wholeRunner[o] + half
        /\ half \in Nat /\ wholeRunner[o] \in Nat
    BY BagsAreFunctions DEF Counted
  <2>3. half = IF InLateRunner(o)' THEN 1 ELSE 0
    BY <2>1
  <2> HIDE DEF half
  <2>4. wholeLabels'[o] = wholeRunner'[o] + half
    BY <2>2
  <2>5. QED
    BY <2>3, <2>4, Zenon
<1>10. /\ status'[o] # "filed" => Open(o)' = 0
       /\ Open(o)' \in {0, 1}
  BY <1>1, <1>6, <1>8
<1>11. Measured(o) => wholeRunner'[o] + Open(o)' = IF status'[o] = "filed" THEN 1 ELSE 0
  BY <1>1, <1>6, <1>8
<1>12. QED
  BY <1>8, <1>9, <1>10, <1>11, MeasuredConstant DEF Counted

\* A step that leaves what concerns an operation alone keeps its count.
LEMMA SameStep ==
  ASSUME NEW o \in Ops, Counted(o),
         status'[o] = "filed" <=> status[o] = "filed",
         ring'[SlotOf(o)].n[o] = Open(o),
         wholeRunner'[o] = wholeRunner[o], wholeLabels'[o] = wholeLabels[o],
         InLateRunner(o)' <=> InLateRunner(o)
  PROVE  Counted(o)'
<1>1. Open(o)' = Open(o)
  BY MeasuredConstant DEF Open
<1>2. QED
  BY <1>1, MeasuredConstant DEF Counted

\* A caller that only moves on, to a place that is not lateRunner.
LEMMA MovesOn ==
  ASSUME TypeInv, NEW t \in Callers, pc[t] # "lateRunner", NEW x, x # "lateRunner",
         pc' = [pc EXCEPT ![t] = x],
         \A u \in Callers \ {t} : call'[u] = call[u],
         NEW o \in Ops
  PROVE  InLateRunner(o)' <=> InLateRunner(o)
<1>1. /\ pc'[t] = x /\ \A u \in Callers \ {t} : pc'[u] = pc[u]
  BY ThreadsDistinct DEF TypeInv, CallInv, ThreadsOK
<1>2. InLateRunner(o)' <=> \E u \in Callers : pc'[u] = "lateRunner" /\ call'[u].op = o
  BY DEF InLateRunner
<1>3. QED
  BY <1>1, <1>2 DEF InLateRunner

\* The fast and the slow path of Record and of the counters.
LEMMA FilingStep ==
  ASSUME TypeInv, CountInv, NEW t \in Callers,
         FastPath(t) \/ SlowPathClaim(t) \/ SlowPathSeal(t), NEW o \in Ops
  PROVE  Counted(o)'
<1> DEFINE c == call[t]
           s == SlotOf(c.op)
<1>1. /\ pc[t] \in {"fast", "slow"} /\ c.op \in Ops /\ s \in Slots
      /\ ring[s] \in SlotType /\ BucketOf(c.op) \in BucketIdx /\ BucketOf(c.op) \in Nat
  BY SlotOfSlots, BucketOfNat, BagsAreFunctions
  DEF FastPath, SlowPathClaim, SlowPathSeal, TypeInv, CallInv, CallsMatch, Busy, Inside
<1>2. /\ wholeRunner[o] \in Nat /\ wholeLabels[o] \in Nat /\ Open(o) \in Nat
      /\ SlotOf(o) \in Slots /\ Counted(o)
  BY BagsAreFunctions DEF CountInv
<1>3. CASE /\ Return(t) /\ ring' = [ring EXCEPT ![s] = Applied(ring[s], c)]
           /\ UNCHANGED sealedVars
  BY <1>1, <1>2, <1>3, FileStep DEF sealedVars, Inside, Open
<1>4. CASE FastPath(t) /\ ring[s].index # BucketOf(c.op)
  <2>1. pc' = [pc EXCEPT ![t] = "slow"] /\ UNCHANGED <<status, call, ring, sealedVars>>
    BY <1>4 DEF FastPath
  <2>2. QED
    BY <1>1, <1>2, <2>1, MovesOn, SameStep DEF sealedVars, Open
<1>5. CASE SlowPathClaim(t)
  <2> DEFINE sl == [ring[s] EXCEPT !.index = BucketOf(c.op)]
  <2>1. sl \in SlotType /\ sl.n = ring[s].n
    BY <1>1, SlotTypes
  <2>2. /\ Return(t) /\ ring' = [ring EXCEPT ![s] = Applied(sl, c)] /\ UNCHANGED sealedVars
    BY <1>5 DEF SlowPathClaim
  <2> HIDE DEF sl
  <2>3. QED
    BY <1>1, <1>2, <2>1, <2>2, FileStep DEF sealedVars, Inside, Open
<1>6. CASE SlowPathSeal(t)
  <2> DEFINE sl == [FreeSlot EXCEPT !.index = BucketOf(c.op)]
  <2>1. sl \in SlotType /\ sl.n[o] = 0
    BY <1>1, SlotTypes DEF Nothing
  <2>2. /\ Return(t) /\ ring' = [ring EXCEPT ![s] = Applied(sl, c)]
        /\ SealSlotLocked(s) /\ ring[s].index # -1
    BY <1>6 DEF SlowPathSeal
  <2>3. ring[s].index >= 0
    BY <1>1, <2>2, BucketIdxNat DEF SlotType
  <2>4. /\ wholeRunner'[o] = wholeRunner[o] + Moved(s, o)
        /\ wholeLabels'[o] = wholeLabels[o] + Moved(s, o)
    BY <1>1, <2>2, <2>3, SealMoves DEF CountInv
  <2>5. Moved(s, o) = IF Measured(o) /\ SlotOf(o) = s THEN Open(o) ELSE 0
    BY DEF Moved, Open
  <2> HIDE DEF sl
  <2>6. /\ wholeRunner'[o] \in Nat /\ wholeLabels'[o] \in Nat
        /\ wholeLabels'[o] + wholeRunner[o] = wholeLabels[o] + wholeRunner'[o]
        /\ ~Measured(o) => wholeRunner'[o] = wholeRunner[o]
        /\ SlotOf(o) # s => wholeRunner'[o] = wholeRunner[o]
        /\ SlotOf(o) = s => /\ sl.n[o] \in {0, Open(o)}
                            /\ Measured(o) => wholeRunner'[o] + sl.n[o] = wholeRunner[o] + Open(o)
    BY <1>2, <2>1, <2>4, <2>5
  <2>7. QED
    BY <1>1, <1>2, <2>1, <2>2, <2>6, FileStep DEF Inside
<1>7. QED
  BY <1>1, <1>3, <1>4, <1>5, <1>6 DEF FastPath

\* The three critical sections of recordLate.
LEMMA LateStep ==
  ASSUME TypeInv, CountInv, NEW t \in Callers,
         LateTally(t) \/ LateLabel(t) \/ LateRunner(t), NEW o \in Ops
  PROVE  Counted(o)'
<1> DEFINE c == call[t]
<1>1. /\ pc[t] \in {"late", "lateLabel", "lateRunner"} /\ c.op \in Ops /\ c.kind = "record"
      /\ pc[t] # "late" => Measured(c.op)
      /\ UNCHANGED ring
  <2>1. pc[t] \in {"late", "lateLabel", "lateRunner"} /\ UNCHANGED ring
    BY DEF LateTally, LateLabel, LateRunner
  <2>2. CallsMatch!(t)
    BY DEF TypeInv, CallInv, CallsMatch
  <2>3. QED
    BY <2>1, <2>2 DEF Busy, Inside
<1>2. /\ wholeRunner[o] \in Nat /\ wholeLabels[o] \in Nat /\ Open(o) \in Nat
      /\ SlotOf(o) \in Slots /\ Counted(o) /\ ring'[SlotOf(o)].n[o] = Open(o)
      /\ Open(o)' = Open(o) /\ wholeRunner \in Bag /\ wholeLabels \in Bag
  <2>1. /\ wholeRunner[o] \in Nat /\ wholeLabels[o] \in Nat /\ Open(o) \in Nat
        /\ SlotOf(o) \in Slots
    BY BagsAreFunctions
  <2>2. Open(o)' = ring'[SlotOf(o)].n[o]
    BY MeasuredConstant DEF Open
  <2>3. ring'[SlotOf(o)].n[o] = Open(o)
    BY <1>1 DEF Open
  <2>4. Counted(o) /\ wholeRunner \in Bag /\ wholeLabels \in Bag
    BY DEF CountInv, TypeInv, SealedOK
  <2>5. QED
    BY <2>1, <2>2, <2>3, <2>4
<1>3. \A u \in Callers \ {t} : Busy(u) => call[u].op # c.op
  BY <1>1 DEF TypeInv, CallInv, OpsDistinct, Busy, Inside
<1>4. CASE LateTally(t) /\ ~Return(t)
  <2>1. pc' = [pc EXCEPT ![t] = "lateLabel"] /\ UNCHANGED <<status, call, sealedVars>>
    BY <1>4 DEF LateTally
  <2>2. pc[t] # "lateRunner"
    BY <1>4 DEF LateTally
  <2>3. QED
    BY <1>2, <2>1, <2>2, MovesOn, SameStep DEF sealedVars
<1>5. CASE LateTally(t) /\ Return(t)
  <2>1. /\ UNCHANGED sealedVars /\ pc[t] \in Inside /\ pc[t] # "lateRunner" /\ Busy(t)
    BY <1>5 DEF LateTally, Inside, Busy
  <2>2. CASE o # c.op
    BY <1>2, <1>5, <2>1, <2>2, ReturnFacts, SameStep DEF sealedVars
  <2>3. CASE o = c.op
    <3>1. ~Measured(o)
      <4>1. pc'[t] # "lateLabel"
        BY <1>1, <1>5, ThreadsDistinct DEF Return, ResumeAt, TypeInv, CallInv, ThreadsOK
      <4>2. QED
        BY <1>5, <2>3, <4>1, ThreadsDistinct DEF LateTally, TypeInv, CallInv, ThreadsOK
    <3>2. status'[o] = "filed" /\ ~InLateRunner(o)' /\ status[o] # "filed"
      BY <1>1, <1>5, <2>1, <2>3, ReturnFacts
    <3>3. ~InLateRunner(o)
      BY <1>3, <2>1, <2>3 DEF InLateRunner, Busy, Inside
    <3>4. QED
      BY <1>2, <2>1, <3>1, <3>2, <3>3, MeasuredConstant DEF Counted, sealedVars
  <2>4. QED
    BY <2>2, <2>3
<1>6. CASE LateLabel(t)
  <2>1. /\ pc' = [pc EXCEPT ![t] = "lateRunner"] /\ pc[t] = "lateLabel"
        /\ UNCHANGED <<status, call, wholeRunner>>
        /\ wholeLabels'[o] = IF o = c.op THEN wholeLabels[o] + 1 ELSE wholeLabels[o]
    BY <1>1, <1>2, <1>6, BagOps DEF LateLabel
  <2>2. pc'[t] = "lateRunner" /\ \A u \in Callers \ {t} : pc'[u] = pc[u]
    BY <2>1, ThreadsDistinct DEF TypeInv, CallInv, ThreadsOK
  <2>3. InLateRunner(o)' <=> \E u \in Callers : pc'[u] = "lateRunner" /\ call[u].op = o
    BY <2>1 DEF InLateRunner
  <2>4. o = c.op => InLateRunner(o)' /\ ~InLateRunner(o)
    BY <1>3, <2>1, <2>2, <2>3 DEF InLateRunner, Busy, Inside
  <2>5. o # c.op => (InLateRunner(o)' <=> InLateRunner(o))
    BY <2>1, <2>2, <2>3 DEF InLateRunner
  <2>6. CASE o = c.op
    BY <1>2, <2>1, <2>4, <2>6, MeasuredConstant DEF Counted
  <2>7. CASE o # c.op
    BY <1>2, <2>1, <2>5, <2>7, SameStep
  <2>8. QED
    BY <2>6, <2>7
<1>7. CASE LateRunner(t)
  <2>1. /\ pc[t] = "lateRunner" /\ pc[t] \in Inside /\ Return(t)
        /\ UNCHANGED wholeLabels /\ Measured(c.op)
        /\ wholeRunner'[o] = IF o = c.op THEN wholeRunner[o] + 1 ELSE wholeRunner[o]
    BY <1>1, <1>2, <1>7, BagOps DEF LateRunner, Inside
  <2>2. CASE o # c.op
    BY <1>2, <2>1, <2>2, ReturnFacts, SameStep
  <2>3. CASE o = c.op
    <3>1. status'[o] = "filed" /\ ~InLateRunner(o)' /\ status[o] # "filed"
      BY <1>1, <2>1, <2>3, ReturnFacts
    <3>2. InLateRunner(o)
      BY <2>1, <2>3 DEF InLateRunner
    <3>3. QED
      BY <1>2, <2>1, <2>3, <3>1, <3>2, MeasuredConstant DEF Counted
  <2>4. QED
    BY <2>2, <2>3
<1>8. QED
  BY <1>4, <1>5, <1>6, <1>7

\* The steps of a call that file nothing.
LEMMA PassingStep ==
  ASSUME TypeInv, CountInv, NEW t \in Callers,
         \/ NoteStore(t) \/ RecordEnter(t) \/ CounterEnter(t)
         \/ CounterCheck(t) \/ SlowPathGone(t),
         NEW o \in Ops
  PROVE  Counted(o)'
<1>1. /\ pc[t] \in {"noteStore", "enter", "check", "slow"} /\ pc[t] \in Inside
      /\ UNCHANGED <<ring, sealedVars>>
  BY DEF NoteStore, RecordEnter, CounterEnter, CounterCheck, SlowPathGone, Inside
<1>2. Counted(o) /\ ring'[SlotOf(o)].n[o] = Open(o)
  BY <1>1 DEF CountInv, Open
<1>3. CASE Return(t) /\ call[t].kind # "record"
  <2>1. o = call[t].op => ~InLateRunner(o)
    BY <1>1 DEF InLateRunner, TypeInv, CallInv, OpsDistinct, Busy, Inside
  <2>2. QED
    BY <1>1, <1>2, <1>3, <2>1, ReturnFacts, SameStep DEF sealedVars
<1>4. CASE /\ \E x \in Inside \ {"lateRunner"} : pc' = [pc EXCEPT ![t] = x]
           /\ UNCHANGED status
           /\ \A u \in Callers \ {t} : call'[u] = call[u]
  BY <1>1, <1>2, <1>4, MovesOn, SameStep DEF sealedVars
<1>5. CASE NoteStore(t)
  <2>1. call[t].dest \in Inside \ {"lateRunner"}
    BY <1>5 DEF NoteStore, TypeInv, CallInv, CallsMatch, Inside
  <2>2. QED
    BY <1>4, <1>5, <2>1 DEF NoteStore
<1>6. CASE RecordEnter(t) \/ CounterEnter(t)
  <2>1. PICK dest \in Inside \ {"lateRunner"} : NoteBucket(t, dest) /\ UNCHANGED status
    BY <1>6 DEF RecordEnter, CounterEnter, Inside
  <2>2. \A u \in Callers \ {t} : call'[u] = call[u]
    BY <2>1 DEF NoteBucket, TypeInv, CallInv, ThreadsOK
  <2>3. QED
    BY <1>4, <2>1, <2>2 DEF NoteBucket, Inside
<1>7. CASE CounterCheck(t)
  <2>1. call[t].kind # "record"
    BY <1>7 DEF CounterCheck, TypeInv, CallInv, CallsMatch
  <2>2. QED
    BY <1>3, <1>4, <1>7, <2>1 DEF CounterCheck, Inside
<1>8. CASE SlowPathGone(t)
  BY <1>3, <1>4, <1>8 DEF SlowPathGone, Inside
<1>9. QED
  BY <1>5, <1>6, <1>7, <1>8

\* The executor's own steps.
LEMMA DrivingStep ==
  ASSUME TypeInv, CountInv, NEW o \in Ops,
         \/ Offer \/ Dispatch \/ Drop \/ StopArrivals
         \/ \E w \in Workers : Take(w) \/ Complete(w)
  PROVE  Counted(o)'
<1>1. /\ UNCHANGED <<ring, sealedVars>>
      /\ \E t \in Callers :
           /\ pc[t] # "lateRunner"
           /\ \E x \in {"enter", "idle", "stopped"} : pc' = [pc EXCEPT ![t] = x]
           /\ \A u \in Callers \ {t} : call'[u] = call[u]
  BY ThreadsDistinct
  DEF Offer, Dispatch, Drop, StopArrivals, Take, Complete, Begin, TypeInv, CallInv, ThreadsOK
<1>2. status'[o] = "filed" <=> status[o] = "filed"
  <2>1. CASE UNCHANGED status
    BY <2>1
  <2>2. CASE Dispatch
    <3>1. LET g == call[Generator].op IN
          g \in Ops /\ status[g] = "offered" /\ status' = [status EXCEPT ![g] = "queued"]
      BY <2>2, ThreadsDistinct DEF Dispatch, TypeInv, CallInv, CallsMatch, Busy
    <3>2. QED
      BY <3>1 DEF TypeInv, CallInv, ThreadsOK
  <2>3. CASE \E w \in Workers : Take(w)
    <3>1. \E p \in Ops : status[p] = "queued" /\ status' = [status EXCEPT ![p] = "taken"]
      BY <2>3 DEF Take, IsFirst, InStatus
    <3>2. QED
      BY <3>1 DEF TypeInv, CallInv, ThreadsOK
  <2>4. QED
    BY <2>1, <2>2, <2>3 DEF Offer, Drop, StopArrivals, Complete
<1>3. InLateRunner(o)' <=> InLateRunner(o)
  BY <1>1, MovesOn
<1>4. QED
  BY <1>1, <1>2, <1>3, SameStep DEF CountInv, Open, sealedVars

\* The sweeper and Finish seal slots.
LEMMA SealingStep ==
  ASSUME TypeInv, CountInv, NEW o \in Ops, SweepSeal \/ FinishSlot
  PROVE  Counted(o)'
<1>1. InLateRunner(o)' <=> InLateRunner(o)
  BY ThreadsDistinct
  DEF SweepSeal, FinishSlot, InLateRunner, TypeInv, CallInv, ThreadsOK
<1>2. /\ wholeRunner[o] \in Nat /\ wholeLabels[o] \in Nat /\ Open(o) \in Nat
      /\ SlotOf(o) \in Slots /\ Counted(o)
  BY BagsAreFunctions DEF CountInv
<1>3. UNCHANGED status
  BY DEF SweepSeal, FinishSlot
<1>4. CASE UNCHANGED <<ring, sealedVars>>
  BY <1>1, <1>2, <1>3, <1>4, SameStep DEF Open, sealedVars
<1>5. CASE /\ cursor \in Slots /\ ring[cursor].index >= 0 /\ SealSlotLocked(cursor)
           /\ ring' = [ring EXCEPT ![cursor] = FreeSlot]
  <2>1. /\ wholeRunner'[o] = wholeRunner[o] + Moved(cursor, o)
        /\ wholeLabels'[o] = wholeLabels[o] + Moved(cursor, o)
    BY <1>5, SealMoves DEF CountInv
  <2>2. Moved(cursor, o) = IF Measured(o) /\ SlotOf(o) = cursor THEN Open(o) ELSE 0
    BY DEF Moved, Open
  <2>3. Open(o)' = IF SlotOf(o) = cursor THEN 0 ELSE Open(o)
    <3>1. Open(o)' = ring'[SlotOf(o)].n[o]
      BY MeasuredConstant DEF Open
    <3>2. ring'[SlotOf(o)] = IF SlotOf(o) = cursor THEN FreeSlot ELSE ring[SlotOf(o)]
      BY <1>2, <1>5 DEF TypeInv, RingOK
    <3>3. QED
      BY <3>1, <3>2, SlotTypes DEF Nothing, Open
  <2>4. QED
    BY <1>1, <1>2, <1>3, <2>1, <2>2, <2>3, MeasuredConstant DEF Counted
<1>6. QED
  BY <1>4, <1>5 DEF SweepSeal, FinishSlot, SealDue

\* CountInv is inductive relative to TypeInv.
LEMMA CountInvStep == TypeInv /\ CountInv /\ [Next]_vars => CountInv'
<1> SUFFICES ASSUME TypeInv, CountInv, [Next]_vars, NEW o \in Ops
             PROVE  Counted(o)'
  BY HoldsStep DEF CountInv
<1>1. ASSUME NEW t \in Callers, CollectorStep(t) PROVE Counted(o)'
  BY <1>1, PassingStep, FilingStep, LateStep DEF CollectorStep
<1>2. CASE \/ Offer \/ Dispatch \/ Drop \/ StopArrivals
           \/ \E w \in Workers : Take(w) \/ Complete(w)
  BY <1>2, DrivingStep
<1>3. CASE SweepSeal \/ FinishSlot
  BY <1>3, SealingStep
<1>4. CASE /\ UNCHANGED <<status, call, ring, sealedVars>>
           /\ \A t \in Callers : pc'[t] = pc[t]
  <2>1. InLateRunner(o)' <=> InLateRunner(o)
    BY <1>4 DEF InLateRunner
  <2>2. QED
    BY <1>4, <2>1, SameStep DEF CountInv, Open, sealedVars
<1>5. CASE \/ SweepTick \/ SweepPeek \/ SweepOver \/ EncodeSketches \/ SweeperStop
           \/ FinishBegin \/ FinishEnd \/ Tick \/ Over \/ UNCHANGED vars
  <2>1. UNCHANGED <<status, call, ring, sealedVars>>
    BY <1>5 DEF SweepTick, SweepPeek, SweepOver, EncodeSketches, SweeperStop, FinishBegin,
                FinishEnd, Tick, Over, vars
  <2>2. \A t \in Callers : pc'[t] = pc[t]
    BY <1>5, ThreadsDistinct
    DEF SweepTick, SweepPeek, SweepOver, EncodeSketches, SweeperStop, FinishBegin,
        FinishEnd, Tick, Over, vars, TypeInv, CallInv, ThreadsOK
  <2>3. QED
    BY <1>4, <2>1, <2>2
<1>6. QED
  BY <1>1, <1>2, <1>3, <1>5, ThreadsDistinct
  DEF Next, GeneratorStep, WorkerStep, SweeperStep, EngineStep

\* CountInv holds throughout every run.
LEMMA CountInvInvariant == Spec => [](TypeInv /\ CountInv)
<1>1. Init => CountInv
  <2> SUFFICES ASSUME Init PROVE CountInv
    OBVIOUS
  <2>1. SlotHoldsItsBucket
    BY SlotTypes DEF Init, SlotHoldsItsBucket, Nothing, FreeSlot
  <2>2. ASSUME NEW o \in Ops PROVE Counted(o)
    <3>1. /\ status[o] = "scheduled" /\ wholeRunner[o] = 0 /\ wholeLabels[o] = 0
          /\ ~InLateRunner(o)
      BY <2>2, ThreadsDistinct DEF Init, Nothing, InLateRunner
    <3>2. Open(o) = 0
      BY <2>2, SlotOfSlots, SlotTypes DEF Init, Open, Nothing
    <3>3. QED
      BY <3>1, <3>2 DEF Counted
  <2>3. QED
    BY <2>1, <2>2 DEF CountInv
<1>2. QED
  BY <1>1, CountInvStep, TypeInvInvariant, PTL DEF Spec

\* However calls to Record, the sweeper and Finish interleave, an outcome Record
\* has filed is counted once: in an open bucket or in the run's totals, never in
\* both, never twice, and a warm-up outcome never reaches the totals.
THEOREM CountedExactlyOnceAlways == Spec => []CountedExactlyOnce
<1>1. TypeInv /\ CountInv => CountedExactlyOnce
  <2> SUFFICES ASSUME TypeInv, CountInv, NEW o \in Ops
               PROVE  CountedExactlyOnce!(o)
    BY DEF CountedExactlyOnce
  <2>1. Counted(o) /\ wholeRunner[o] \in Nat
    BY BagsAreFunctions DEF CountInv
  <2>2. ~Measured(o) => ~InLateRunner(o)
    BY DEF InLateRunner, TypeInv, CallInv, CallsMatch
  <2>3. QED
    BY <2>1, <2>2 DEF Counted
<1>2. QED
  BY <1>1, CountInvInvariant, PTL

\* Once the executor has returned, the totals of the labels add up to the run's:
\* the two additions of recordLate and sealSlotLocked end up the same.
THEOREM LabelsAddUpAlways == Spec => []LabelsAddUp
<1>1. TypeInv /\ CountInv => LabelsAddUp
  <2> SUFFICES ASSUME TypeInv, CountInv, ExecutorDone
               PROVE  wholeLabels = wholeRunner
    BY DEF LabelsAddUp
  <2>1. \A o \in Ops : ~InLateRunner(o)
    BY DEF InLateRunner, ExecutorDone, Callers
  <2>2. \A o \in Ops : wholeLabels[o] = wholeRunner[o]
    BY <2>1, BagsAreFunctions DEF CountInv, Counted
  <2>3. QED
    BY <2>2 DEF TypeInv, SealedOK, Bag
<1>2. QED
  BY <1>1, CountInvInvariant, PTL

\* b times a quotient is within b of what was divided.
LEMMA DivBounds ==
  ASSUME NEW a \in Nat, NEW b \in Nat \ {0}
  PROVE  b * (a \div b) <= a /\ a < b * (a \div b) + b
  OBVIOUS

\* Multiplication by a natural is monotone.
LEMMA TimesMonotone ==
  ASSUME NEW b \in Nat \ {0}, NEW p \in Nat, NEW q \in Nat, q <= p
  PROVE  b * q <= b * p
<1>1. PICK d \in Nat : p = q + d
  <2>1. p - q \in Nat /\ p = q + (p - q)
    OBVIOUS
  <2>2. QED
    BY <2>1
<1>2. b * p = b * q + b * d /\ b * d \in Nat /\ b * q \in Nat
  BY <1>1
<1>3. QED
  BY <1>2

\* A measured bucket lies wholly after the warm-up, because NewCollector rounds
\* the warm-up up to whole buckets.
LEMMA MeasuredAfterWarmup ==
  ASSUME NEW o \in Ops, Measured(o)
  PROVE  Schedule[o] >= Warmup
<1> DEFINE b == BucketWidth
           w == Warmup + b - 1
<1>1. /\ Schedule[o] \in Nat /\ w \in Nat /\ Warmup \in Nat /\ b \in Nat \ {0}
      /\ w \div b \in Nat /\ BucketOf(o) \in Nat
  BY ScheduleAssumption, ConfigAssumption, WarmupBucketsNat, BucketOfNat
  DEF Ops, WarmupBuckets
<1>2. b * (w \div b) <= b * BucketOf(o)
  BY <1>1, TimesMonotone DEF Measured, WarmupBuckets
<1>3. b * BucketOf(o) <= Schedule[o]
  BY <1>1, DivBounds DEF BucketOf, BucketIndexOf
<1>4. w < b * (w \div b) + b
  BY <1>1, DivBounds
<1> DEFINE x == b * (w \div b)
           y == b * BucketOf(o)
<1>5. x \in Nat /\ y \in Nat
  BY <1>1
<1> HIDE DEF x, y
<1>6. x <= y /\ y <= Schedule[o] /\ w < x + b
  BY <1>2, <1>3, <1>4 DEF x, y
<1>7. QED
  BY <1>1, <1>5, <1>6

\* Nothing intended inside the warm-up ever enters a total of the run, by
\* whichever path it comes and however the warm-up lies across the buckets
\* (NewCollector's rounding, sealSlotLocked, recordLate).
THEOREM WarmupNeverCountedAlways == Spec => []WarmupNeverCounted
<1>1. TypeInv /\ CountInv => WarmupNeverCounted
  <2> SUFFICES ASSUME TypeInv, CountInv, NEW o \in Ops, Schedule[o] < Warmup
               PROVE  wholeRunner[o] = 0 /\ wholeLabels[o] = 0
    BY DEF WarmupNeverCounted
  <2>1. ~Measured(o)
    BY MeasuredAfterWarmup, ScheduleAssumption, ConfigAssumption DEF Ops
  <2>2. ~InLateRunner(o)
    BY <2>1 DEF InLateRunner, TypeInv, CallInv, CallsMatch
  <2>3. QED
    BY <2>1, <2>2, BagsAreFunctions DEF CountInv, Counted
<1>2. QED
  BY <1>1, CountInvInvariant, PTL

-----------------------------------------------------------------------------
(***************************************************************************)
(* When Collector seals: never before the seal delay is over, nothing is   *)
(* tallied as late that is not, the measured window reaches every arrival, *)
(* and Finish leaves no slot behind.                                       *)
(*                                                                         *)
(* Whether a bucket has begun, may be sealed, or an arrival is due are     *)
(* facts that time only ever makes true, so they are named once (Begun,    *)
(* Sealable, Due) and the arithmetic stays in the four lemmas about them;  *)
(* the steps are then argued without numbers.  The layers, each inductive  *)
(* relative to TypeInv and the ones before it:                             *)
(*   QuietInv   Finish runs alone and begins at slot 0;                    *)
(*   FreedInv   an unnamed slot is empty, and so is one Finish has passed; *)
(*   DueInv     nothing is counted before its arrival is due;              *)
(*   SealInv    what is sealed was sealable, and so is sealedAbove;        *)
(*   LateInv    who is on the late path has its own deadline behind it,    *)
(*              and is tallied once;                                       *)
(*   WindowInv  the first caller's pending store cannot undo a mark.       *)
(***************************************************************************)

\* Bucket i has begun.
Begun(i) == i * BucketWidth <= now

\* The seal deadline of bucket i has passed.
Sealable(i) == SealDeadline(i) <= now

\* Arrival o is due.
Due(o) == Schedule[o] <= now

\* The seal deadline of the bucket of o has passed.
OwnSealable(o) == SealDeadline(BucketOf(o)) <= now

\* A due arrival's bucket has begun.
LEMMA DueBegun ==
  ASSUME now \in Nat, NEW o \in Ops, Due(o)
  PROVE  Begun(BucketOf(o))
<1>1. Schedule[o] \in Nat /\ BucketWidth \in Nat \ {0} /\ BucketOf(o) \in Nat
  BY ScheduleAssumption, ConfigAssumption, BucketOfNat DEF Ops
<1>2. BucketWidth * BucketOf(o) <= Schedule[o]
  BY <1>1, DivBounds DEF BucketOf, BucketIndexOf
<1> DEFINE x == BucketWidth * BucketOf(o)
<1>3. x \in Nat /\ BucketOf(o) * BucketWidth = x
  BY <1>1
<1> HIDE DEF x
<1>4. x <= Schedule[o]
  BY <1>2 DEF x
<1>5. x <= now
  BY <1>1, <1>3, <1>4 DEF Due
<1>6. QED
  BY <1>3, <1>5 DEF Begun

\* The deadline of an earlier bucket passes first.
LEMMA EarlierSealable ==
  ASSUME now \in Nat, NEW i \in Nat, NEW j \in Nat, i <= j, Sealable(j)
  PROVE  Sealable(i)
<1> DEFINE x == BucketWidth * (i + 1)
           y == BucketWidth * (j + 1)
<1>1. BucketWidth \in Nat \ {0} /\ SealDelay \in Nat
  BY ConfigAssumption
<1>2. x <= y
  BY <1>1, TimesMonotone
<1>3. x \in Nat /\ y \in Nat /\ SealDeadline(i) = x + SealDelay /\ SealDeadline(j) = y + SealDelay
  BY <1>1 DEF SealDeadline
<1> HIDE DEF x, y
<1>4. QED
  BY <1>1, <1>2, <1>3 DEF Sealable

\* NewCollector's ring is long enough: when a bucket needs the slot of an
\* earlier one, the earlier one's deadline has passed.
LEMMA ReusedSealable ==
  ASSUME now \in Nat, NEW i \in Nat, NEW j \in Nat, i < j, i % RingSize = j % RingSize,
         Begun(j)
  PROVE  Sealable(i)
<1> DEFINE r == RingSize
           w == BucketWidth
           d == SealDelay
<1>1. r \in Nat \ {0} /\ w \in Nat \ {0} /\ d \in Nat /\ d \div w \in Nat
  BY RingSizeNat, ConfigAssumption, DivNat
<1>2. j >= i + r
  <2>1. i = r * (i \div r) + (i % r) /\ j = r * (j \div r) + (j % r)
        /\ i \div r \in Nat /\ j \div r \in Nat /\ i % r \in Nat
    BY <1>1
  <2> DEFINE p == i \div r
             q == j \div r
  <2>2. p < q
    <3>1. CASE q <= p
      <4>1. r * q <= r * p
        BY <1>1, <2>1, <3>1, TimesMonotone
      <4>2. r * q \in Nat /\ r * p \in Nat
        BY <1>1, <2>1
      <4> HIDE DEF p, q, r
      <4>3. j <= i
        BY <2>1, <4>1, <4>2 DEF p, q, r
      <4>4. QED
        BY <4>3
    <3>2. QED
      BY <2>1, <3>1
  <2>3. r * (p + 1) <= r * q
    BY <1>1, <2>1, <2>2, TimesMonotone
  <2>4. r * (p + 1) = r * p + r /\ r * p \in Nat /\ r * q \in Nat
    BY <1>1, <2>1
  <2> HIDE DEF p, q
  <2>5. i = r * p + (i % r) /\ j = r * q + (i % r)
    BY <2>1 DEF p, q
  <2> DEFINE x == r * p
             y == r * q
             m == i % r
  <2>6. x \in Nat /\ y \in Nat /\ m \in Nat /\ x + r <= y /\ i = x + m /\ j = y + m
    BY <2>1, <2>3, <2>4, <2>5
  <2> HIDE DEF x, y, m
  <2>7. QED
    BY <1>1, <2>6
<1>3. w * (d \div w) <= d /\ d < w * (d \div w) + w
  BY <1>1, DivBounds
<1>4. j >= (i + 1) + (d \div w + 1)
  BY <1>1, <1>2 DEF RingSize
<1>5. w * ((i + 1) + (d \div w + 1)) <= w * j
  BY <1>1, <1>4, TimesMonotone
<1> DEFINE a == w * (i + 1)
           b == w * (d \div w)
           c == w * j
<1>6. /\ w * ((i + 1) + (d \div w + 1)) = a + b + w
      /\ a \in Nat /\ b \in Nat /\ c \in Nat
      /\ j * w = c /\ (i + 1) * w = a
  BY <1>1
<1> HIDE DEF a, b, c
<1>7. c <= now /\ a + b + w <= c /\ d < b + w
  BY <1>3, <1>5, <1>6 DEF Begun, b, c
<1>8. a + d <= now
  BY <1>1, <1>6, <1>7
<1>9. QED
  BY <1>6, <1>8 DEF Sealable, SealDeadline

\* The clock does not go back.
LEMMA NowGrows ==
  ASSUME RestOK, [Next]_vars
  PROVE  now' \in Nat /\ now <= now' /\ (~Tick => now' = now)
<1>1. CASE Tick
  BY <1>1 DEF Tick, RestOK
<1>2. CASE UNCHANGED now
  BY <1>2 DEF RestOK
<1>3. QED
  BY <1>1, <1>2
  DEF Next, vars, GeneratorStep, WorkerStep, CollectorStep, SweeperStep, EngineStep,
      NoteStore, RecordEnter, CounterEnter, CounterCheck, FastPath, SlowPathClaim,
      SlowPathSeal, SlowPathGone, LateTally, LateLabel, LateRunner, Offer, Dispatch, Drop,
      StopArrivals, Take, Complete, Over, SweepTick, SweepPeek, SweepSeal, SweepOver,
      EncodeSketches, SweeperStop, FinishBegin, FinishSlot, FinishEnd

\* What time has made true stays true.
LEMMA TimeMoves ==
  ASSUME now \in Nat, now' \in Nat, now <= now'
  PROVE  /\ \A i \in Nat : Begun(i) => Begun(i)'
         /\ \A i \in Nat : Sealable(i) => Sealable(i)'
         /\ \A o \in Ops : Due(o) => Due(o)'
         /\ \A o \in Ops : OwnSealable(o) => OwnSealable(o)'
<1>1. ASSUME NEW x \in Nat, x <= now PROVE x <= now'
  BY <1>1
<1>2. \A i \in Nat : i * BucketWidth \in Nat /\ SealDeadline(i) \in Nat
  BY ConfigAssumption DEF SealDeadline
<1>3. \A o \in Ops : Schedule[o] \in Nat /\ BucketOf(o) \in Nat
  BY ScheduleAssumption, BucketOfNat DEF Ops
<1>4. \A i \in Nat : SealDeadline(i)' = SealDeadline(i)
  BY DEF SealDeadline
<1>5. \A o \in Ops : SealDeadline(BucketOf(o))' = SealDeadline(BucketOf(o))
  BY DEF SealDeadline, BucketOf, BucketIndexOf
<1>6. QED
  BY <1>1, <1>2, <1>3, <1>4, <1>5 DEF Begun, Sealable, Due, OwnSealable

-----------------------------------------------------------------------------
\* A step of the executor's goroutines.
CallerStep == GeneratorStep \/ \E w \in Workers : WorkerStep(w)

\* Where the sweeper and the engine can be, and that Finish runs alone.
QuietInv ==
  /\ pc[Engine] \in {"idle", "finish", "finished"}
  /\ pc[Sweeper] \in {"idle", "peek", "lock", "encode", "stopped"}
  /\ pc[Engine] # "idle" => ExecutorDone /\ pc[Sweeper] = "stopped"
  /\ pc[Engine] = "idle" /\ pc[Sweeper] \notin {"peek", "lock"} => cursor = 0

\* A thread in a call has an operation, and the operation a slot in the ring.
LEMMA InsideFacts ==
  ASSUME TypeInv, NEW t \in Callers, pc[t] \in Inside
  PROVE  /\ call[t] \in CallType /\ call[t].op \in Ops /\ call[t].kind \in Kinds
         /\ SlotOf(call[t].op) \in Slots
         /\ BucketOf(call[t].op) \in Nat /\ BucketOf(call[t].op) \in BucketIdx
         /\ ring[SlotOf(call[t].op)] \in SlotType
         /\ status[call[t].op] = StatusBefore(call[t].kind)
         /\ status[call[t].op] \notin {"queued", "filed"}
         /\ \A u \in Callers \ {t} : Busy(u) => call[u].op # call[t].op
<1>1. /\ call[t] \in CallType /\ call[t].op \in Ops /\ call[t].kind \in Kinds
      /\ status[call[t].op] = StatusBefore(call[t].kind)
      /\ \A u \in Callers \ {t} : Busy(u) => call[u].op # call[t].op
  BY DEF TypeInv, CallInv, ThreadsOK, CallsMatch, OpsDistinct, Busy, CallType
<1>2. QED
  BY <1>1, SlotOfSlots, BucketOfNat DEF TypeInv, RingOK, StatusBefore, Kinds

\* A slot holds no bucket or a proper one, which maps to it.
LEMMA SlotIndex ==
  ASSUME TypeInv, NEW s \in Slots
  PROVE  ring[s].index = -1 \/ (ring[s].index \in Nat /\ ring[s].index % RingSize = s)
<1>1. ring[s].index \in {-1} \cup BucketIdx
  BY DEF TypeInv, RingOK, SlotType
<1>2. ring[s].index # -1 => ring[s].index % RingSize = s
  BY DEF TypeInv, RingOK
<1>3. QED
  BY <1>1, <1>2, BucketIdxNat

\* A step of a call is a step of a thread that is in one.
LEMMA CollectorStepInside ==
  ASSUME NEW t \in Callers, CollectorStep(t)
  PROVE  pc[t] \in Inside
  BY DEF CollectorStep, NoteStore, RecordEnter, CounterEnter, CounterCheck, FastPath,
         SlowPathClaim, SlowPathSeal, SlowPathGone, LateTally, LateLabel, LateRunner, Inside

\* The executor's goroutines move only while it is not done, and do not touch
\* the sweeper, the engine or the clock.
LEMMA CallerMoves ==
  ASSUME TypeInv, CallerStep
  PROVE  /\ ~ExecutorDone
         /\ pc'[Sweeper] = pc[Sweeper] /\ pc'[Engine] = pc[Engine]
         /\ UNCHANGED <<now, cursor, sweepNow>>
<1> USE ThreadsDistinct DEF TypeInv, CallInv, ThreadsOK, scanVars
<1>1. ASSUME NEW t \in Callers, CollectorStep(t)
      PROVE  /\ ~ExecutorDone
             /\ pc'[Sweeper] = pc[Sweeper] /\ pc'[Engine] = pc[Engine]
             /\ UNCHANGED <<now, cursor, sweepNow>>
  <2>1. pc[t] \in Inside
    BY <1>1, CollectorStepInside
  <2>2. ~ExecutorDone
    BY <2>1 DEF ExecutorDone, Inside, Callers
  <2>3. \E x : pc' = [pc EXCEPT ![t] = x]
    BY <1>1 DEF CollectorStep, NoteStore, RecordEnter, CounterEnter, CounterCheck, FastPath,
         SlowPathClaim, SlowPathSeal, SlowPathGone, LateTally, LateLabel, LateRunner,
         NoteBucket, Return
  <2>4. UNCHANGED <<now, cursor, sweepNow>>
    BY <1>1 DEF CollectorStep, NoteStore, RecordEnter, CounterEnter, CounterCheck, FastPath,
         SlowPathClaim, SlowPathSeal, SlowPathGone, LateTally, LateLabel, LateRunner
  <2>5. QED
    BY <2>2, <2>3, <2>4
<1>2. CASE Offer \/ Dispatch \/ Drop \/ StopArrivals
  BY <1>2 DEF Offer, Dispatch, Drop, StopArrivals, Begin, ExecutorDone
<1>3. ASSUME NEW w \in Workers, Take(w) \/ Complete(w)
      PROVE  /\ ~ExecutorDone
             /\ pc'[Sweeper] = pc[Sweeper] /\ pc'[Engine] = pc[Engine]
             /\ UNCHANGED <<now, cursor, sweepNow>>
  BY <1>3 DEF Take, Complete, Begin, ExecutorDone, IsFirst, InStatus
<1>4. QED
  BY <1>1, <1>2, <1>3 DEF CallerStep, GeneratorStep, WorkerStep

\* The sweeper is not the engine's own goroutine.
LEMMA SweeperNotEngine == Sweeper # Engine
  BY DEF Sweeper, Engine

\* QuietInv is inductive relative to TypeInv.
LEMMA QuietStep == TypeInv /\ QuietInv /\ [Next]_vars => QuietInv'
<1> SUFFICES ASSUME TypeInv, QuietInv, [Next]_vars PROVE QuietInv'
  OBVIOUS
<1> USE ThreadsDistinct, SweeperNotEngine DEF TypeInv, CallInv, ThreadsOK
<1>1. CASE CallerStep
  BY <1>1, CallerMoves DEF QuietInv
<1>2. ASSUME UNCHANGED status, \A t \in Callers : pc'[t] = pc[t]
      PROVE  ExecutorDone' <=> ExecutorDone
  BY <1>2 DEF ExecutorDone, InStatus, Callers
<1>3. CASE SweeperStep
  <2>1. UNCHANGED status /\ \A t \in Callers : pc'[t] = pc[t]
    BY <1>3 DEF SweeperStep, SweepTick, SweepPeek, SweepSeal, SweepOver, EncodeSketches,
                SweeperStop
  <2>2. QED
    BY <1>2, <1>3, <2>1 DEF SweeperStep, SweepTick, SweepPeek, SweepSeal, SweepOver,
         EncodeSketches, SweeperStop, QuietInv, scanVars
<1>4. CASE EngineStep
  <2>1. UNCHANGED status /\ \A t \in Callers : pc'[t] = pc[t]
    BY <1>4 DEF EngineStep, FinishBegin, FinishSlot, FinishEnd
  <2>2. QED
    BY <1>2, <1>4, <2>1 DEF EngineStep, FinishBegin, FinishSlot, FinishEnd, QuietInv, scanVars
<1>5. CASE Tick \/ Over \/ UNCHANGED vars
  <2>1. UNCHANGED <<status, pc, cursor>>
    BY <1>5 DEF Tick, Over, vars, scanVars
  <2>2. QED
    BY <1>2, <2>1 DEF QuietInv
<1>6. QED
  BY <1>1, <1>3, <1>4, <1>5 DEF Next, CallerStep

\* The executor's goroutines store in the ring only what they name after the
\* bucket of the call they are in.
LEMMA RingMoves ==
  ASSUME TypeInv, CallerStep
  PROVE  \/ UNCHANGED ring
         \/ \E t \in Callers : \E sl \in SlotType :
              /\ pc[t] \in Inside /\ sl.index = BucketOf(call[t].op)
              /\ ring' = [ring EXCEPT ![SlotOf(call[t].op)] = sl]
<1>1. ASSUME NEW t \in Callers, CollectorStep(t)
      PROVE  \/ UNCHANGED ring
             \/ \E sl \in SlotType :
                  /\ pc[t] \in Inside /\ sl.index = BucketOf(call[t].op)
                  /\ ring' = [ring EXCEPT ![SlotOf(call[t].op)] = sl]
  <2> DEFINE s == SlotOf(call[t].op)
             i == BucketOf(call[t].op)
  <2>1. pc[t] \in Inside
    BY <1>1, CollectorStepInside
  <2>2. /\ call[t] \in CallType /\ call[t].op \in Ops /\ i \in BucketIdx
        /\ ring[s] \in SlotType
    BY <2>1, InsideFacts
  <2>3. \A sl \in SlotType : /\ Applied(sl, call[t]) \in SlotType
                             /\ Applied(sl, call[t]).index = sl.index
    BY <2>2, SlotTypes
  <2>4. /\ [ring[s] EXCEPT !.index = i] \in SlotType /\ [ring[s] EXCEPT !.index = i].index = i
        /\ [FreeSlot EXCEPT !.index = i] \in SlotType /\ [FreeSlot EXCEPT !.index = i].index = i
    BY <2>2, SlotTypes
  <2>5. CASE UNCHANGED ring
    BY <2>5
  <2>6. CASE FastPath(t) /\ ~UNCHANGED ring
    BY <2>1, <2>2, <2>3, <2>6 DEF FastPath
  <2>7. CASE SlowPathClaim(t)
    <3>1. ring' = [ring EXCEPT ![s] = Applied([ring[s] EXCEPT !.index = i], call[t])]
      BY <2>7 DEF SlowPathClaim
    <3>2. QED
      BY <2>1, <2>3, <2>4, <3>1
  <2>8. CASE SlowPathSeal(t)
    BY <2>1, <2>3, <2>4, <2>8 DEF SlowPathSeal
  <2>9. QED
    BY <1>1, <2>5, <2>6, <2>7, <2>8
    DEF CollectorStep, NoteStore, RecordEnter, CounterEnter, CounterCheck, FastPath,
        SlowPathGone, LateTally, LateLabel, LateRunner
<1>2. QED
  BY <1>1, ThreadsDistinct
  DEF CallerStep, GeneratorStep, WorkerStep, Offer, Dispatch, Drop, StopArrivals, Take,
      Complete

\* A slot that holds no bucket holds nothing, and neither does a slot Finish
\* has gone past.
FreedInv ==
  \A s \in Slots :
    /\ ring[s].index = -1 => ring[s] = FreeSlot
    /\ pc[Engine] = "finish" /\ s < cursor => ring[s] = FreeSlot
    /\ pc[Engine] = "finished" => ring[s] = FreeSlot

\* FreedInv is inductive relative to TypeInv and QuietInv.
LEMMA FreedStep == TypeInv /\ QuietInv /\ FreedInv /\ [Next]_vars => FreedInv'
<1> SUFFICES ASSUME TypeInv, QuietInv, FreedInv, [Next]_vars, NEW s \in Slots
             PROVE  FreedInv!(s)'
  <2>1. Slots' = Slots
    BY DEF Slots, RingSize
  <2>2. QED
    BY <2>1 DEF FreedInv
<1>1. /\ ring[s].index = -1 => ring[s] = FreeSlot
      /\ pc[Engine] = "finish" /\ s < cursor => ring[s] = FreeSlot
      /\ pc[Engine] = "finished" => ring[s] = FreeSlot
      /\ FreeSlot' = FreeSlot
  BY DEF FreedInv, FreeSlot, Nothing
<1>2. /\ s \in Nat /\ s < RingSize /\ cursor \in Nat /\ RingSize \in Nat
      /\ ring \in [Slots -> SlotType] /\ ring[s].index \in {-1} \cup BucketIdx
  BY RingSizeNat DEF Slots, TypeInv, RestOK, RingOK, SlotType
<1> USE ThreadsDistinct, SweeperNotEngine DEF TypeInv, CallInv, ThreadsOK
<1>3. CASE CallerStep
  <2>1. pc[Engine] = "idle" /\ pc'[Engine] = "idle"
    BY <1>3, CallerMoves DEF QuietInv
  <2>2. CASE UNCHANGED ring
    BY <1>1, <2>1, <2>2
  <2>3. ASSUME NEW t \in Callers, NEW sl \in SlotType, pc[t] \in Inside,
               sl.index = BucketOf(call[t].op),
               ring' = [ring EXCEPT ![SlotOf(call[t].op)] = sl]
        PROVE  FreedInv!(s)'
    <3>1. sl.index # -1
      BY <2>3, InsideFacts
    <3>2. ring'[s] = sl \/ ring'[s] = ring[s]
      BY <1>2, <2>3
    <3>3. QED
      BY <1>1, <2>1, <3>1, <3>2
  <2>4. QED
    BY <1>3, <2>2, <2>3, RingMoves
<1>4. CASE SweeperStep
  <2>1. pc'[Engine] = pc[Engine] /\ pc[Engine] = "idle"
    BY <1>4 DEF SweeperStep, SweepTick, SweepPeek, SweepSeal, SweepOver, EncodeSketches,
                SweeperStop, QuietInv
  <2>2. ring'[s] = ring[s] \/ ring'[s] = FreeSlot
    BY <1>2, <1>4 DEF SweeperStep, SweepTick, SweepPeek, SweepSeal, SweepOver, EncodeSketches,
                SweeperStop
  <2>3. QED
    BY <1>1, <2>1, <2>2
<1>5. CASE FinishBegin
  <2>1. cursor = 0 /\ UNCHANGED <<ring, cursor>> /\ pc'[Engine] = "finish"
    BY <1>5 DEF FinishBegin, QuietInv, scanVars
  <2>2. QED
    BY <1>1, <1>2, <2>1
<1>6. CASE FinishSlot
  <2>1. /\ pc'[Engine] = "finish" /\ pc[Engine] = "finish" /\ cursor' = cursor + 1
        /\ ring'[s] = ring[s] \/ ring'[s] = FreeSlot
    BY <1>2, <1>6 DEF FinishSlot
  <2>2. ASSUME s = cursor PROVE ring'[s] = FreeSlot
    <3>1. CASE ring' = [ring EXCEPT ![cursor] = FreeSlot]
      BY <1>2, <2>2, <3>1
    <3>2. CASE ring[cursor].index < 0 /\ UNCHANGED ring
      <4>1. ring[s].index = -1
        BY <2>2, <3>2, SlotIndex
      <4>2. QED
        BY <1>1, <3>2, <4>1
    <3>3. QED
      BY <1>6, <3>1, <3>2 DEF FinishSlot
  <2>3. s < cursor + 1 => s < cursor \/ s = cursor
    BY <1>2
  <2>4. QED
    BY <1>1, <2>1, <2>2, <2>3
<1>7. CASE FinishEnd
  <2>1. pc[Engine] = "finish" /\ cursor = RingSize /\ UNCHANGED ring
    BY <1>7 DEF FinishEnd
  <2>2. QED
    BY <1>1, <1>2, <2>1
<1>8. CASE Tick \/ Over \/ UNCHANGED vars
  <2>1. UNCHANGED <<ring, pc, cursor>>
    BY <1>8 DEF Tick, Over, vars, scanVars
  <2>2. QED
    BY <1>1, <2>1
<1>9. QED
  BY <1>3, <1>4, <1>5, <1>6, <1>7, <1>8 DEF Next, CallerStep, EngineStep

-----------------------------------------------------------------------------
\* Nothing is counted, and no slot is claimed, before its time.
DueInv ==
  /\ sweepNow <= now
  /\ \A o \in Ops : status[o] # "scheduled" => Due(o)
  /\ \A t \in Callers : \A o \in Ops : pc[t] \in Inside /\ call[t].op = o => Due(o)
  /\ \A s \in Slots : ring[s].index # -1 => Begun(ring[s].index)

\* A thread that is in a call after a step was in it before, or begins one about
\* an arrival that is due.
LEMMA CallsDue ==
  ASSUME TypeInv, DueInv, CallerStep, NEW t \in Callers, NEW o \in Ops,
         pc'[t] \in Inside, call'[t].op = o
  PROVE  Due(o)
<1> USE ThreadsDistinct DEF TypeInv, CallInv, ThreadsOK
<1>1. status[o] # "scheduled" => Due(o)
  BY DEF DueInv
<1>2. pc[t] \in Inside /\ call[t].op = o => Due(o)
  BY DEF DueInv
<1>3. ASSUME NEW u \in Callers, CollectorStep(u) PROVE Due(o)
  <2>1. pc[u] \in Inside
    BY <1>3, CollectorStepInside
  <2>2. \A v \in Callers \ {u} : pc'[v] = pc[v] /\ call'[v] = call[v]
    BY <1>3 DEF CollectorStep, NoteStore, RecordEnter, CounterEnter, CounterCheck, FastPath,
         SlowPathClaim, SlowPathSeal, SlowPathGone, LateTally, LateLabel, LateRunner,
         NoteBucket, Return
  <2>3. t # u => Due(o)
    BY <1>2, <2>2
  <2>4. CASE Return(u)
    <3>1. call[u].kind \in Kinds
      BY <2>1, InsideFacts
    <3>2. pc'[u] = ResumeAt(call[u].kind)
      BY <2>4 DEF Return
    <3>3. pc'[u] \notin Inside
      BY <3>1, <3>2 DEF ResumeAt, Kinds, Inside
    <3>4. QED
      BY <2>3, <3>3
  <2>5. CASE ~Return(u)
    <3>1. call'[u].op = call[u].op
      BY <1>3, <2>5 DEF CollectorStep, NoteStore, RecordEnter, CounterEnter, CounterCheck,
         FastPath, SlowPathClaim, SlowPathSeal, SlowPathGone, LateTally, LateLabel,
         LateRunner, NoteBucket, CallType
    <3>2. QED
      BY <1>2, <2>1, <2>3, <3>1
  <2>6. QED
    BY <2>4, <2>5
<1>4. CASE Offer
  <2>1. PICK p \in Ops : Schedule[p] <= now /\ Begin(Generator, "offered", p, 0)
    BY <1>4 DEF Offer
  <2>2. CASE t = Generator
    BY <2>1, <2>2 DEF Begin, Due
  <2>3. CASE t # Generator
    BY <1>2, <2>1, <2>3 DEF Begin
  <2>4. QED
    BY <2>2, <2>3
<1>5. CASE Dispatch \/ StopArrivals
  BY <1>2, <1>5 DEF Dispatch, StopArrivals, Inside
<1>6. CASE Drop
  <2>1. status[call[Generator].op] = "offered"
    BY <1>6 DEF Drop, CallsMatch
  <2>2. QED
    BY <1>1, <1>2, <1>6, <2>1 DEF Drop, Begin
<1>7. ASSUME NEW w \in Workers, Take(w) PROVE Due(o)
  <2>1. PICK p \in Ops : status[p] = "queued" /\ \E r : Begin(w, "inFlight", p, r)
    BY <1>7 DEF Take, IsFirst, InStatus
  <2>2. QED
    BY <1>1, <1>2, <2>1 DEF Begin
<1>8. ASSUME NEW w \in Workers, Complete(w) PROVE Due(o)
  <2>1. status[call[w].op] = "taken"
    BY <1>8 DEF Complete, CallsMatch
  <2>2. QED
    BY <1>1, <1>2, <1>8, <2>1 DEF Complete, Begin
<1>9. QED
  BY <1>3, <1>4, <1>5, <1>6, <1>7, <1>8 DEF CallerStep, GeneratorStep, WorkerStep

\* An arrival leaves the schedule only by the return of the call that offers it.
LEMMA StatusMoves ==
  ASSUME TypeInv, CallerStep, NEW o \in Ops
  PROVE  /\ status'[o] # "scheduled" =>
              \/ status[o] # "scheduled"
              \/ \E t \in Callers : /\ pc[t] \in Inside \ {"enter", "noteStore"}
                                   /\ call[t].op = o /\ call[t].kind = "offered"
         /\ status[o] = "filed" => status'[o] = "filed"
<1> USE ThreadsDistinct DEF TypeInv, CallInv, ThreadsOK
<1>1. CASE UNCHANGED status
  BY <1>1
<1>2. ASSUME NEW t \in Callers, CollectorStep(t), Return(t)
      PROVE  /\ status'[o] # "scheduled" =>
                  \/ status[o] # "scheduled"
                  \/ \E u \in Callers : /\ pc[u] \in Inside \ {"enter", "noteStore"}
                                       /\ call[u].op = o /\ call[u].kind = "offered"
             /\ status[o] = "filed" => status'[o] = "filed"
  <2>1. pc[t] \in Inside
    BY <1>2, CollectorStepInside
  <2>2. pc[t] \notin {"enter", "noteStore"}
    <3>1. CASE pc[t] = "noteStore"
      <4>1. call[t].dest # "idle" /\ pc'[t] = call[t].dest
        BY <1>2, <3>1 DEF CollectorStep, NoteStore, RecordEnter, CounterEnter, CounterCheck,
           FastPath, SlowPathClaim, SlowPathSeal, SlowPathGone, LateTally, LateLabel,
           LateRunner, CallsMatch
      <4>2. pc'[t] \in {"idle", "do", "dispatch"}
        BY <1>2, <2>1, InsideFacts DEF Return, ResumeAt, Kinds
      <4>3. QED
        BY <3>1, <4>1, <4>2 DEF CallsMatch
    <3>2. CASE pc[t] = "enter"
      <4>1. pc'[t] \in {"noteStore", "late", "fast", "check"}
        BY <1>2, <3>2 DEF CollectorStep, NoteStore, RecordEnter, CounterEnter, CounterCheck,
           FastPath, SlowPathClaim, SlowPathSeal, SlowPathGone, LateTally, LateLabel,
           LateRunner, NoteBucket
      <4>2. pc'[t] \in {"idle", "do", "dispatch"}
        BY <1>2, <2>1, InsideFacts DEF Return, ResumeAt, Kinds
      <4>3. QED
        BY <4>1, <4>2
    <3>3. QED
      BY <3>1, <3>2
  <2>3. /\ call[t].op \in Ops /\ call[t].kind \in Kinds
        /\ status[call[t].op] = StatusBefore(call[t].kind)
        /\ status[call[t].op] # "filed"
    BY <2>1, InsideFacts
  <2>4. status'[o] = IF o = call[t].op THEN StatusAfter(call[t].kind) ELSE status[o]
    BY <1>2, <2>3 DEF Return
  <2>5. CASE o = call[t].op
    BY <2>1, <2>2, <2>3, <2>5 DEF StatusBefore, Kinds
  <2>6. QED
    BY <2>4, <2>5
<1>3. ASSUME NEW t \in Callers, CollectorStep(t), ~Return(t) PROVE UNCHANGED status
  BY <1>3 DEF CollectorStep, NoteStore, RecordEnter, CounterEnter, CounterCheck,
     FastPath, SlowPathClaim, SlowPathSeal, SlowPathGone, LateTally, LateLabel, LateRunner
<1>4. CASE Dispatch
  <2>1. LET g == call[Generator].op IN
        g \in Ops /\ status[g] = "offered" /\ status' = [status EXCEPT ![g] = "queued"]
    BY <1>4 DEF Dispatch, CallsMatch, Busy
  <2>2. QED
    BY <2>1
<1>5. ASSUME NEW w \in Workers, Take(w)
      PROVE  \E p \in Ops : status[p] = "queued" /\ status' = [status EXCEPT ![p] = "taken"]
  BY <1>5 DEF Take, IsFirst, InStatus
<1>6. QED
  BY <1>1, <1>2, <1>3, <1>4, <1>5
  DEF CallerStep, GeneratorStep, WorkerStep, Offer, Drop, StopArrivals, Complete

\* Steps of the sweeper, the engine and the clock leave the callers alone.
LEMMA OtherMoves ==
  ASSUME TypeInv, [Next]_vars, ~CallerStep
  PROVE  /\ UNCHANGED <<status, call, late, noteVars>>
         /\ \A t \in Callers : pc'[t] = pc[t]
<1>1. CASE SweeperStep
  BY <1>1, ThreadsDistinct
  DEF SweeperStep, SweepTick, SweepPeek, SweepSeal, SweepOver, EncodeSketches, SweeperStop,
      TypeInv, CallInv, ThreadsOK
<1>2. CASE EngineStep
  BY <1>2, ThreadsDistinct DEF EngineStep, FinishBegin, FinishSlot, FinishEnd,
      TypeInv, CallInv, ThreadsOK
<1>3. CASE Tick \/ Over \/ UNCHANGED vars
  BY <1>3 DEF Tick, Over, vars
<1>4. QED
  BY <1>1, <1>2, <1>3 DEF Next, CallerStep

\* DueInv is inductive relative to TypeInv.
LEMMA DueStep == TypeInv /\ DueInv /\ [Next]_vars => DueInv'
<1> SUFFICES ASSUME TypeInv, DueInv, [Next]_vars PROVE DueInv'
  OBVIOUS
<1>1. /\ now \in Nat /\ now' \in Nat /\ now <= now'
      /\ \A o \in Ops : Due(o) => Due(o)'
      /\ \A i \in Nat : Begun(i) => Begun(i)'
      /\ sweepNow \in Nat
  <2>1. now \in Nat /\ now' \in Nat /\ now <= now' /\ sweepNow \in Nat
    BY NowGrows DEF TypeInv, RestOK
  <2>2. QED
    BY <2>1, TimeMoves
<1>2. sweepNow' <= now'
  <2>1. sweepNow' \in {sweepNow, now}
    <3>1. CASE CallerStep
      BY <3>1, CallerMoves
    <3>2. CASE SweeperStep \/ EngineStep \/ Tick \/ Over \/ UNCHANGED vars
      BY <3>2 DEF SweeperStep, EngineStep, SweepTick, SweepPeek, SweepSeal, SweepOver,
         EncodeSketches, SweeperStop, FinishBegin, FinishSlot, FinishEnd, Tick, Over, vars,
         scanVars
    <3>3. QED
      BY <3>1, <3>2 DEF Next, CallerStep
  <2>2. sweepNow <= now
    BY DEF DueInv
  <2>3. QED
    BY <1>1, <2>1, <2>2
<1>3. ASSUME NEW o \in Ops, status'[o] # "scheduled" PROVE Due(o)'
  <2>1. Due(o)
    <3>1. CASE CallerStep
      BY <1>3, <3>1, StatusMoves DEF DueInv
    <3>2. CASE ~CallerStep
      BY <1>3, <3>2, OtherMoves DEF DueInv
    <3>3. QED
      BY <3>1, <3>2
  <2>2. QED
    BY <1>1, <2>1
<1>4. ASSUME NEW t \in Callers, NEW o \in Ops, pc'[t] \in Inside, call'[t].op = o
      PROVE  Due(o)'
  <2>1. Due(o)
    <3>1. CASE CallerStep
      BY <1>4, <3>1, CallsDue
    <3>2. CASE ~CallerStep
      BY <1>4, <3>2, OtherMoves DEF DueInv
    <3>3. QED
      BY <3>1, <3>2
  <2>2. QED
    BY <1>1, <2>1
<1>5. ASSUME NEW s \in Slots, NEW i, i = ring'[s].index, i # -1
      PROVE  i * BucketWidth <= now'
  <2>1. ring \in [Slots -> SlotType]
    BY DEF TypeInv, RingOK
  <2>2. CASE ring'[s] = ring[s]
    <3>1. i \in Nat /\ Begun(i)
      BY <1>5, <2>2, SlotIndex DEF DueInv
    <3>2. QED
      BY <1>1, <3>1 DEF Begun
  <2>3. CASE ring'[s] = FreeSlot
    BY <1>5, <2>3, SlotTypes
  <2>4. CASE CallerStep /\ ring'[s] # ring[s]
    <3>1. PICK t \in Callers, sl \in SlotType :
            /\ pc[t] \in Inside /\ sl.index = BucketOf(call[t].op)
            /\ ring' = [ring EXCEPT ![SlotOf(call[t].op)] = sl]
      BY <2>4, RingMoves
    <3>2. i = BucketOf(call[t].op) /\ i \in Nat /\ call[t].op \in Ops
      BY <1>5, <2>1, <2>4, <3>1, InsideFacts
    <3>3. Begun(i)
      BY <1>1, <3>1, <3>2, DueBegun DEF DueInv
    <3>4. QED
      BY <1>1, <3>2, <3>3 DEF Begun
  <2>5. CASE SweepSeal \/ FinishSlot
    BY <2>1, <2>2, <2>3, <2>5 DEF SweepSeal, FinishSlot
  <2>6. CASE UNCHANGED ring
    BY <2>2, <2>6
  <2>7. QED
    BY <2>2, <2>4, <2>5, <2>6
    DEF Next, CallerStep, SweeperStep, EngineStep, SweepTick, SweepPeek, SweepOver,
        EncodeSketches, SweeperStop, FinishBegin, FinishEnd, Tick, Over, vars
<1>6. \A s \in Slots : ring'[s].index # -1 => Begun(ring[s].index)'
  BY <1>5 DEF Begun
<1>7. Slots' = Slots
  BY DEF Slots, RingSize
<1>8. QED
  BY <1>2, <1>3, <1>4, <1>6, <1>7 DEF DueInv

-----------------------------------------------------------------------------
\* Until Finish begins, what is sealed was sealable; sealedAbove, against which
\* the late path is decided, is no exception.
SealInv ==
  pc[Engine] = "idle" =>
    /\ \A i \in DOMAIN buckets : Sealable(i)
    /\ sealedAbove # -1 => Sealable(sealedAbove)

\* What sealSlotLocked adds to the sealed map and does to sealedAbove.
LEMMA SealAdds ==
  ASSUME TypeInv, NEW s \in Slots, SealSlotLocked(s)
  PROVE  /\ DOMAIN buckets' = DOMAIN buckets \cup {ring[s].index}
         /\ sealedAbove' \in {sealedAbove, ring[s].index}
  BY DEF SealSlotLocked, PutBucket, Larger

\* Sealing a slot whose bucket is sealable keeps SealInv.
LEMMA SealKeeps ==
  ASSUME TypeInv, NEW s \in Slots, SealSlotLocked(s), ring[s].index \in Nat,
         Sealable(ring[s].index), SealInv, UNCHANGED now, pc[Engine] = "idle"
  PROVE  SealInv'
<1>1. /\ DOMAIN buckets' = DOMAIN buckets \cup {ring[s].index}
      /\ sealedAbove' \in {sealedAbove, ring[s].index}
  BY SealAdds
<1>2. \A i \in DOMAIN buckets' : SealDeadline(i) <= now
  BY <1>1 DEF SealInv, Sealable
<1>3. sealedAbove' # -1 => SealDeadline(sealedAbove') <= now
  BY <1>1 DEF SealInv, Sealable
<1>4. QED
  BY <1>2, <1>3 DEF SealInv, Sealable, SealDeadline

\* SealInv is inductive relative to TypeInv, QuietInv and DueInv.
LEMMA SealStep == TypeInv /\ QuietInv /\ DueInv /\ SealInv /\ [Next]_vars => SealInv'
<1> SUFFICES ASSUME TypeInv, QuietInv, DueInv, SealInv, [Next]_vars PROVE SealInv'
  OBVIOUS
<1>1. /\ now \in Nat /\ now' \in Nat /\ now <= now'
      /\ \A i \in Nat : Sealable(i) => Sealable(i)'
      /\ sweepNow \in Nat /\ sweepNow <= now
      /\ DOMAIN buckets \subseteq Nat /\ sealedAbove \in {-1} \cup Nat
  <2>1. now \in Nat /\ now' \in Nat /\ now <= now' /\ sweepNow \in Nat /\ sweepNow <= now
    BY NowGrows DEF TypeInv, RestOK, DueInv
  <2>2. DOMAIN buckets \subseteq Nat /\ sealedAbove \in {-1} \cup Nat
    BY BucketIdxNat DEF TypeInv, SealedOK
  <2>3. QED
    BY <2>1, <2>2, TimeMoves
<1>2. ASSUME UNCHANGED <<buckets, sealedAbove>>, pc'[Engine] = "idle" => pc[Engine] = "idle"
      PROVE  SealInv'
  <2> SUFFICES ASSUME pc'[Engine] = "idle"
               PROVE  /\ \A i \in DOMAIN buckets : Sealable(i)'
                      /\ sealedAbove # -1 => Sealable(sealedAbove)'
    BY <1>2 DEF SealInv, Sealable, SealDeadline
  <2>1. QED
    BY <1>1, <1>2 DEF SealInv
<1>3. ASSUME NEW t \in Callers, SlowPathSeal(t), pc[Engine] = "idle"
      PROVE  SealInv'
  <2> DEFINE o == call[t].op
             s == SlotOf(o)
  <2>1. /\ pc[t] \in Inside /\ SealSlotLocked(s) /\ UNCHANGED now
        /\ ring[s].index # -1 /\ ring[s].index < BucketOf(o)
    BY <1>3 DEF SlowPathSeal, Inside
  <2>2. o \in Ops /\ s \in Slots /\ BucketOf(o) \in Nat
    BY <2>1, InsideFacts
  <2>3. ring[s].index \in Nat /\ ring[s].index % RingSize = BucketOf(o) % RingSize
    BY <2>1, <2>2, SlotIndex DEF SlotOf
  <2>4. Begun(BucketOf(o))
    BY <1>1, <2>1, <2>2, DueBegun DEF DueInv
  <2>5. Sealable(ring[s].index)
    BY <1>1, <2>1, <2>2, <2>3, <2>4, ReusedSealable
  <2>6. QED
    BY <1>3, <2>1, <2>2, <2>3, <2>5, SealKeeps
<1>4. CASE CallerStep
  <2>1. pc[Engine] = "idle" /\ pc'[Engine] = "idle"
    BY <1>4, CallerMoves DEF QuietInv
  <2>2. CASE \E t \in Callers : SlowPathSeal(t)
    BY <1>3, <2>1, <2>2
  <2>3. CASE ~\E t \in Callers : SlowPathSeal(t)
    <3>1. UNCHANGED <<buckets, sealedAbove>>
      BY <1>4, <2>3, ThreadsDistinct
      DEF CallerStep, GeneratorStep, WorkerStep, CollectorStep, NoteStore, RecordEnter,
          CounterEnter, CounterCheck, FastPath, SlowPathClaim, SlowPathGone, LateTally,
          LateLabel, LateRunner, Offer, Dispatch, Drop, StopArrivals, Take, Complete,
          sealedVars
    <3>2. QED
      BY <1>2, <2>1, <3>1
  <2>4. QED
    BY <2>2, <2>3
<1>5. CASE SweepSeal
  <2>1. pc[Engine] = "idle" /\ pc'[Engine] = "idle"
    BY <1>5, SweeperNotEngine DEF SweepSeal, QuietInv
  <2>2. CASE /\ SealDue(cursor) /\ SealSlotLocked(cursor) /\ cursor \in Slots
    <3>1. ring[cursor].index \in Nat
      BY <2>2, SlotIndex DEF SealDue
    <3>2. SealDeadline(ring[cursor].index) \in Nat
      BY <3>1, ConfigAssumption DEF SealDeadline
    <3>3. Sealable(ring[cursor].index)
      BY <1>1, <2>2, <3>2 DEF SealDue, Sealable
    <3>4. QED
      BY <1>5, <2>1, <2>2, <3>1, <3>3, SealKeeps DEF SweepSeal
  <2>3. CASE UNCHANGED sealedVars
    BY <1>2, <2>1, <2>3 DEF sealedVars
  <2>4. QED
    BY <1>5, <2>2, <2>3 DEF SweepSeal
<1>6. CASE EngineStep
  <2>1. pc'[Engine] # "idle"
    BY <1>6, ThreadsDistinct DEF EngineStep, FinishBegin, FinishSlot, FinishEnd, TypeInv,
       CallInv, ThreadsOK
  <2>2. QED
    BY <2>1 DEF SealInv
<1>7. CASE SweeperStep /\ ~SweepSeal
  <2>1. UNCHANGED <<buckets, sealedAbove>> /\ pc'[Engine] = pc[Engine]
    BY <1>7, SweeperNotEngine, ThreadsDistinct
    DEF SweeperStep, SweepTick, SweepPeek, SweepOver, EncodeSketches, SweeperStop, sealedVars,
        TypeInv, CallInv, ThreadsOK
  <2>2. QED
    BY <1>2, <2>1
<1>8. CASE Tick \/ Over \/ UNCHANGED vars
  <2>1. UNCHANGED <<buckets, sealedAbove, pc>>
    BY <1>8 DEF Tick, Over, vars, sealedVars
  <2>2. QED
    BY <1>2, <2>1
<1>9. QED
  BY <1>4, <1>5, <1>6, <1>7, <1>8 DEF Next, CallerStep

\* Thread t is on the late path, or has been told to take it.
Belated(t) ==
  \/ pc[t] \in {"late", "lateLabel", "lateRunner"}
  \/ pc[t] = "noteStore" /\ call[t].dest = "late"

\* o has been tallied as late and its call is on the way out, or over.
Tallied(o) ==
  \/ status[o] = "filed"
  \/ \E t \in Callers : call[t].op = o /\ pc[t] \in {"lateLabel", "lateRunner"}

\* The late path is taken after the operation's own deadline, and its tally is
\* made once.
LateInv ==
  \A o \in Ops :
    /\ \A t \in Callers : Belated(t) /\ call[t].op = o => OwnSealable(o)
    /\ late[o] > 0 => late[o] = 1 /\ OwnSealable(o) /\ Tallied(o)

\* A step inside a call that leaves the late tally alone and, if it enters the
\* late path, does so after the deadline, keeps LateInv.
LEMMA LateKeeps ==
  ASSUME TypeInv, LateInv, NEW t \in Callers, pc[t] \in Inside, UNCHANGED <<now, late>>,
         \A u \in Callers \ {t} : pc'[u] = pc[u] /\ call'[u] = call[u],
         \A o \in Ops : status[o] = "filed" => status'[o] = "filed",
         Belated(t)' => OwnSealable(call[t].op),
         pc'[t] \in Inside => call'[t].op = call[t].op,
         pc[t] \in {"lateLabel", "lateRunner"} =>
           pc'[t] \in {"lateLabel", "lateRunner"} \/ status'[call[t].op] = "filed"
  PROVE  LateInv'
<1> SUFFICES ASSUME NEW o \in Ops
             PROVE  /\ \A u \in Callers : Belated(u)' /\ call'[u].op = o => OwnSealable(o)'
                    /\ late'[o] > 0 => late'[o] = 1 /\ OwnSealable(o)' /\ Tallied(o)'
  BY DEF LateInv
<1>1. OwnSealable(o)' <=> OwnSealable(o)
  BY DEF OwnSealable, SealDeadline, BucketOf, BucketIndexOf
<1>2. ASSUME NEW u \in Callers, Belated(u)', call'[u].op = o PROVE OwnSealable(o)
  <2>1. CASE u = t
    <3>1. pc'[t] \in Inside
      BY <1>2, <2>1 DEF Belated, Inside
    <3>2. o = call[t].op
      BY <1>2, <2>1, <3>1 DEF Belated
    <3>3. QED
      BY <1>2, <2>1, <3>2 DEF Belated
  <2>2. CASE u # t
    BY <1>2, <2>2 DEF Belated, LateInv
  <2>3. QED
    BY <2>1, <2>2
<1>3. Tallied(o) => Tallied(o)'
  <2>1. CASE status[o] = "filed"
    BY <2>1 DEF Tallied
  <2>2. ASSUME NEW u \in Callers, call[u].op = o, pc[u] \in {"lateLabel", "lateRunner"}
        PROVE  Tallied(o)'
    <3>1. CASE u # t
      BY <2>2, <3>1 DEF Tallied
    <3>2. CASE u = t
      BY <2>2, <3>2 DEF Tallied, Inside
    <3>3. QED
      BY <3>1, <3>2
  <2>3. QED
    BY <2>1, <2>2 DEF Tallied
<1>4. QED
  BY <1>1, <1>2, <1>3 DEF LateInv

\* Every step of a call keeps LateInv.
LEMMA LateCollectorStep ==
  ASSUME TypeInv, QuietInv, DueInv, SealInv, LateInv, NEW t \in Callers, CollectorStep(t),
         CallerStep
  PROVE  LateInv'
<1> DEFINE o == call[t].op
           s == SlotOf(o)
<1>1. pc[t] \in Inside
  BY CollectorStepInside
<1>2. /\ call[t] \in CallType /\ o \in Ops /\ s \in Slots /\ BucketOf(o) \in Nat
      /\ call[t].kind \in Kinds /\ status[o] # "filed"
  BY <1>1, InsideFacts
<1>3. \A u \in Callers \ {t} : pc'[u] = pc[u] /\ call'[u] = call[u]
  BY ThreadsDistinct DEF CollectorStep, NoteStore, RecordEnter, CounterEnter, CounterCheck,
     FastPath, SlowPathClaim, SlowPathSeal, SlowPathGone, LateTally, LateLabel, LateRunner,
     NoteBucket, Return, TypeInv, CallInv, ThreadsOK
<1>4. \A p \in Ops : status[p] = "filed" => status'[p] = "filed"
  BY StatusMoves
<1>5. UNCHANGED now /\ now \in Nat /\ pc[Engine] = "idle"
  BY CallerMoves DEF QuietInv, TypeInv, RestOK
<1>6. Belated(t) => OwnSealable(o)
  BY <1>2 DEF LateInv
<1>7. pc \in [Threads -> CallerPC \cup {"peek", "lock", "encode", "finish", "finished"}]
      /\ call \in [Callers -> CallType] /\ status \in [Ops -> Statuses] /\ t \in Threads
  BY ThreadsDistinct DEF TypeInv, CallInv, ThreadsOK
<1>8. ASSUME Return(t)
      PROVE  /\ pc'[t] \notin Inside
             /\ call[t].kind = "record" => status'[o] = "filed"
  <2>1. pc'[t] = ResumeAt(call[t].kind) /\ status'[o] = StatusAfter(call[t].kind)
    BY <1>2, <1>7, <1>8 DEF Return
  <2>2. QED
    BY <1>2, <2>1 DEF ResumeAt, StatusAfter, Kinds, Inside
<1>9. pc[t] \in {"lateLabel", "lateRunner"} => call[t].kind = "record"
  BY DEF TypeInv, CallInv, CallsMatch
<1>10. CASE UNCHANGED late /\ Return(t)
  <2>1. ~Belated(t)'
    BY <1>8, <1>10 DEF Belated, Inside
  <2>2. QED
    BY <1>1, <1>3, <1>4, <1>5, <1>8, <1>9, <1>10, <2>1, LateKeeps
<1>11. ASSUME UNCHANGED late, call'[t].op = o, Belated(t)' => OwnSealable(o),
              pc[t] \in {"lateLabel", "lateRunner"} => pc'[t] \in {"lateLabel", "lateRunner"}
       PROVE  LateInv'
  BY <1>1, <1>3, <1>4, <1>5, <1>11, LateKeeps
<1>12. CASE NoteStore(t)
  <2>1. UNCHANGED <<late, call>> /\ pc[t] = "noteStore" /\ pc'[t] = call[t].dest
    BY <1>7, <1>12 DEF NoteStore
  <2>2. call[t].dest \in {"check", "fast", "late"}
    BY <2>1 DEF TypeInv, CallInv, CallsMatch
  <2>3. Belated(t)' => Belated(t)
    BY <2>1, <2>2 DEF Belated
  <2>4. QED
    BY <1>6, <1>11, <2>1, <2>3
<1>13. ASSUME NEW dest \in {"check", "fast", "late"}, NoteBucket(t, dest), UNCHANGED late,
              dest = "late" => OwnSealable(o), pc[t] = "enter"
       PROVE  LateInv'
  <2>1. /\ call'[t].op = o
        /\ \/ pc'[t] = "noteStore" /\ call'[t].dest = dest
           \/ pc'[t] = dest
    BY <1>7, <1>13 DEF NoteBucket, CallType
  <2>2. Belated(t)' => dest = "late"
    BY <1>13, <2>1 DEF Belated
  <2>3. QED
    BY <1>11, <1>13, <2>1, <2>2
<1>14. CASE RecordEnter(t)
  <2>1. PICK dest \in {"check", "fast", "late"} :
          /\ NoteBucket(t, dest)
          /\ dest = "late" => BucketOf(o) <= sealedAbove
    BY <1>14 DEF RecordEnter
  <2>2. BucketOf(o) <= sealedAbove => OwnSealable(o)
    <3>1. sealedAbove \in {-1} \cup Nat
      BY BucketIdxNat DEF TypeInv, SealedOK
    <3>2. SUFFICES ASSUME BucketOf(o) <= sealedAbove PROVE OwnSealable(o)
      OBVIOUS
    <3>3. sealedAbove \in Nat /\ sealedAbove # -1
      BY <1>2, <3>1, <3>2
    <3>4. Sealable(sealedAbove)
      BY <1>5, <3>3 DEF SealInv
    <3>5. Sealable(BucketOf(o))
      BY <1>2, <1>5, <3>2, <3>3, <3>4, EarlierSealable
    <3>6. QED
      BY <3>5 DEF Sealable, OwnSealable
  <2>3. QED
    BY <1>13, <1>14, <2>1, <2>2 DEF RecordEnter
<1>15. CASE CounterEnter(t)
  BY <1>13, <1>15 DEF CounterEnter
<1>16. ASSUME UNCHANGED <<late, call>>, pc[t] \notin {"late", "lateLabel", "lateRunner"},
              pc' = [pc EXCEPT ![t] = "fast"] \/ pc' = [pc EXCEPT ![t] = "slow"]
       PROVE  LateInv'
  <2>1. ~Belated(t)'
    BY <1>7, <1>16 DEF Belated
  <2>2. QED
    BY <1>11, <1>16, <2>1
<1>17. CASE CounterCheck(t)
  BY <1>10, <1>16, <1>17 DEF CounterCheck
<1>18. CASE FastPath(t)
  BY <1>10, <1>16, <1>18 DEF FastPath
<1>19. CASE SlowPathClaim(t)
  BY <1>10, <1>19 DEF SlowPathClaim
<1>20. CASE SlowPathSeal(t)
  BY <1>10, <1>20 DEF SlowPathSeal
<1>21. CASE SlowPathGone(t)
  <2>1. CASE Return(t)
    BY <1>10, <1>21, <2>1 DEF SlowPathGone
  <2>2. CASE pc' = [pc EXCEPT ![t] = "late"] /\ UNCHANGED call
    <3>1. ring[s].index > BucketOf(o)
      BY <1>21 DEF SlowPathGone
    <3>2. ring[s].index \in Nat /\ ring[s].index % RingSize = BucketOf(o) % RingSize
      BY <1>2, <3>1, SlotIndex DEF SlotOf
    <3>3. Begun(ring[s].index)
      BY <1>2, <3>2 DEF DueInv
    <3>4. Sealable(BucketOf(o))
      BY <1>2, <1>5, <3>1, <3>2, <3>3, ReusedSealable
    <3>5. OwnSealable(o)
      BY <3>4 DEF Sealable, OwnSealable
    <3>6. pc[t] = "slow" /\ UNCHANGED late
      BY <1>21 DEF SlowPathGone
    <3>7. QED
      BY <1>11, <2>2, <3>5, <3>6
  <2>3. QED
    BY <1>21, <2>1, <2>2 DEF SlowPathGone
<1>22. CASE LateTally(t)
  <2>1. pc[t] = "late" /\ late' = Count(late, o) /\ late \in Bag /\ call[t].kind = "record"
    BY <1>22 DEF LateTally, TypeInv, RestOK, CallInv, CallsMatch
  <2>2. OwnSealable(o)
    BY <1>6, <2>1 DEF Belated
  <2>3. ~Tallied(o)
    <3>1. \A u \in Callers \ {t} : Busy(u) => call[u].op # o
      BY <1>1, InsideFacts
    <3>2. QED
      BY <1>2, <2>1, <3>1 DEF Tallied, Busy, Inside
  <2>4. late[o] = 0 /\ late'[o] = 1 /\ \A p \in Ops \ {o} : late'[p] = late[p]
    <3>1. late[o] \in Nat /\ ~(late[o] > 0)
      BY <1>2, <2>1, <2>3 DEF LateInv, Bag
    <3>2. QED
      BY <1>2, <2>1, <3>1, BagOps
  <2>5. /\ pc'[t] \in Inside => call'[t].op = o /\ pc'[t] = "lateLabel"
        /\ (pc'[t] = "lateLabel" /\ call'[t].op = o) \/ status'[o] = "filed"
    <3>1. CASE Return(t)
      BY <1>8, <2>1, <3>1
    <3>2. CASE pc' = [pc EXCEPT ![t] = "lateLabel"] /\ UNCHANGED call
      BY <1>7, <3>2
    <3>3. QED
      BY <1>22, <3>1, <3>2 DEF LateTally
  <2>6. ASSUME NEW p \in Ops
        PROVE  /\ \A u \in Callers : Belated(u)' /\ call'[u].op = p => OwnSealable(p)'
               /\ late'[p] > 0 => late'[p] = 1 /\ OwnSealable(p)' /\ Tallied(p)'
    <3>1. OwnSealable(p)' <=> OwnSealable(p)
      BY <1>5 DEF OwnSealable, SealDeadline, BucketOf, BucketIndexOf
    <3>2. ASSUME NEW u \in Callers, Belated(u)', call'[u].op = p PROVE OwnSealable(p)
      <4>1. CASE u = t
        BY <2>2, <2>5, <3>2, <4>1 DEF Belated, Inside
      <4>2. CASE u # t
        BY <1>3, <3>2, <4>2 DEF Belated, LateInv
      <4>3. QED
        BY <4>1, <4>2
    <3>3. CASE p = o
      <4>1. Tallied(p)'
        BY <2>5, <3>3 DEF Tallied
      <4>2. QED
        BY <2>2, <2>4, <3>1, <3>2, <3>3, <4>1
    <3>4. CASE p # o
      <4>1. Tallied(p) => Tallied(p)'
        BY <1>3, <1>4, <2>1, <3>4 DEF Tallied
      <4>2. late'[p] = late[p]
        BY <2>4, <3>4
      <4>3. QED
        BY <3>1, <3>2, <4>1, <4>2 DEF LateInv
    <3>5. QED
      BY <3>3, <3>4
  <2>7. QED
    BY <2>6 DEF LateInv
<1>23. CASE LateLabel(t)
  <2>1. pc[t] = "lateLabel" /\ pc'[t] = "lateRunner" /\ UNCHANGED <<late, call>>
    BY <1>7, <1>23 DEF LateLabel
  <2>2. OwnSealable(o)
    BY <1>6, <2>1 DEF Belated
  <2>3. QED
    BY <1>11, <2>1, <2>2
<1>24. CASE LateRunner(t)
  BY <1>10, <1>24 DEF LateRunner
<1>25. QED
  BY <1>12, <1>14, <1>15, <1>17, <1>18, <1>19, <1>20, <1>21, <1>22, <1>23, <1>24
  DEF CollectorStep

\* A step of the executor's own moves one thread, outside the collector before
\* and not further than its entrance after.
LEMMA DrivingMoves ==
  ASSUME TypeInv,
         \/ Offer \/ Dispatch \/ Drop \/ StopArrivals
         \/ \E w \in Workers : Take(w) \/ Complete(w)
  PROVE  /\ UNCHANGED <<now, ring, late, noteVars>>
         /\ \E t \in Callers :
              /\ pc[t] \notin Inside /\ pc'[t] \in {"enter", "idle", "stopped"}
              /\ \A u \in Callers \ {t} : pc'[u] = pc[u] /\ call'[u] = call[u]
<1>1. CASE Offer \/ Dispatch \/ Drop \/ StopArrivals
  <2>1. /\ pc[Generator] \in {"idle", "dispatch"}
        /\ \E x \in {"enter", "idle", "stopped"} : pc' = [pc EXCEPT ![Generator] = x]
        /\ \A u \in Callers \ {Generator} : call'[u] = call[u]
    BY <1>1, ThreadsDistinct
    DEF Offer, Dispatch, Drop, StopArrivals, Begin, TypeInv, CallInv, ThreadsOK
  <2>2. /\ pc[Generator] \notin Inside /\ pc'[Generator] \in {"enter", "idle", "stopped"}
        /\ \A u \in Callers \ {Generator} : pc'[u] = pc[u] /\ call'[u] = call[u]
    BY <2>1, ThreadsDistinct DEF TypeInv, CallInv, ThreadsOK, Inside
  <2>3. UNCHANGED <<now, ring, late, noteVars>>
    BY <1>1 DEF Offer, Dispatch, Drop, StopArrivals
  <2>4. QED
    BY <2>2, <2>3, ThreadsDistinct
<1>2. ASSUME NEW w \in Workers, Take(w) \/ Complete(w)
      PROVE  /\ UNCHANGED <<now, ring, late, noteVars>>
             /\ \E t \in Callers :
                  /\ pc[t] \notin Inside /\ pc'[t] \in {"enter", "idle", "stopped"}
                  /\ \A u \in Callers \ {t} : pc'[u] = pc[u] /\ call'[u] = call[u]
  <2>1. /\ pc[w] \in {"idle", "do"} /\ pc' = [pc EXCEPT ![w] = "enter"]
        /\ \A u \in Callers \ {w} : call'[u] = call[u]
    BY <1>2, ThreadsDistinct DEF Take, Complete, Begin, TypeInv, CallInv, ThreadsOK
  <2>2. /\ w \in Callers /\ pc[w] \notin Inside /\ pc'[w] = "enter"
        /\ \A u \in Callers \ {w} : pc'[u] = pc[u] /\ call'[u] = call[u]
    BY <2>1, ThreadsDistinct DEF TypeInv, CallInv, ThreadsOK, Inside
  <2>3. UNCHANGED <<now, ring, late, noteVars>>
    BY <1>2 DEF Take, Complete
  <2>4. QED
    BY <2>2, <2>3
<1>3. QED
  BY <1>1, <1>2

\* LateInv is inductive relative to the invariants before it.
LEMMA LateInvStep ==
  TypeInv /\ QuietInv /\ DueInv /\ SealInv /\ LateInv /\ [Next]_vars => LateInv'
<1> SUFFICES ASSUME TypeInv, QuietInv, DueInv, SealInv, LateInv, [Next]_vars PROVE LateInv'
  OBVIOUS
<1>1. \A o \in Ops : OwnSealable(o) => OwnSealable(o)'
  BY NowGrows, TimeMoves DEF TypeInv, RestOK
<1>2. ASSUME NEW t \in Callers, CollectorStep(t), CallerStep PROVE LateInv'
  BY <1>2, LateCollectorStep
<1>3. CASE CallerStep /\ ~\E t \in Callers : CollectorStep(t)
  <2>1. \/ Offer \/ Dispatch \/ Drop \/ StopArrivals
        \/ \E w \in Workers : Take(w) \/ Complete(w)
    BY <1>3, ThreadsDistinct DEF CallerStep, GeneratorStep, WorkerStep
  <2>2. PICK t \in Callers :
          /\ pc[t] \notin Inside /\ pc'[t] \in {"enter", "idle", "stopped"}
          /\ \A u \in Callers \ {t} : pc'[u] = pc[u] /\ call'[u] = call[u]
    BY <2>1, DrivingMoves
  <2>3. UNCHANGED late /\ \A o \in Ops : status[o] = "filed" => status'[o] = "filed"
    BY <1>3, <2>1, DrivingMoves, StatusMoves
  <2>4. ASSUME NEW o \in Ops
        PROVE  /\ \A u \in Callers : Belated(u)' /\ call'[u].op = o => OwnSealable(o)
               /\ Tallied(o) => Tallied(o)'
    BY <2>2, <2>3 DEF Belated, Tallied, LateInv, Inside
  <2>5. QED
    BY <1>1, <2>3, <2>4 DEF LateInv
<1>4. CASE ~CallerStep
  <2>1. UNCHANGED <<status, call, late>> /\ \A t \in Callers : pc'[t] = pc[t]
    BY <1>4, OtherMoves
  <2>2. ASSUME NEW o \in Ops
        PROVE  /\ \A u \in Callers : Belated(u)' /\ call'[u].op = o => OwnSealable(o)
               /\ Tallied(o) => Tallied(o)'
    BY <2>1 DEF Belated, Tallied, LateInv
  <2>3. QED
    BY <1>1, <2>1, <2>2 DEF LateInv
<1>5. QED
  BY <1>2, <1>3, <1>4

-----------------------------------------------------------------------------
\* noteBucket's mark reaches the bucket of o.
Marked(o) == seenAny /\ BucketOf(o) <= maxBucket

\* The mark reaches every arrival offered, and every call past noteBucket; while
\* the first caller has yet to store it, nothing has been offered.
WindowInv ==
  /\ \A o \in Ops : status[o] # "scheduled" => Marked(o)
  /\ \A t \in Callers : \A o \in Ops :
       pc[t] \in Inside \ {"enter", "noteStore"} /\ call[t].op = o => Marked(o)
  /\ \A t \in Callers :
       pc[t] = "noteStore" => seenAny /\ \A o \in Ops : status[o] = "scheduled"

\* While nothing has been offered only the generator is in a call.
LEMMA OnlyGenerator ==
  ASSUME TypeInv, NEW t \in Callers, pc[t] \in Inside,
         \A o \in Ops : status[o] = "scheduled"
  PROVE  t = Generator /\ call[t].kind = "offered"
<1>1. StatusBefore(call[t].kind) = "scheduled" /\ call[t].kind \in Kinds
  BY InsideFacts
<1>2. call[t].kind = "offered"
  BY <1>1 DEF StatusBefore, Kinds
<1>3. QED
  BY <1>2 DEF TypeInv, CallInv, CallsMatch

\* A step that lowers no mark, sends nobody past noteBucket unmarked and nobody
\* to the first store keeps WindowInv.
LEMMA WindowKeeps ==
  ASSUME TypeInv, WindowInv, CallerStep,
         \A o \in Ops : Marked(o) => Marked(o)',
         seenAny => seenAny',
         \A t \in Callers : \A o \in Ops :
           pc'[t] \in Inside \ {"enter", "noteStore"} /\ call'[t].op = o => Marked(o)',
         \A t \in Callers : pc'[t] = "noteStore" => pc[t] = "noteStore"
  PROVE  WindowInv'
<1>1. ASSUME NEW o \in Ops, status'[o] # "scheduled" PROVE Marked(o)'
  <2>1. Marked(o)
    BY <1>1, StatusMoves DEF WindowInv
  <2>2. QED
    BY <2>1
<1>2. ASSUME NEW t \in Callers, pc'[t] = "noteStore", NEW o \in Ops
      PROVE  seenAny' /\ status'[o] = "scheduled"
  <2>1. pc[t] = "noteStore" /\ seenAny /\ \A p \in Ops : status[p] = "scheduled"
    BY <1>2 DEF WindowInv
  <2>2. t = Generator
    BY <2>1, OnlyGenerator DEF Inside
  <2>3. ~\E u \in Callers : pc[u] \in Inside \ {"enter", "noteStore"}
    BY <2>1, <2>2, OnlyGenerator
  <2>4. QED
    BY <2>1, <2>3, StatusMoves
<1>3. ASSUME NEW t \in Callers, pc'[t] = "noteStore"
      PROVE  seenAny' /\ \A o \in Ops : status'[o] = "scheduled"
  <2>1. seenAny'
    BY <1>3 DEF WindowInv
  <2>2. QED
    BY <1>2, <1>3, <2>1
<1>4. QED
  BY <1>1, <1>3 DEF WindowInv

\* Every step of a call keeps WindowInv.
LEMMA WindowCollectorStep ==
  ASSUME TypeInv, WindowInv, NEW t \in Callers, CollectorStep(t), CallerStep
  PROVE  WindowInv'
<1> DEFINE x == call[t].op
<1>1. pc[t] \in Inside /\ x \in Ops /\ BucketOf(x) \in Nat /\ maxBucket \in Nat
  BY CollectorStepInside, InsideFacts DEF TypeInv, RestOK
<1>2. \A u \in Callers \ {t} : pc'[u] = pc[u] /\ call'[u] = call[u]
  BY ThreadsDistinct DEF CollectorStep, NoteStore, RecordEnter, CounterEnter, CounterCheck,
     FastPath, SlowPathClaim, SlowPathSeal, SlowPathGone, LateTally, LateLabel, LateRunner,
     NoteBucket, Return, TypeInv, CallInv, ThreadsOK
<1>3. pc \in [Threads -> CallerPC \cup {"peek", "lock", "encode", "finish", "finished"}]
      /\ call \in [Callers -> CallType] /\ t \in Threads
  BY ThreadsDistinct DEF TypeInv, CallInv, ThreadsOK
<1>4. \A o \in Ops : Marked(o)' <=> seenAny' /\ BucketOf(o) <= maxBucket'
  BY DEF Marked, BucketOf, BucketIndexOf
<1>5. \A o \in Ops : BucketOf(o) \in Nat
  BY BucketOfNat
<1>6. ASSUME UNCHANGED noteVars, pc[t] \notin {"enter", "noteStore"}, pc'[t] # "noteStore",
             pc'[t] \in Inside => call'[t].op = x
      PROVE  WindowInv'
  <2>1. \A o \in Ops : Marked(o) => Marked(o)'
    BY <1>4, <1>6 DEF Marked, noteVars
  <2>2. Marked(x)
    BY <1>1, <1>6 DEF WindowInv
  <2>3. ASSUME NEW u \in Callers, NEW o \in Ops, pc'[u] \in Inside \ {"enter", "noteStore"},
               call'[u].op = o
        PROVE  Marked(o)'
    <3>1. Marked(o)
      BY <1>2, <1>6, <2>2, <2>3 DEF WindowInv
    <3>2. QED
      BY <2>1, <3>1
  <2>4. seenAny => seenAny'
    BY <1>6 DEF noteVars
  <2>5. \A u \in Callers : pc'[u] = "noteStore" => pc[u] = "noteStore"
    BY <1>2, <1>6
  <2>6. QED
    BY <2>1, <2>3, <2>4, <2>5, WindowKeeps
<1>7. CASE NoteStore(t)
  <2>1. /\ pc[t] = "noteStore" /\ maxBucket' = BucketOf(x) /\ pc'[t] = call[t].dest
        /\ UNCHANGED <<status, call, seenAny>>
    BY <1>3, <1>7 DEF NoteStore
  <2>2. /\ call[t].dest \in {"check", "fast", "late"}
        /\ seenAny /\ \A o \in Ops : status[o] = "scheduled"
    BY <2>1 DEF TypeInv, CallInv, CallsMatch, WindowInv
  <2>3. \A u \in Callers \ {t} : pc[u] \notin Inside
    BY <1>1, <2>2, OnlyGenerator
  <2>4. ASSUME NEW u \in Callers, NEW o \in Ops, pc'[u] \in Inside, call'[u].op = o
        PROVE  Marked(o)'
    <3>1. u = t /\ o = x
      BY <1>2, <2>1, <2>3, <2>4
    <3>2. QED
      BY <1>1, <1>4, <2>1, <2>2, <3>1
  <2>5. \A u \in Callers : pc'[u] # "noteStore"
    BY <1>2, <2>1, <2>2, <2>3 DEF Inside
  <2>6. QED
    BY <2>1, <2>2, <2>4, <2>5 DEF WindowInv
<1>8. CASE RecordEnter(t) \/ CounterEnter(t)
  <2>1. PICK dest \in {"check", "fast", "late"} : NoteBucket(t, dest) /\ UNCHANGED status
    BY <1>8 DEF RecordEnter, CounterEnter
  <2>2. call'[t].op = x
    BY <1>3, <2>1 DEF NoteBucket, CallType
  <2>3. CASE ~seenAny
    <3>1. seenAny' /\ pc'[t] = "noteStore"
      BY <1>3, <2>1, <2>3 DEF NoteBucket
    <3>2. \A o \in Ops : status[o] = "scheduled"
      BY <2>3 DEF WindowInv, Marked
    <3>3. \A u \in Callers : pc'[u] \notin Inside \ {"enter", "noteStore"}
      BY <1>1, <1>2, <2>3, <3>1, <3>2, OnlyGenerator DEF Inside
    <3>4. QED
      BY <2>1, <3>1, <3>2, <3>3 DEF WindowInv
  <2>4. CASE seenAny
    <3>1. /\ seenAny' = seenAny /\ maxBucket' = Larger(maxBucket, BucketOf(x)) /\ pc'[t] = dest
      BY <1>3, <2>1, <2>4 DEF NoteBucket
    <3>2. maxBucket' \in Nat /\ maxBucket <= maxBucket' /\ BucketOf(x) <= maxBucket'
      BY <1>1, <3>1 DEF Larger
    <3>3. \A o \in Ops : Marked(o) => Marked(o)'
      BY <1>1, <1>4, <1>5, <3>1, <3>2 DEF Marked
    <3>4. ASSUME NEW u \in Callers, NEW o \in Ops,
                 pc'[u] \in Inside \ {"enter", "noteStore"}, call'[u].op = o
          PROVE  Marked(o)'
      <4>1. CASE u = t
        BY <1>4, <2>2, <2>4, <3>1, <3>2, <3>4, <4>1
      <4>2. CASE u # t
        BY <1>2, <3>3, <3>4, <4>2 DEF WindowInv
      <4>3. QED
        BY <4>1, <4>2
    <3>5. \A u \in Callers : pc'[u] = "noteStore" => pc[u] = "noteStore"
      BY <1>2, <2>1, <3>1
    <3>6. QED
      BY <2>4, <3>1, <3>3, <3>4, <3>5, WindowKeeps
  <2>5. QED
    BY <2>3, <2>4
<1>9. CASE /\ ~NoteStore(t) /\ ~RecordEnter(t) /\ ~CounterEnter(t)
  <2>1. UNCHANGED noteVars /\ pc[t] \notin {"enter", "noteStore"}
    BY <1>9 DEF CollectorStep, CounterCheck, FastPath, SlowPathClaim, SlowPathSeal,
       SlowPathGone, LateTally, LateLabel, LateRunner
  <2>2. pc'[t] # "noteStore" /\ (pc'[t] \in Inside => call'[t].op = x)
    <3>1. CASE Return(t)
      <4>1. pc'[t] = ResumeAt(call[t].kind) /\ call[t].kind \in Kinds
        BY <1>1, <1>3, <3>1, InsideFacts DEF Return
      <4>2. QED
        BY <4>1 DEF ResumeAt, Kinds, Inside
    <3>2. CASE ~Return(t)
      BY <1>3, <1>9, <3>2 DEF CollectorStep, CounterCheck, FastPath, SlowPathClaim,
         SlowPathSeal, SlowPathGone, LateTally, LateLabel, LateRunner
    <3>3. QED
      BY <3>1, <3>2
  <2>3. QED
    BY <1>6, <2>1, <2>2
<1>10. QED
  BY <1>7, <1>8, <1>9

\* WindowInv is inductive relative to TypeInv.
LEMMA WindowStep == TypeInv /\ WindowInv /\ [Next]_vars => WindowInv'
<1> SUFFICES ASSUME TypeInv, WindowInv, [Next]_vars PROVE WindowInv'
  OBVIOUS
<1>1. ASSUME NEW t \in Callers, CollectorStep(t), CallerStep PROVE WindowInv'
  BY <1>1, WindowCollectorStep
<1>2. ASSUME UNCHANGED noteVars
      PROVE  \A o \in Ops : Marked(o)' <=> Marked(o)
  BY <1>2 DEF Marked, BucketOf, BucketIndexOf, noteVars
<1>3. CASE CallerStep /\ ~\E t \in Callers : CollectorStep(t)
  <2>1. \/ Offer \/ Dispatch \/ Drop \/ StopArrivals
        \/ \E w \in Workers : Take(w) \/ Complete(w)
    BY <1>3, ThreadsDistinct DEF CallerStep, GeneratorStep, WorkerStep
  <2>2. PICK t \in Callers :
          /\ pc[t] \notin Inside /\ pc'[t] \in {"enter", "idle", "stopped"}
          /\ \A u \in Callers \ {t} : pc'[u] = pc[u] /\ call'[u] = call[u]
    BY <2>1, DrivingMoves
  <2>3. UNCHANGED noteVars
    BY <2>1, DrivingMoves
  <2>4. /\ \A o \in Ops : Marked(o) => Marked(o)'
        /\ seenAny => seenAny'
    BY <1>2, <2>3 DEF noteVars
  <2>5. ASSUME NEW u \in Callers, NEW o \in Ops,
               pc'[u] \in Inside \ {"enter", "noteStore"}, call'[u].op = o
        PROVE  Marked(o)'
    <3>1. u # t
      BY <2>2, <2>5 DEF Inside
    <3>2. QED
      BY <2>2, <2>4, <2>5, <3>1 DEF WindowInv
  <2>6. \A u \in Callers : pc'[u] = "noteStore" => pc[u] = "noteStore"
    BY <2>2
  <2>7. QED
    BY <1>3, <2>4, <2>5, <2>6, WindowKeeps
<1>4. CASE ~CallerStep
  <2>1. UNCHANGED <<status, call, noteVars>> /\ \A t \in Callers : pc'[t] = pc[t]
    BY <1>4, OtherMoves
  <2>2. QED
    BY <1>2, <2>1 DEF WindowInv, noteVars
<1>5. QED
  BY <1>1, <1>3, <1>4

-----------------------------------------------------------------------------
\* The inductive strengthening of the four theorems below.
TimingInv == QuietInv /\ FreedInv /\ DueInv /\ SealInv /\ LateInv /\ WindowInv

\* TimingInv holds throughout every run.
LEMMA TimingInvariant == Spec => [](TypeInv /\ TimingInv)
<1>1. Init => TimingInv
  <2> SUFFICES ASSUME Init PROVE TimingInv
    OBVIOUS
  <2>1. /\ \A t \in Callers : pc[t] = "idle"
        /\ pc[Sweeper] = "idle" /\ pc[Engine] = "idle"
        /\ \A o \in Ops : status[o] = "scheduled" /\ late[o] = 0
        /\ \A s \in Slots : ring[s] = FreeSlot
    BY ThreadsDistinct DEF Init, Nothing
  <2>2. QuietInv
    BY <2>1 DEF Init, QuietInv
  <2>3. FreedInv
    BY <2>1 DEF FreedInv
  <2>4. DueInv
    BY <2>1, SlotTypes DEF Init, DueInv, Inside
  <2>5. SealInv
    BY DEF Init, SealInv
  <2>6. LateInv
    BY <2>1 DEF LateInv, Belated
  <2>7. WindowInv
    BY <2>1 DEF WindowInv, Inside
  <2>8. QED
    BY <2>2, <2>3, <2>4, <2>5, <2>6, <2>7 DEF TimingInv
<1>2. TypeInv /\ TimingInv /\ [Next]_vars => TimingInv'
  BY QuietStep, FreedStep, DueStep, SealStep, LateInvStep, WindowStep DEF TimingInv
<1>3. QED
  BY <1>1, <1>2, TypeInvInvariant, PTL DEF Spec

\* No bucket is sealed before its end plus the seal delay, neither by the sweeper
\* nor by a caller that takes over its slot: NewCollector's ring is long enough
\* whatever the bucket width and the timeout.
THEOREM NoEarlySealAlways == Spec => []NoEarlySeal
<1>1. TimingInv => NoEarlySeal
  BY DEF TimingInv, SealInv, Sealable, NoEarlySeal
<1>2. QED
  BY <1>1, TimingInvariant, PTL

\* An outcome is tallied as late once at most, and only after the deadline of its
\* own bucket, although Record compares with the highest bucket sealed and the
\* slow path with whatever bucket has the slot.
THEOREM LateMeansLateAlways == Spec => []LateMeansLate
<1>1. TimingInv => LateMeansLate
  BY DEF TimingInv, LateInv, OwnSealable, LateMeansLate
<1>2. QED
  BY <1>1, TimingInvariant, PTL

\* The measured window reaches every bucket that had an arrival: noteBucket's
\* unguarded first store comes before any other caller can have raised the mark.
THEOREM WindowCoversArrivalsAlways == Spec => []WindowCoversArrivals
<1>1. TimingInv => WindowCoversArrivals
  BY DEF TimingInv, WindowInv, Marked, WindowCoversArrivals
<1>2. QED
  BY <1>1, TimingInvariant, PTL

\* Finish leaves no slot open, wherever the last sweep stood when it stopped.
THEOREM FinishedIsSealedAlways == Spec => []FinishedIsSealed
<1>1. TimingInv => FinishedIsSealed
  BY DEF TimingInv, FreedInv, FinishedIsSealed
<1>2. QED
  BY <1>1, TimingInvariant, PTL

-----------------------------------------------------------------------------
(***************************************************************************)
(* The per-label timelines: they stay within their budget, and unless they *)
(* are given up they hold every outcome that was not late, once, at its    *)
(* own bucket.  And the promise: Collector implements OutcomeLedger, for   *)
(* every schedule, every finite set of workers and every sizing.           *)
(*                                                                         *)
(* BudgetInv is about the timelines alone, which change only when a slot   *)
(* is sealed. PlaceInv follows one outcome: while it is open, late or not  *)
(* filed it is in no entry of its label's timeline; sealing its slot is    *)
(* what enters it, and happens to it once, because an outcome that is late *)
(* never is in a slot and one that is in a slot never is late (LateInv and *)
(* CountInv).                                                              *)
(*                                                                         *)
(* A step of the ledger books what has been filed and what has moved into  *)
(* the totals.  That nothing is settled twice or before it is reported is  *)
(* CountInv, before and after the step; that the books are closed on       *)
(* settled accounts is FreedInv, and that nothing is booked afterwards     *)
(* QuietInv.                                                               *)
(***************************************************************************)

\* The entries of the timelines, as pairs of a label and a position.
Retained == {e \in Labels \X (1 .. LabelTimelineBudget + 1) : e[2] <= Len(labelBuckets[e[1]])}

\* The inductive strengthening of RetentionBudget.
BudgetInv ==
  /\ Cardinality(Retained) = IF labelDropped THEN 0 ELSE labelEntries
  /\ labelEntries <= LabelTimelineBudget
  /\ \A l \in Labels : Len(labelBuckets[l]) <= labelEntries

\* There are finitely many places for entries.
LEMMA RetainedFinite ==
  ASSUME NEW R, R \subseteq Labels \X (1 .. LabelTimelineBudget + 1)
  PROVE  IsFiniteSet(R) /\ Cardinality(R) \in Nat
<1>1. IsFiniteSet(1 .. LabelTimelineBudget + 1)
  BY ConfigAssumption, FS_Interval
<1>2. IsFiniteSet(Labels \X (1 .. LabelTimelineBudget + 1))
  BY <1>1, FiniteAssumption, FS_Product
<1>3. IsFiniteSet(R)
  BY <1>2, FS_Subset
<1>4. QED
  BY <1>3, FS_CardinalityType

\* One new entry for each label of a set adds as many entries as the set has labels.
LEMMA EntriesAdd ==
  ASSUME NEW A \in SUBSET Labels, NEW L \in [Labels -> Nat], NEW M \in [Labels -> Nat],
         \A l \in Labels : L[l] <= LabelTimelineBudget,
         \A l \in Labels : M[l] = IF l \in A THEN L[l] + 1 ELSE L[l]
  PROVE  Cardinality({e \in Labels \X (1 .. LabelTimelineBudget + 1) : e[2] <= M[e[1]]})
         = Cardinality({e \in Labels \X (1 .. LabelTimelineBudget + 1) : e[2] <= L[e[1]]})
           + Cardinality(A)
<1> DEFINE P   == Labels \X (1 .. LabelTimelineBudget + 1)
           old == {e \in P : e[2] <= L[e[1]]}
           new == {e \in P : e[2] <= M[e[1]]}
           add == {e \in P : e[1] \in A /\ e[2] = L[e[1]] + 1}
<1>1. LabelTimelineBudget \in Nat
  BY ConfigAssumption
<1>2. new = old \cup add
  <2>1. ASSUME NEW l \in Labels, NEW i \in 1 .. LabelTimelineBudget + 1
        PROVE  i <= M[l] <=> i <= L[l] \/ (l \in A /\ i = L[l] + 1)
    <3>1. L[l] \in Nat /\ M[l] = IF l \in A THEN L[l] + 1 ELSE L[l]
      OBVIOUS
    <3>2. i \in Nat
      BY <1>1
    <3>3. QED
      BY <3>1, <3>2
  <2>2. \A e \in P : e \in new <=> e \in old \cup add
    BY <2>1
  <2>3. QED
    BY <2>2
<1>3. old \cap add = {}
  <2>1. \A e \in P : L[e[1]] \in Nat
    OBVIOUS
  <2>2. QED
    BY <2>1
<1>4. IsFiniteSet(old) /\ IsFiniteSet(add) /\ Cardinality(old) \in Nat /\ Cardinality(add) \in Nat
  BY RetainedFinite
<1>5. IsFiniteSet(A) /\ Cardinality(add) = Cardinality(A)
  <2> DEFINE f == [l \in A |-> <<l, L[l] + 1>>]
  <2>1. IsFiniteSet(A)
    BY FiniteAssumption, FS_Subset
  <2>2. f \in [A -> add]
    <3>1. ASSUME NEW l \in A PROVE <<l, L[l] + 1>> \in add
      <4>1. l \in Labels /\ L[l] \in Nat /\ L[l] <= LabelTimelineBudget
        OBVIOUS
      <4>2. L[l] + 1 \in 1 .. LabelTimelineBudget + 1
        BY <1>1, <4>1
      <4>3. QED
        BY <4>1, <4>2
    <3>2. QED
      BY <3>1
  <2>3. \A l, m \in A : f[l] = f[m] => l = m
    OBVIOUS
  <2>4. \A e \in add : \E l \in A : f[l] = e
    <3>1. ASSUME NEW e \in add PROVE f[e[1]] = e /\ e[1] \in A
      BY <3>1
    <3>2. QED
      BY <3>1
  <2>5. f \in Bijection(A, add)
    BY <2>2, <2>3, <2>4 DEF Bijection, Injection, Surjection, IsInjective
  <2>6. ExistsBijection(A, add)
    BY <2>5 DEF ExistsBijection
  <2>7. QED
    BY <2>1, <2>6, FS_Bijection
<1> HIDE DEF old, new, add
<1>6. Cardinality(old \cup add) = Cardinality(old) + Cardinality(add) - Cardinality(old \cap add)
  BY <1>4, FS_Union
<1>7. Cardinality(old \cap add) = 0
  BY <1>3, FS_EmptySet
<1>8. Cardinality(new) = Cardinality(old) + Cardinality(A)
  BY <1>2, <1>4, <1>5, <1>6, <1>7
<1>9. QED
  BY <1>8 DEF old, new

\* Sealing a slot keeps the timelines within the budget.
LEMMA BudgetKept ==
  ASSUME SealedOK, BudgetInv, NEW idx \in Nat, NEW b \in Bag, RecordLabelBuckets(idx, b)
  PROVE  BudgetInv'
<1> DEFINE A == ActiveLabels(b)
           L == [l \in Labels |-> Len(labelBuckets[l])]
           P == Labels \X (1 .. LabelTimelineBudget + 1)
<1>1. /\ LabelTimelineBudget \in Nat /\ labelEntries \in Nat
      /\ labelBuckets \in [Labels -> Seq([index : Nat, n : Bag])]
      /\ \A l \in Labels : Len(labelBuckets[l]) \in Nat
      /\ labelEntries <= LabelTimelineBudget
      /\ \A l \in Labels : Len(labelBuckets[l]) <= labelEntries
  <2>1. LabelTimelineBudget \in Nat
    BY ConfigAssumption
  <2>2. labelEntries \in Nat /\ labelBuckets \in [Labels -> Seq([index : Nat, n : Bag])]
    BY DEF SealedOK
  <2>3. ASSUME NEW l \in Labels PROVE Len(labelBuckets[l]) \in Nat
    <3> DEFINE E == [index : Nat, n : Bag]
    <3>1. labelBuckets[l] \in Seq(E)
      BY <2>2
    <3> HIDE DEF E
    <3>2. QED
      BY <3>1
  <2>4. labelEntries <= LabelTimelineBudget /\ \A l \in Labels : Len(labelBuckets[l]) <= labelEntries
    BY DEF BudgetInv
  <2>5. QED
    BY <2>1, <2>2, <2>3, <2>4
<1>2. A \subseteq Labels /\ IsFiniteSet(A) /\ Cardinality(A) \in Nat
  BY FiniteAssumption, FS_Subset, FS_CardinalityType DEF ActiveLabels
<1>3. Retained = {e \in P : e[2] <= L[e[1]]}
  BY DEF Retained
<1>4. Retained' = {e \in P : e[2] <= Len(labelBuckets'[e[1]])}
  BY DEF Retained
<1>5. CASE UNCHANGED <<labelBuckets, labelEntries, labelDropped>>
  BY <1>5 DEF BudgetInv, Retained
<1>6. CASE /\ ~labelDropped /\ A # {}
           /\ labelEntries + Cardinality(A) <= LabelTimelineBudget
           /\ labelBuckets' = [l \in Labels |->
                IF l \in A THEN Append(labelBuckets[l], [index |-> idx, n |-> OfLabel(b, l)])
                ELSE labelBuckets[l]]
           /\ labelEntries' = labelEntries + Cardinality(A)
           /\ UNCHANGED labelDropped
  <2> DEFINE M == [l \in Labels |-> IF l \in A THEN L[l] + 1 ELSE L[l]]
  <2>1. Cardinality(A) > 0
    BY <1>2, <1>6, FS_EmptySet
  <2>2. \A l \in Labels : Len(labelBuckets'[l]) = M[l]
    <3>1. ASSUME NEW l \in Labels, NEW x PROVE Len(Append(labelBuckets[l], x)) = Len(labelBuckets[l]) + 1
      BY <1>1
    <3> HIDE DEF A
    <3>2. QED
      BY <1>6, <3>1
  <2>3. L \in [Labels -> Nat] /\ \A l \in Labels : L[l] <= LabelTimelineBudget
    BY <1>1
  <2>4. M \in [Labels -> Nat]
    BY <2>3
  <2>5. \A l \in Labels : M[l] = IF l \in A THEN L[l] + 1 ELSE L[l]
    OBVIOUS
  <2>6. Retained' = {e \in P : e[2] <= M[e[1]]}
    BY <1>4, <2>2
  <2> HIDE DEF A, L, M
  <2>7. Cardinality(Retained') = Cardinality(Retained) + Cardinality(A)
    BY <1>2, <1>3, <2>3, <2>4, <2>5, <2>6, EntriesAdd
  <2>8. Cardinality(Retained') = labelEntries'
    BY <1>6, <2>7 DEF BudgetInv
  <2>9. \A l \in Labels : Len(labelBuckets'[l]) <= labelEntries'
    <3>1. \A l \in Labels : L[l] <= labelEntries /\ L[l] \in Nat
      BY <1>1 DEF L
    <3>2. QED
      BY <1>1, <1>2, <1>6, <2>1, <2>2, <2>5, <3>1
  <2>10. QED
    BY <1>6, <2>8, <2>9 DEF BudgetInv
<1>7. CASE /\ labelBuckets' = [l \in Labels |-> <<>>]
           /\ labelEntries' = LabelTimelineBudget
           /\ labelDropped' = TRUE
  <2>1. \A l \in Labels : Len(labelBuckets'[l]) = 0
    BY <1>7
  <2>2. Retained' = {}
    BY <1>1, <1>4, <2>1
  <2>3. QED
    BY <1>1, <1>7, <2>1, <2>2, FS_EmptySet DEF BudgetInv
<1>8. QED
  BY <1>5, <1>6, <1>7 DEF RecordLabelBuckets

\* The timelines change only when a slot that holds a bucket is sealed.
LEMMA SealsOnly ==
  ASSUME TypeInv, [Next]_vars
  PROVE  \/ UNCHANGED <<labelBuckets, labelEntries, labelDropped>>
         \/ \E s \in Slots : ring[s].index >= 0 /\ SealSlotLocked(s)
<1>1. ASSUME NEW t \in Callers, SlowPathSeal(t)
      PROVE  \E s \in Slots : ring[s].index >= 0 /\ SealSlotLocked(s)
  <2>1. pc[t] \in Inside /\ SealSlotLocked(SlotOf(call[t].op)) /\ ring[SlotOf(call[t].op)].index # -1
    BY <1>1 DEF SlowPathSeal, Inside
  <2>2. SlotOf(call[t].op) \in Slots /\ ring[SlotOf(call[t].op)].index >= 0
    BY <2>1, InsideFacts, SlotIndex
  <2>3. QED
    BY <2>1, <2>2
<1>2. CASE SweepSeal \/ FinishSlot
  <2>1. UNCHANGED sealedVars => UNCHANGED <<labelBuckets, labelEntries, labelDropped>>
    BY DEF sealedVars
  <2>2. QED
    BY <1>2, <2>1 DEF SweepSeal, FinishSlot, SealDue
<1>3. ASSUME ~\E t \in Callers : SlowPathSeal(t), ~SweepSeal, ~FinishSlot
      PROVE  UNCHANGED <<labelBuckets, labelEntries, labelDropped>>
  BY <1>3, ThreadsDistinct
  DEF Next, vars, GeneratorStep, WorkerStep, CollectorStep, SweeperStep, EngineStep,
      NoteStore, RecordEnter, CounterEnter, CounterCheck, FastPath, SlowPathClaim,
      SlowPathGone, LateTally, LateLabel, LateRunner, Offer, Dispatch, Drop, StopArrivals,
      Take, Complete, Over, SweepTick, SweepPeek, SweepOver, EncodeSketches, SweeperStop,
      FinishBegin, FinishEnd, Tick, sealedVars
<1>4. QED
  BY <1>1, <1>2, <1>3

\* The per-label timelines stay within their budget, and once they have been given
\* up nothing is retained again (recordLabelBucket).
THEOREM RetentionBudgetAlways == Spec => []RetentionBudget
<1>1. Init => BudgetInv
  <2> SUFFICES ASSUME Init PROVE BudgetInv
    OBVIOUS
  <2>1. \A l \in Labels : Len(labelBuckets[l]) = 0
    BY DEF Init
  <2>2. Retained = {}
    BY <2>1, ConfigAssumption DEF Retained
  <2>3. QED
    BY <2>1, <2>2, FS_EmptySet, ConfigAssumption DEF Init, BudgetInv
<1>2. TypeInv /\ BudgetInv /\ [Next]_vars => BudgetInv'
  <2> SUFFICES ASSUME TypeInv, BudgetInv, [Next]_vars PROVE BudgetInv'
    OBVIOUS
  <2>1. CASE UNCHANGED <<labelBuckets, labelEntries, labelDropped>>
    BY <2>1 DEF BudgetInv, Retained
  <2>2. ASSUME NEW s \in Slots, ring[s].index >= 0, SealSlotLocked(s) PROVE BudgetInv'
    <3>1. ring[s].index \in Nat /\ ring[s].n \in Bag
      BY <2>2, SlotIndex DEF TypeInv, RingOK, SlotType
    <3>2. RecordLabelBuckets(ring[s].index, ring[s].n)
      BY <2>2 DEF SealSlotLocked
    <3>3. QED
      BY <3>1, <3>2, BudgetKept DEF TypeInv
  <2>3. QED
    BY <2>1, <2>2, SealsOnly
<1>3. BudgetInv => RetentionBudget
  BY DEF BudgetInv, Retained, RetentionBudget
<1>4. QED
  BY <1>1, <1>2, <1>3, TypeInvInvariant, PTL DEF Spec

-----------------------------------------------------------------------------
\* The timeline o belongs in.
Timeline(o) == labelBuckets[LabelOf[o]]

\* No entry has counted o.
Nowhere(o) == \A i \in DOMAIN Timeline(o) : Timeline(o)[i].n[o] = 0

\* One entry has counted o, once, and it is the entry of o's own bucket.
Once(o) ==
  \E k \in DOMAIN Timeline(o) :
    /\ Timeline(o)[k].n[o] = 1 /\ Timeline(o)[k].index = BucketOf(o)
    /\ \A i \in DOMAIN Timeline(o) : i # k => Timeline(o)[i].n[o] = 0

\* The slot that counted o has been sealed.
Entered(o) == status[o] = "filed" /\ late[o] = 0 /\ Open(o) = 0

\* A late outcome is in no slot, and an outcome on the late path has been tallied.
LateElsewhere(o) ==
  /\ late[o] > 0 => Open(o) = 0
  /\ \A t \in Callers :
       pc[t] \in {"lateLabel", "lateRunner"} /\ call[t].op = o => late[o] > 0

\* The inductive strengthening of LabelTimelineComplete.
PlaceInv ==
  \A o \in Ops :
    /\ LateElsewhere(o)
    /\ ~labelDropped => IF Entered(o) THEN Once(o) ELSE Nowhere(o)

\* Appending an entry adds the last position and leaves the others alone.
LEMMA AppendEntry ==
  ASSUME NEW E, NEW q \in Seq(E), NEW e \in E
  PROVE  /\ DOMAIN Append(q, e) = DOMAIN q \cup {Len(q) + 1}
         /\ Len(q) + 1 \notin DOMAIN q
         /\ Append(q, e)[Len(q) + 1] = e
         /\ \A i \in DOMAIN q : Append(q, e)[i] = q[i]
<1>1. Len(q) \in Nat /\ DOMAIN q = 1 .. Len(q)
  OBVIOUS
<1>2. DOMAIN Append(q, e) = 1 .. Len(q) + 1
  OBVIOUS
<1>3. 1 .. Len(q) + 1 = (1 .. Len(q)) \cup {Len(q) + 1}
  BY <1>1
<1>4. Append(q, e)[Len(q) + 1] = e /\ \A i \in 1 .. Len(q) : Append(q, e)[i] = q[i]
  OBVIOUS
<1>5. QED
  BY <1>1, <1>2, <1>3, <1>4

\* Sealing a slot leaves the entries of an outcome it has not counted as they
\* are, and enters one it has counted.
LEMMA SealEnters ==
  ASSUME TypeInv, SlotHoldsItsBucket, NEW s \in Slots, ring[s].index >= 0, SealSlotLocked(s),
         NEW o \in Ops, ~labelDropped'
  PROVE  /\ ~labelDropped
         /\ ring[s].n[o] = 0 => /\ Nowhere(o) => Nowhere(o)'
                                /\ Once(o) => Once(o)'
         /\ ring[s].n[o] = 1 => (Nowhere(o) => Once(o)')
<1> DEFINE b == ring[s]
           l == LabelOf[o]
           q == labelBuckets[l]
           E == [index : Nat, n : Bag]
           e == [index |-> b.index, n |-> OfLabel(b.n, l)]
<1>1. /\ l \in Labels /\ q \in Seq(E) /\ b.n \in Bag /\ b.index \in Nat /\ e \in E
  <2>1. l \in Labels
    BY LabelAssumption
  <2>2. q \in Seq(E)
    BY <2>1 DEF TypeInv, SealedOK
  <2>3. b.n \in Bag
    BY DEF TypeInv, RingOK, SlotType
  <2>4. b.index \in Nat
    BY SlotIndex
  <2>5. OfLabel(b.n, l) \in Bag
    BY <2>1, <2>3, BagOps
  <2>6. QED
    BY <2>1, <2>2, <2>3, <2>4, <2>5
<1>2. e.n[o] = b.n[o] /\ b.n[o] \in Nat /\ e.index = b.index
  BY <1>1 DEF OfLabel, Bag
<1>3. b.n[o] = 1 => b.index = BucketOf(o)
  <2>1. b.n[o] \in Nat /\ b.offered[o] \in Nat /\ b.dropped[o] \in Nat
    BY DEF TypeInv, RingOK, SlotType, Bag
  <2>2. b.n[o] + b.offered[o] + b.dropped[o] > 0 => b.index = BucketOf(o)
    BY DEF SlotHoldsItsBucket
  <2>3. QED
    BY <2>1, <2>2
<1>4. b.n[o] = 1 => l \in ActiveLabels(b.n)
  BY <1>1 DEF ActiveLabels
<1>5. BucketOf(o)' = BucketOf(o)
  BY DEF BucketOf, BucketIndexOf
<1>6. Timeline(o) = q /\ Timeline(o)' = labelBuckets'[l]
  BY DEF Timeline
<1>7. RecordLabelBuckets(b.index, b.n)
  BY DEF SealSlotLocked
<1>8. /\ ~labelDropped
      /\ \/ labelBuckets'[l] = q /\ b.n[o] # 1
         \/ labelBuckets'[l] = Append(q, e)
  <2> HIDE DEF b
  <2>1. CASE UNCHANGED <<labelBuckets, labelEntries, labelDropped>>
              /\ (labelDropped \/ ActiveLabels(b.n) = {})
    BY <1>1, <1>4, <2>1
  <2>2. CASE /\ ~labelDropped /\ UNCHANGED labelDropped
             /\ labelBuckets' = [m \in Labels |->
                  IF m \in ActiveLabels(b.n)
                  THEN Append(labelBuckets[m], [index |-> b.index, n |-> OfLabel(b.n, m)])
                  ELSE labelBuckets[m]]
    BY <1>1, <1>4, <2>2
  <2>3. QED
    BY <1>7, <2>1, <2>2 DEF RecordLabelBuckets
<1>9. CASE labelBuckets'[l] = q /\ b.n[o] # 1
  BY <1>5, <1>6, <1>8, <1>9 DEF Nowhere, Once
<1>10. CASE labelBuckets'[l] = Append(q, e)
  <2> DEFINE r == Append(q, e)
             k == Len(q) + 1
  <2>1. /\ DOMAIN r = DOMAIN q \cup {k} /\ k \notin DOMAIN q /\ r[k] = e
        /\ \A i \in DOMAIN q : r[i] = q[i]
    BY <1>1, AppendEntry
  <2>2. /\ Nowhere(o) <=> \A i \in DOMAIN q : q[i].n[o] = 0
        /\ Nowhere(o)' <=> \A i \in DOMAIN r : r[i].n[o] = 0
    BY <1>6, <1>10 DEF Nowhere
  <2>3. /\ Once(o) <=> \E j \in DOMAIN q : /\ q[j].n[o] = 1 /\ q[j].index = BucketOf(o)
                                           /\ \A i \in DOMAIN q : i # j => q[i].n[o] = 0
        /\ Once(o)' <=> \E j \in DOMAIN r : /\ r[j].n[o] = 1 /\ r[j].index = BucketOf(o)
                                            /\ \A i \in DOMAIN r : i # j => r[i].n[o] = 0
    BY <1>5, <1>6, <1>10 DEF Once
  <2> HIDE DEF r, k, q, e, b
  <2>4. b.n[o] = 0 /\ Nowhere(o) => Nowhere(o)'
    BY <1>2, <2>1, <2>2
  <2>5. b.n[o] = 0 /\ Once(o) => Once(o)'
    <3> SUFFICES ASSUME b.n[o] = 0, Once(o) PROVE Once(o)'
      OBVIOUS
    <3>1. PICK j \in DOMAIN q : /\ q[j].n[o] = 1 /\ q[j].index = BucketOf(o)
                                /\ \A i \in DOMAIN q : i # j => q[i].n[o] = 0
      BY <2>3
    <3>2. j \in DOMAIN r /\ r[j].n[o] = 1 /\ r[j].index = BucketOf(o)
      BY <2>1, <3>1
    <3>3. \A i \in DOMAIN r : i # j => r[i].n[o] = 0
      BY <1>2, <2>1, <3>1
    <3>4. QED
      BY <2>3, <3>2, <3>3
  <2>6. b.n[o] = 1 /\ Nowhere(o) => Once(o)'
    <3> SUFFICES ASSUME b.n[o] = 1, Nowhere(o) PROVE Once(o)'
      OBVIOUS
    <3>1. k \in DOMAIN r /\ r[k].n[o] = 1 /\ r[k].index = BucketOf(o)
      BY <1>2, <1>3, <2>1
    <3>2. \A i \in DOMAIN r : i # k => r[i].n[o] = 0
      BY <2>1, <2>2
    <3>3. QED
      BY <2>3, <3>1, <3>2
  <2>7. QED
    BY <1>8, <2>4, <2>5, <2>6 DEF b
<1>11. QED
  BY <1>8, <1>9, <1>10

\* An outcome enters the tally of late ones only in its own call.
LEMMA LateMoves ==
  ASSUME TypeInv, [Next]_vars, NEW o \in Ops
  PROVE  /\ late[o] \in Nat
         /\ \/ late'[o] = late[o]
            \/ /\ late'[o] = late[o] + 1 /\ UNCHANGED ring
               /\ \E t \in Callers : pc[t] = "late" /\ call[t].op = o
<1>1. late[o] \in Nat
  BY DEF TypeInv, RestOK, Bag
<1>2. ASSUME NEW t \in Callers, LateTally(t)
      PROVE  \/ late'[o] = late[o]
             \/ late'[o] = late[o] + 1 /\ UNCHANGED ring /\ pc[t] = "late" /\ call[t].op = o
  <2>1. pc[t] = "late" /\ call[t].op \in Ops /\ UNCHANGED ring /\ late \in Bag
    BY <1>2, InsideFacts DEF LateTally, Inside, TypeInv, RestOK
  <2>2. late'[o] = IF o = call[t].op THEN late[o] + 1 ELSE late[o]
    BY <1>2, <2>1, BagOps DEF LateTally
  <2>3. QED
    BY <2>1, <2>2
<1>3. ASSUME ~\E t \in Callers : LateTally(t) PROVE UNCHANGED late
  BY <1>3, ThreadsDistinct
  DEF Next, vars, GeneratorStep, WorkerStep, CollectorStep, SweeperStep, EngineStep,
      NoteStore, RecordEnter, CounterEnter, CounterCheck, FastPath, SlowPathClaim,
      SlowPathSeal, SlowPathGone, LateLabel, LateRunner, Offer, Dispatch, Drop, StopArrivals,
      Take, Complete, Over, SweepTick, SweepPeek, SweepSeal, SweepOver, EncodeSketches,
      SweeperStop, FinishBegin, FinishSlot, FinishEnd, Tick
<1>4. QED
  BY <1>1, <1>2, <1>3

\* A thread is about to file o in its slot, or may be.
Filing(o) == \E t \in Callers : pc[t] \in {"fast", "slow"} /\ call[t].op = o

\* What a step does to the slot of an outcome and to the timelines: it leaves
\* both, files the outcome, or seals a slot and, if that held the outcome, frees it.
LEMMA OpenMoves ==
  ASSUME TypeInv, CountInv, [Next]_vars, NEW o \in Ops
  PROVE  \/ /\ UNCHANGED <<labelBuckets, labelDropped>>
            /\ Open(o)' = Open(o) \/ Filing(o)
         \/ \E s \in Slots :
              /\ ring[s].index >= 0 /\ SealSlotLocked(s)
              /\ IF ring[s].n[o] = 0 THEN Open(o)' = Open(o) \/ Filing(o)
                 ELSE SlotOf(o) = s /\ Open(o)' = 0 /\ ~Filing(o)
<1>1. /\ SlotOf(o) \in Slots /\ Open(o)' = ring'[SlotOf(o)].n[o]
      /\ Open(o) = ring[SlotOf(o)].n[o] /\ SlotHoldsItsBucket
      /\ status[o] # "filed" => Open(o) = 0
  BY SlotOfSlots, MeasuredConstant DEF Open, CountInv, Counted
<1>2. Filing(o) => Open(o) = 0
  BY <1>1, InsideFacts DEF Filing, Inside
<1>3. UNCHANGED sealedVars => UNCHANGED <<labelBuckets, labelDropped>>
  BY DEF sealedVars
<1>4. ASSUME NEW s \in Slots, ring[s].index >= 0, SealSlotLocked(s)
      PROVE  SlotOf(o) # s => ring[s].n[o] = 0
  BY <1>1, <1>4, SealMoves
<1>5. ASSUME NEW t \in Callers, FastPath(t) \/ SlowPathClaim(t)
      PROVE  /\ UNCHANGED <<labelBuckets, labelDropped>>
             /\ Open(o)' = Open(o) \/ Filing(o)
  <2> DEFINE c == call[t]
             s == SlotOf(c.op)
  <2>1. pc[t] \in {"fast", "slow"} /\ pc[t] \in Inside /\ UNCHANGED sealedVars
    BY <1>5 DEF FastPath, SlowPathClaim, Inside
  <2>2. /\ c \in CallType /\ c.op \in Ops /\ s \in Slots /\ ring[s] \in SlotType
        /\ BucketOf(c.op) \in BucketIdx
    BY <2>1, InsideFacts
  <2>3. CASE o = c.op
    BY <1>3, <2>1, <2>3 DEF Filing
  <2>4. CASE o # c.op
    <3>1. \A sl \in SlotType : Applied(sl, c).n[o] = sl.n[o]
      <4>1. \A sl \in SlotType : sl.n \in Bag /\ Applied(sl, c).n \in {sl.n, Count(sl.n, c.op)}
        BY <2>2, SlotTypes DEF SlotType
      <4>2. \A b \in Bag : Count(b, c.op)[o] = b[o]
        BY <2>2, <2>4, BagOps
      <4>3. QED
        BY <4>1, <4>2
    <3>2. \/ UNCHANGED ring
          \/ ring' = [ring EXCEPT ![s] = Applied(ring[s], c)]
          \/ ring' = [ring EXCEPT ![s] = Applied([ring[s] EXCEPT !.index = BucketOf(c.op)], c)]
      BY <1>5 DEF FastPath, SlowPathClaim
    <3>3. /\ [ring[s] EXCEPT !.index = BucketOf(c.op)] \in SlotType
          /\ [ring[s] EXCEPT !.index = BucketOf(c.op)].n = ring[s].n
      BY <2>2, SlotTypes
    <3>4. Applied(ring[s], c).n[o] = ring[s].n[o]
          /\ Applied([ring[s] EXCEPT !.index = BucketOf(c.op)], c).n[o] = ring[s].n[o]
      BY <2>2, <3>1, <3>3
    <3>5. ring'[SlotOf(o)].n[o] = ring[SlotOf(o)].n[o]
      BY <1>1, <3>2, <3>4 DEF TypeInv, RingOK
    <3>6. QED
      BY <1>1, <1>3, <2>1, <3>5
  <2>5. QED
    BY <2>3, <2>4
<1>6. ASSUME NEW t \in Callers, SlowPathSeal(t)
      PROVE  \E s \in Slots :
               /\ ring[s].index >= 0 /\ SealSlotLocked(s)
               /\ IF ring[s].n[o] = 0 THEN Open(o)' = Open(o) \/ Filing(o)
                  ELSE SlotOf(o) = s /\ Open(o)' = 0 /\ ~Filing(o)
  <2> DEFINE c == call[t]
             s == SlotOf(c.op)
             sl == [FreeSlot EXCEPT !.index = BucketOf(c.op)]
  <2>1. /\ pc[t] \in {"fast", "slow"} /\ pc[t] \in Inside
        /\ SealSlotLocked(s) /\ ring[s].index # -1
        /\ ring' = [ring EXCEPT ![s] = Applied(sl, c)]
    BY <1>6 DEF SlowPathSeal, Inside
  <2>2. /\ c \in CallType /\ c.op \in Ops /\ s \in Slots /\ BucketOf(c.op) \in BucketIdx
    BY <2>1, InsideFacts
  <2>3. ring[s].index >= 0
    BY <2>1, <2>2, SlotIndex
  <2>4. sl \in SlotType /\ sl.n = Nothing
    BY <2>2, SlotTypes
  <2>5. ring'[SlotOf(o)] = IF SlotOf(o) = s THEN Applied(sl, c) ELSE ring[SlotOf(o)]
    BY <1>1, <2>1, <2>2 DEF TypeInv, RingOK
  <2> HIDE DEF sl
  <2>6. Applied(sl, c).n \in {Nothing, Count(Nothing, c.op)}
    <3>1. Applied(sl, c).n \in {sl.n, Count(sl.n, c.op)}
      BY <2>2, <2>4, SlotTypes
    <3>2. QED
      BY <2>4, <3>1
  <2>7. o # c.op => Applied(sl, c).n[o] = 0
    <3>1. Nothing \in Bag /\ Nothing[o] = 0
      BY BagOps DEF Nothing
    <3>2. o # c.op => Count(Nothing, c.op)[o] = 0
      BY <2>2, <3>1, BagOps
    <3>3. QED
      BY <2>6, <3>1, <3>2
  <2>8. o = c.op => Filing(o) /\ ring[s].n[o] = 0
    BY <1>1, <1>2, <2>1 DEF Filing
  <2>9. ring[s].n[o] # 0 => SlotOf(o) = s /\ Open(o)' = 0 /\ ~Filing(o)
    BY <1>1, <1>2, <1>4, <2>1, <2>2, <2>3, <2>5, <2>7, <2>8
  <2>10. ring[s].n[o] = 0 => Open(o)' = Open(o) \/ Filing(o)
    BY <1>1, <2>5, <2>7, <2>8
  <2>11. QED
    BY <2>1, <2>2, <2>3, <2>9, <2>10
<1>7. CASE SweepSeal \/ FinishSlot
  <2>1. \/ UNCHANGED <<ring, sealedVars>>
        \/ /\ cursor \in Slots /\ ring[cursor].index >= 0 /\ SealSlotLocked(cursor)
           /\ ring' = [ring EXCEPT ![cursor] = FreeSlot]
    BY <1>7 DEF SweepSeal, FinishSlot, SealDue
  <2>2. CASE UNCHANGED <<ring, sealedVars>>
    BY <1>1, <1>3, <2>2
  <2>3. CASE /\ cursor \in Slots /\ ring[cursor].index >= 0 /\ SealSlotLocked(cursor)
             /\ ring' = [ring EXCEPT ![cursor] = FreeSlot]
    <3>1. ring'[SlotOf(o)] = IF SlotOf(o) = cursor THEN FreeSlot ELSE ring[SlotOf(o)]
      BY <1>1, <2>3 DEF TypeInv, RingOK
    <3>2. FreeSlot.n[o] = 0
      BY SlotTypes DEF Nothing
    <3>3. SlotOf(o) # cursor => ring[cursor].n[o] = 0
      BY <1>4, <2>3
    <3>4. IF ring[cursor].n[o] = 0 THEN Open(o)' = Open(o)
          ELSE SlotOf(o) = cursor /\ Open(o)' = 0 /\ ~Filing(o)
      BY <1>1, <1>2, <3>1, <3>2, <3>3
    <3>5. QED
      BY <2>3, <3>4
  <2>4. QED
    BY <2>1, <2>2, <2>3
<1>8. ASSUME ~\E t \in Callers : FastPath(t) \/ SlowPathClaim(t) \/ SlowPathSeal(t),
             ~SweepSeal, ~FinishSlot
      PROVE  UNCHANGED <<ring, labelBuckets, labelDropped>>
  BY <1>8, ThreadsDistinct
  DEF Next, vars, GeneratorStep, WorkerStep, CollectorStep, SweeperStep, EngineStep,
      NoteStore, RecordEnter, CounterEnter, CounterCheck, SlowPathGone, LateTally,
      LateLabel, LateRunner, Offer, Dispatch, Drop, StopArrivals, Take, Complete, Over,
      SweepTick, SweepPeek, SweepOver, EncodeSketches, SweeperStop, FinishBegin, FinishEnd,
      Tick, sealedVars
<1>9. UNCHANGED ring => Open(o)' = Open(o)
  BY <1>1
<1>10. QED
  BY <1>5, <1>6, <1>7, <1>8, <1>9

\* An outcome that becomes filed is then in its slot, or is late.
LEMMA FiledMoves ==
  ASSUME TypeInv, CountInv, PlaceInv, [Next]_vars, NEW o \in Ops
  PROVE  /\ status[o] = "filed" => status'[o] = "filed"
         /\ status'[o] = "filed" /\ status[o] # "filed" => Open(o)' > 0 \/ late'[o] > 0
<1>1. status[o] = "filed" => status'[o] = "filed"
  BY StatusMoves, OtherMoves
<1>2. ASSUME NEW t \in Callers, CollectorStep(t), Return(t),
             status'[o] = "filed", status[o] # "filed"
      PROVE  Open(o)' > 0 \/ late'[o] > 0
  <2> DEFINE c == call[t]
             s == SlotOf(o)
  <2>1. pc[t] \in Inside
    BY <1>2, CollectorStepInside
  <2>2. c.op = o /\ c.kind = "record" /\ c \in CallType
    BY <1>2, <2>1, ReturnFacts, InsideFacts
  <2>3. /\ s \in Slots /\ ring[s] \in SlotType /\ BucketOf(o) \in BucketIdx
        /\ Open(o)' = ring'[s].n[o] /\ late \in Bag
    BY SlotOfSlots, BucketOfNat, MeasuredConstant, BagsAreFunctions DEF Open, TypeInv, RestOK
  <2>4. \A sl \in SlotType : Applied(sl, c).n[o] > 0
    <3>1. \A sl \in SlotType : sl.n \in Bag /\ Applied(sl, c).n = Count(sl.n, o)
      BY <2>2, SlotTypes DEF SlotType
    <3>2. \A b \in Bag : Count(b, o)[o] = b[o] + 1 /\ b[o] \in Nat
      BY BagOps DEF Bag
    <3>3. QED
      BY <3>1, <3>2
  <2>5. CASE FastPath(t) \/ SlowPathClaim(t) \/ SlowPathSeal(t)
    <3>1. \E sl \in SlotType : ring' = [ring EXCEPT ![s] = Applied(sl, c)]
      <4>1. /\ [ring[s] EXCEPT !.index = BucketOf(o)] \in SlotType
            /\ [FreeSlot EXCEPT !.index = BucketOf(o)] \in SlotType
        BY <2>3, SlotTypes
      <4>2. CASE FastPath(t)
        <5>1. pc'[t] # "slow"
          BY <1>2, <2>2, ThreadsDistinct DEF Return, ResumeAt, TypeInv, CallInv, ThreadsOK
        <5>2. ring[s].index = BucketOf(o)
          BY <2>2, <4>2, <5>1, ThreadsDistinct DEF FastPath, TypeInv, CallInv, ThreadsOK
        <5>3. QED
          BY <2>2, <2>3, <4>2, <5>2 DEF FastPath
      <4>3. CASE SlowPathClaim(t)
        BY <2>2, <4>1, <4>3 DEF SlowPathClaim
      <4>4. CASE SlowPathSeal(t)
        BY <2>2, <4>1, <4>4 DEF SlowPathSeal
      <4>5. QED
        BY <2>5, <4>2, <4>3, <4>4
    <3>2. PICK sl \in SlotType : ring' = [ring EXCEPT ![s] = Applied(sl, c)]
      BY <3>1
    <3>3. ring'[s] = Applied(sl, c)
      BY <2>3, <3>2 DEF TypeInv, RingOK
    <3>4. QED
      BY <2>3, <2>4, <3>3
  <2>6. CASE LateTally(t)
    <3>1. late' = Count(late, o)
      BY <2>2, <2>6 DEF LateTally
    <3>2. late'[o] = late[o] + 1 /\ late[o] \in Nat
      BY <2>3, <3>1, BagOps DEF Bag
    <3>3. QED
      BY <3>2
  <2>7. CASE LateRunner(t)
    <3>1. pc[t] = "lateRunner" /\ UNCHANGED late
      BY <2>7 DEF LateRunner
    <3>2. late[o] > 0
      BY <2>2, <3>1 DEF PlaceInv, LateElsewhere
    <3>3. QED
      BY <3>1, <3>2
  <2>8. CASE CounterCheck(t) \/ SlowPathGone(t)
    <3>1. CASE CounterCheck(t)
      BY <2>2, <3>1 DEF CounterCheck, TypeInv, CallInv, CallsMatch
    <3>2. CASE SlowPathGone(t)
      <4>1. pc'[t] # "late"
        BY <1>2, <2>2, ThreadsDistinct DEF Return, ResumeAt, TypeInv, CallInv, ThreadsOK
      <4>2. QED
        BY <2>2, <3>2, <4>1, ThreadsDistinct DEF SlowPathGone, TypeInv, CallInv, ThreadsOK
    <3>3. QED
      BY <2>8, <3>1, <3>2
  <2>9. CASE NoteStore(t) \/ RecordEnter(t) \/ CounterEnter(t) \/ LateLabel(t)
    <3>1. UNCHANGED status
      BY <2>9 DEF NoteStore, RecordEnter, CounterEnter, LateLabel
    <3>2. QED
      BY <1>2, <3>1
  <2>10. QED
    BY <1>2, <2>5, <2>6, <2>7, <2>8, <2>9 DEF CollectorStep
<1>3. ASSUME NEW t \in Callers, CollectorStep(t), ~Return(t)
      PROVE  UNCHANGED status
  BY <1>3 DEF CollectorStep, NoteStore, RecordEnter, CounterEnter, CounterCheck,
     FastPath, SlowPathClaim, SlowPathSeal, SlowPathGone, LateTally, LateLabel, LateRunner
<1>4. CASE CallerStep /\ ~\E t \in Callers : CollectorStep(t)
  <2>1. \/ Offer \/ Dispatch \/ Drop \/ StopArrivals
        \/ \E w \in Workers : Take(w) \/ Complete(w)
    BY <1>4, ThreadsDistinct DEF CallerStep, GeneratorStep, WorkerStep
  <2>2. \/ UNCHANGED status
        \/ \E p \in Ops : status' = [status EXCEPT ![p] = "queued"]
        \/ \E p \in Ops : status' = [status EXCEPT ![p] = "taken"]
    <3>1. CASE Dispatch
      <4>1. call[Generator].op \in Ops
        BY <3>1, ThreadsDistinct DEF Dispatch, TypeInv, CallInv, CallsMatch, Busy
      <4>2. QED
        BY <3>1, <4>1 DEF Dispatch
    <3>2. QED
      BY <2>1, <3>1 DEF Offer, Drop, StopArrivals, Take, Complete, IsFirst, InStatus
  <2>3. status'[o] = "filed" => status[o] = "filed"
    BY <2>2 DEF TypeInv, CallInv, ThreadsOK
  <2>4. QED
    BY <1>1, <2>3
<1>5. CASE ~CallerStep
  BY <1>1, <1>5, OtherMoves
<1>6. QED
  BY <1>1, <1>2, <1>3, <1>4, <1>5

\* A thread enters the late additions from the tally.
LEMMA LateEnters ==
  ASSUME TypeInv, [Next]_vars, NEW t \in Callers, pc'[t] \in {"lateLabel", "lateRunner"}
  PROVE  /\ call'[t] = call[t]
         /\ \/ pc[t] \in {"lateLabel", "lateRunner"}
            \/ pc[t] = "late" /\ late' = Count(late, call[t].op)
<1> DEFINE Done(u) == /\ call'[u] = call[u]
                      /\ \/ pc[u] \in {"lateLabel", "lateRunner"}
                         \/ pc[u] = "late" /\ late' = Count(late, call[u].op)
<1>1. CASE CallerStep /\ CollectorStep(t)
  <2>1. pc[t] \in Inside /\ call[t].kind \in Kinds /\ t \in Threads
        /\ pc \in [Threads -> CallerPC \cup {"peek", "lock", "encode", "finish", "finished"}]
    BY <1>1, CollectorStepInside, InsideFacts, ThreadsDistinct DEF TypeInv, CallInv, ThreadsOK
  <2>2. ~Return(t)
    BY <2>1 DEF Return, ResumeAt, Kinds
  <2>3. CASE NoteStore(t)
    <3>1. pc'[t] = call[t].dest /\ call[t].dest \in {"check", "fast", "late"}
      BY <2>1, <2>3 DEF NoteStore, TypeInv, CallInv, CallsMatch
    <3>2. QED
      BY <3>1
  <2>4. CASE RecordEnter(t) \/ CounterEnter(t)
    BY <2>1, <2>4 DEF RecordEnter, CounterEnter, NoteBucket
  <2>5. CASE \/ CounterCheck(t) \/ FastPath(t) \/ SlowPathClaim(t)
             \/ SlowPathSeal(t) \/ SlowPathGone(t)
    BY <2>1, <2>2, <2>5 DEF CounterCheck, FastPath, SlowPathClaim, SlowPathSeal, SlowPathGone
  <2>6. CASE LateTally(t)
    BY <2>1, <2>2, <2>6 DEF LateTally
  <2>7. CASE LateLabel(t) \/ LateRunner(t)
    BY <2>1, <2>2, <2>7 DEF LateLabel, LateRunner
  <2>8. QED
    BY <1>1, <2>3, <2>4, <2>5, <2>6, <2>7 DEF CollectorStep
<1>2. ASSUME NEW u \in Callers, u # t, CollectorStep(u) PROVE Done(t)
  <2>1. pc'[t] = pc[t] /\ call'[t] = call[t]
    BY <1>2, ThreadsDistinct
    DEF CollectorStep, NoteStore, RecordEnter, CounterEnter, CounterCheck, FastPath,
        SlowPathClaim, SlowPathSeal, SlowPathGone, LateTally, LateLabel, LateRunner,
        NoteBucket, Return, TypeInv, CallInv, ThreadsOK
  <2>2. QED
    BY <2>1
<1>3. CASE CallerStep /\ ~\E u \in Callers : CollectorStep(u)
  <2>1. \/ Offer \/ Dispatch \/ Drop \/ StopArrivals
        \/ \E w \in Workers : Take(w) \/ Complete(w)
    BY <1>3, ThreadsDistinct DEF CallerStep, GeneratorStep, WorkerStep
  <2>2. PICK u \in Callers :
          /\ pc[u] \notin Inside /\ pc'[u] \in {"enter", "idle", "stopped"}
          /\ \A v \in Callers \ {u} : pc'[v] = pc[v] /\ call'[v] = call[v]
    BY <2>1, DrivingMoves
  <2>3. QED
    BY <2>2
<1>4. CASE ~CallerStep
  BY <1>4, OtherMoves
<1>5. QED
  BY <1>1, <1>2, <1>3, <1>4

\* Every step keeps an outcome that is late, or on its way there, out of the slots.
LEMMA LateElsewhereStep ==
  ASSUME TypeInv, CountInv, LateInv, PlaceInv, [Next]_vars, NEW o \in Ops
  PROVE  LateElsewhere(o)'
<1>1. LateElsewhere(o) /\ Counted(o)
  BY DEF PlaceInv, CountInv
<1>2. ASSUME late'[o] > 0 PROVE Open(o)' = 0
  <2>1. CASE late'[o] = late[o]
    <3>1. late[o] > 0 /\ Open(o) = 0 /\ Tallied(o)
      BY <1>1, <1>2, <2>1 DEF LateElsewhere, LateInv
    <3>2. ~Filing(o)
      <4> SUFFICES ASSUME NEW t \in Callers, pc[t] \in {"fast", "slow"}, call[t].op = o
                   PROVE  FALSE
        BY DEF Filing
      <4>1. status[o] # "filed" /\ \A u \in Callers \ {t} : Busy(u) => call[u].op # o
        BY InsideFacts DEF Inside
      <4>2. PICK u \in Callers : call[u].op = o /\ pc[u] \in {"lateLabel", "lateRunner"}
        BY <3>1, <4>1 DEF Tallied
      <4>3. QED
        BY <4>1, <4>2 DEF Busy, Inside
    <3>3. QED
      BY <3>1, <3>2, OpenMoves
  <2>2. CASE /\ UNCHANGED ring
             /\ \E t \in Callers : pc[t] = "late" /\ call[t].op = o
    <3>1. status[o] # "filed"
      BY <2>2, InsideFacts DEF Inside
    <3>2. Open(o)' = Open(o)
      BY <2>2, MeasuredConstant DEF Open
    <3>3. QED
      BY <1>1, <3>1, <3>2 DEF Counted
  <2>3. QED
    BY <2>1, <2>2, LateMoves
<1>3. ASSUME NEW t \in Callers, pc'[t] \in {"lateLabel", "lateRunner"}, call'[t].op = o
      PROVE  late'[o] > 0
  <2>1. CASE pc[t] \in {"lateLabel", "lateRunner"} /\ call[t].op = o
    <3>1. late[o] > 0
      BY <1>1, <2>1 DEF LateElsewhere
    <3>2. QED
      BY <3>1, LateMoves
  <2>2. CASE call[t].op = o /\ late' = Count(late, o)
    <3>1. late \in Bag
      BY DEF TypeInv, RestOK
    <3>2. late'[o] = late[o] + 1 /\ late[o] \in Nat
      BY <2>2, <3>1, BagOps DEF Bag
    <3>3. QED
      BY <3>2
  <2>3. QED
    BY <1>3, <2>1, <2>2, LateEnters
<1>4. QED
  BY <1>2, <1>3 DEF LateElsewhere

\* PlaceInv is inductive relative to the invariants before it.
LEMMA PlaceStep == TypeInv /\ CountInv /\ LateInv /\ PlaceInv /\ [Next]_vars => PlaceInv'
<1> SUFFICES ASSUME TypeInv, CountInv, LateInv, PlaceInv, [Next]_vars, NEW o \in Ops,
                    ~labelDropped'
             PROVE  IF Entered(o)' THEN Once(o)' ELSE Nowhere(o)'
  BY LateElsewhereStep DEF PlaceInv
<1>1. /\ Counted(o) /\ SlotHoldsItsBucket /\ LateElsewhere(o)
      /\ ~labelDropped => IF Entered(o) THEN Once(o) ELSE Nowhere(o)
  BY DEF PlaceInv, CountInv
<1>2. status[o] = "filed" => late'[o] = late[o] /\ ~Filing(o)
  BY LateMoves, InsideFacts DEF Filing, Inside
<1>3. Entered(o)' <=> status'[o] = "filed" /\ late'[o] = 0 /\ Open(o)' = 0
  BY DEF Entered
<1>4. ASSUME Open(o)' = Open(o) \/ Filing(o) PROVE Entered(o)' <=> Entered(o)
  <2>1. CASE status[o] = "filed"
    BY <1>2, <1>3, <1>4, <2>1, FiledMoves DEF Entered
  <2>2. CASE status[o] # "filed"
    <3>1. ~(status'[o] = "filed" /\ late'[o] = 0 /\ Open(o)' = 0)
      BY <2>2, FiledMoves
    <3>2. QED
      BY <1>3, <2>2, <3>1 DEF Entered
  <2>3. QED
    BY <2>1, <2>2
<1>5. CASE UNCHANGED <<labelBuckets, labelDropped>> /\ (Open(o)' = Open(o) \/ Filing(o))
  <2>1. BucketOf(o)' = BucketOf(o) /\ Timeline(o)' = Timeline(o)
    BY <1>5 DEF BucketOf, BucketIndexOf, Timeline
  <2>2. (Once(o)' <=> Once(o)) /\ (Nowhere(o)' <=> Nowhere(o))
    BY <2>1 DEF Once, Nowhere
  <2>3. QED
    BY <1>1, <1>4, <1>5, <2>2
<1>6. ASSUME NEW s \in Slots, ring[s].index >= 0, SealSlotLocked(s),
             IF ring[s].n[o] = 0 THEN Open(o)' = Open(o) \/ Filing(o)
             ELSE SlotOf(o) = s /\ Open(o)' = 0 /\ ~Filing(o)
      PROVE  IF Entered(o)' THEN Once(o)' ELSE Nowhere(o)'
  <2>1. /\ ~labelDropped
        /\ ring[s].n[o] = 0 => /\ Nowhere(o) => Nowhere(o)'
                               /\ Once(o) => Once(o)'
        /\ ring[s].n[o] = 1 => (Nowhere(o) => Once(o)')
    BY <1>1, <1>6, SealEnters
  <2>2. CASE ring[s].n[o] = 0
    BY <1>1, <1>4, <1>6, <2>1, <2>2
  <2>3. CASE ring[s].n[o] # 0
    <3>1. ring[s].n[o] = Open(o) /\ Open(o) \in {0, 1}
      BY <1>1, <1>6, <2>3 DEF Open, Counted
    <3>2. ring[s].n[o] = 1 /\ Open(o) = 1
      BY <2>3, <3>1
    <3>3. status[o] = "filed" /\ ~(late[o] > 0) /\ late[o] \in Nat
      BY <1>1, <3>2, LateMoves DEF Counted, LateElsewhere
    <3>4. ~Entered(o)
      BY <3>2 DEF Entered
    <3>5. Entered(o)'
      BY <1>2, <1>3, <1>6, <2>3, <3>3, FiledMoves
    <3>6. QED
      BY <1>1, <2>1, <3>2, <3>4, <3>5
  <2>4. QED
    BY <2>2, <2>3
<1>7. QED
  BY <1>5, <1>6, OpenMoves

\* However filing, sealing and the late path interleave, when Finish returns every
\* outcome that was not late is in one entry of its label's timeline, once, at its
\* own bucket, unless the timelines were given up (sealSlotLocked, recordLabelBucket).
THEOREM LabelTimelineCompleteAlways == Spec => []LabelTimelineComplete
<1>1. Init => PlaceInv
  <2> SUFFICES ASSUME Init, NEW o \in Ops
               PROVE  LateElsewhere(o) /\ ~Entered(o) /\ Nowhere(o)
    BY DEF PlaceInv
  <2>1. /\ late[o] = 0 /\ status[o] = "scheduled" /\ Timeline(o) = <<>>
        /\ \A t \in Callers : pc[t] = "idle"
    BY LabelAssumption, ThreadsDistinct DEF Init, Nothing, Timeline
  <2>2. QED
    BY <2>1 DEF LateElsewhere, Entered, Nowhere
<1>2. TypeInv /\ CountInv /\ TimingInv /\ PlaceInv /\ [Next]_vars => PlaceInv'
  BY PlaceStep DEF TimingInv
<1>3. TypeInv /\ TimingInv /\ PlaceInv => LabelTimelineComplete
  <2> SUFFICES ASSUME TypeInv, TimingInv, PlaceInv, pc[Engine] = "finished", ~labelDropped,
                      NEW o \in Ops, status[o] = "filed", late[o] = 0
               PROVE  LET tl   == labelBuckets[LabelOf[o]]
                          here == {i \in DOMAIN tl : tl[i].n[o] > 0}
                      IN  /\ Cardinality(here) = 1
                          /\ \A i \in here : tl[i].n[o] = 1 /\ tl[i].index = BucketOf(o)
    BY DEF LabelTimelineComplete
  <2> DEFINE tl   == labelBuckets[LabelOf[o]]
             here == {i \in DOMAIN tl : tl[i].n[o] > 0}
  <2>1. Open(o) = 0
    <3>1. ring[SlotOf(o)] = FreeSlot
      BY SlotOfSlots DEF TimingInv, FreedInv
    <3>2. QED
      BY <3>1, SlotTypes DEF Open, Nothing
  <2>2. Once(o)
    BY <2>1 DEF PlaceInv, Entered
  <2>3. PICK k \in DOMAIN tl : /\ tl[k].n[o] = 1 /\ tl[k].index = BucketOf(o)
                               /\ \A i \in DOMAIN tl : i # k => tl[i].n[o] = 0
    BY <2>2 DEF Once, Timeline
  <2> HIDE DEF tl
  <2>4. here = {k}
    BY <2>3
  <2>5. Cardinality(here) = 1
    BY <2>4, FS_Singleton
  <2>6. \A i \in here : tl[i].n[o] = 1 /\ tl[i].index = BucketOf(o)
    BY <2>3, <2>4
  <2>7. QED
    BY <2>5, <2>6 DEF tl
<1>4. QED
  BY <1>1, <1>2, <1>3, CountInvInvariant, TimingInvariant, PTL DEF Spec

-----------------------------------------------------------------------------
(* The refinement of OutcomeLedger. *)

Invs == TypeInv /\ CountInv /\ TimingInv

\* The ledger's view of the state.
Filed  == {o \in Ops : status[o] = "filed"}
Window == {o \in Ops : Measured(o)}
Closed == pc[Engine] = "finished"

\* The totals only grow, and what is filed stays filed.
LEMMA BooksGrow ==
  ASSUME Invs, [Next]_vars, NEW o \in Ops
  PROVE  /\ wholeRunner[o] \in Nat /\ wholeRunner'[o] \in Nat
         /\ wholeRunner[o] <= wholeRunner'[o]
         /\ status[o] = "filed" => status'[o] = "filed"
<1>1. TypeInv /\ TypeInv' /\ SlotHoldsItsBucket
  BY CallInvStep, TypeStep DEF Invs, TypeInv, CountInv
<1>2. /\ wholeRunner[o] \in Nat /\ wholeRunner'[o] \in Nat
      /\ \A s \in Slots : Moved(s, o) \in Nat
  BY <1>1, BagsAreFunctions DEF TypeInv, SealedOK, Bag, Moved
<1>3. status[o] = "filed" => status'[o] = "filed"
  BY <1>1, StatusMoves, OtherMoves
<1>4. CASE wholeRunner'[o] = wholeRunner[o]
  BY <1>2, <1>3, <1>4
<1>5. ASSUME NEW s \in Slots, SealSlotLocked(s), ring[s].index >= 0
      PROVE  wholeRunner[o] <= wholeRunner'[o]
  <2>1. wholeRunner'[o] = wholeRunner[o] + Moved(s, o)
    BY <1>1, <1>5, SealMoves
  <2>2. QED
    BY <1>2, <2>1
<1>6. ASSUME NEW t \in Callers, LateRunner(t)
      PROVE  wholeRunner[o] <= wholeRunner'[o]
  <2>1. call[t].op \in Ops /\ wholeRunner \in Bag
    BY <1>1, <1>6, InsideFacts DEF LateRunner, Inside, TypeInv, SealedOK
  <2>2. wholeRunner'[o] = IF o = call[t].op THEN wholeRunner[o] + 1 ELSE wholeRunner[o]
    BY <1>6, <2>1, BagOps DEF LateRunner
  <2>3. QED
    BY <1>2, <2>2
<1>7. ASSUME NEW t \in Callers, SlowPathSeal(t)
      PROVE  wholeRunner[o] <= wholeRunner'[o]
  <2>1. pc[t] \in Inside /\ SealSlotLocked(SlotOf(call[t].op)) /\ ring[SlotOf(call[t].op)].index # -1
    BY <1>7 DEF SlowPathSeal, Inside
  <2>2. SlotOf(call[t].op) \in Slots /\ ring[SlotOf(call[t].op)].index >= 0
    BY <1>1, <2>1, InsideFacts, SlotIndex
  <2>3. QED
    BY <1>5, <2>1, <2>2
<1>8. CASE SweepSeal \/ FinishSlot
  <2>1. \/ UNCHANGED sealedVars
        \/ cursor \in Slots /\ ring[cursor].index >= 0 /\ SealSlotLocked(cursor)
    BY <1>8 DEF SweepSeal, FinishSlot, SealDue
  <2>2. UNCHANGED sealedVars => wholeRunner'[o] = wholeRunner[o]
    BY DEF sealedVars
  <2>3. QED
    BY <1>2, <1>3, <1>5, <2>1, <2>2
<1>9. ASSUME ~\E t \in Callers : SlowPathSeal(t) \/ LateRunner(t), ~SweepSeal, ~FinishSlot
      PROVE  wholeRunner'[o] = wholeRunner[o]
  BY <1>9, ThreadsDistinct
  DEF Next, vars, GeneratorStep, WorkerStep, CollectorStep, SweeperStep, EngineStep,
      NoteStore, RecordEnter, CounterEnter, CounterCheck, FastPath, SlowPathClaim,
      SlowPathGone, LateTally, LateLabel, Offer, Dispatch, Drop, StopArrivals, Take,
      Complete, Over, SweepTick, SweepPeek, SweepOver, EncodeSketches, SweeperStop,
      FinishBegin, FinishEnd, Tick, sealedVars
<1>10. QED
  BY <1>2, <1>3, <1>4, <1>6, <1>7, <1>8, <1>9

\* Once Finish has returned nothing is booked, and only its return closes the books.
LEMMA ClosedStays ==
  ASSUME Invs, [Next]_vars, ~FinishEnd
  PROVE  /\ Closed' <=> Closed
         /\ Closed => UNCHANGED <<status, wholeRunner>>
<1>1. TypeInv /\ QuietInv
  BY DEF Invs, TimingInv
<1>2. CASE CallerStep
  BY <1>1, <1>2, CallerMoves DEF QuietInv, Closed
<1>3. CASE SweeperStep
  <2>1. pc'[Engine] = pc[Engine] /\ pc[Sweeper] # "stopped"
    BY <1>1, <1>3, ThreadsDistinct, SweeperNotEngine
    DEF SweeperStep, SweepTick, SweepPeek, SweepSeal, SweepOver, EncodeSketches, SweeperStop,
        TypeInv, CallInv, ThreadsOK
  <2>2. QED
    BY <1>1, <2>1 DEF QuietInv, Closed
<1>4. CASE FinishBegin \/ FinishSlot
  BY <1>1, <1>4, ThreadsDistinct
  DEF FinishBegin, FinishSlot, Closed, TypeInv, CallInv, ThreadsOK
<1>5. CASE Tick \/ Over \/ UNCHANGED vars
  BY <1>5 DEF Tick, Over, vars, sealedVars, Closed
<1>6. QED
  BY <1>2, <1>3, <1>4, <1>5 DEF Next, CallerStep, EngineStep

\* When Finish returns, every filed outcome of the window is in the totals.
LEMMA SettledAtEnd ==
  ASSUME Invs, FinishEnd, NEW o \in Ops, status[o] = "filed", Measured(o)
  PROVE  wholeRunner[o] # 0
<1>1. /\ pc[Engine] = "finish" /\ cursor = RingSize
      /\ Counted(o) /\ SlotOf(o) \in Slots /\ wholeRunner[o] \in Nat
  BY SlotOfSlots, BagsAreFunctions DEF FinishEnd, Invs, CountInv
<1>2. SlotOf(o) < RingSize
  BY <1>1, RingSizeNat DEF Slots
<1>3. ring[SlotOf(o)] = FreeSlot
  BY <1>1, <1>2 DEF Invs, TimingInv, FreedInv
<1>4. Open(o) = 0
  BY <1>3, SlotTypes DEF Open, Nothing
<1>5. QED
  BY <1>1, <1>4 DEF Counted

\* A booking of reported outcomes is a step of the ledger.
LEMMA BookingIsNext ==
  ASSUME NEW R \in SUBSET (Ops \ Filed), NEW S \in SUBSET Ledger!Outstanding(Filed \cup R),
         Ledger!Book(R, S)
  PROVE  Ledger!LedgerNext
  BY DEF Ledger!LedgerNext, Filed

\* Any step but the last books what is newly filed and what enters the totals.
LEMMA StepBooks ==
  ASSUME Invs, Invs', [Next]_vars, ~FinishEnd, ~Closed
  PROVE  Ledger!LedgerNext
<1> SUFFICES ASSUME NEW R, R = Filed' \ Filed,
                    NEW S, S = {o \in Ops : wholeRunner'[o] # wholeRunner[o]}
             PROVE  Ledger!LedgerNext
  OBVIOUS
<1>1. Closed' = Closed
  BY ClosedStays DEF Closed
<1>2. \A o \in Ops : /\ status[o] = "filed" => status'[o] = "filed"
                     /\ wholeRunner[o] \in Nat /\ wholeRunner'[o] \in Nat
                     /\ wholeRunner[o] <= wholeRunner'[o]
  BY BooksGrow
<1>3. Filed' = {o \in Ops : status'[o] = "filed"}
  BY DEF Filed
<1>4. Filed' = Filed \cup R /\ R \in SUBSET (Ops \ Filed)
  BY <1>2, <1>3 DEF Filed
<1>5. ASSUME NEW o \in Ops, o \in S
      PROVE  /\ Measured(o) /\ status'[o] = "filed"
             /\ wholeRunner[o] = 0 /\ wholeRunner'[o] = 1
  <2>1. Counted(o) /\ Counted(o)' /\ (Measured(o)' <=> Measured(o)) /\ Open(o) \in Nat
    BY MeasuredConstant, BagsAreFunctions DEF Invs, CountInv
  <2>2. Open(o)' \in {0, 1}
    BY <2>1 DEF Counted
  <2>3. Measured(o)
    BY <1>5, <2>1 DEF Counted
  <2>4. wholeRunner'[o] + Open(o)' = IF status'[o] = "filed" THEN 1 ELSE 0
    BY <2>1, <2>3 DEF Counted
  <2>5. QED
    BY <1>2, <1>5, <2>2, <2>3, <2>4
<1>6. S \in SUBSET {o \in (Filed \cup R) \cap Window : wholeRunner[o] = 0}
  BY <1>3, <1>4, <1>5 DEF Window
<1>7. wholeRunner' = [o \in Ops |-> IF o \in S THEN wholeRunner[o] + 1 ELSE wholeRunner[o]]
  <2>1. wholeRunner' \in [Ops -> Nat]
    BY DEF Invs, TypeInv, SealedOK, Bag
  <2>2. \A o \in Ops : wholeRunner'[o] = IF o \in S THEN wholeRunner[o] + 1 ELSE wholeRunner[o]
    BY <1>5
  <2>3. QED
    BY <2>1, <2>2
<1>8. Ledger!Book(R, S)
  BY <1>1, <1>4, <1>7 DEF Ledger!Book, Filed, Closed
<1>9. S \in SUBSET Ledger!Outstanding(Filed \cup R)
  BY <1>6 DEF Ledger!Outstanding, Window
<1>10. QED
  BY <1>4, <1>8, <1>9, BookingIsNext

\* Every step of the collector is a step of the ledger, or one it does not see.
LEMMA LedgerStep ==
  ASSUME Invs, Invs', [Next]_vars
  PROVE  [Ledger!LedgerNext]_Ledger!ledgerVars
<1>1. CASE FinishEnd
  <2>1. /\ ~Closed /\ Closed' /\ UNCHANGED <<status, wholeRunner>>
    BY <1>1, ThreadsDistinct
    DEF FinishEnd, Closed, sealedVars, Invs, TypeInv, CallInv, ThreadsOK
  <2>2. Ledger!Outstanding(Filed) = {}
    BY <1>1, SettledAtEnd DEF Ledger!Outstanding, Filed
  <2>3. Ledger!Close
    BY <2>1, <2>2 DEF Ledger!Close, Closed, Filed
  <2>4. QED
    BY <2>3 DEF Ledger!LedgerNext
<1>2. CASE ~FinishEnd /\ ~Closed
  BY <1>2, StepBooks
<1>3. CASE ~FinishEnd /\ Closed
  <2>1. UNCHANGED <<status, wholeRunner>> /\ (Closed' <=> Closed)
    BY <1>3, ClosedStays
  <2>2. QED
    BY <2>1 DEF Ledger!ledgerVars, Closed
<1>4. QED
  BY <1>1, <1>2, <1>3

\* The collector keeps its promise: every outcome reported to it enters the run's
\* totals once if it belongs to the window and never otherwise, and Finish returns
\* only when nothing is outstanding.
THEOREM CollectorKeepsPromise == Spec => ImplementsLedger
<1>1. Init => Ledger!LedgerInit
  <2> SUFFICES ASSUME Init PROVE Ledger!LedgerInit
    OBVIOUS
  <2>1. /\ \A o \in Ops : status[o] = "scheduled"
        /\ wholeRunner = [o \in Ops |-> 0] /\ pc[Engine] = "idle"
    BY ThreadsDistinct DEF Init, Nothing
  <2>2. QED
    BY <2>1 DEF Ledger!LedgerInit
<1>2. Spec => []Invs
  BY CountInvInvariant, TimingInvariant, PTL DEF Invs
<1>3. Invs /\ Invs' /\ [Next]_vars => [Ledger!LedgerNext]_Ledger!ledgerVars
  BY LedgerStep
<1>4. QED
  BY <1>1, <1>2, <1>3, PTL DEF Spec, ImplementsLedger, Ledger!LedgerSpec
=============================================================================
