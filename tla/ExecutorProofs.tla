---------------------------- MODULE ExecutorProofs ----------------------------
(***************************************************************************)
(* Proofs about Executor, for every number of workers, depth of the queue  *)
(* and length of the schedule: its types, that the generator's counters    *)
(* add up, that the gauge and its peak are exact, that every arrival is    *)
(* performed once or refused, and that Run leaves nothing behind.          *)
(*                                                                         *)
(* The layers, each inductive relative to the ones before it:              *)
(*   TypeInv   the types, and that the gauge is the number of the workers  *)
(*             between their Add(1) and their Add(-1);                     *)
(*   CountInv  what the three counters are at each place of the loop;      *)
(*   QueueInv  who may be parked or gone while the queue holds what;       *)
(*   OnceInv   where each arrival is: in one place or in none;             *)
(*   GaugeInv  which reading accounts for every level of the gauge.        *)
(*                                                                         *)
(* And proof that Executor implements BoundedDispatch: the initial states  *)
(* map to the initial state, and every step to a step of the promise or to *)
(* none.  An arrival is in one place (OnceInv), so its fate is the         *)
(* place's; a worker that is handed a job was parked, so the queue was     *)
(* empty (QueueInv).                                                       *)
(***************************************************************************)
EXTENDS Executor, FiniteSetTheorems, SequenceTheorems, TLAPS

Active  == {w \in Workers : wpc[w] \in {"counted", "busy", "done"}}
Unnoted == {w \in Workers : wpc[w] = "counted"}
InLoop  == genPc \in {"sleep", "asleep", "offer", "send", "sent"}
Employed(w) == wpc[w] \in {"got", "counted", "busy", "done"}

TypeInv ==
  /\ TypeOK
  /\ InLoop => next <= NumArrivals
  /\ \A w \in Workers : Employed(w) => wjob[w] \in Arrivals
  /\ inFlight = Cardinality(Active)

\* The places of the generator's loop after offered.Add.
Offered == genPc \in {"send", "sent"}

CountInv ==
  /\ offered = next - 1 + (IF Offered THEN 1 ELSE 0)
  /\ dispatched + dropped = next - 1
  /\ \A a \in refused : a < next
  /\ dropped = Cardinality(refused)

QueueInv ==
  /\ closed <=> genPc \in {"draining", "returned"}
  /\ \A w \in Workers : wpc[w] = "parked" => queue = <<>> /\ ~closed
  /\ \A w \in Workers : wpc[w] = "exited" => queue = <<>> /\ closed
  /\ genPc = "returned" => \A w \in Workers : wpc[w] = "exited"

\* Who has an arrival, and where it is in the queue.
Holders(a)   == {w \in Workers : Holds(w, a)}
Positions(a) == {i \in DOMAIN queue : queue[i] = a}

Nowhere(a) == Holders(a) = {} /\ Positions(a) = {} /\ recorded[a] = 0
Somewhere(a) ==
  \/ (\E w : Holders(a) = {w}) /\ Positions(a) = {} /\ recorded[a] = 0
  \/ Holders(a) = {} /\ (\E i : Positions(a) = {i}) /\ recorded[a] = 0
  \/ Holders(a) = {} /\ Positions(a) = {} /\ recorded[a] = 1

Unsettled(a) == a \in refused \/ a > next \/ (a = next /\ genPc # "sent")

OnceInv == \A a \in Arrivals : IF Unsettled(a) THEN Nowhere(a) ELSE Somewhere(a)

\* Every level the gauge stands above the peak is the reading of a worker that has still
\* to note it.
GaugeInv ==
  /\ \A w \in Workers : reading[w] <= MaxInFlight
  /\ peakInFlight <= MaxInFlight
  /\ \A j \in 1 .. inFlight : j <= peakInFlight \/ \E w \in Unnoted : reading[w] = j

-----------------------------------------------------------------------------
(* Types. *)

LEMMA WorkersFinite ==
  /\ IsFiniteSet(Workers) /\ MaxInFlight \in Nat
  /\ \A S \in SUBSET Workers : IsFiniteSet(S) /\ Cardinality(S) \in Nat /\ Cardinality(S) <= MaxInFlight
BY ExecutorAssumption, FS_CardinalityType, FS_Subset DEF MaxInFlight

\* The gauge follows the workers that count, whatever else a step does.
LEMMA ActiveStep ==
  ASSUME TypeInv, [Next]_vars
  PROVE  inFlight' = Cardinality(Active)'
<1> USE DEF TypeInv, TypeOK
<1>1. Active \in SUBSET Workers /\ IsFiniteSet(Active) /\ Cardinality(Active) \in Nat
  BY WorkersFinite DEF Active
<1>2. ASSUME NEW w \in Workers, WorkerEnter(w)
      PROVE  inFlight' = Cardinality(Active)'
  <2>1. Active' = Active \cup {w} /\ w \notin Active
    BY <1>2 DEF WorkerEnter, Active
  <2> QED
    BY <1>1, <1>2, <2>1, FS_AddElement DEF WorkerEnter
<1>3. ASSUME NEW w \in Workers, WorkerLeave(w)
      PROVE  inFlight' = Cardinality(Active)'
  <2>1. Active' = Active \ {w} /\ w \in Active
    BY <1>3 DEF WorkerLeave, Active
  <2> QED
    BY <1>1, <1>3, <2>1, FS_RemoveElement DEF WorkerLeave
<1>4. ASSUME NEW w \in Workers, WorkerReceive(w) \/ WorkerNotePeak(w) \/ WorkerDo(w)
      PROVE  Active' = Active /\ inFlight' = inFlight
  BY <1>4 DEF WorkerReceive, WorkerNotePeak, WorkerDo, Active, gaugeVars
<1>5. ASSUME GenNext \/ GenSleep \/ GenAwake \/ GenSend
      PROVE  Active' = Active /\ inFlight' = inFlight
  BY <1>5 DEF GenNext, GenSleep, GenAwake, GenSend, CloseQueue, Active, Parked, gaugeVars,
              chanVars, workerVars
<1>6. ASSUME \/ GenOffer \/ GenSent \/ GenDrop \/ RunReturns \/ ClockAdvances \/ CancelArrivals
             \/ CancelWork \/ StopGenerating \/ UNCHANGED vars
      PROVE  Active' = Active /\ inFlight' = inFlight
  BY <1>6 DEF GenOffer, GenSent, GenDrop, RunReturns, ClockAdvances, CancelArrivals, CancelWork,
              StopGenerating, Active, vars, gaugeVars, workerVars
<1> QED
  BY <1>2, <1>3, <1>4, <1>5, <1>6 DEF Next, GeneratorStep, WorkerStep, Over

\* A job taken from the queue leaves a queue of jobs.
LEMMA QueueStep ==
  ASSUME TypeInv, [Next]_vars
  PROVE  queue' \in Seq(Arrivals)
<1> USE DEF TypeInv, TypeOK
<1>1. ASSUME NEW w \in Workers, WorkerReceive(w)
      PROVE  queue' \in Seq(Arrivals)
  <2>1. queue # <<>> => Tail(queue) \in Seq(Arrivals)
    BY HeadTailProperties
  <2>2. queue' = queue \/ (queue # <<>> /\ queue' = Tail(queue))
    BY <1>1 DEF WorkerReceive
  <2> QED
    BY <2>1, <2>2
<1>2. ASSUME GenSend
      PROVE  queue' \in Seq(Arrivals)
  <2>1. next \in Arrivals
    BY <1>2, ExecutorAssumption DEF GenSend, InLoop, Arrivals
  <2>2. Append(queue, next) \in Seq(Arrivals)
    BY <2>1, AppendProperties
  <2>3. queue' = queue \/ queue' = Append(queue, next)
    BY <1>2 DEF GenSend
  <2> QED
    BY <2>2, <2>3
<1> QED
  BY <1>1, <1>2 DEF Next, GeneratorStep, WorkerStep, Over, vars, chanVars, GenNext, GenSleep,
     GenAwake, GenOffer, GenSent, GenDrop, RunReturns, ClockAdvances, CancelArrivals, CancelWork,
     StopGenerating, WorkerEnter, WorkerNotePeak, WorkerDo, WorkerLeave

LEMMA TypeInit == Init => TypeInv
<1> SUFFICES ASSUME Init PROVE TypeInv
  OBVIOUS
<1>1. Active = {}
  BY DEF Init, Active
<1>2. inFlight = Cardinality(Active)
  BY <1>1, FS_EmptySet DEF Init
<1>3. <<>> \in Seq(Arrivals)
  BY EmptySeq
<1>4. 1 \in 1 .. NumArrivals + 1 /\ 0 \in 0 .. NumArrivals
  BY ExecutorAssumption
<1>5. TypeOK
  BY <1>3, <1>4 DEF Init, TypeOK, NoJob
<1> QED
  BY <1>2, <1>5 DEF Init, TypeInv, InLoop, Employed

\* The contexts and the channel are done, or closed, or not.
LEMMA FlagTypes ==
  ASSUME TypeInv, [Next]_vars
  PROVE  arrivalDone' \in BOOLEAN /\ workDone' \in BOOLEAN /\ genDone' \in BOOLEAN
           /\ closed' \in BOOLEAN
<1>1. /\ arrivalDone' = arrivalDone \/ arrivalDone' = TRUE
      /\ workDone' = workDone \/ workDone' = TRUE
      /\ genDone' = genDone \/ genDone' = TRUE
      /\ closed' = closed \/ closed' = TRUE
  <2>1. CASE \/ ClockAdvances \/ CancelArrivals \/ CancelWork \/ StopGenerating \/ UNCHANGED vars
             \/ GenOffer \/ GenSend \/ GenSent \/ GenDrop \/ RunReturns
    BY <2>1, Zenon DEF ClockAdvances, CancelArrivals, CancelWork, StopGenerating, vars, clockVars,
       chanVars, GenOffer, GenSend, GenSent, GenDrop, RunReturns
  <2>2. CASE GenNext \/ GenSleep \/ GenAwake
    BY <2>2, Zenon DEF GenNext, GenSleep, GenAwake, CloseQueue, clockVars, chanVars
  <2>3. ASSUME NEW w \in Workers, WorkerStep(w)
        PROVE  UNCHANGED <<clockVars, closed>>
    BY <2>3, Zenon DEF WorkerStep, WorkerReceive, WorkerEnter, WorkerNotePeak, WorkerDo,
       WorkerLeave, chanVars
  <2> QED
    BY <2>1, <2>2, <2>3, Zenon DEF Next, GeneratorStep, Over, clockVars
<1> QED
  BY <1>1, Zenon DEF TypeInv, TypeOK

\* The generator's part of the types: its place, the arrival it is at, and the counters.
LEMMA GeneratorTypes ==
  ASSUME TypeInv, [Next]_vars
  PROVE  /\ due' \in 0 .. NumArrivals
         /\ genPc' \in {"next", "sleep", "asleep", "offer", "send", "sent", "draining", "returned"}
         /\ next' \in 1 .. NumArrivals + 1
         /\ InLoop' => next' <= NumArrivals
         /\ offered' \in Nat /\ dispatched' \in Nat /\ dropped' \in Nat
         /\ refused' \in SUBSET Arrivals
<1>0. /\ NumArrivals \in Nat /\ due \in 0 .. NumArrivals /\ next \in 1 .. NumArrivals + 1
      /\ genPc \in {"next", "sleep", "asleep", "offer", "send", "sent", "draining", "returned"}
      /\ offered \in Nat /\ dispatched \in Nat /\ dropped \in Nat
      /\ refused \in SUBSET Arrivals
      /\ InLoop => next <= NumArrivals
  BY ExecutorAssumption DEF TypeInv, TypeOK
<1> USE <1>0 DEF InLoop, Arrivals
<1>1. CASE ClockAdvances
  BY <1>1 DEF ClockAdvances, genVars, countVars
<1>contexts. CASE CancelArrivals \/ CancelWork \/ StopGenerating \/ UNCHANGED vars
  <2>1. UNCHANGED <<due, genVars, countVars, refused>>
    BY <1>contexts, Zenon DEF CancelArrivals, CancelWork, StopGenerating, vars, clockVars
  <2> QED
    BY <2>1 DEF genVars, countVars
<1>2. CASE GenNext \/ GenSleep \/ GenAwake
  BY <1>2 DEF GenNext, GenSleep, GenAwake, CloseQueue, clockVars, countVars
<1>3. CASE GenOffer
  BY <1>3 DEF GenOffer, clockVars
<1>4. CASE GenSend \/ RunReturns
  BY <1>4 DEF GenSend, RunReturns, clockVars, countVars
<1>5. CASE GenSent
  BY <1>5 DEF GenSent, clockVars
<1>6. CASE GenDrop
  BY <1>6 DEF GenDrop, clockVars
<1>7. ASSUME NEW w \in Workers, WorkerStep(w)
      PROVE  UNCHANGED <<clockVars, genVars, countVars, refused>>
  BY <1>7 DEF WorkerStep, WorkerReceive, WorkerEnter, WorkerNotePeak, WorkerDo, WorkerLeave
<1>8. CASE \E w \in Workers : WorkerStep(w)
  BY <1>7, <1>8 DEF clockVars, genVars, countVars
<1> QED
  BY <1>1, <1>2, <1>3, <1>4, <1>5, <1>6, <1>8, <1>contexts DEF Next, GeneratorStep, Over

\* The workers' part: where each is, its job and its reading, the peak and the records.
LEMMA WorkerTypes ==
  ASSUME TypeInv, [Next]_vars
  PROVE  /\ wpc' \in [Workers -> {"top", "parked", "got", "counted", "busy", "done", "exited"}]
         /\ wjob' \in [Workers -> Arrivals \cup {NoJob}]
         /\ reading' \in [Workers -> Nat]
         /\ peakInFlight' \in Nat
         /\ recorded' \in [Arrivals -> Nat]
         /\ \A w \in Workers : Employed(w)' => wjob'[w] \in Arrivals
<1> USE DEF TypeInv, TypeOK, Employed
<1>1. ASSUME NEW w \in Workers, WorkerReceive(w)
      PROVE  queue # <<>> => Head(queue) \in Arrivals
  BY HeadTailProperties
<1>2. ASSUME NEW w \in Workers, WorkerReceive(w)
      PROVE  /\ wpc' \in [Workers -> {"top", "parked", "got", "counted", "busy", "done", "exited"}]
             /\ wjob' \in [Workers -> Arrivals \cup {NoJob}]
             /\ \A v \in Workers : Employed(v)' => wjob'[v] \in Arrivals
             /\ UNCHANGED <<reading, peakInFlight, recorded>>
  BY <1>1, <1>2 DEF WorkerReceive, gaugeVars
<1>3. ASSUME NEW w \in Workers, WorkerEnter(w) \/ WorkerNotePeak(w) \/ WorkerDo(w) \/ WorkerLeave(w)
      PROVE  /\ wpc' \in [Workers -> {"top", "parked", "got", "counted", "busy", "done", "exited"}]
             /\ wjob' \in [Workers -> Arrivals \cup {NoJob}]
             /\ reading' \in [Workers -> Nat]
             /\ peakInFlight' \in Nat
             /\ recorded' \in [Arrivals -> Nat]
             /\ \A v \in Workers : Employed(v)' => wjob'[v] \in Arrivals
  <2>1. inFlight + 1 \in Nat /\ 0 \in Nat
    OBVIOUS
  <2>2. CASE WorkerEnter(w)
    BY <2>1, <2>2 DEF WorkerEnter
  <2>3. CASE WorkerNotePeak(w)
    BY <2>3 DEF WorkerNotePeak
  <2>4. CASE WorkerDo(w)
    BY <2>4 DEF WorkerDo, gaugeVars
  <2>5. CASE WorkerLeave(w)
    BY <2>1, <2>5 DEF WorkerLeave, NoJob
  <2> QED
    BY <1>3, <2>2, <2>3, <2>4, <2>5
<1>4. CASE GenNext \/ GenSleep \/ GenAwake
  BY <1>4 DEF GenNext, GenSleep, GenAwake, CloseQueue, chanVars, workerVars, gaugeVars
<1>5. CASE GenSend
  <2>1. next \in Arrivals
    BY <1>5, ExecutorAssumption DEF GenSend, InLoop, Arrivals
  <2> QED
    BY <1>5, <2>1 DEF GenSend, Parked, workerVars, gaugeVars
<1>6. CASE \/ GenOffer \/ GenSent \/ GenDrop \/ RunReturns \/ ClockAdvances \/ CancelArrivals
           \/ CancelWork \/ StopGenerating \/ UNCHANGED vars
  BY <1>6 DEF GenOffer, GenSent, GenDrop, RunReturns, ClockAdvances, CancelArrivals, CancelWork,
              StopGenerating, vars, workerVars, gaugeVars
<1> QED
  BY <1>2, <1>3, <1>4, <1>5, <1>6 DEF Next, GeneratorStep, WorkerStep, Over

LEMMA TypeStep == TypeInv /\ [Next]_vars => TypeInv'
<1> SUFFICES ASSUME TypeInv, [Next]_vars PROVE TypeInv'
  OBVIOUS
<1>1. inFlight' \in Nat
  <2>1. Active' \in SUBSET Workers
    BY DEF Active
  <2> QED
    BY <2>1, ActiveStep, WorkersFinite
<1> QED
  BY <1>1, ActiveStep, QueueStep, FlagTypes, GeneratorTypes, WorkerTypes DEF TypeInv, TypeOK

\* The types of the executor's state, in every reachable state.
THEOREM ExecutorTypeCorrect == Spec => []TypeOK
<1>1. TypeInv => TypeOK
  BY DEF TypeInv
<1> QED
  BY <1>1, TypeInit, TypeStep, PTL DEF Spec

-----------------------------------------------------------------------------
(* The counters. *)

\* What the generator's loop leaves alone outside its own steps.
LEMMA OtherSteps ==
  ASSUME [Next]_vars,
         ~(GenNext \/ GenSleep \/ GenAwake \/ GenOffer \/ GenSend \/ GenSent \/ GenDrop \/ RunReturns)
  PROVE  UNCHANGED <<genVars, closed, countVars, refused>>
BY Zenon DEF Next, GeneratorStep, WorkerStep, Over, vars, chanVars, ClockAdvances, CancelArrivals,
   CancelWork, StopGenerating, WorkerReceive, WorkerEnter, WorkerNotePeak, WorkerDo, WorkerLeave

LEMMA CountInit == Init => CountInv
<1> SUFFICES ASSUME Init PROVE CountInv
  OBVIOUS
<1>1. Cardinality(refused) = 0
  BY FS_EmptySet DEF Init
<1> QED
  BY <1>1 DEF Init, CountInv, Offered

LEMMA CountStep ==
  ASSUME TypeInv, CountInv, [Next]_vars
  PROVE  CountInv'
<1>0. /\ next \in Nat /\ offered \in Nat /\ dispatched \in Nat /\ dropped \in Nat
      /\ refused \in SUBSET Arrivals /\ Arrivals \subseteq Nat
      /\ IsFiniteSet(refused)
  <2>1. IsFiniteSet(Arrivals)
    BY ExecutorAssumption, FS_Interval DEF Arrivals
  <2>2. /\ next \in Nat /\ offered \in Nat /\ dispatched \in Nat /\ dropped \in Nat
        /\ refused \in SUBSET Arrivals
    BY ExecutorAssumption DEF TypeInv, TypeOK
  <2>3. Arrivals \subseteq Nat
    BY ExecutorAssumption DEF Arrivals
  <2>4. IsFiniteSet(refused)
    BY <2>1, <2>2, FS_Subset
  <2> QED
    BY <2>2, <2>3, <2>4
<1> USE <1>0 DEF CountInv, Offered
<1>1. CASE GenNext \/ GenSleep \/ GenAwake
  BY <1>1 DEF GenNext, GenSleep, GenAwake, CloseQueue, countVars
<1>2. CASE GenOffer
  BY <1>2 DEF GenOffer
<1>3. CASE GenSend \/ RunReturns
  BY <1>3 DEF GenSend, RunReturns, countVars
<1>4. CASE GenSent
  BY <1>4 DEF GenSent
<1>5. CASE GenDrop
  <2>1. next \notin refused
    OBVIOUS
  <2>2. refused' = refused \cup {next}
    BY <1>5 DEF GenDrop
  <2>3. Cardinality(refused') = Cardinality(refused) + 1
    BY <2>1, <2>2, FS_AddElement
  <2> QED
    BY <1>5, <2>3 DEF GenDrop
<1>6. CASE UNCHANGED <<genVars, closed, countVars, refused>>
  BY <1>6 DEF genVars, countVars
<1> QED
  BY <1>1, <1>2, <1>3, <1>4, <1>5, <1>6, OtherSteps

LEMMA CountAlways == Spec => [](TypeInv /\ CountInv)
<1>1. TypeInv /\ CountInv /\ [Next]_vars => (TypeInv /\ CountInv)'
  BY TypeStep, CountStep
<1> QED
  BY <1>1, TypeInit, CountInit, PTL DEF Spec

\* At most one arrival is offered and not yet settled, whatever the workers do.
THEOREM StatsNeverAheadAlways == Spec => []StatsNeverAhead
<1>1. TypeInv /\ CountInv => StatsNeverAhead
  BY ExecutorAssumption DEF TypeInv, TypeOK, CountInv, Offered, StatsNeverAhead
<1> QED
  BY <1>1, CountAlways, PTL

-----------------------------------------------------------------------------
(* The gauge and its peak. *)

LEMMA GaugeInit == Init => GaugeInv
BY WorkersFinite DEF Init, GaugeInv

LEMMA GaugeStep ==
  ASSUME TypeInv, GaugeInv, [Next]_vars
  PROVE  GaugeInv'
<1>0. /\ inFlight \in Nat /\ peakInFlight \in Nat /\ MaxInFlight \in Nat
      /\ reading \in [Workers -> Nat]
      /\ wpc \in [Workers -> {"top", "parked", "got", "counted", "busy", "done", "exited"}]
      /\ inFlight = Cardinality(Active)
  BY WorkersFinite DEF TypeInv, TypeOK
<1>1. ASSUME NEW w \in Workers, WorkerEnter(w)
      PROVE  GaugeInv'
  <2>1. Active \cup {w} \in SUBSET Workers /\ w \notin Active
    BY <1>1 DEF WorkerEnter, Active
  <2>2. IsFiniteSet(Active)
    BY WorkersFinite DEF Active
  <2>3. inFlight + 1 = Cardinality(Active \cup {w})
    BY <1>0, <2>1, <2>2, FS_AddElement
  <2>4. inFlight + 1 <= MaxInFlight
    BY <2>1, <2>3, WorkersFinite
  <2>5. /\ inFlight' = inFlight + 1 /\ peakInFlight' = peakInFlight
        /\ reading' = [reading EXCEPT ![w] = inFlight + 1]
        /\ Unnoted' = Unnoted \cup {w} /\ w \notin Unnoted
    BY <1>0, <1>1 DEF WorkerEnter, Unnoted
  <2>6. \A j \in 1 .. inFlight + 1 :
          j <= peakInFlight \/ \E v \in Unnoted \cup {w} : reading'[v] = j
    <3> TAKE j \in 1 .. inFlight + 1
    <3>1. CASE j = inFlight + 1
      BY <1>0, <2>5, <3>1
    <3>2. CASE j \in 1 .. inFlight
      <4>1. CASE j <= peakInFlight
        BY <4>1
      <4>2. ASSUME NEW v \in Unnoted, reading[v] = j
            PROVE  reading'[v] = j
        BY <1>0, <2>5, <4>2 DEF Unnoted
      <4> QED
        BY <3>2, <4>1, <4>2 DEF GaugeInv
    <3> QED
      BY <1>0, <3>1, <3>2
  <2>7. \A v \in Workers : reading'[v] <= MaxInFlight
    BY <1>0, <2>4, <2>5 DEF GaugeInv
  <2>8. peakInFlight' <= MaxInFlight
    BY <2>5 DEF GaugeInv
  <2>9. \A j \in 1 .. inFlight' : j <= peakInFlight' \/ \E v \in Unnoted' : reading'[v] = j
    BY <2>5, <2>6
  <2> QED
    BY <2>7, <2>8, <2>9 DEF GaugeInv, MaxInFlight
<1>2. ASSUME NEW w \in Workers, WorkerNotePeak(w)
      PROVE  GaugeInv'
  <2>1. /\ inFlight' = inFlight /\ reading' = reading
        /\ peakInFlight' \in {peakInFlight, reading[w]}
        /\ peakInFlight' >= peakInFlight /\ peakInFlight' >= reading[w]
        /\ Unnoted' = Unnoted \ {w}
    BY <1>0, <1>2 DEF WorkerNotePeak, Unnoted
  <2>2. \A j \in 1 .. inFlight : j <= peakInFlight' \/ \E v \in Unnoted \ {w} : reading[v] = j
    BY <1>0, <2>1 DEF GaugeInv
  <2>3. peakInFlight' <= MaxInFlight
    BY <2>1 DEF GaugeInv
  <2>4. \A v \in Workers : reading'[v] <= MaxInFlight
    BY <2>1 DEF GaugeInv
  <2>5. \A j \in 1 .. inFlight' : j <= peakInFlight' \/ \E v \in Unnoted' : reading'[v] = j
    BY <2>1, <2>2
  <2> QED
    BY <2>3, <2>4, <2>5 DEF GaugeInv, MaxInFlight
<1>3. ASSUME NEW w \in Workers, WorkerLeave(w)
      PROVE  GaugeInv'
  <2>1. /\ inFlight' = inFlight - 1 /\ peakInFlight' = peakInFlight
        /\ reading' = [reading EXCEPT ![w] = 0]
        /\ Unnoted' = Unnoted /\ w \notin Unnoted
    BY <1>0, <1>3 DEF WorkerLeave, Unnoted
  <2>2. \A v \in Workers : reading'[v] <= MaxInFlight
    BY <1>0, <2>1 DEF GaugeInv
  <2>3. \A v \in Unnoted : reading'[v] = reading[v]
    BY <1>0, <2>1 DEF Unnoted
  <2>4. \A j \in 1 .. inFlight' : j \in 1 .. inFlight
    BY <1>0, <2>1
  <2>5. \A j \in 1 .. inFlight' : j <= peakInFlight \/ \E v \in Unnoted : reading'[v] = j
    BY <2>3, <2>4 DEF GaugeInv
  <2>6. peakInFlight' <= MaxInFlight
    BY <2>1 DEF GaugeInv
  <2> QED
    BY <2>1, <2>2, <2>5, <2>6 DEF GaugeInv, MaxInFlight
<1>4. CASE UNCHANGED <<gaugeVars, reading, Unnoted>>
  BY <1>4 DEF GaugeInv, gaugeVars, MaxInFlight
<1>5. ASSUME NEW w \in Workers, WorkerReceive(w) \/ WorkerDo(w)
      PROVE  UNCHANGED <<gaugeVars, reading, Unnoted>>
  BY <1>0, <1>5 DEF WorkerReceive, WorkerDo, Unnoted, gaugeVars
<1>6. CASE GenNext \/ GenSleep \/ GenAwake \/ GenSend
  BY <1>0, <1>4, <1>6 DEF GenNext, GenSleep, GenAwake, GenSend, CloseQueue, Unnoted, Parked,
     workerVars
<1>7. CASE \/ GenOffer \/ GenSent \/ GenDrop \/ RunReturns \/ ClockAdvances \/ CancelArrivals
           \/ CancelWork \/ StopGenerating \/ UNCHANGED vars
  BY <1>4, <1>7 DEF GenOffer, GenSent, GenDrop, RunReturns, ClockAdvances, CancelArrivals, CancelWork,
     StopGenerating, vars, workerVars, Unnoted
<1> QED
  BY <1>1, <1>2, <1>3, <1>4, <1>5, <1>6, <1>7 DEF Next, GeneratorStep, WorkerStep, Over

\* The levels of the gauge above the peak are the readings of as many workers.
LEMMA LevelsAreReadings ==
  ASSUME TypeInv, GaugeInv
  PROVE  inFlight <= peakInFlight + Cardinality(Unnoted)
<1> DEFINE levels == peakInFlight + 1 .. inFlight
           notes  == {w \in Unnoted : reading[w] \in levels}
           level  == [w \in notes |-> reading[w]]
<1>1. inFlight \in Nat /\ peakInFlight \in Nat
  BY DEF TypeInv, TypeOK
<1>2. /\ notes \in SUBSET Unnoted /\ IsFiniteSet(Unnoted) /\ IsFiniteSet(notes)
      /\ Cardinality(notes) <= Cardinality(Unnoted)
      /\ Cardinality(Unnoted) \in Nat /\ Cardinality(notes) \in Nat
  <2>1. notes \in SUBSET Unnoted /\ Unnoted \in SUBSET Workers
    BY DEF Unnoted
  <2>2. IsFiniteSet(Unnoted) /\ Cardinality(Unnoted) \in Nat
    BY <2>1, WorkersFinite
  <2> QED
    BY <2>1, <2>2, FS_Subset, FS_CardinalityType
<1>3. level \in Surjection(notes, levels)
  <2>1. level \in [notes -> levels]
    OBVIOUS
  <2>2. \A j \in levels : \E w \in notes : level[w] = j
    BY <1>1 DEF GaugeInv
  <2> QED
    BY <2>1, <2>2 DEF Surjection
<1>4. Cardinality(levels) <= Cardinality(notes)
  BY <1>2, <1>3, FS_Surjection
<1>5. CASE inFlight <= peakInFlight
  BY <1>1, <1>2, <1>5
<1>6. CASE inFlight > peakInFlight
  <2>1. Cardinality(levels) = inFlight - peakInFlight
    BY <1>1, <1>6, FS_Interval
  <2> HIDE DEF levels, notes
  <2> QED
    BY <1>1, <1>2, <1>4, <2>1
<1> QED
  BY <1>1, <1>5, <1>6

\* The peak never exceeds the pool and never misses a level the gauge has, but for the
\* workers that have still to note their reading.
THEOREM PeakIsExactAlways == Spec => []PeakIsExact
<1>1. TypeInv /\ GaugeInv => PeakIsExact
  <2> SUFFICES ASSUME TypeInv, GaugeInv PROVE PeakIsExact
    OBVIOUS
  <2>1. inFlight <= MaxInFlight
    BY WorkersFinite DEF TypeInv, Active
  <2> QED
    BY <2>1, LevelsAreReadings DEF PeakIsExact, GaugeInv, Unnoted
<1>2. TypeInv /\ GaugeInv /\ [Next]_vars => (TypeInv /\ GaugeInv)'
  BY TypeStep, GaugeStep
<1> QED
  BY <1>1, <1>2, TypeInit, GaugeInit, PTL DEF Spec

-----------------------------------------------------------------------------
(* The queue. *)

LEMMA QueueInit == Init => QueueInv
BY DEF Init, QueueInv

\* A worker parks only at an empty, open queue; a queue that is filled or closed has
\* nobody parked at it; and nobody leaves while there is a job.
LEMMA QueueInvStep ==
  ASSUME TypeInv, QueueInv, [Next]_vars
  PROVE  QueueInv'
<1>0. /\ wpc \in [Workers -> {"top", "parked", "got", "counted", "busy", "done", "exited"}]
      /\ queue \in Seq(Arrivals)
  BY DEF TypeInv, TypeOK
<1> USE <1>0 DEF QueueInv
<1>1. ASSUME NEW w \in Workers, WorkerReceive(w)
      PROVE  QueueInv'
  <2>1. CASE queue # <<>>
    <3>1. \A v \in Workers : wpc'[v] \notin {"parked", "exited"}
      BY <1>1, <2>1 DEF WorkerReceive
    <3> QED
      BY <1>1, <2>1, <3>1 DEF WorkerReceive, genVars
  <2>2. CASE queue = <<>>
    BY <1>1, <2>2 DEF WorkerReceive, genVars
  <2> QED
    BY <2>1, <2>2
<1>2. ASSUME NEW w \in Workers, WorkerEnter(w) \/ WorkerNotePeak(w) \/ WorkerDo(w) \/ WorkerLeave(w)
      PROVE  QueueInv'
  BY <1>2 DEF WorkerEnter, WorkerNotePeak, WorkerDo, WorkerLeave, genVars, chanVars
<1>3. CASE GenNext \/ GenSleep \/ GenAwake
  BY <1>3 DEF GenNext, GenSleep, GenAwake, CloseQueue, chanVars, workerVars
<1>4. CASE GenSend
  <2>1. ~closed /\ genPc' = "sent" /\ closed' = closed
    BY <1>4 DEF GenSend
  <2>2. \A v \in Workers : wpc[v] # "exited" /\ wpc'[v] # "exited"
    BY <1>4, <2>1 DEF GenSend, workerVars, Parked
  <2>3. \A v \in Workers : wpc'[v] = "parked" => queue' = <<>>
    BY <1>4 DEF GenSend, workerVars, Parked
  <2> QED
    BY <2>1, <2>2, <2>3
<1>5. CASE RunReturns
  BY <1>5 DEF RunReturns, chanVars, workerVars
<1>6. CASE \/ GenOffer \/ GenSent \/ GenDrop
  BY <1>6 DEF GenOffer, GenSent, GenDrop, chanVars, workerVars
<1>7. CASE ClockAdvances \/ CancelArrivals \/ CancelWork \/ StopGenerating \/ UNCHANGED vars
  <2>1. UNCHANGED <<genPc, closed, queue, wpc>>
    BY <1>7, Zenon DEF ClockAdvances, CancelArrivals, CancelWork, StopGenerating, vars, genVars,
       chanVars, workerVars
  <2> QED
    BY <2>1
<1> QED
  BY <1>1, <1>2, <1>3, <1>4, <1>5, <1>6, <1>7 DEF Next, GeneratorStep, WorkerStep, Over

-----------------------------------------------------------------------------
(* Where each arrival is. *)

\* What OnceInv says of one arrival.
Placed(a) == IF Unsettled(a) THEN Nowhere(a) ELSE Somewhere(a)

LEMMA OnceInit == Init => OnceInv
<1> SUFFICES ASSUME Init, NEW a \in Arrivals PROVE Unsettled(a) /\ Nowhere(a)
  BY DEF OnceInv
<1>1. Unsettled(a)
  BY ExecutorAssumption DEF Init, Unsettled, Arrivals
<1>2. Holders(a) = {} /\ recorded[a] = 0
  BY DEF Init, Holders, Holds
<1>3. Positions(a) = {}
  BY DEF Init, Positions
<1> QED
  BY <1>1, <1>2, <1>3 DEF Nowhere

\* An arrival stays where it is as long as nobody takes, records or settles it.
LEMMA Undisturbed ==
  ASSUME NEW a \in Arrivals, Placed(a),
         Holders(a)' = Holders(a), Positions(a)' = Positions(a), recorded'[a] = recorded[a],
         Unsettled(a)' <=> Unsettled(a)
  PROVE  Placed(a)'
BY DEF Placed, Nowhere, Somewhere

\* A step of a worker settles nothing.
LEMMA WorkersSettleNothing ==
  ASSUME NEW w \in Workers, WorkerStep(w), NEW a
  PROVE  Unsettled(a)' <=> Unsettled(a)
BY DEF WorkerStep, WorkerReceive, WorkerEnter, WorkerNotePeak, WorkerDo, WorkerLeave, Unsettled, genVars

\* The head of the queue goes to the worker that receives it; the others move up.
LEMMA ReceivePlaces ==
  ASSUME TypeInv, NEW w \in Workers, WorkerReceive(w), NEW a \in Arrivals, Placed(a)
  PROVE  Placed(a)'
<1>0. /\ wpc \in [Workers -> {"top", "parked", "got", "counted", "busy", "done", "exited"}]
      /\ wjob \in [Workers -> Arrivals \cup {NoJob}]
      /\ queue \in Seq(Arrivals)
  BY DEF TypeInv, TypeOK
<1>1. Unsettled(a)' <=> Unsettled(a)
  BY WorkersSettleNothing DEF WorkerStep
<1>2. recorded' = recorded
  BY DEF WorkerReceive
<1>3. w \notin Holders(a)
  BY DEF WorkerReceive, Holders, Holds
<1>4. CASE queue = <<>>
  <2>1. Holders(a)' = Holders(a)
    BY <1>0, <1>4 DEF WorkerReceive, Holders, Holds
  <2>2. Positions(a)' = Positions(a)
    BY <1>4 DEF WorkerReceive, Positions
  <2> QED
    BY <1>1, <1>2, <2>1, <2>2, Undisturbed
<1>5. CASE queue # <<>>
  <2>1. /\ Len(queue) \in Nat \ {0} /\ Head(queue) = queue[1]
        /\ DOMAIN queue = 1 .. Len(queue)
        /\ queue' = Tail(queue) /\ queue' \in Seq(Arrivals)
        /\ DOMAIN queue' = 1 .. Len(queue) - 1
        /\ \A i \in 1 .. Len(queue) - 1 : queue'[i] = queue[i + 1]
    <3>1. Len(queue) \in Nat \ {0} /\ DOMAIN queue = 1 .. Len(queue)
      BY <1>0, <1>5, EmptySeq, LenProperties
    <3>2. queue' = Tail(queue)
      BY <1>5 DEF WorkerReceive
    <3>3. /\ Tail(queue) \in Seq(Arrivals) /\ Len(Tail(queue)) = Len(queue) - 1
          /\ \A i \in 1 .. Len(Tail(queue)) : Tail(queue)[i] = queue[i + 1]
      BY <1>0, <1>5, HeadTailProperties
    <3>4. DOMAIN Tail(queue) = 1 .. Len(Tail(queue))
      BY <3>3, LenProperties
    <3> QED
      BY <3>1, <3>2, <3>3, <3>4
  <2>2. wjob' = [wjob EXCEPT ![w] = queue[1]] /\ wpc' = [wpc EXCEPT ![w] = "got"]
    BY <1>5, <2>1 DEF WorkerReceive
  <2>3. CASE queue[1] = a
    <3>1. 1 \in Positions(a)
      BY <2>1, <2>3 DEF Positions
    <3>2. Holders(a) = {} /\ Positions(a) = {1} /\ recorded[a] = 0 /\ ~Unsettled(a)
      BY <3>1 DEF Placed, Nowhere, Somewhere
    <3>3. Holders(a)' = {w}
      BY <1>0, <2>2, <2>3, <3>2 DEF Holders, Holds
    <3>4. Positions(a)' = {}
      <4> SUFFICES ASSUME NEW i \in 1 .. Len(queue) - 1, queue'[i] = a PROVE FALSE
        BY <2>1 DEF Positions
      <4>1. i + 1 \in Positions(a) /\ i + 1 # 1
        BY <2>1 DEF Positions
      <4> QED
        BY <3>2, <4>1
    <3> QED
      BY <1>1, <1>2, <3>2, <3>3, <3>4 DEF Placed, Somewhere
  <2>4. CASE queue[1] # a
    <3>1. Holders(a)' = Holders(a)
      BY <1>0, <1>3, <2>2, <2>4 DEF Holders, Holds
    <3>2. \A i \in 1 .. Len(queue) - 1 : i \in Positions(a)' <=> i + 1 \in Positions(a)
      BY <2>1 DEF Positions
    <3>3. Positions(a)' \subseteq 1 .. Len(queue) - 1 /\ Positions(a) \subseteq 1 .. Len(queue)
      BY <2>1 DEF Positions
    <3>4. 1 \notin Positions(a)
      BY <2>4 DEF Positions
    <3>5. Positions(a) = {} => Positions(a)' = {}
      BY <3>2, <3>3
    <3>6. ASSUME NEW i, Positions(a) = {i}
          PROVE  Positions(a)' = {i - 1}
      <4>1. i \in 2 .. Len(queue) /\ i - 1 \in 1 .. Len(queue) - 1
        BY <2>1, <3>3, <3>4, <3>6
      <4>2. \A j \in 1 .. Len(queue) - 1 : j + 1 = i <=> j = i - 1
        BY <2>1, <4>1
      <4> QED
        BY <2>1, <3>2, <3>3, <3>6, <4>1, <4>2
    <3> QED
      BY <1>1, <1>2, <3>1, <3>5, <3>6 DEF Placed, Nowhere, Somewhere
  <2> QED
    BY <2>3, <2>4
<1> QED
  BY <1>4, <1>5

\* A worker that has recorded an outcome holds the arrival no more.
LEMMA DoPlaces ==
  ASSUME TypeInv, NEW w \in Workers, WorkerDo(w), NEW a \in Arrivals, Placed(a)
  PROVE  Placed(a)'
<1>0. /\ wpc \in [Workers -> {"top", "parked", "got", "counted", "busy", "done", "exited"}]
      /\ recorded \in [Arrivals -> Nat]
      /\ wjob[w] \in Arrivals
  BY DEF TypeInv, TypeOK, WorkerDo, Employed
<1>1. Unsettled(a)' <=> Unsettled(a)
  BY WorkersSettleNothing DEF WorkerStep
<1>2. Positions(a)' = Positions(a)
  BY DEF WorkerDo, Positions, chanVars
<1>3. wjob' = wjob /\ wpc' = [wpc EXCEPT ![w] = "done"] /\ wpc[w] = "busy"
  BY DEF WorkerDo
<1>4. Holders(a)' = Holders(a) \ {w}
  BY <1>0, <1>3 DEF Holders, Holds
<1>5. CASE wjob[w] = a
  <2>1. w \in Holders(a)
    BY <1>3, <1>5 DEF Holders, Holds
  <2>2. Holders(a) = {w} /\ Positions(a) = {} /\ recorded[a] = 0 /\ ~Unsettled(a)
    BY <2>1 DEF Placed, Nowhere, Somewhere
  <2>3. recorded'[a] = 1
    BY <1>0, <1>5, <2>2 DEF WorkerDo
  <2> QED
    BY <1>1, <1>2, <1>4, <2>2, <2>3 DEF Placed, Somewhere
<1>6. CASE wjob[w] # a
  <2>1. Holders(a)' = Holders(a)
    BY <1>4, <1>6 DEF Holders, Holds
  <2>2. recorded'[a] = recorded[a]
    BY <1>0, <1>6 DEF WorkerDo
  <2> QED
    BY <1>1, <1>2, <2>1, <2>2, Undisturbed
<1> QED
  BY <1>5, <1>6

\* The send puts the arrival of the moment, which was nowhere, in one place.
LEMMA SendPlaces ==
  ASSUME TypeInv, CountInv, GenSend, NEW a \in Arrivals, Placed(a)
  PROVE  Placed(a)'
<1>0. /\ wpc \in [Workers -> {"top", "parked", "got", "counted", "busy", "done", "exited"}]
      /\ wjob \in [Workers -> Arrivals \cup {NoJob}]
      /\ queue \in Seq(Arrivals)
      /\ next \in Arrivals /\ Arrivals \subseteq Nat
  BY ExecutorAssumption DEF TypeInv, TypeOK, GenSend, InLoop, Arrivals
<1>1. genPc = "send" /\ genPc' = "sent" /\ next' = next /\ refused' = refused /\ recorded' = recorded
  BY DEF GenSend
<1>2. next \notin refused
  BY <1>0 DEF CountInv
<1>3. a = next => Nowhere(a) /\ ~Unsettled(a)'
  BY <1>0, <1>1, <1>2 DEF Placed, Unsettled
<1>4. a # next => (Unsettled(a)' <=> Unsettled(a))
  BY <1>1 DEF Unsettled
<1>5. ASSUME NEW w \in Parked, wpc' = [wpc EXCEPT ![w] = "got"], wjob' = [wjob EXCEPT ![w] = next],
             queue' = queue
      PROVE  Placed(a)'
  <2>1. Positions(a)' = Positions(a)
    BY <1>5 DEF Positions
  <2>2. w \in Workers /\ w \notin Holders(a)
    BY <1>5 DEF Parked, Holders, Holds
  <2>3. Holders(a)' = IF a = next THEN Holders(a) \cup {w} ELSE Holders(a)
    BY <1>0, <1>5, <2>2 DEF Holders, Holds
  <2>4. CASE a = next
    BY <1>1, <1>3, <2>1, <2>3, <2>4 DEF Placed, Nowhere, Somewhere
  <2>5. CASE a # next
    BY <1>1, <1>4, <2>1, <2>3, <2>5, Undisturbed
  <2> QED
    BY <2>4, <2>5
<1>6. ASSUME queue' = Append(queue, next), UNCHANGED workerVars
      PROVE  Placed(a)'
  <2>1. /\ Len(queue) \in Nat /\ DOMAIN queue = 1 .. Len(queue)
        /\ DOMAIN queue' = 1 .. Len(queue) + 1
        /\ queue'[Len(queue) + 1] = next
        /\ \A i \in 1 .. Len(queue) : queue'[i] = queue[i]
    <3>1. Len(queue) \in Nat /\ DOMAIN queue = 1 .. Len(queue)
      BY <1>0, LenProperties
    <3>2. /\ Append(queue, next) \in Seq(Arrivals)
          /\ Len(Append(queue, next)) = Len(queue) + 1
          /\ \A i \in 1 .. Len(queue) : Append(queue, next)[i] = queue[i]
          /\ Append(queue, next)[Len(queue) + 1] = next
      BY <1>0, AppendProperties
    <3>3. DOMAIN Append(queue, next) = 1 .. Len(Append(queue, next))
      BY <3>2, LenProperties
    <3> QED
      BY <1>6, <3>1, <3>2, <3>3
  <2>2. Holders(a)' = Holders(a)
    BY <1>6 DEF Holders, Holds, workerVars
  <2>3. Positions(a)' = IF a = next THEN Positions(a) \cup {Len(queue) + 1} ELSE Positions(a)
    BY <2>1 DEF Positions
  <2>4. CASE a = next
    BY <1>1, <1>3, <2>2, <2>3, <2>4 DEF Placed, Nowhere, Somewhere
  <2>5. CASE a # next
    BY <1>1, <1>4, <2>2, <2>3, <2>5, Undisturbed
  <2> QED
    BY <2>4, <2>5
<1> QED
  BY <1>5, <1>6 DEF GenSend

LEMMA OnceStep ==
  ASSUME TypeInv, CountInv, OnceInv, [Next]_vars
  PROVE  OnceInv'
<1> SUFFICES ASSUME NEW a \in Arrivals PROVE Placed(a)'
  BY DEF OnceInv, Placed, Arrivals
<1>0. /\ wpc \in [Workers -> {"top", "parked", "got", "counted", "busy", "done", "exited"}]
      /\ wjob \in [Workers -> Arrivals \cup {NoJob}]
      /\ a \in Nat /\ next \in Nat
      /\ Placed(a)
  BY ExecutorAssumption DEF TypeInv, TypeOK, Arrivals, OnceInv, Placed
<1>1. ASSUME NEW w \in Workers, WorkerReceive(w) PROVE Placed(a)'
  BY <1>0, <1>1, ReceivePlaces
<1>2. ASSUME NEW w \in Workers, WorkerDo(w) PROVE Placed(a)'
  BY <1>0, <1>2, DoPlaces
<1>3. ASSUME NEW w \in Workers, WorkerEnter(w) \/ WorkerNotePeak(w) \/ WorkerLeave(w) PROVE Placed(a)'
  <2>1. Unsettled(a)' <=> Unsettled(a)
    BY <1>3, WorkersSettleNothing DEF WorkerStep
  <2>2. Holders(a)' = Holders(a)
    BY <1>0, <1>3 DEF WorkerEnter, WorkerNotePeak, WorkerLeave, Holders, Holds
  <2>3. Positions(a)' = Positions(a) /\ recorded' = recorded
    BY <1>3 DEF WorkerEnter, WorkerNotePeak, WorkerLeave, Positions, chanVars
  <2> QED
    BY <1>0, <2>1, <2>2, <2>3, Undisturbed
<1>4. CASE GenSend
  BY <1>0, <1>4, SendPlaces
<1>5. CASE GenNext \/ GenSleep \/ GenAwake
  <2>1. Unsettled(a)' <=> Unsettled(a)
    BY <1>5 DEF GenNext, GenSleep, GenAwake, CloseQueue, Unsettled
  <2>2. Holders(a)' = Holders(a)
    BY <1>0, <1>5 DEF GenNext, GenSleep, GenAwake, CloseQueue, Holders, Holds, workerVars
  <2>3. Positions(a)' = Positions(a) /\ recorded' = recorded
    BY <1>5 DEF GenNext, GenSleep, GenAwake, Positions, chanVars
  <2> QED
    BY <1>0, <2>1, <2>2, <2>3, Undisturbed
<1>6. CASE GenOffer \/ GenSent \/ GenDrop \/ RunReturns
  <2>1. Unsettled(a)' <=> Unsettled(a)
    BY <1>0, <1>6 DEF GenOffer, GenSent, GenDrop, RunReturns, Unsettled
  <2>2. Holders(a)' = Holders(a) /\ Positions(a)' = Positions(a) /\ recorded' = recorded
    BY <1>6 DEF GenOffer, GenSent, GenDrop, RunReturns, Holders, Holds, Positions, workerVars, chanVars
  <2> QED
    BY <1>0, <2>1, <2>2, Undisturbed
<1>7. CASE ClockAdvances \/ CancelArrivals \/ CancelWork \/ StopGenerating \/ UNCHANGED vars
  <2>1. UNCHANGED <<genPc, next, refused, wpc, wjob, queue, recorded>>
    BY <1>7, Zenon DEF ClockAdvances, CancelArrivals, CancelWork, StopGenerating, vars, genVars,
       chanVars, workerVars
  <2>2. /\ Unsettled(a)' <=> Unsettled(a)
        /\ Holders(a)' = Holders(a) /\ Positions(a)' = Positions(a) /\ recorded' = recorded
    BY <2>1 DEF Unsettled, Holders, Holds, Positions
  <2> QED
    BY <1>0, <2>2, Undisturbed
<1> QED
  BY <1>1, <1>2, <1>3, <1>4, <1>5, <1>6, <1>7 DEF Next, GeneratorStep, WorkerStep, Over

LEMMA OnceAlways == Spec => [](TypeInv /\ CountInv /\ OnceInv)
<1>1. TypeInv /\ CountInv /\ OnceInv /\ [Next]_vars => (TypeInv /\ CountInv /\ OnceInv)'
  BY TypeStep, CountStep, OnceStep
<1> QED
  BY <1>1, TypeInit, CountInit, OnceInit, PTL DEF Spec

\* No arrival is lost, queued twice, given to two workers or recorded twice, and one that
\* was dropped never reaches a worker.
THEOREM EachArrivalOnceAlways == Spec => []EachArrivalOnce
<1>1. ASSUME TypeInv, OnceInv, NEW a \in Arrivals
      PROVE  Cardinality(Holders(a)) + recorded[a] + Cardinality(Positions(a))
               = IF Unsettled(a) THEN 0 ELSE 1
  <2>1. Cardinality({}) = 0 /\ \A x : Cardinality({x}) = 1
    BY FS_EmptySet, FS_Singleton
  <2>2. CASE Nowhere(a) /\ Unsettled(a)
    BY <2>1, <2>2 DEF Nowhere
  <2>3. CASE Somewhere(a) /\ ~Unsettled(a)
    <3>1. CASE (\E w : Holders(a) = {w}) /\ Positions(a) = {} /\ recorded[a] = 0
      <4>1. PICK w : Holders(a) = {w}
        BY <3>1
      <4>2. Cardinality(Holders(a)) = 1 /\ Cardinality(Positions(a)) = 0
        BY <2>1, <3>1, <4>1
      <4> QED
        BY <2>3, <3>1, <4>2
    <3>2. CASE Holders(a) = {} /\ (\E i : Positions(a) = {i}) /\ recorded[a] = 0
      <4>1. PICK i : Positions(a) = {i}
        BY <3>2
      <4>2. Cardinality(Holders(a)) = 0 /\ Cardinality(Positions(a)) = 1
        BY <2>1, <3>2, <4>1
      <4> QED
        BY <2>3, <3>2, <4>2
    <3>3. CASE Holders(a) = {} /\ Positions(a) = {} /\ recorded[a] = 1
      <4>1. Cardinality(Holders(a)) = 0 /\ Cardinality(Positions(a)) = 0
        BY <2>1, <3>3
      <4> QED
        BY <2>3, <3>3, <4>1
    <3> QED
      BY <2>3, <3>1, <3>2, <3>3 DEF Somewhere
  <2> QED
    BY <1>1, <2>2, <2>3 DEF OnceInv
<1>2. TypeInv /\ OnceInv => EachArrivalOnce
  BY <1>1 DEF EachArrivalOnce, Holders, Positions, Unsettled
<1> QED
  BY <1>2, OnceAlways, PTL

-----------------------------------------------------------------------------
(* What Run leaves. *)

\* Run returns when every worker has gone, so nothing is queued, nobody counts in the
\* gauge, and an arrival has been recorded unless it was refused or never came.
LEMMA NothingIsLeft ==
  ASSUME TypeInv, CountInv, QueueInv, OnceInv, genPc = "returned"
  PROVE  /\ queue = <<>> /\ inFlight = 0
         /\ {a \in Arrivals : recorded[a] > 0} = (1 .. next - 1) \ refused
<1>1. \A w \in Workers : wpc[w] = "exited"
  BY DEF QueueInv
<1>2. queue = <<>>
  BY <1>1, ExecutorAssumption DEF QueueInv
<1>3. inFlight = 0
  <2>1. Active = {}
    BY <1>1 DEF Active
  <2> QED
    BY <2>1, FS_EmptySet DEF TypeInv
<1>4. /\ Arrivals = 1 .. NumArrivals /\ NumArrivals \in Nat
      /\ next \in 1 .. NumArrivals + 1 /\ refused \in SUBSET Arrivals
  BY ExecutorAssumption DEF TypeInv, TypeOK, Arrivals
<1>5. ASSUME NEW a \in Arrivals
      PROVE  recorded[a] > 0 <=> a < next /\ a \notin refused
  <2>1. Holders(a) = {}
    BY <1>1 DEF Holders, Holds
  <2>2. Positions(a) = {}
    BY <1>2 DEF Positions
  <2>3. recorded[a] = IF Unsettled(a) THEN 0 ELSE 1
    BY <2>1, <2>2 DEF OnceInv, Nowhere, Somewhere
  <2>4. Unsettled(a) <=> a \in refused \/ a >= next
    BY <1>4 DEF Unsettled
  <2> QED
    BY <1>4, <2>3, <2>4
<1>6. \A a : a \in (1 .. next - 1) \ refused <=> a \in Arrivals /\ a < next /\ a \notin refused
  BY <1>4
<1>7. {a \in Arrivals : recorded[a] > 0} = (1 .. next - 1) \ refused
  BY <1>5, <1>6
<1> QED
  BY <1>2, <1>3, <1>7

\* When Run returns, every arrival it took from the schedule was dropped and counted so, or
\* dispatched, counted so and recorded; no job and no worker is left behind.
THEOREM ReturnedIsAccountedForAlways == Spec => []ReturnedIsAccountedFor
<1>1. ASSUME TypeInv, CountInv, QueueInv, OnceInv, genPc = "returned"
      PROVE  /\ offered = dispatched + dropped
             /\ dropped = Cardinality(refused)
             /\ dispatched = Cardinality({a \in Arrivals : recorded[a] > 0})
  <2>1. /\ next \in Nat \ {0} /\ refused \subseteq 1 .. next - 1
        /\ dispatched \in Nat /\ dropped \in Nat /\ offered \in Nat
    BY <1>1, ExecutorAssumption DEF TypeInv, TypeOK, CountInv, Arrivals
  <2>2. /\ offered = dispatched + dropped /\ dropped = Cardinality(refused)
        /\ dispatched = (next - 1) - Cardinality(refused)
    BY <1>1, <2>1 DEF CountInv, Offered
  <2>3. IsFiniteSet(1 .. next - 1) /\ Cardinality(1 .. next - 1) = next - 1
    BY <2>1, FS_Interval
  <2>4. (1 .. next - 1) \cap refused = refused
    BY <2>1
  <2>5. Cardinality((1 .. next - 1) \ refused) = (next - 1) - Cardinality(refused)
    <3> DEFINE taken == 1 .. next - 1
    <3>1. Cardinality(taken \ refused) = Cardinality(taken) - Cardinality(taken \cap refused)
      <4>1. IsFiniteSet(taken)
        BY <2>3
      <4> HIDE DEF taken
      <4> QED
        BY <4>1, FS_Difference
    <3> QED
      BY <2>3, <2>4, <3>1
  <2> QED
    BY <1>1, <2>2, <2>5, NothingIsLeft
<1>2. TypeInv /\ CountInv /\ QueueInv /\ OnceInv => ReturnedIsAccountedFor
  BY <1>1, NothingIsLeft DEF ReturnedIsAccountedFor
<1>3. QueueInv /\ TypeInv /\ [Next]_vars => QueueInv'
  BY QueueInvStep
<1> QED
  BY <1>2, <1>3, QueueInit, TypeInit, TypeStep, OnceAlways, PTL DEF Spec

-----------------------------------------------------------------------------
(* The refinement of BoundedDispatch. *)

Invs == TypeInv /\ CountInv /\ QueueInv /\ OnceInv

Fate     == [a \in Arrivals |-> FateOf(a)]
Returned == genPc = "returned"

Running(a) == \E w \in Workers : wjob[w] = a /\ wpc[w] \in {"counted", "busy"}
Waiting(a) == InQueue(a) \/ \E w \in Workers : wjob[w] = a /\ wpc[w] = "got"

\* The fate of an arrival, place by place.
FateIsItsPlace(a) ==
  /\ recorded[a] > 0 <=> FateOf(a) = "finished"
  /\ Running(a) <=> FateOf(a) = "running"
  /\ Waiting(a) <=> FateOf(a) = "waiting"
  /\ a \in refused <=> FateOf(a) = "refused"
  /\ Unsettled(a) /\ a \notin refused <=> FateOf(a) = "future"
  /\ FateOf(a) \in {"finished", "running", "waiting", "refused", "future"}

LEMMA FatesNow == TypeInv /\ OnceInv => \A a \in Arrivals : FateIsItsPlace(a)
<1> SUFFICES ASSUME TypeInv, OnceInv, NEW a \in Arrivals PROVE FateIsItsPlace(a)
  OBVIOUS
<1>1. recorded[a] \in Nat
  BY DEF TypeInv, TypeOK
<1>2. Placed(a)
  BY DEF OnceInv, Placed
<1>3. /\ Running(a) => Holders(a) # {}
      /\ Waiting(a) => Holders(a) # {} \/ Positions(a) # {}
      /\ Holders(a) # {} \/ Positions(a) # {} => Running(a) \/ Waiting(a)
  BY DEF Running, Waiting, Holders, Holds, Positions, InQueue
<1>4. ~(Running(a) /\ Waiting(a))
  <2>1. ASSUME Running(a), Waiting(a) PROVE FALSE
    <3>1. PICK v \in Workers : wjob[v] = a /\ wpc[v] \in {"counted", "busy"}
      BY <2>1 DEF Running
    <3>2. v \in Holders(a)
      BY <3>1 DEF Holders, Holds
    <3>3. Holders(a) = {v} /\ Positions(a) = {}
      BY <1>2, <3>2 DEF Placed, Nowhere, Somewhere
    <3>4. PICK w \in Workers : wjob[w] = a /\ wpc[w] = "got"
      BY <2>1, <3>3 DEF Waiting, InQueue, Positions
    <3>5. w \in Holders(a)
      BY <3>4 DEF Holders, Holds
    <3> QED
      BY <3>1, <3>3, <3>4, <3>5
  <2> QED
    BY <2>1
<1>5. /\ recorded[a] > 0 => ~Running(a) /\ ~Waiting(a) /\ ~Unsettled(a)
      /\ Running(a) \/ Waiting(a) => ~Unsettled(a)
      /\ ~Unsettled(a) => recorded[a] > 0 \/ Running(a) \/ Waiting(a)
  BY <1>1, <1>2, <1>3 DEF Placed, Nowhere, Somewhere
<1>6. a \in refused => Unsettled(a)
  BY DEF Unsettled
<1>7. FateOf(a) = CASE recorded[a] > 0 -> "finished" [] Running(a) -> "running"
                    [] Waiting(a) -> "waiting" [] a \in refused -> "refused" [] OTHER -> "future"
  BY DEF FateOf, Running, Waiting
<1> QED
  BY <1>4, <1>5, <1>6, <1>7 DEF FateIsItsPlace

LEMMA FatesThen == (TypeInv /\ OnceInv => \A a \in Arrivals : FateIsItsPlace(a))'
BY FatesNow, PTL

-----------------------------------------------------------------------------
(* Steps that change one fate, and steps that change none. *)

\* Everything a fate depends on, but for the arrivals in S.
SameFates(S) ==
  \A a \in Arrivals \ S :
    /\ recorded'[a] > 0 <=> recorded[a] > 0
    /\ Running(a)' <=> Running(a)
    /\ Waiting(a)' <=> Waiting(a)
    /\ a \in refused' <=> a \in refused

LEMMA SameFateOf ==
  ASSUME NEW S, SameFates(S), NEW a \in Arrivals \ S
  PROVE  FateOf(a)' = FateOf(a)
<1>1. FateOf(a) = CASE recorded[a] > 0 -> "finished" [] Running(a) -> "running"
                    [] Waiting(a) -> "waiting" [] a \in refused -> "refused" [] OTHER -> "future"
  BY DEF FateOf, Running, Waiting
<1>2. FateOf(a)' = CASE recorded'[a] > 0 -> "finished" [] Running(a)' -> "running"
                    [] Waiting(a)' -> "waiting" [] a \in refused' -> "refused" [] OTHER -> "future"
  BY DEF FateOf, Running, Waiting
<1> QED
  BY <1>1, <1>2 DEF SameFates

\* One arrival's fate changes.
LEMMA OneFateChanges ==
  ASSUME NEW b \in Arrivals, SameFates({b}), NEW f, FateOf(b)' = f
  PROVE  Fate' = [Fate EXCEPT ![b] = f]
<1>1. \A a \in Arrivals : FateOf(a)' = IF a = b THEN f ELSE FateOf(a)
  BY SameFateOf
<1>2. Fate' = [a \in Arrivals |-> IF a = b THEN f ELSE FateOf(a)]
  BY <1>1 DEF Fate, Arrivals
<1> QED
  BY <1>2 DEF Fate

LEMMA NoFateChanges ==
  ASSUME SameFates({})
  PROVE  Fate' = Fate
<1>1. \A a \in Arrivals : FateOf(a)' = FateOf(a)
  BY SameFateOf
<1> QED
  BY <1>1 DEF Fate, Arrivals

-----------------------------------------------------------------------------
(* How many arrivals are held. *)

\* The workers with a job they have not recorded.
Engaged == {w \in Workers : wpc[w] \in {"got", "counted", "busy"}}

LEMMA CountTo ==
  ASSUME NEW n \in Nat
  PROVE  IsFiniteSet(1 .. n) /\ Cardinality(1 .. n) = n
BY FS_Interval

LEMMA ImageIsNoLarger ==
  ASSUME NEW S, IsFiniteSet(S), NEW f
  PROVE  IsFiniteSet({f[x] : x \in S}) /\ Cardinality({f[x] : x \in S}) <= Cardinality(S)
<1> DEFINE T == {f[x] : x \in S}
           g == [x \in S |-> f[x]]
<1>1. g \in Surjection(S, T)
  BY DEF Surjection
<1> HIDE DEF T, g
<1>2. IsFiniteSet(T) /\ Cardinality(T) <= Cardinality(S)
  BY <1>1, FS_Surjection
<1> QED
  BY <1>2 DEF T

\* Two finite sets cover no more than the sum of what they have.
LEMMA CoveredByTwo ==
  ASSUME NEW S, NEW T, IsFiniteSet(S), IsFiniteSet(T), NEW U \in SUBSET (S \cup T)
  PROVE  IsFiniteSet(U) /\ Cardinality(U) <= Cardinality(S) + Cardinality(T)
<1>1. /\ IsFiniteSet(S \cup T)
      /\ Cardinality(S \cup T) = Cardinality(S) + Cardinality(T) - Cardinality(S \cap T)
  BY FS_Union
<1>2. /\ Cardinality(S) \in Nat /\ Cardinality(T) \in Nat /\ Cardinality(S \cap T) \in Nat
  <2>1. IsFiniteSet(S \cap T)
    BY FS_Subset
  <2> QED
    BY <2>1, FS_CardinalityType
<1>3. IsFiniteSet(U) /\ Cardinality(U) <= Cardinality(S \cup T) /\ Cardinality(U) \in Nat
  BY <1>1, FS_Subset, FS_CardinalityType
<1> QED
  BY <1>1, <1>2, <1>3

\* What is held is with an engaged worker or in the queue.
LEMMA HeldIsBounded ==
  ASSUME TypeInv
  PROVE  LET held == {a \in Arrivals : Waiting(a) \/ Running(a)}
         IN  Cardinality(held) \in Nat /\ Cardinality(held) <= Cardinality(Engaged) + Len(queue)
<1> DEFINE held  == {a \in Arrivals : Waiting(a) \/ Running(a)}
           jobs  == {wjob[w] : w \in Engaged}
           queued == {queue[i] : i \in DOMAIN queue}
<1>1. IsFiniteSet(Engaged) /\ Cardinality(Engaged) \in Nat
  <2>1. Engaged \in SUBSET Workers
    BY DEF Engaged
  <2> QED
    BY <2>1, WorkersFinite
<1>2. DOMAIN queue = 1 .. Len(queue) /\ Len(queue) \in Nat
  BY LenProperties DEF TypeInv, TypeOK
<1>3. IsFiniteSet(DOMAIN queue) /\ Cardinality(DOMAIN queue) = Len(queue)
  <2>1. IsFiniteSet(1 .. Len(queue)) /\ Cardinality(1 .. Len(queue)) = Len(queue)
    BY <1>2, CountTo
  <2> QED
    BY <1>2, <2>1
<1>4. IsFiniteSet(jobs) /\ Cardinality(jobs) <= Cardinality(Engaged) /\ Cardinality(jobs) \in Nat
  BY <1>1, ImageIsNoLarger, FS_CardinalityType
<1>5. IsFiniteSet(queued) /\ Cardinality(queued) <= Len(queue) /\ Cardinality(queued) \in Nat
  BY <1>3, ImageIsNoLarger, FS_CardinalityType
<1>6. held \in SUBSET (jobs \cup queued)
  BY DEF Waiting, Running, InQueue, Engaged
<1> HIDE DEF held, jobs, queued
<1>7. IsFiniteSet(held) /\ Cardinality(held) <= Cardinality(jobs) + Cardinality(queued)
  BY <1>4, <1>5, <1>6, CoveredByTwo
<1>8. Cardinality(held) \in Nat
  BY <1>7, FS_CardinalityType
<1>9. Cardinality(held) <= Cardinality(Engaged) + Len(queue)
  BY <1>1, <1>2, <1>4, <1>5, <1>7, <1>8
<1> QED
  BY <1>8, <1>9 DEF held

\* What is being performed is with a worker that counts.
LEMMA RunningIsBounded ==
  ASSUME TypeInv
  PROVE  LET running == {a \in Arrivals : Running(a)}
         IN  Cardinality(running) \in Nat /\ Cardinality(running) <= Cardinality(Active)
<1> DEFINE running == {a \in Arrivals : Running(a)}
           jobs    == {wjob[w] : w \in Active}
<1>1. IsFiniteSet(Active) /\ Cardinality(Active) \in Nat
  <2>1. Active \in SUBSET Workers
    BY DEF Active
  <2> QED
    BY <2>1, WorkersFinite
<1>2. IsFiniteSet(jobs) /\ Cardinality(jobs) <= Cardinality(Active) /\ Cardinality(jobs) \in Nat
  BY <1>1, ImageIsNoLarger, FS_CardinalityType
<1>3. running \in SUBSET jobs
  BY DEF Running, Active
<1> HIDE DEF running, jobs
<1>4. IsFiniteSet(running) /\ Cardinality(running) <= Cardinality(jobs) /\ Cardinality(running) \in Nat
  BY <1>2, <1>3, FS_Subset, FS_CardinalityType
<1> QED
  BY <1>1, <1>2, <1>4 DEF running

\* A subset of the workers that leaves one out is smaller than the pool.
LEMMA OneLeftOut ==
  ASSUME NEW S \in SUBSET Workers, NEW w \in Workers \ S
  PROVE  Cardinality(S) \in Nat /\ Cardinality(S) < MaxInFlight
<1>1. /\ IsFiniteSet(S) /\ Cardinality(S) \in Nat /\ Cardinality(S) <= MaxInFlight
      /\ MaxInFlight \in Nat
  BY WorkersFinite
<1>2. Cardinality(S) # MaxInFlight
  BY ExecutorAssumption, FS_Subset DEF MaxInFlight
<1> QED
  BY <1>1, <1>2

-----------------------------------------------------------------------------
(* The steps of the promise. *)

\* The promise in terms of this module: its fates, and what it holds.
LEMMA PromiseTerms ==
  ASSUME TypeInv, OnceInv
  PROVE  /\ Promise!With("running") = {a \in Arrivals : Running(a)}
         /\ Promise!Held = {a \in Arrivals : Waiting(a) \/ Running(a)}
         /\ \A a \in Arrivals :
              /\ FateOf(a) = "future"
                   => Promise!IsNext(a) \/ \E b \in 1 .. a - 1 : FateOf(b) = "future"
              /\ Fate[a] = FateOf(a)
<1>1. \A a \in Arrivals : FateIsItsPlace(a)
  BY FatesNow
<1>2. Promise!With("running") = {a \in Arrivals : Running(a)}
  BY <1>1 DEF Promise!With, Promise!Arrivals, Arrivals, FateIsItsPlace
<1>3. Promise!With("waiting") = {a \in Arrivals : Waiting(a)}
  BY <1>1 DEF Promise!With, Promise!Arrivals, Arrivals, FateIsItsPlace
<1>4. \A a \in Arrivals : \A b \in 1 .. a - 1 : b \in Arrivals
  BY ExecutorAssumption DEF Arrivals
<1>5. \A a \in Arrivals :
        FateOf(a) = "future"
          => Promise!IsNext(a) \/ \E b \in 1 .. a - 1 : FateOf(b) = "future"
  BY <1>4 DEF Promise!IsNext
<1> QED
  BY <1>2, <1>3, <1>5 DEF Promise!Held, Fate

\* The instance counts as this module does.
LEMMA PromiseCounts == \A S : Promise!Cardinality(S) = Cardinality(S)
BY Zenon DEF Promise!Cardinality, Cardinality

LEMMA PromiseBecomes ==
  ASSUME NEW b \in Arrivals, SameFates({b}), NEW f, FateOf(b)' = f, Returned' <=> Returned
  PROVE  Promise!Become(b, f)
BY OneFateChanges DEF Promise!Become, Fate, Returned

LEMMA PromiseStutters ==
  ASSUME SameFates({}), Returned' <=> Returned
  PROVE  UNCHANGED Promise!dispatchVars
BY NoFateChanges DEF Promise!dispatchVars, Fate, Returned

\* The arrival at the generator is the first one without a fate.
LEMMA TheNextArrival ==
  ASSUME TypeInv, CountInv, OnceInv, genPc = "send"
  PROVE  next \in Arrivals /\ FateOf(next) = "future" /\ Promise!IsNext(next)
<1>1. next \in Arrivals /\ Arrivals \subseteq Nat
  BY ExecutorAssumption DEF TypeInv, TypeOK, InLoop, Arrivals
<1>2. next \notin refused /\ Unsettled(next)
  BY <1>1 DEF CountInv, Unsettled
<1>3. FateOf(next) = "future"
  BY <1>1, <1>2, FatesNow DEF FateIsItsPlace
<1>4. ASSUME NEW b \in 1 .. next - 1 PROVE FateOf(b) # "future"
  <2>1. b \in Arrivals /\ b < next
    BY <1>1, ExecutorAssumption DEF Arrivals
  <2>2. Unsettled(b) <=> b \in refused
    BY <1>1, <2>1 DEF Unsettled
  <2> QED
    BY <2>1, <2>2, FatesNow DEF FateIsItsPlace
<1> QED
  BY <1>1, <1>3, <1>4, PromiseTerms

\* A send that succeeds accepts: a parked worker is a place left over, and so is the
\* room in the buffer.
LEMMA SendAccepts ==
  ASSUME TypeInv, CountInv, QueueInv, OnceInv, TypeInv', OnceInv', GenSend,
         NEW b \in Arrivals, b = next
  PROVE  Promise!Accept(b)
<1>0. /\ wpc \in [Workers -> {"top", "parked", "got", "counted", "busy", "done", "exited"}]
      /\ wjob \in [Workers -> Arrivals \cup {NoJob}]
      /\ queue \in Seq(Arrivals) /\ Len(queue) \in Nat
      /\ QueueDepth \in Nat /\ MaxInFlight \in Nat
  BY ExecutorAssumption, WorkersFinite, LenProperties DEF TypeInv, TypeOK
<1>1. Promise!IsNext(b)
  BY TheNextArrival DEF GenSend
<1>2. /\ next' = next /\ genPc' = "sent" /\ genPc = "send"
      /\ refused' = refused /\ recorded' = recorded
  BY DEF GenSend
<1>3. Engaged \in SUBSET Workers /\ Cardinality(Engaged) \in Nat /\ Cardinality(Engaged) <= MaxInFlight
  <2>1. Engaged \in SUBSET Workers
    BY DEF Engaged
  <2> QED
    BY <2>1, WorkersFinite
<1>4. /\ Cardinality(Engaged) + Len(queue) < MaxInFlight + QueueDepth
      /\ Waiting(b)'
      /\ SameFates({b})
  <2>1. ASSUME NEW w \in Parked, wpc' = [wpc EXCEPT ![w] = "got"], wjob' = [wjob EXCEPT ![w] = next],
               queue' = queue
        PROVE  <1>4!:
    <3>1. w \in Workers \ Engaged
      BY <2>1 DEF Parked, Engaged
    <3>2. Len(queue) = 0
      BY <2>1 DEF QueueInv, Parked
    <3>3. Cardinality(Engaged) < MaxInFlight
      BY <1>3, <3>1, OneLeftOut
    <3>4. Waiting(b)'
      BY <1>0, <2>1, <3>1 DEF Waiting
    <3>5. SameFates({b})
      BY <1>0, <1>2, <2>1, <3>1 DEF SameFates, Running, Waiting, InQueue, Parked
    <3> QED
      BY <1>0, <1>3, <3>2, <3>3, <3>4, <3>5
  <2>2. ASSUME Len(queue) < QueueDepth, queue' = Append(queue, next), UNCHANGED workerVars
        PROVE  <1>4!:
    <3>1. /\ DOMAIN queue = 1 .. Len(queue) /\ DOMAIN queue' = 1 .. Len(queue) + 1
          /\ queue'[Len(queue) + 1] = next
          /\ \A i \in 1 .. Len(queue) : queue'[i] = queue[i]
      <4>1. /\ Append(queue, next) \in Seq(Arrivals)
            /\ Len(Append(queue, next)) = Len(queue) + 1
            /\ \A i \in 1 .. Len(queue) : Append(queue, next)[i] = queue[i]
            /\ Append(queue, next)[Len(queue) + 1] = next
        BY <1>0, <1>1, AppendProperties
      <4>2. DOMAIN queue = 1 .. Len(queue) /\ DOMAIN Append(queue, next) = 1 .. Len(Append(queue, next))
        BY <1>0, <4>1, LenProperties
      <4> QED
        BY <2>2, <4>1, <4>2
    <3>2. \A a \in Arrivals : InQueue(a)' <=> InQueue(a) \/ a = b
      BY <1>0, <3>1 DEF InQueue
    <3>3. wpc' = wpc /\ wjob' = wjob
      BY <2>2 DEF workerVars
    <3>4. Waiting(b)'
      BY <1>1, <3>2 DEF Waiting
    <3>5. SameFates({b})
      BY <1>2, <3>2, <3>3 DEF SameFates, Running, Waiting
    <3> QED
      BY <1>0, <1>3, <2>2, <3>4, <3>5
  <2> QED
    BY <2>1, <2>2 DEF GenSend
<1>5. FateOf(b)' = "waiting"
  <2>1. FateIsItsPlace(b)'
    BY <1>1, FatesThen DEF Arrivals
  <2> QED
    BY <1>4, <2>1, <1>2 DEF FateIsItsPlace
<1>6. Cardinality(Promise!Held) < MaxInFlight + QueueDepth
  <2>1. /\ Cardinality(Promise!Held) \in Nat
        /\ Cardinality(Promise!Held) <= Cardinality(Engaged) + Len(queue)
    BY HeldIsBounded, PromiseTerms
  <2> QED
    BY <1>0, <1>3, <1>4, <2>1
<1>7. Promise!Become(b, "waiting")
  BY <1>1, <1>2, <1>4, <1>5, PromiseBecomes DEF Returned
<1> QED
  BY <1>1, <1>6, <1>7, PromiseCounts DEF Promise!Accept

\* The select's default refuses.
LEMMA DropRefuses ==
  ASSUME TypeInv, CountInv, OnceInv, TypeInv', OnceInv', GenDrop,
         NEW b \in Arrivals, b = next
  PROVE  Promise!Refuse(b)
<1>1. Promise!IsNext(b)
  BY TheNextArrival DEF GenDrop
<1>2. FateOf(b)' = "refused"
  <2>1. FateIsItsPlace(b)' /\ b \in refused'
    BY FatesThen DEF Arrivals, GenDrop
  <2> QED
    BY <2>1 DEF FateIsItsPlace
<1>3. SameFates({b})
  BY DEF GenDrop, SameFates, Running, Waiting, InQueue, workerVars, chanVars
<1>4. Promise!Become(b, "refused")
  BY <1>2, <1>3, PromiseBecomes DEF Returned, GenDrop
<1> QED
  BY <1>1, <1>4 DEF Promise!Refuse

\* A worker that takes a job from the queue leaves it waiting.
LEMMA ReceiveStutters ==
  ASSUME TypeInv, NEW w \in Workers, WorkerReceive(w)
  PROVE  UNCHANGED Promise!dispatchVars
<1>0. /\ wpc \in [Workers -> {"top", "parked", "got", "counted", "busy", "done", "exited"}]
      /\ wjob \in [Workers -> Arrivals \cup {NoJob}]
      /\ queue \in Seq(Arrivals)
  BY DEF TypeInv, TypeOK
<1>1. genPc' = genPc /\ recorded' = recorded /\ refused' = refused /\ wpc[w] = "top"
  BY DEF WorkerReceive, genVars
<1>2. \A a \in Arrivals : Running(a)' <=> Running(a)
  BY <1>0 DEF WorkerReceive, Running
<1>3. ASSUME NEW a \in Arrivals PROVE Waiting(a)' <=> Waiting(a)
  <2>1. CASE queue = <<>>
    BY <1>0, <2>1 DEF WorkerReceive, Waiting, InQueue
  <2>2. CASE queue # <<>>
    <3>1. /\ Len(queue) \in Nat \ {0} /\ Head(queue) = queue[1] /\ DOMAIN queue = 1 .. Len(queue)
      BY <1>0, <2>2, EmptySeq, LenProperties
    <3>2. /\ Tail(queue) \in Seq(Arrivals) /\ Len(Tail(queue)) = Len(queue) - 1
          /\ \A i \in 1 .. Len(Tail(queue)) : Tail(queue)[i] = queue[i + 1]
      BY <1>0, <2>2, HeadTailProperties
    <3>3. DOMAIN Tail(queue) = 1 .. Len(queue) - 1
      BY <3>2, LenProperties
    <3>4. queue' = Tail(queue) /\ wjob' = [wjob EXCEPT ![w] = queue[1]] /\ wpc' = [wpc EXCEPT ![w] = "got"]
      BY <2>2, <3>1 DEF WorkerReceive
    <3>5. InQueue(a) <=> InQueue(a)' \/ queue[1] = a
      <4>1. ASSUME NEW i \in 1 .. Len(queue), queue[i] = a, i # 1
            PROVE  i - 1 \in DOMAIN queue' /\ queue'[i - 1] = a
        <5>1. i - 1 \in 1 .. Len(queue) - 1 /\ (i - 1) + 1 = i
          BY <3>1, <4>1
        <5> QED
          BY <3>2, <3>3, <3>4, <4>1, <5>1
      <4>2. ASSUME NEW i \in DOMAIN queue', queue'[i] = a
            PROVE  i + 1 \in DOMAIN queue /\ queue[i + 1] = a
        BY <3>1, <3>2, <3>3, <3>4, <4>2
      <4> QED
        BY <3>1, <4>1, <4>2 DEF InQueue
    <3>6. (\E v \in Workers : wjob'[v] = a /\ wpc'[v] = "got")
             <=> queue[1] = a \/ \E v \in Workers : wjob[v] = a /\ wpc[v] = "got"
      BY <1>0, <1>1, <3>4
    <3> QED
      BY <3>5, <3>6 DEF Waiting
  <2> QED
    BY <2>1, <2>2
<1>4. SameFates({})
  BY <1>1, <1>2, <1>3 DEF SameFates, Arrivals
<1> QED
  BY <1>1, <1>4, PromiseStutters DEF Returned

\* A worker that counts starts its job, and is a place the running ones left.
LEMMA EnterStarts ==
  ASSUME TypeInv, OnceInv, TypeInv', OnceInv', NEW w \in Workers, WorkerEnter(w),
         NEW b \in Arrivals, b = wjob[w]
  PROVE  Promise!Start(b)
<1>0. wpc \in [Workers -> {"top", "parked", "got", "counted", "busy", "done", "exited"}]
  BY DEF TypeInv, TypeOK
<1>1. /\ wpc[w] = "got" /\ wpc' = [wpc EXCEPT ![w] = "counted"] /\ wjob' = wjob
      /\ queue' = queue /\ recorded' = recorded /\ refused' = refused /\ genPc' = genPc
  BY DEF WorkerEnter, chanVars, genVars
<1>2. Waiting(b)
  BY <1>1 DEF Waiting
<1>3. Fate[b] = "waiting"
  BY <1>2, FatesNow DEF FateIsItsPlace, Fate
<1>4. FateOf(b)' = "running"
  <2>1. Running(b)'
    BY <1>0, <1>1 DEF Running
  <2>2. FateIsItsPlace(b)'
    BY FatesThen DEF Arrivals
  <2> QED
    BY <2>1, <2>2 DEF FateIsItsPlace
<1>5. SameFates({b})
  BY <1>0, <1>1 DEF SameFates, Running, Waiting, InQueue
<1>6. Cardinality(Promise!With("running")) < MaxInFlight
  <2>1. Active \in SUBSET Workers /\ w \in Workers \ Active
    BY <1>1 DEF Active
  <2>2. Cardinality(Active) \in Nat /\ Cardinality(Active) < MaxInFlight /\ MaxInFlight \in Nat
    BY <2>1, OneLeftOut, WorkersFinite
  <2>3. /\ Cardinality(Promise!With("running")) \in Nat
        /\ Cardinality(Promise!With("running")) <= Cardinality(Active)
    BY RunningIsBounded, PromiseTerms
  <2> QED
    BY <2>2, <2>3
<1>7. Promise!Become(b, "running")
  BY <1>1, <1>4, <1>5, PromiseBecomes DEF Returned
<1> QED
  BY <1>3, <1>6, <1>7, PromiseCounts DEF Promise!Start, Fate

\* A worker that records an outcome finishes its job.
LEMMA DoFinishes ==
  ASSUME TypeInv, OnceInv, TypeInv', OnceInv', NEW w \in Workers, WorkerDo(w),
         NEW b \in Arrivals, b = wjob[w]
  PROVE  Promise!Finish(b)
<1>0. /\ wpc \in [Workers -> {"top", "parked", "got", "counted", "busy", "done", "exited"}]
      /\ recorded \in [Arrivals -> Nat]
  BY DEF TypeInv, TypeOK
<1>1. /\ wpc[w] = "busy" /\ wpc' = [wpc EXCEPT ![w] = "done"] /\ wjob' = wjob
      /\ queue' = queue /\ refused' = refused /\ genPc' = genPc
      /\ recorded' = [recorded EXCEPT ![b] = @ + 1]
  BY DEF WorkerDo, chanVars, genVars
<1>2. Running(b)
  BY <1>1 DEF Running
<1>3. Fate[b] = "running"
  BY <1>2, FatesNow DEF FateIsItsPlace, Fate
<1>4. FateOf(b)' = "finished"
  <2>1. recorded'[b] > 0
    BY <1>0, <1>1
  <2>2. FateIsItsPlace(b)'
    BY FatesThen DEF Arrivals
  <2> QED
    BY <2>1, <2>2 DEF FateIsItsPlace
<1>5. SameFates({b})
  BY <1>0, <1>1 DEF SameFates, Running, Waiting, InQueue
<1>6. Promise!Become(b, "finished")
  BY <1>1, <1>4, <1>5, PromiseBecomes DEF Returned
<1> QED
  BY <1>3, <1>6 DEF Promise!Finish, Fate

\* Run returns when nothing is held.
LEMMA ReturnEnds ==
  ASSUME TypeInv, QueueInv, OnceInv, RunReturns
  PROVE  Promise!End
<1>1. /\ genPc = "draining" /\ genPc' = "returned" /\ \A w \in Workers : wpc[w] = "exited"
      /\ queue' = queue /\ wpc' = wpc /\ wjob' = wjob /\ recorded' = recorded /\ refused' = refused
  BY DEF RunReturns, chanVars, workerVars
<1>2. queue = <<>>
  BY <1>1, ExecutorAssumption DEF QueueInv
<1>3. \A a \in Arrivals : ~Waiting(a) /\ ~Running(a)
  BY <1>1, <1>2 DEF Waiting, Running, InQueue
<1>4. Promise!Held = {}
  BY <1>3, PromiseTerms
<1>5. SameFates({})
  BY <1>1 DEF SameFates, Running, Waiting, InQueue
<1>6. Fate' = Fate
  BY <1>5, NoFateChanges
<1> QED
  BY <1>1, <1>4, <1>6 DEF Promise!End, Fate

\* Every other step is no step of the promise.
LEMMA OtherStutters ==
  ASSUME TypeInv,
         \/ GenNext \/ GenSleep \/ GenAwake \/ GenOffer \/ GenSent
         \/ ClockAdvances \/ CancelArrivals \/ CancelWork \/ StopGenerating \/ UNCHANGED vars
         \/ \E w \in Workers : WorkerNotePeak(w) \/ WorkerLeave(w)
  PROVE  UNCHANGED Promise!dispatchVars
<1>0. /\ wpc \in [Workers -> {"top", "parked", "got", "counted", "busy", "done", "exited"}]
      /\ wjob \in [Workers -> Arrivals \cup {NoJob}]
  BY DEF TypeInv, TypeOK
<1> SUFFICES SameFates({}) /\ (Returned' <=> Returned)
  BY PromiseStutters
<1>1. CASE GenNext \/ GenSleep \/ GenAwake
  <2>1. /\ queue' = queue /\ wjob' = wjob /\ recorded' = recorded /\ refused' = refused
        /\ genPc # "returned" /\ genPc' # "returned"
        /\ wpc' = wpc \/ wpc' = [w \in Workers |-> IF wpc[w] = "parked" THEN "exited" ELSE wpc[w]]
    BY <1>1 DEF GenNext, GenSleep, GenAwake, CloseQueue, chanVars, workerVars
  <2>2. \A w \in Workers : \A p \in {"got", "counted", "busy"} : wpc'[w] = p <=> wpc[w] = p
    BY <1>0, <2>1
  <2> QED
    BY <2>1, <2>2 DEF SameFates, Running, Waiting, InQueue, Returned
<1>2. CASE GenOffer \/ GenSent
  BY <1>2 DEF GenOffer, GenSent, chanVars, workerVars, SameFates, Running, Waiting, InQueue, Returned
<1>3. CASE ClockAdvances \/ CancelArrivals \/ CancelWork \/ StopGenerating \/ UNCHANGED vars
  <2>1. UNCHANGED <<genPc, wpc, wjob, queue, recorded, refused>>
    BY <1>3, Zenon DEF ClockAdvances, CancelArrivals, CancelWork, StopGenerating, vars, genVars,
       chanVars, workerVars
  <2> QED
    BY <2>1 DEF SameFates, Running, Waiting, InQueue, Returned
<1>4. ASSUME NEW w \in Workers, WorkerNotePeak(w)
      PROVE  SameFates({}) /\ (Returned' <=> Returned)
  BY <1>0, <1>4 DEF WorkerNotePeak, genVars, chanVars, SameFates, Running, Waiting, InQueue, Returned
<1>5. ASSUME NEW w \in Workers, WorkerLeave(w)
      PROVE  SameFates({}) /\ (Returned' <=> Returned)
  <2>1. /\ queue' = queue /\ recorded' = recorded /\ refused' = refused /\ genPc' = genPc
        /\ wpc[w] = "done" /\ wpc' = [wpc EXCEPT ![w] = "top"] /\ wjob' = [wjob EXCEPT ![w] = NoJob]
    BY <1>5 DEF WorkerLeave, genVars, chanVars
  <2> QED
    BY <1>0, <2>1 DEF SameFates, Running, Waiting, InQueue, Returned
<1> QED
  BY <1>1, <1>2, <1>3, <1>4, <1>5

-----------------------------------------------------------------------------
(* The refinement. *)

LEMMA PromiseInit == Init => Promise!DispatchInit
<1> SUFFICES ASSUME Init PROVE Promise!DispatchInit
  OBVIOUS
<1>1. ASSUME NEW a \in Arrivals PROVE FateOf(a) = "future"
  <2>1. FateIsItsPlace(a) /\ Unsettled(a) /\ a \notin refused
    BY FatesNow, TypeInit, OnceInit, ExecutorAssumption DEF Init, Unsettled, Arrivals
  <2> QED
    BY <2>1 DEF FateIsItsPlace
<1> QED
  BY <1>1 DEF Init, Promise!DispatchInit, Promise!Arrivals, Arrivals

LEMMA PromiseStep ==
  ASSUME Invs, Invs', [Next]_vars
  PROVE  [Promise!DispatchNext]_Promise!dispatchVars
<1> USE DEF Invs
<1>1. genPc = "returned" => \A w \in Workers : wpc[w] = "exited"
  BY DEF QueueInv
<1>2. Arrivals = Promise!Arrivals
  BY DEF Arrivals, Promise!Arrivals
<1>3. CASE GenSend \/ GenDrop
  <2>1. genPc # "returned" /\ next \in Arrivals
    BY <1>3, TheNextArrival DEF GenSend, GenDrop
  <2>2. PICK b \in Arrivals : b = next
    BY <2>1
  <2>3. Promise!Accept(b) \/ Promise!Refuse(b)
    BY <1>3, <2>2, SendAccepts, DropRefuses
  <2> QED
    BY <1>2, <2>1, <2>3 DEF Promise!DispatchNext
<1>4. ASSUME NEW w \in Workers, WorkerEnter(w) \/ WorkerDo(w)
      PROVE  Promise!DispatchNext
  <2>1. wjob[w] \in Arrivals /\ genPc # "returned"
    BY <1>1, <1>4 DEF TypeInv, Employed, WorkerEnter, WorkerDo
  <2>2. PICK b \in Arrivals : b = wjob[w]
    BY <2>1
  <2>3. Promise!Start(b) \/ Promise!Finish(b)
    BY <1>4, <2>2, EnterStarts, DoFinishes
  <2> QED
    BY <1>2, <2>1, <2>3 DEF Promise!DispatchNext
<1>5. CASE RunReturns
  BY <1>5, ReturnEnds DEF Promise!DispatchNext
<1>6. ASSUME NEW w \in Workers, WorkerReceive(w)
      PROVE  UNCHANGED Promise!dispatchVars
  BY <1>6, ReceiveStutters
<1>7. ASSUME \/ GenNext \/ GenSleep \/ GenAwake \/ GenOffer \/ GenSent
             \/ ClockAdvances \/ CancelArrivals \/ CancelWork \/ StopGenerating \/ UNCHANGED vars
             \/ \E w \in Workers : WorkerNotePeak(w) \/ WorkerLeave(w)
      PROVE  UNCHANGED Promise!dispatchVars
  BY <1>7, OtherStutters
<1> QED
  BY <1>3, <1>4, <1>5, <1>6, <1>7 DEF Next, GeneratorStep, WorkerStep, Over

\* The executor keeps the promise of an open-model executor: arrivals in order, each
\* accepted or refused on the spot, an accepted one performed once, within both bounds.
THEOREM ExecutorKeepsPromise == Spec => KeepsPromise
<1>1. Invs /\ [Next]_vars => Invs'
  BY TypeStep, CountStep, QueueInvStep, OnceStep DEF Invs
<1>2. Init => Invs
  BY TypeInit, CountInit, QueueInit, OnceInit DEF Invs
<1>3. Invs /\ Invs' /\ [Next]_vars => [Promise!DispatchNext]_Promise!dispatchVars
  BY PromiseStep
<1> QED
  BY <1>1, <1>2, <1>3, PromiseInit, PTL DEF Spec, KeepsPromise, Promise!DispatchSpec
=============================================================================
