------------------------------- MODULE Executor -------------------------------
(***************************************************************************)
(* The arrival-rate executor (internal/executor/executor.go): a generator  *)
(* that offers arrivals when they are due and never waits for a worker, a  *)
(* bounded queue, MaxInFlight workers that drain it, and the two contexts  *)
(* that stop arrivals and cut off work.                                    *)
(*                                                                         *)
(* The queue is a Go channel: a worker that has come to receive is parked  *)
(* when there is nothing to take, a send goes to a parked worker directly, *)
(* and with QueueDepth 0 that is the only send that succeeds.  A worker on *)
(* its way back to the channel is neither busy nor parked.                 *)
(*                                                                         *)
(* Arrivals are numbers in schedule order.  Of the clock only the number   *)
(* of arrivals that are due is kept; the lag statistics are left out.      *)
(***************************************************************************)
EXTENDS Integers, Sequences, FiniteSets

CONSTANTS
  Workers,      \* cfg.MaxInFlight goroutines
  QueueDepth,   \* capacity of the queue
  NumArrivals   \* length of the schedule

ASSUME ExecutorAssumption ==
  /\ IsFiniteSet(Workers) /\ Workers # {}
  /\ QueueDepth \in Nat
  /\ NumArrivals \in Nat

Arrivals    == 1 .. NumArrivals
MaxInFlight == Cardinality(Workers)
NoJob       == 0

VARIABLES
  due,          \* how many arrivals the clock has reached
  arrivalDone,  \* arrivalCtx is done
  workDone,     \* workCtx is done
  genDone,      \* the AfterFunc on workCtx has run stopGenerating
  genPc,        \* where the generator, then Run, is
  next,         \* the arrival the generator is at
  queue,        \* what is in the channel's buffer
  closed,       \* the channel is closed
  wpc, wjob,    \* where each worker is, and the job it has
  reading,      \* the value inFlight.Add(1) gave each worker
  offered, dispatched, dropped, inFlight, peakInFlight,  \* the counters
  recorded,     \* how many outcomes each arrival has had recorded
  refused       \* the arrivals that were dropped

clockVars   == <<due, arrivalDone, workDone, genDone>>
genVars     == <<genPc, next>>
chanVars    == <<queue, closed>>
workerVars  == <<wpc, wjob, reading>>
gaugeVars   == <<inFlight, peakInFlight>>
countVars   == <<offered, dispatched, dropped>>
vars == <<clockVars, genVars, chanVars, workerVars, gaugeVars, countVars,
          recorded, refused>>

Init ==
  /\ due = 0
  /\ arrivalDone = FALSE /\ workDone = FALSE /\ genDone = FALSE
  /\ genPc = "next" /\ next = 1
  /\ queue = <<>> /\ closed = FALSE
  /\ wpc = [w \in Workers |-> "top"]
  /\ wjob = [w \in Workers |-> NoJob]
  /\ reading = [w \in Workers |-> 0]
  /\ offered = 0 /\ dispatched = 0 /\ dropped = 0
  /\ inFlight = 0 /\ peakInFlight = 0
  /\ recorded = [a \in Arrivals |-> 0]
  /\ refused = {}

\* genCtx is a child of arrivalCtx and is cancelled by stopGenerating.
GenCtxDone == arrivalDone \/ genDone

Parked == {w \in Workers : wpc[w] = "parked"}

-----------------------------------------------------------------------------
(* The world around the executor. *)

ClockAdvances ==
  /\ due < NumArrivals
  /\ due' = due + 1
  /\ UNCHANGED <<arrivalDone, workDone, genDone, genVars, chanVars, workerVars,
                 gaugeVars, countVars, recorded, refused>>

CancelArrivals ==
  /\ ~arrivalDone
  /\ arrivalDone' = TRUE
  /\ UNCHANGED <<due, workDone, genDone, genVars, chanVars, workerVars,
                 gaugeVars, countVars, recorded, refused>>

CancelWork ==
  /\ ~workDone
  /\ workDone' = TRUE
  /\ UNCHANGED <<due, arrivalDone, genDone, genVars, chanVars, workerVars,
                 gaugeVars, countVars, recorded, refused>>

\* context.AfterFunc runs stopGenerating on a goroutine of its own.
StopGenerating ==
  /\ workDone /\ ~genDone /\ genPc # "returned"
  /\ genDone' = TRUE
  /\ UNCHANGED <<due, arrivalDone, workDone, genVars, chanVars, workerVars,
                 gaugeVars, countVars, recorded, refused>>

-----------------------------------------------------------------------------
(* The generator. *)

\* Mutant of CloseQueue: what is still in the buffer is thrown away.
CloseQueueAbandoning ==
  /\ closed' = TRUE
  /\ genPc' = "draining"
  /\ wpc' = [w \in Workers |-> IF wpc[w] \in {"top", "parked"} THEN "exited" ELSE wpc[w]]
  /\ UNCHANGED <<wjob, reading>>

\* Mutant of CloseQueue: the parked workers are not woken.
CloseQueueSilently ==
  /\ closed' = TRUE
  /\ genPc' = "draining"
  /\ UNCHANGED workerVars

\* The loop ends: the generator returns and Run closes the queue, which wakes
\* every parked worker.
CloseQueue ==
  /\ closed' = TRUE
  /\ genPc' = "draining"
  /\ wpc' = [w \in Workers |-> IF wpc[w] = "parked" THEN "exited" ELSE wpc[w]]
  /\ UNCHANGED <<wjob, reading>>

\* Schedule.Next.
GenNext ==
  /\ genPc = "next"
  /\ \/ /\ next > NumArrivals
        /\ CloseQueue
        /\ UNCHANGED <<next, queue>>
     \/ /\ next <= NumArrivals
        /\ genPc' = "sleep"
        /\ UNCHANGED <<next, chanVars, workerVars>>
  /\ UNCHANGED <<clockVars, gaugeVars, countVars, recorded, refused>>

\* SleepUntil, on entry: a deadline that has passed still honours the context.
GenSleep ==
  /\ genPc = "sleep"
  /\ \/ /\ due < next
        /\ genPc' = "asleep"
        /\ UNCHANGED <<next, chanVars, workerVars>>
     \/ /\ due >= next /\ ~GenCtxDone
        /\ genPc' = "offer"
        /\ UNCHANGED <<next, chanVars, workerVars>>
     \/ /\ due >= next /\ GenCtxDone
        /\ CloseQueue
        /\ UNCHANGED <<next, queue>>
  /\ UNCHANGED <<clockVars, gaugeVars, countVars, recorded, refused>>

\* Mutant of GenAwake: a sleeping generator does not see the contexts.
GenAwakeByTimer ==
  /\ genPc = "asleep"
  /\ due >= next
  /\ genPc' = "offer"
  /\ UNCHANGED <<clockVars, next, chanVars, workerVars, gaugeVars, countVars,
                 recorded, refused>>

\* SleepUntil's select between the timer and the context: either, if both.
GenAwake ==
  /\ genPc = "asleep"
  /\ \/ /\ due >= next
        /\ genPc' = "offer"
        /\ UNCHANGED <<next, chanVars, workerVars>>
     \/ /\ GenCtxDone
        /\ CloseQueue
        /\ UNCHANGED <<next, queue>>
  /\ UNCHANGED <<clockVars, gaugeVars, countVars, recorded, refused>>

GenOffer ==
  /\ genPc = "offer"
  /\ offered' = offered + 1
  /\ genPc' = "send"
  /\ UNCHANGED <<clockVars, next, chanVars, workerVars, gaugeVars,
                 dispatched, dropped, recorded, refused>>

\* Mutants of GenSend: the job is left in the buffer as well as handed over; the
\* buffer has no limit.
GenSendTwice ==
  /\ genPc = "send"
  /\ Parked # {} \/ Len(queue) < QueueDepth
  /\ \/ \E w \in Parked :
          /\ wpc' = [wpc EXCEPT ![w] = "got"]
          /\ wjob' = [wjob EXCEPT ![w] = next]
          /\ UNCHANGED reading
     \/ Parked = {} /\ UNCHANGED workerVars
  /\ queue' = Append(queue, next)
  /\ genPc' = "sent"
  /\ UNCHANGED <<clockVars, next, closed, gaugeVars, countVars, recorded, refused>>
GenSendUnbounded ==
  /\ genPc = "send"
  /\ queue' = Append(queue, next)
  /\ genPc' = "sent"
  /\ UNCHANGED <<clockVars, next, closed, workerVars, gaugeVars, countVars,
                 recorded, refused>>

\* The non-blocking send succeeds: a parked worker gets the job, or the buffer.
GenSend ==
  /\ genPc = "send"
  /\ \/ \E w \in Parked :
          /\ wpc' = [wpc EXCEPT ![w] = "got"]
          /\ wjob' = [wjob EXCEPT ![w] = next]
          /\ UNCHANGED <<queue, reading>>
     \/ /\ Parked = {} /\ Len(queue) < QueueDepth
        /\ queue' = Append(queue, next)
        /\ UNCHANGED workerVars
  /\ genPc' = "sent"
  /\ UNCHANGED <<clockVars, next, closed, gaugeVars, countVars, recorded, refused>>

\* dispatched.Add comes after the send.
GenSent ==
  /\ genPc = "sent"
  /\ dispatched' = dispatched + 1
  /\ next' = next + 1
  /\ genPc' = "next"
  /\ UNCHANGED <<clockVars, chanVars, workerVars, gaugeVars, offered, dropped,
                 recorded, refused>>

\* Mutant of GenDrop: the drop is counted as a dispatch too.
GenDropCountedTwice ==
  /\ genPc = "send"
  /\ Parked = {} /\ Len(queue) >= QueueDepth
  /\ dropped' = dropped + 1
  /\ refused' = refused \cup {next}
  /\ genPc' = "sent"
  /\ UNCHANGED <<clockVars, next, chanVars, workerVars, gaugeVars, offered,
                 dispatched, recorded>>

\* The select's default: nobody parked and no room.
GenDrop ==
  /\ genPc = "send"
  /\ Parked = {} /\ Len(queue) >= QueueDepth
  /\ dropped' = dropped + 1
  /\ refused' = refused \cup {next}
  /\ next' = next + 1
  /\ genPc' = "next"
  /\ UNCHANGED <<clockVars, chanVars, workerVars, gaugeVars, offered, dispatched, recorded>>

\* wg.Wait returns, and Run with it.
RunReturns ==
  /\ genPc = "draining"
  /\ \A w \in Workers : wpc[w] = "exited"
  /\ genPc' = "returned"
  /\ UNCHANGED <<clockVars, next, chanVars, workerVars, gaugeVars, countVars,
                 recorded, refused>>

-----------------------------------------------------------------------------
(* The workers. *)

\* Receive from the queue: a job, the end of a closed queue, or a wait.
WorkerReceive(w) ==
  /\ wpc[w] = "top"
  /\ \/ /\ queue # <<>>
        /\ wjob' = [wjob EXCEPT ![w] = Head(queue)]
        /\ queue' = Tail(queue)
        /\ wpc' = [wpc EXCEPT ![w] = "got"]
     \/ /\ queue = <<>>
        /\ wpc' = [wpc EXCEPT ![w] = IF closed THEN "exited" ELSE "parked"]
        /\ UNCHANGED <<wjob, queue>>
  /\ UNCHANGED <<clockVars, genVars, closed, reading, gaugeVars, countVars,
                 recorded, refused>>

\* Mutant of WorkerNotePeak: a plain store instead of the compare-and-swap loop.
WorkerStorePeak(w) ==
  /\ wpc[w] = "counted"
  /\ peakInFlight' = reading[w]
  /\ wpc' = [wpc EXCEPT ![w] = "busy"]
  /\ UNCHANGED <<clockVars, genVars, chanVars, wjob, reading, inFlight, countVars,
                 recorded, refused>>

WorkerEnter(w) ==
  /\ wpc[w] = "got"
  /\ inFlight' = inFlight + 1
  /\ reading' = [reading EXCEPT ![w] = inFlight + 1]
  /\ wpc' = [wpc EXCEPT ![w] = "counted"]
  /\ UNCHANGED <<clockVars, genVars, chanVars, wjob, peakInFlight, countVars,
                 recorded, refused>>

WorkerNotePeak(w) ==
  /\ wpc[w] = "counted"
  /\ peakInFlight' = IF reading[w] <= peakInFlight THEN peakInFlight ELSE reading[w]
  /\ wpc' = [wpc EXCEPT ![w] = "busy"]
  /\ UNCHANGED <<clockVars, genVars, chanVars, wjob, reading, inFlight, countVars,
                 recorded, refused>>

\* Runner.Do performs the operation and records one outcome, whatever became of
\* the operation and of the contexts.
WorkerDo(w) ==
  /\ wpc[w] = "busy"
  /\ recorded' = [recorded EXCEPT ![wjob[w]] = @ + 1]
  /\ wpc' = [wpc EXCEPT ![w] = "done"]
  /\ UNCHANGED <<clockVars, genVars, chanVars, wjob, reading, gaugeVars, countVars,
                 refused>>

\* Mutant of WorkerLeave: the gauge is lowered on two paths.
WorkerLeaveTwice(w) ==
  /\ wpc[w] = "done"
  /\ inFlight' = inFlight - 2
  /\ wjob' = [wjob EXCEPT ![w] = NoJob]
  /\ reading' = [reading EXCEPT ![w] = 0]
  /\ wpc' = [wpc EXCEPT ![w] = "top"]
  /\ UNCHANGED <<clockVars, genVars, chanVars, peakInFlight, countVars, recorded, refused>>

WorkerLeave(w) ==
  /\ wpc[w] = "done"
  /\ inFlight' = inFlight - 1
  /\ wjob' = [wjob EXCEPT ![w] = NoJob]
  /\ reading' = [reading EXCEPT ![w] = 0]
  /\ wpc' = [wpc EXCEPT ![w] = "top"]
  /\ UNCHANGED <<clockVars, genVars, chanVars, peakInFlight, countVars, recorded, refused>>

-----------------------------------------------------------------------------
GeneratorStep ==
  GenNext \/ GenSleep \/ GenAwake \/ GenOffer \/ GenSend \/ GenSent \/ GenDrop \/ RunReturns
WorkerStep(w) ==
  \/ WorkerReceive(w) \/ WorkerEnter(w) \/ WorkerNotePeak(w)
  \/ WorkerDo(w) \/ WorkerLeave(w)

\* Run has returned; only the caller's contexts and the clock may still move.
Over == genPc = "returned" /\ UNCHANGED vars

Next ==
  \/ ClockAdvances \/ CancelArrivals \/ CancelWork \/ StopGenerating
  \/ GeneratorStep
  \/ \E w \in Workers : WorkerStep(w)
  \/ Over

Spec == Init /\ [][Next]_vars

\* Goroutines are scheduled, and an operation ends by its own timeout.  Neither
\* the clock nor a cancellation is promised.
FairSpec ==
  /\ Spec
  /\ WF_vars(GeneratorStep) /\ WF_vars(StopGenerating)
  /\ \A w \in Workers : WF_vars(WorkerStep(w))

-----------------------------------------------------------------------------
(* Correctness. *)

TypeOK ==
  /\ due \in 0 .. NumArrivals
  /\ arrivalDone \in BOOLEAN /\ workDone \in BOOLEAN /\ genDone \in BOOLEAN
  /\ genPc \in {"next", "sleep", "asleep", "offer", "send", "sent", "draining", "returned"}
  /\ next \in 1 .. NumArrivals + 1
  /\ queue \in Seq(Arrivals) /\ closed \in BOOLEAN
  /\ wpc \in [Workers -> {"top", "parked", "got", "counted", "busy", "done", "exited"}]
  /\ wjob \in [Workers -> Arrivals \cup {NoJob}]
  /\ reading \in [Workers -> Nat]
  /\ offered \in Nat /\ dispatched \in Nat /\ dropped \in Nat
  /\ inFlight \in Nat /\ peakInFlight \in Nat
  /\ recorded \in [Arrivals -> Nat]
  /\ refused \in SUBSET Arrivals

InQueue(a) == \E i \in DOMAIN queue : queue[i] = a
\* Worker w has job a and has not recorded its outcome yet.
Holds(w, a) == wjob[w] = a /\ wpc[w] \in {"got", "counted", "busy"}

\* No arrival is lost or done twice: one that was dispatched is in the queue,
\* with exactly one worker, or recorded exactly once; a dropped one is nowhere.
EachArrivalOnce ==
  \A a \in Arrivals :
    LET holders == {w \in Workers : Holds(w, a)}
        places  == Cardinality(holders) + recorded[a]
                     + Cardinality({i \in DOMAIN queue : queue[i] = a})
    IN  places = IF a \in refused \/ a > next \/ (a = next /\ genPc # "sent")
                 THEN 0 ELSE 1

\* When Run returns, offered = dispatched + dropped, every dispatched operation
\* has been recorded, and nothing is left behind (executor_test.go,
\* TestFullQueueDropsAndCountsRatherThanQueueing, TestGracefulStopDrainsInFlightWork).
ReturnedIsAccountedFor ==
  genPc = "returned" =>
    /\ offered = dispatched + dropped
    /\ queue = <<>> /\ inFlight = 0
    /\ dropped = Cardinality(refused)
    /\ dispatched = Cardinality({a \in Arrivals : recorded[a] > 0})

\* At any moment of the run at most one arrival is offered and not yet counted
\* as dispatched or dropped, and never more are settled than were offered
\* (generate's two counters and the one they must add up to).
StatsNeverAhead == (offered - (dispatched + dropped)) \in {0, 1}

\* The reported peak is never above the number of workers nor below the number
\* of operations now running, but for workers yet to note their reading.
PeakIsExact ==
  LET unnoted == {w \in Workers : wpc[w] = "counted"} IN
  /\ peakInFlight <= MaxInFlight /\ inFlight <= MaxInFlight
  /\ inFlight <= peakInFlight + Cardinality(unnoted)

\* A stop ends the run: once either context is done, Run returns, clock or no clock.
StopEndsRun == (arrivalDone \/ workDone) ~> (genPc = "returned")

\* So does the end of the profile: once every arrival is due, Run returns.
ProfileEndsRun == (due = NumArrivals) ~> (genPc = "returned")

\* The promise of BoundedDispatch, kept by this executor: an arrival is waiting
\* while it is in the queue or with a worker that has not counted it yet, and
\* running until its outcome is recorded.
FateOf(a) ==
  CASE recorded[a] > 0                                          -> "finished"
    [] \E w \in Workers : wjob[w] = a /\ wpc[w] \in {"counted", "busy"} -> "running"
    [] InQueue(a) \/ \E w \in Workers : wjob[w] = a /\ wpc[w] = "got"   -> "waiting"
    [] a \in refused                                            -> "refused"
    [] OTHER                                                    -> "future"
Promise == INSTANCE BoundedDispatch WITH
  fate <- [a \in Arrivals |-> FateOf(a)],
  over <- genPc = "returned"
KeepsPromise == Promise!DispatchSpec
=============================================================================
