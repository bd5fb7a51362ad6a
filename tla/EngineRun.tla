------------------------------ MODULE EngineRun ------------------------------
(***************************************************************************)
(* One run of the engine (internal/engine/engine.go, Run) as the           *)
(* goroutines see it: the caller that may cancel, the AfterFunc that marks *)
(* the run interrupted, one executor per runner with its workers, the      *)
(* guard on their record path, the sweeper, and the engine goroutine that  *)
(* waits for them, finishes the collectors and builds the result.          *)
(*                                                                         *)
(* Executor details the queue, Collector the record path and AbortGuard    *)
(* the decision to trip; here an executor is a number of accepted jobs, a  *)
(* record is one step, and the guard may trip at any observation that      *)
(* comes after its window.                                                 *)
(***************************************************************************)
EXTENDS Integers, FiniteSets

CONSTANTS
  Runners,      \* the configured runners
  Workers,      \* all workers of all executors
  RunnerOf,     \* the runner each worker belongs to
  MaxOps,       \* arrivals each runner accepts: bounds for model checking
  Duration,     \* run.duration, the length of every profile
  OpTimeout,    \* run.timeout
  Grace,        \* run.grace
  Margin,       \* the safety net's extra minute
  GuardWindow,  \* the guard cannot trip earlier
  MaxNow        \* bound on the clock, for model checking only

ASSUME EngineAssumption ==
  /\ IsFiniteSet(Workers) /\ RunnerOf \in [Workers -> Runners]
  /\ Duration \in Nat /\ OpTimeout \in Nat /\ Grace \in Nat /\ Margin \in Nat
  /\ GuardWindow \in Nat /\ MaxOps \in [Runners -> Nat]
  /\ MaxNow \in Nat /\ MaxNow >= Grace + Duration + Margin

Net == Grace + Duration + Margin

VARIABLES
  now,
  ctxDone,        \* the caller's context is done
  arrivalsOff,    \* stopArrivals has been called
  workDone,       \* cutOffWork has been called
  watch,          \* the AfterFunc: armed, has stored the status, done
  status, reason, \* the two atomic values of Run; a reason not given is "blank"
  tripped,        \* the guard has tripped
  aborted,        \* e.aborted holds the guard's reason
  once,           \* the sync.Once of each runner's guardedRecorder
  exec,           \* each executor: arriving, draining, returned
  accepted, jobs, \* jobs each executor accepted, and those not yet taken
  wpc, began,     \* each worker, and when its operation began
  sweeper,        \* the sweeper goroutine
  stopSweep,      \* its stop channel is closed
  main,           \* the engine goroutine
  loaded,         \* the status and the reason it has loaded
  result,         \* what Run returned
  cutShort,       \* history: the caller has cut some runner's arrivals short
  cutOff          \* history: an operation ended after the work context

ctxVars    == <<ctxDone, arrivalsOff, workDone>>
statusVars == <<watch, status, reason>>
guardVars  == <<tripped, aborted, once>>
execVars   == <<exec, accepted, jobs>>
workerVars == <<wpc, began>>
sweepVars  == <<sweeper, stopSweep>>
mainVars   == <<main, loaded, result>>
histVars   == <<cutShort, cutOff>>
vars == <<now, ctxVars, statusVars, guardVars, execVars, workerVars, sweepVars,
          mainVars, histVars>>

NoResult == [status |-> "none", reason |-> "none"]

Init ==
  /\ now = 0
  /\ ctxDone = FALSE /\ arrivalsOff = FALSE /\ workDone = FALSE
  /\ watch = "armed" /\ status = "completed" /\ reason = "blank"
  /\ tripped = FALSE /\ aborted = FALSE
  /\ once = [r \in Runners |-> "new"]
  /\ exec = [r \in Runners |-> "arriving"]
  /\ accepted = [r \in Runners |-> 0] /\ jobs = [r \in Runners |-> 0]
  /\ wpc = [w \in Workers |-> "idle"] /\ began = [w \in Workers |-> 0]
  /\ sweeper = "select" /\ stopSweep = FALSE
  /\ main = "waiting" /\ loaded = NoResult /\ result = NoResult
  /\ cutShort = FALSE /\ cutOff = FALSE

ArrivalDone == ctxDone \/ arrivalsOff
Operating   == {w \in Workers : wpc[w] = "operating"}

-----------------------------------------------------------------------------
(* The caller, the clock and the AfterFunc. *)

\* An operation ends by its timeout at the latest, so time waits for it.
Tick ==
  /\ now < MaxNow
  /\ \A w \in Operating : now < began[w] + OpTimeout
  /\ now' = now + 1
  /\ UNCHANGED <<ctxVars, statusVars, guardVars, execVars, workerVars, sweepVars,
                 mainVars, histVars>>

\* Mutant of CallerCancels: the work context is derived from the caller's.
CallerCancelsWork ==
  /\ ~ctxDone /\ main # "returned"
  /\ ctxDone' = TRUE /\ workDone' = TRUE
  /\ UNCHANGED <<now, arrivalsOff, statusVars, guardVars, execVars,
                 workerVars, sweepVars, mainVars, histVars>>

\* A signal, or whoever embeds the engine.
CallerCancels ==
  /\ ~ctxDone /\ main # "returned"
  /\ ctxDone' = TRUE
  /\ UNCHANGED <<now, arrivalsOff, workDone, statusVars, guardVars, execVars,
                 workerVars, sweepVars, mainVars, histVars>>

\* The AfterFunc's goroutine: the status, then the reason.  Run's deferred
\* stop of it prevents only a start.
WatchStatus ==
  /\ ctxDone /\ watch = "armed" /\ main # "returned"
  /\ status' = "interrupted" /\ watch' = "stored"
  /\ UNCHANGED <<now, ctxVars, reason, guardVars, execVars, workerVars, sweepVars,
                 mainVars, histVars>>
WatchReason ==
  /\ watch = "stored"
  /\ reason' = "stopped" /\ watch' = "done"
  /\ UNCHANGED <<now, ctxVars, status, guardVars, execVars, workerVars, sweepVars,
                 mainVars, histVars>>

-----------------------------------------------------------------------------
(* The executors. *)

Arrive(r) ==
  /\ exec[r] = "arriving" /\ now <= Duration
  /\ accepted[r] < MaxOps[r]
  /\ accepted' = [accepted EXCEPT ![r] = @ + 1]
  /\ jobs' = [jobs EXCEPT ![r] = @ + 1]
  /\ UNCHANGED <<now, ctxVars, statusVars, guardVars, exec, workerVars, sweepVars,
                 mainVars, histVars>>

\* The profile is exhausted or a context is done: the queue is closed.
EndArrivals(r) ==
  /\ exec[r] = "arriving"
  /\ now >= Duration \/ ArrivalDone \/ workDone
  /\ exec' = [exec EXCEPT ![r] = "draining"]
  /\ cutShort' = (cutShort \/ (now < Duration /\ ctxDone))
  /\ UNCHANGED <<now, ctxVars, statusVars, guardVars, accepted, jobs, workerVars,
                 sweepVars, mainVars, cutOff>>

ExecReturns(r) ==
  /\ exec[r] = "draining" /\ jobs[r] = 0
  /\ \A w \in Workers : RunnerOf[w] = r => wpc[w] = "idle"
  /\ exec' = [exec EXCEPT ![r] = "returned"]
  /\ UNCHANGED <<now, ctxVars, statusVars, guardVars, accepted, jobs, workerVars,
                 sweepVars, mainVars, histVars>>

AllReturned == \A r \in Runners : exec[r] = "returned"

-----------------------------------------------------------------------------
(* The workers and the guard on their record path. *)

\* Mutant of TakeJob: a worker does not look whether there is a job.
TakeJobUnchecked(w) ==
  /\ wpc[w] = "idle" /\ exec[RunnerOf[w]] = "arriving"
  /\ jobs' = [jobs EXCEPT ![RunnerOf[w]] = @ - 1]
  /\ wpc' = [wpc EXCEPT ![w] = "operating"]
  /\ began' = [began EXCEPT ![w] = now]
  /\ UNCHANGED <<now, ctxVars, statusVars, guardVars, exec, accepted, sweepVars,
                 mainVars, histVars>>

TakeJob(w) ==
  /\ wpc[w] = "idle" /\ jobs[RunnerOf[w]] > 0
  /\ jobs' = [jobs EXCEPT ![RunnerOf[w]] = @ - 1]
  /\ wpc' = [wpc EXCEPT ![w] = "operating"]
  /\ began' = [began EXCEPT ![w] = now]
  /\ UNCHANGED <<now, ctxVars, statusVars, guardVars, exec, accepted, sweepVars,
                 mainVars, histVars>>

\* The operation ends by itself, by its timeout or by the work context, and its
\* outcome goes to the collector: guardedRecorder.Record begins.
EndOperation(w) ==
  /\ wpc[w] = "operating"
  /\ wpc' = [wpc EXCEPT ![w] = "observe"]
  /\ began' = [began EXCEPT ![w] = 0]
  /\ cutOff' = (cutOff \/ workDone)
  /\ UNCHANGED <<now, ctxVars, statusVars, guardVars, execVars, sweepVars,
                 mainVars, cutShort>>

\* Mutant of Observe: what tripped the guard is not looked at any more.
ObserveLast(w) ==
  /\ wpc[w] = "observe"
  /\ \/ tripped' = tripped
     \/ now >= GuardWindow /\ tripped' = TRUE
  /\ wpc' = [wpc EXCEPT ![w] = IF tripped THEN "check" ELSE "idle"]
  /\ UNCHANGED <<now, ctxVars, statusVars, aborted, once, execVars, began, sweepVars,
                 mainVars, histVars>>

\* Then the guard: Observe, which may trip it ...
Observe(w) ==
  /\ wpc[w] = "observe"
  /\ \/ tripped' = tripped
     \/ now >= GuardWindow /\ tripped' = TRUE
  /\ wpc' = [wpc EXCEPT ![w] = "check"]
  /\ UNCHANGED <<now, ctxVars, statusVars, aborted, once, execVars, began, sweepVars,
                 mainVars, histVars>>

\* ... and Tripped.  The first of a runner's workers to see it runs onAbort, the
\* others wait inside once.Do until it has.
Check(w) ==
  /\ wpc[w] = "check"
  /\ \/ /\ ~tripped \/ once[RunnerOf[w]] = "done"
        /\ wpc' = [wpc EXCEPT ![w] = "idle"]
        /\ UNCHANGED once
     \/ /\ tripped /\ once[RunnerOf[w]] = "new"
        /\ once' = [once EXCEPT ![RunnerOf[w]] = "running"]
        /\ wpc' = [wpc EXCEPT ![w] = "abort"]
  /\ UNCHANGED <<now, ctxVars, statusVars, tripped, aborted, execVars, began,
                 sweepVars, mainVars, histVars>>

\* onAbort: the reason, the arrivals, the work.
AbortStore(w) ==
  /\ wpc[w] = "abort"
  /\ aborted' = TRUE
  /\ wpc' = [wpc EXCEPT ![w] = "abortArrivals"]
  /\ UNCHANGED <<now, ctxVars, statusVars, tripped, once, execVars, began, sweepVars,
                 mainVars, histVars>>
AbortArrivals(w) ==
  /\ wpc[w] = "abortArrivals"
  /\ arrivalsOff' = TRUE
  /\ wpc' = [wpc EXCEPT ![w] = "abortWork"]
  /\ UNCHANGED <<now, ctxDone, workDone, statusVars, guardVars, execVars, began,
                 sweepVars, mainVars, histVars>>

\* Mutant of AbortWork: the worker waits for the drain it is part of.
AbortWorkWaiting(w) ==
  /\ wpc[w] = "abortWork"
  /\ AllReturned
  /\ workDone' = TRUE
  /\ once' = [once EXCEPT ![RunnerOf[w]] = "done"]
  /\ wpc' = [wpc EXCEPT ![w] = "idle"]
  /\ UNCHANGED <<now, ctxDone, arrivalsOff, statusVars, tripped, aborted, execVars,
                 began, sweepVars, mainVars, histVars>>
AbortWork(w) ==
  /\ wpc[w] = "abortWork"
  /\ workDone' = TRUE
  /\ once' = [once EXCEPT ![RunnerOf[w]] = "done"]
  /\ wpc' = [wpc EXCEPT ![w] = "idle"]
  /\ UNCHANGED <<now, ctxDone, arrivalsOff, statusVars, tripped, aborted, execVars,
                 began, sweepVars, mainVars, histVars>>

-----------------------------------------------------------------------------
(* The sweeper. *)

Sweep ==
  /\ sweeper = "select" /\ sweeper' = "sweeping"
  /\ UNCHANGED <<now, ctxVars, statusVars, guardVars, execVars, workerVars,
                 stopSweep, mainVars, histVars>>
Swept ==
  /\ sweeper = "sweeping" /\ sweeper' = "select"
  /\ UNCHANGED <<now, ctxVars, statusVars, guardVars, execVars, workerVars,
                 stopSweep, mainVars, histVars>>
SweeperExits ==
  /\ stopSweep \/ workDone
  /\ sweeper = "select"
  /\ sweeper' = "exited"
  /\ UNCHANGED <<now, ctxVars, statusVars, guardVars, execVars, workerVars,
                 stopSweep, mainVars, histVars>>

-----------------------------------------------------------------------------
(* The engine goroutine. *)

MainStep(from, to) == main = from /\ main' = to

\* The select: every executor is done, or the safety net fires.
Drained ==
  /\ AllReturned
  /\ MainStep("waiting", "cutOff")
  /\ UNCHANGED <<now, ctxVars, statusVars, guardVars, execVars, workerVars, sweepVars,
                 loaded, result, histVars>>

NetFires ==
  /\ now >= Net
  /\ MainStep("waiting", "netFired")
  /\ workDone' = TRUE
  /\ UNCHANGED <<now, ctxDone, arrivalsOff, statusVars, guardVars, execVars,
                 workerVars, sweepVars, loaded, result, histVars>>
NetDrained ==
  /\ AllReturned
  /\ MainStep("netFired", "cutOff")
  /\ UNCHANGED <<now, ctxVars, statusVars, guardVars, execVars, workerVars, sweepVars,
                 loaded, result, histVars>>

\* cutOffWork, then the sweeper's stop function: close the channel, wait.
CutOffWork ==
  /\ MainStep("cutOff", "stopSweeper")
  /\ workDone' = TRUE /\ stopSweep' = TRUE
  /\ UNCHANGED <<now, ctxDone, arrivalsOff, statusVars, guardVars, execVars,
                 workerVars, sweeper, loaded, result, histVars>>

\* Mutant of SweeperStopped: the channel is closed but not waited for.
SweeperToldToStop ==
  /\ MainStep("stopSweeper", "finish")
  /\ UNCHANGED <<now, ctxVars, statusVars, guardVars, execVars, workerVars, sweepVars,
                 loaded, result, histVars>>
SweeperStopped ==
  /\ sweeper = "exited"
  /\ MainStep("stopSweeper", "finish")
  /\ UNCHANGED <<now, ctxVars, statusVars, guardVars, execVars, workerVars, sweepVars,
                 loaded, result, histVars>>

\* Finish, then the two loads.
LoadStatus ==
  /\ MainStep("finish", "loadReason")
  /\ loaded' = [loaded EXCEPT !.status = status]
  /\ UNCHANGED <<now, ctxVars, statusVars, guardVars, execVars, workerVars, sweepVars,
                 result, histVars>>
LoadReason ==
  /\ MainStep("loadReason", "build")
  /\ loaded' = [loaded EXCEPT !.reason = reason]
  /\ UNCHANGED <<now, ctxVars, statusVars, guardVars, execVars, workerVars, sweepVars,
                 result, histVars>>

\* buildResult: an abort overrides whatever else the run thought it was.
BuildResult ==
  /\ MainStep("build", "returned")
  /\ result' = IF aborted THEN [status |-> "aborted", reason |-> "failing"] ELSE loaded
  /\ UNCHANGED <<now, ctxVars, statusVars, guardVars, execVars, workerVars, sweepVars,
                 loaded, histVars>>

-----------------------------------------------------------------------------
WatchStep     == WatchStatus \/ WatchReason
ExecStep(r)   == Arrive(r) \/ EndArrivals(r) \/ ExecReturns(r)
WorkerStep(w) ==
  \/ TakeJob(w) \/ EndOperation(w) \/ Observe(w) \/ Check(w)
  \/ AbortStore(w) \/ AbortArrivals(w) \/ AbortWork(w)
SweeperStep   == Sweep \/ Swept \/ SweeperExits
MainGoroutine ==
  \/ Drained \/ NetFires \/ NetDrained \/ CutOffWork \/ SweeperStopped
  \/ LoadStatus \/ LoadReason \/ BuildResult
Over == main = "returned" /\ UNCHANGED vars

Next ==
  \/ Tick \/ CallerCancels \/ WatchStep
  \/ \E r \in Runners : ExecStep(r)
  \/ \E w \in Workers : WorkerStep(w)
  \/ SweeperStep \/ MainGoroutine \/ Over

Spec == Init /\ [][Next]_vars

\* Goroutines are scheduled and operations end.  The clock is not promised to
\* advance.  The generator's select gets to the context; the sweeper's select,
\* between a closed channel and a rare tick, gets to the channel.
FairSpec ==
  /\ Spec
  /\ WF_vars(WatchStep) /\ WF_vars(MainGoroutine)
  /\ \A r \in Runners : WF_vars(EndArrivals(r)) /\ WF_vars(ExecReturns(r))
  /\ \A w \in Workers : WF_vars(WorkerStep(w))
  /\ WF_vars(Swept) /\ SF_vars(SweeperExits)

-----------------------------------------------------------------------------
(* Correctness. *)

TypeOK ==
  /\ now \in 0 .. MaxNow
  /\ ctxDone \in BOOLEAN /\ arrivalsOff \in BOOLEAN /\ workDone \in BOOLEAN
  /\ watch \in {"armed", "stored", "done"}
  /\ status \in {"completed", "interrupted"} /\ reason \in {"blank", "stopped"}
  /\ tripped \in BOOLEAN /\ aborted \in BOOLEAN
  /\ once \in [Runners -> {"new", "running", "done"}]
  /\ exec \in [Runners -> {"arriving", "draining", "returned"}]
  /\ \A r \in Runners : accepted[r] \in 0 .. MaxOps[r] /\ jobs[r] \in 0 .. accepted[r]
  /\ wpc \in [Workers -> {"idle", "operating", "observe", "check",
                          "abort", "abortArrivals", "abortWork"}]
  /\ began \in [Workers -> 0 .. MaxNow]
  /\ sweeper \in {"select", "sweeping", "exited"} /\ stopSweep \in BOOLEAN
  /\ main \in {"waiting", "netFired", "cutOff", "stopSweeper", "finish",
               "loadReason", "build", "returned"}
  /\ cutShort \in BOOLEAN /\ cutOff \in BOOLEAN

\* A run the guard stopped is reported as aborted with the guard's reason, even
\* if it was also interrupted, and whichever worker tripped the guard; and no
\* run is reported as aborted otherwise (engine.go, onAbort, buildResult).
AbortAlwaysReported ==
  main = "returned" =>
    /\ tripped <=> result.status = "aborted"
    /\ tripped <=> result.reason = "failing"

\* Finish has the collectors to itself: no worker is left to record and the
\* sweeper is gone, whichever way the wait ended (engine.go, Run).
FinishIsAlone ==
  main \in {"finish", "loadReason", "build", "returned"} =>
    /\ sweeper = "exited"
    /\ \A w \in Workers : wpc[w] = "idle"
    /\ \A r \in Runners : jobs[r] = 0

\* An operation is cut off only by the guard or by the safety net: a caller's
\* stop never abandons work (the comment on workCtx in Run).
CutOffIsJustified == cutOff => tripped \/ now >= Net

\* A stop of any kind, or the end of the profile, ends the run, even with the
\* clock at a standstill.
StopEndsRun == (ctxDone \/ tripped \/ now >= Duration) ~> (main = "returned")

\* docs/SPEC.md, Executors: "First SIGINT = graceful stop with a partial result
\* marked interrupted": a run whose arrivals the caller cut short says so.
InterruptedIsMarked ==
  main = "returned" /\ cutShort => result.status \in {"interrupted", "aborted"}

\* docs/adr/003-executors-and-desugaring.md: "Arrivals stop at the end of the
\* profile; in-flight work drains for up to `grace`, then the context is
\* cancelled": nothing is running on when the grace period has passed.
DrainWithinGrace == now > Duration + Grace /\ Operating # {} => workDone
=============================================================================
