---------------------------- MODULE EngineProofs ----------------------------
(***************************************************************************)
(* Proofs about EngineRun, for every set of runners and workers, every     *)
(* number of operations and every length of the profile, the timeout, the  *)
(* grace period and the guard's window: its types, that Finish is alone,   *)
(* that an abort is always and only reported of a tripped guard, and that  *)
(* work is cut off for a reason.                                           *)
(*                                                                         *)
(* The layers, each inductive relative to the ones before it:              *)
(*   RunTypes  the types, with those of the counters and of the result;    *)
(*   DrainInv  what a returned executor and each place of Run rest on;     *)
(*   AbortInv  where the abort is while it is not yet stored, and whose    *)
(*             word the contexts and the result are.                       *)
(***************************************************************************)
EXTENDS EngineRun, TLAPS

RunTypes ==
  /\ TypeOK
  /\ accepted \in [Runners -> Nat] /\ jobs \in [Runners -> Nat]
  /\ loaded \in [status : {"none", "completed", "interrupted"}, reason : {"none", "blank", "stopped"}]

\* The places of Run after both ways out of its select, after cutOffWork, and after the
\* sweeper has been waited for.
Waited  == main \notin {"waiting", "netFired"}
WorkOff == Waited /\ main # "cutOff"
Alone   == main \in {"finish", "loadReason", "build", "returned"}

DrainInv ==
  /\ \A r \in Runners : exec[r] = "returned" => jobs[r] = 0
  /\ \A w \in Workers : exec[RunnerOf[w]] = "returned" => wpc[w] = "idle"
  /\ Waited => AllReturned
  /\ Alone => sweeper = "exited"

Aborting == {"abort", "abortArrivals", "abortWork"}

AbortInv ==
  /\ aborted => tripped
  /\ \A w \in Workers : wpc[w] \in Aborting => tripped
  /\ \A w \in Workers : wpc[w] \in {"abortArrivals", "abortWork"} => aborted
  /\ \A r \in Runners : once[r] = "done" => aborted
  /\ tripped => aborted \/ \E w \in Workers : wpc[w] \in {"check", "abort"}
  /\ workDone => tripped \/ now >= Net \/ WorkOff

RunInv == RunTypes /\ DrainInv /\ AbortInv /\ AbortAlwaysReported /\ CutOffIsJustified

-----------------------------------------------------------------------------
(* Types. *)

LEMMA RunInit == Init => RunInv
<1> SUFFICES ASSUME Init PROVE RunInv
  OBVIOUS
<1>1. RunTypes
  <2>1. 0 \in 0 .. MaxNow /\ MaxOps \in [Runners -> Nat]
    BY EngineAssumption
  <2>2. /\ now \in 0 .. MaxNow /\ began \in [Workers -> 0 .. MaxNow]
        /\ accepted \in [Runners -> Nat] /\ jobs \in [Runners -> Nat]
        /\ \A r \in Runners : accepted[r] \in 0 .. MaxOps[r] /\ jobs[r] \in 0 .. accepted[r]
    BY <2>1 DEF Init
  <2>3. loaded \in [status : {"none", "completed", "interrupted"}, reason : {"none", "blank", "stopped"}]
    BY DEF Init, NoResult
  <2> QED
    BY <2>2, <2>3 DEF Init, RunTypes, TypeOK
<1>2. DrainInv
  BY EngineAssumption DEF Init, DrainInv, Waited, Alone
<1>3. AbortInv
  BY DEF Init, AbortInv, Aborting
<1> QED
  BY <1>1, <1>2, <1>3 DEF Init, RunInv, AbortAlwaysReported, CutOffIsJustified

LEMMA TypesStep ==
  ASSUME RunTypes, [Next]_vars
  PROVE  RunTypes'
<1> USE EngineAssumption DEF RunTypes, TypeOK
<1>1. CASE Tick
  <2>1. now' \in 0 .. MaxNow
    BY <1>1 DEF Tick
  <2>2. UNCHANGED <<ctxVars, statusVars, guardVars, execVars, workerVars, sweepVars, mainVars, histVars>>
    BY <1>1 DEF Tick
  <2> QED
    BY <2>1, <2>2 DEF ctxVars, statusVars, guardVars, execVars, workerVars, sweepVars, mainVars, histVars
<1>2. CASE CallerCancels
  BY <1>2 DEF CallerCancels, statusVars, guardVars, execVars, workerVars, sweepVars, mainVars, histVars
<1>watch. CASE WatchStep
  BY <1>watch DEF WatchStep, WatchStatus, WatchReason, ctxVars, guardVars, execVars, workerVars,
     sweepVars, mainVars, histVars
<1>3. ASSUME NEW r \in Runners, ExecStep(r)
      PROVE  RunTypes'
  <2>1. CASE Arrive(r)
    BY <2>1 DEF Arrive, ctxVars, statusVars, guardVars, workerVars, sweepVars, mainVars, histVars
  <2>2. CASE EndArrivals(r) \/ ExecReturns(r)
    BY <2>2 DEF EndArrivals, ExecReturns, ctxVars, statusVars, guardVars, workerVars, sweepVars,
       mainVars, histVars
  <2> QED
    BY <1>3, <2>1, <2>2 DEF ExecStep
<1>4. ASSUME NEW w \in Workers, WorkerStep(w)
      PROVE  RunTypes'
  <2>0. RunnerOf[w] \in Runners
    OBVIOUS
  <2>1. CASE TakeJob(w)
    BY <2>0, <2>1 DEF TakeJob, ctxVars, statusVars, guardVars, sweepVars, mainVars, histVars
  <2>2. CASE EndOperation(w)
    BY <2>2 DEF EndOperation, ctxVars, statusVars, guardVars, execVars, sweepVars, mainVars
  <2>3. CASE Observe(w)
    <3>1. /\ tripped' \in BOOLEAN
          /\ wpc' \in [Workers -> {"idle", "operating", "observe", "check",
                                   "abort", "abortArrivals", "abortWork"}]
      BY <2>3 DEF Observe
    <3>2. UNCHANGED <<now, ctxVars, statusVars, aborted, once, execVars, began, sweepVars, mainVars,
                      histVars>>
      BY <2>3 DEF Observe
    <3> QED
      BY <3>1, <3>2 DEF ctxVars, statusVars, execVars, sweepVars, mainVars, histVars
  <2>4. CASE Check(w)
    <3>1. /\ once' \in [Runners -> {"new", "running", "done"}]
          /\ wpc' \in [Workers -> {"idle", "operating", "observe", "check",
                                   "abort", "abortArrivals", "abortWork"}]
      BY <2>0, <2>4 DEF Check
    <3>2. UNCHANGED <<now, ctxVars, statusVars, tripped, aborted, execVars, began, sweepVars, mainVars,
                      histVars>>
      BY <2>4 DEF Check
    <3> QED
      BY <3>1, <3>2 DEF ctxVars, statusVars, execVars, sweepVars, mainVars, histVars
  <2>5. CASE AbortStore(w)
    BY <2>5 DEF AbortStore, ctxVars, statusVars, execVars, sweepVars, mainVars, histVars
  <2>6. CASE AbortArrivals(w)
    BY <2>6 DEF AbortArrivals, statusVars, guardVars, execVars, sweepVars, mainVars, histVars
  <2>7. CASE AbortWork(w)
    BY <2>0, <2>7 DEF AbortWork, statusVars, execVars, sweepVars, mainVars, histVars
  <2> QED
    BY <1>4, <2>1, <2>2, <2>3, <2>4, <2>5, <2>6, <2>7 DEF WorkerStep
<1>5. CASE SweeperStep
  BY <1>5 DEF SweeperStep, Sweep, Swept, SweeperExits, ctxVars, statusVars, guardVars, execVars,
     workerVars, mainVars, histVars
<1>6. CASE Drained \/ NetFires \/ NetDrained \/ CutOffWork \/ SweeperStopped
  <2>1. /\ main' \in {"cutOff", "netFired", "stopSweeper", "finish"}
        /\ workDone' \in BOOLEAN /\ stopSweep' \in BOOLEAN
    BY <1>6 DEF Drained, NetFires, NetDrained, CutOffWork, SweeperStopped, MainStep, ctxVars, sweepVars
  <2>2. UNCHANGED <<now, ctxDone, arrivalsOff, statusVars, guardVars, execVars, workerVars, sweeper,
                    loaded, histVars>>
    BY <1>6 DEF Drained, NetFires, NetDrained, CutOffWork, SweeperStopped, ctxVars, sweepVars
  <2> QED
    BY <2>1, <2>2 DEF statusVars, guardVars, execVars, workerVars, histVars
<1>7. CASE LoadStatus \/ LoadReason \/ BuildResult
  <2>1. /\ main' \in {"loadReason", "build", "returned"}
        /\ loaded' \in [status : {"none", "completed", "interrupted"}, reason : {"none", "blank", "stopped"}]
    BY <1>7 DEF LoadStatus, LoadReason, BuildResult, MainStep
  <2>2. UNCHANGED <<now, ctxVars, statusVars, guardVars, execVars, workerVars, sweepVars, histVars>>
    BY <1>7 DEF LoadStatus, LoadReason, BuildResult
  <2> QED
    BY <2>1, <2>2 DEF ctxVars, statusVars, guardVars, execVars, workerVars, sweepVars, histVars
<1>8. CASE UNCHANGED vars
  BY <1>8 DEF vars, ctxVars, statusVars, guardVars, execVars, workerVars, sweepVars, mainVars, histVars
<1> QED
  BY <1>1, <1>2, <1>watch, <1>3, <1>4, <1>5, <1>6, <1>7, <1>8 DEF Next, MainGoroutine, Over

\* The types of the run's state, in every reachable state.
THEOREM RunTypeCorrect == Spec => []TypeOK
<1>1. Init => RunTypes
  BY RunInit DEF RunInv
<1>2. RunTypes => TypeOK
  BY DEF RunTypes
<1> QED
  BY <1>1, <1>2, TypesStep, PTL DEF Spec

-----------------------------------------------------------------------------
(* Who drains, and when Run goes on. *)

\* What the steps outside the executors, the workers and Run leave alone.
LEMMA OutsideSteps ==
  ASSUME Tick \/ CallerCancels \/ WatchStep \/ UNCHANGED vars
  PROVE  /\ UNCHANGED <<exec, jobs, wpc, main, loaded, result, sweeper, tripped, aborted, once, cutOff, workDone>>
         /\ Tick => now' = now + 1
         /\ ~Tick => now' = now
BY Zenon DEF Tick, CallerCancels, WatchStep, WatchStatus, WatchReason, vars, ctxVars, statusVars,
   guardVars, execVars, workerVars, sweepVars, mainVars, histVars

\* A runner's worker that has something to do keeps its executor from returning.
LEMMA DrainStep ==
  ASSUME RunTypes, DrainInv, [Next]_vars
  PROVE  DrainInv'
<1>0. /\ exec \in [Runners -> {"arriving", "draining", "returned"}]
      /\ jobs \in [Runners -> Nat]
      /\ wpc \in [Workers -> {"idle", "operating", "observe", "check",
                              "abort", "abortArrivals", "abortWork"}]
      /\ RunnerOf \in [Workers -> Runners]
  BY EngineAssumption DEF RunTypes, TypeOK
<1> USE <1>0 DEF DrainInv, AllReturned, Waited, Alone
<1>1. CASE Tick \/ CallerCancels \/ WatchStep \/ UNCHANGED vars
  BY <1>1, OutsideSteps
<1>2. ASSUME NEW r \in Runners, ExecStep(r)
      PROVE  DrainInv'
  <2>1. main' = main /\ sweeper' = sweeper /\ wpc' = wpc
    BY <1>2, Zenon DEF ExecStep, Arrive, EndArrivals, ExecReturns, mainVars, sweepVars, workerVars
  <2>2. CASE Arrive(r)
    BY <2>1, <2>2 DEF Arrive
  <2>3. CASE EndArrivals(r)
    BY <2>1, <2>3 DEF EndArrivals
  <2>4. CASE ExecReturns(r)
    BY <2>1, <2>4 DEF ExecReturns
  <2> QED
    BY <1>2, <2>2, <2>3, <2>4 DEF ExecStep
<1>3. ASSUME NEW w \in Workers, WorkerStep(w)
      PROVE  DrainInv'
  <2>1. main' = main /\ sweeper' = sweeper /\ exec' = exec
    BY <1>3, Zenon DEF WorkerStep, TakeJob, EndOperation, Observe, Check, AbortStore, AbortArrivals,
       AbortWork, mainVars, sweepVars, execVars
  <2>2. CASE TakeJob(w)
    BY <2>1, <2>2 DEF TakeJob
  <2>3. ASSUME ~TakeJob(w)
        PROVE  /\ wpc[w] # "idle" /\ jobs' = jobs
               /\ \A v \in Workers : v # w => wpc'[v] = wpc[v]
    BY <1>3, <2>3 DEF WorkerStep, EndOperation, Observe, Check, AbortStore, AbortArrivals,
       AbortWork, execVars
  <2>4. CASE ~TakeJob(w)
    BY <2>1, <2>3, <2>4
  <2> QED
    BY <2>2, <2>4
<1>4. CASE SweeperStep
  BY <1>4 DEF SweeperStep, Sweep, Swept, SweeperExits, execVars, workerVars, mainVars
<1>5. CASE MainGoroutine
  <2>1. UNCHANGED <<exec, jobs, wpc, sweeper>>
    BY <1>5, Zenon DEF MainGoroutine, Drained, NetFires, NetDrained, CutOffWork, SweeperStopped,
       LoadStatus, LoadReason, BuildResult, execVars, workerVars, sweepVars
  <2>2. /\ Waited' => Waited \/ AllReturned
        /\ Alone' => Alone \/ sweeper = "exited"
    BY <1>5 DEF MainGoroutine, Drained, NetFires, NetDrained, CutOffWork, SweeperStopped,
       LoadStatus, LoadReason, BuildResult, MainStep
  <2> QED
    BY <2>1, <2>2
<1> QED
  BY <1>1, <1>2, <1>3, <1>4, <1>5 DEF Next, Over

LEMMA DrainAlways == Spec => [](RunTypes /\ DrainInv)
<1>1. RunTypes /\ DrainInv /\ [Next]_vars => (RunTypes /\ DrainInv)'
  BY TypesStep, DrainStep
<1>2. Init => RunTypes /\ DrainInv
  BY RunInit DEF RunInv
<1> QED
  BY <1>1, <1>2, PTL DEF Spec

\* Finish and what follows it meet no sweeper, no busy worker and no job, whichever way the
\* wait ended and whatever the guard did meanwhile.
THEOREM FinishIsAloneAlways == Spec => []FinishIsAlone
<1>1. RunTypes /\ DrainInv => FinishIsAlone
  BY EngineAssumption DEF RunTypes, TypeOK, DrainInv, FinishIsAlone, Alone, Waited, AllReturned
<1> QED
  BY <1>1, DrainAlways, PTL

-----------------------------------------------------------------------------
(* Where the abort is, and who may cut work off. *)

LEMMA AbortStep ==
  ASSUME RunTypes, DrainInv, AbortInv, [Next]_vars
  PROVE  AbortInv'
<1>0. /\ wpc \in [Workers -> {"idle", "operating", "observe", "check",
                              "abort", "abortArrivals", "abortWork"}]
      /\ once \in [Runners -> {"new", "running", "done"}]
      /\ RunnerOf \in [Workers -> Runners] /\ now \in Nat /\ Net \in Nat
  BY EngineAssumption DEF RunTypes, TypeOK, Net
<1> USE <1>0 DEF AbortInv, Aborting, WorkOff, Waited
<1>1. CASE Tick \/ CallerCancels \/ WatchStep \/ UNCHANGED vars
  <2>1. now' = now \/ now' = now + 1
    BY <1>1, OutsideSteps
  <2>2. now >= Net => now' >= Net
    BY <2>1
  <2>3. Net' = Net
    BY DEF Net
  <2> QED
    BY <1>1, <2>2, <2>3, OutsideSteps
<1>2. ASSUME NEW r \in Runners, ExecStep(r)
      PROVE  AbortInv'
  <2>1. UNCHANGED <<now, wpc, once, tripped, aborted, workDone, main>>
    BY <1>2, Zenon DEF ExecStep, Arrive, EndArrivals, ExecReturns, ctxVars, guardVars, workerVars,
       mainVars
  <2> QED
    BY <2>1 DEF Net
<1>3. ASSUME NEW w \in Workers, WorkerStep(w)
      PROVE  AbortInv'
  <2>0. UNCHANGED <<now, main>> /\ RunnerOf[w] \in Runners
    BY <1>3 DEF WorkerStep, TakeJob, EndOperation, Observe, Check, AbortStore, AbortArrivals,
       AbortWork, mainVars
  <2>1. CASE TakeJob(w) \/ EndOperation(w)
    <3>1. /\ UNCHANGED <<once, tripped, aborted, workDone>>
          /\ wpc[w] \in {"idle", "operating"}
          /\ wpc' = [wpc EXCEPT ![w] = "operating"] \/ wpc' = [wpc EXCEPT ![w] = "observe"]
      BY <2>1 DEF TakeJob, EndOperation, ctxVars, guardVars
    <3> QED
      BY <2>0, <3>1 DEF Net
  <2>2. CASE Observe(w)
    <3>1. /\ UNCHANGED <<once, aborted, workDone>>
          /\ tripped' = tripped \/ tripped' = TRUE
          /\ wpc[w] = "observe" /\ wpc' = [wpc EXCEPT ![w] = "check"]
      BY <2>2 DEF Observe, ctxVars
    <3> QED
      BY <2>0, <3>1 DEF Net
  <2>3. CASE Check(w)
    <3>1. UNCHANGED <<tripped, aborted, workDone>> /\ wpc[w] = "check"
      BY <2>3 DEF Check, ctxVars
    <3>2. CASE /\ ~tripped \/ once[RunnerOf[w]] = "done"
               /\ wpc' = [wpc EXCEPT ![w] = "idle"] /\ once' = once
      BY <2>0, <3>1, <3>2 DEF Net
    <3>3. CASE /\ tripped /\ once' = [once EXCEPT ![RunnerOf[w]] = "running"]
               /\ wpc' = [wpc EXCEPT ![w] = "abort"]
      BY <2>0, <3>1, <3>3 DEF Net
    <3> QED
      BY <2>3, <3>2, <3>3 DEF Check
  <2>4. CASE AbortStore(w)
    <3>1. /\ UNCHANGED <<once, tripped, workDone>> /\ aborted' = TRUE
          /\ wpc[w] = "abort" /\ wpc' = [wpc EXCEPT ![w] = "abortArrivals"]
      BY <2>4 DEF AbortStore, ctxVars
    <3> QED
      BY <2>0, <3>1 DEF Net
  <2>5. CASE AbortArrivals(w)
    <3>1. /\ UNCHANGED <<once, tripped, aborted, workDone>>
          /\ wpc[w] = "abortArrivals" /\ wpc' = [wpc EXCEPT ![w] = "abortWork"]
      BY <2>5 DEF AbortArrivals, guardVars
    <3> QED
      BY <2>0, <3>1 DEF Net
  <2>6. CASE AbortWork(w)
    <3>1. /\ UNCHANGED <<tripped, aborted>> /\ once' = [once EXCEPT ![RunnerOf[w]] = "done"]
          /\ wpc[w] = "abortWork" /\ wpc' = [wpc EXCEPT ![w] = "idle"]
      BY <2>6 DEF AbortWork
    <3> QED
      BY <2>0, <3>1
  <2> QED
    BY <1>3, <2>1, <2>2, <2>3, <2>4, <2>5, <2>6 DEF WorkerStep
<1>4. CASE SweeperStep
  <2>1. UNCHANGED <<now, wpc, once, tripped, aborted, workDone, main>>
    BY <1>4, Zenon DEF SweeperStep, Sweep, Swept, SweeperExits, ctxVars, guardVars, workerVars, mainVars
  <2> QED
    BY <2>1 DEF Net
<1>5. CASE MainGoroutine
  <2>1. UNCHANGED <<now, wpc, once, tripped, aborted>>
    BY <1>5, Zenon DEF MainGoroutine, Drained, NetFires, NetDrained, CutOffWork, SweeperStopped,
       LoadStatus, LoadReason, BuildResult, guardVars, workerVars
  <2>2. /\ WorkOff => WorkOff'
        /\ workDone' = workDone \/ now >= Net \/ WorkOff'
    BY <1>5 DEF MainGoroutine, Drained, NetFires, NetDrained, CutOffWork, SweeperStopped,
       LoadStatus, LoadReason, BuildResult, MainStep, ctxVars
  <2> QED
    BY <2>1, <2>2 DEF Net
<1> QED
  BY <1>1, <1>2, <1>3, <1>4, <1>5 DEF Next, Over

\* When every executor has returned, an abort that was begun has been stored.
LEMMA DrainedMeansStored ==
  ASSUME RunTypes, DrainInv, AbortInv, Waited
  PROVE  (tripped <=> aborted) /\ \A w \in Workers : wpc[w] = "idle"
BY EngineAssumption DEF DrainInv, AbortInv, AllReturned

\* Only Run's last step makes a result, of the guard's word or of what it has loaded; and
\* after it nobody is left to trip the guard.
LEMMA ReportStep ==
  ASSUME RunTypes, DrainInv, AbortInv, AbortAlwaysReported, [Next]_vars
  PROVE  AbortAlwaysReported'
<1>1. CASE main = "returned"
  <2>1. \A w \in Workers : wpc[w] = "idle"
    BY <1>1, DrainedMeansStored DEF Waited
  <2>2. UNCHANGED <<main, result, tripped>>
    <3>1. CASE Tick \/ CallerCancels \/ WatchStep \/ UNCHANGED vars
      BY <3>1, OutsideSteps
    <3>2. CASE (\E r \in Runners : ExecStep(r)) \/ SweeperStep
      BY <3>2, Zenon DEF ExecStep, Arrive, EndArrivals, ExecReturns, SweeperStep, Sweep, Swept,
         SweeperExits, mainVars, guardVars
    <3>3. ASSUME NEW w \in Workers, WorkerStep(w)
          PROVE  UNCHANGED <<main, result, tripped>>
      <4>1. TakeJob(w)
        BY <2>1, <3>3 DEF WorkerStep, EndOperation, Observe, Check, AbortStore, AbortArrivals, AbortWork
      <4> QED
        BY <4>1, Zenon DEF TakeJob, mainVars, guardVars
    <3>4. ~MainGoroutine
      BY <1>1 DEF MainGoroutine, Drained, NetFires, NetDrained, CutOffWork, SweeperStopped,
         LoadStatus, LoadReason, BuildResult, MainStep
    <3> QED
      BY <3>1, <3>2, <3>3, <3>4 DEF Next, Over
  <2> QED
    BY <2>2 DEF AbortAlwaysReported
<1>2. CASE BuildResult
  <2>1. tripped <=> aborted
    BY <1>2, DrainedMeansStored DEF BuildResult, MainStep, Waited
  <2>2. tripped' = tripped
    BY <1>2, Zenon DEF BuildResult, guardVars
  <2>3. loaded.status # "aborted" /\ loaded.reason # "failing"
    BY DEF RunTypes
  <2>4. CASE aborted
    BY <1>2, <2>1, <2>2, <2>4 DEF BuildResult, AbortAlwaysReported
  <2>5. CASE ~aborted
    BY <1>2, <2>1, <2>2, <2>3, <2>5 DEF BuildResult, AbortAlwaysReported
  <2> QED
    BY <2>4, <2>5
<1>3. ASSUME main # "returned", ~BuildResult PROVE main' # "returned"
  <2>1. CASE Tick \/ CallerCancels \/ WatchStep \/ UNCHANGED vars
    BY <1>3, <2>1, OutsideSteps
  <2>2. CASE (\E r \in Runners : ExecStep(r)) \/ (\E w \in Workers : WorkerStep(w)) \/ SweeperStep
    <3>1. main' = main
      BY <2>2, Zenon DEF ExecStep, Arrive, EndArrivals, ExecReturns, WorkerStep, TakeJob, EndOperation,
         Observe, Check, AbortStore, AbortArrivals, AbortWork, SweeperStep, Sweep, Swept,
         SweeperExits, mainVars
    <3> QED
      BY <1>3, <3>1
  <2>3. CASE MainGoroutine
    BY <1>3, <2>3 DEF MainGoroutine, Drained, NetFires, NetDrained, CutOffWork, SweeperStopped,
       LoadStatus, LoadReason, MainStep
  <2> QED
    BY <2>1, <2>2, <2>3 DEF Next, Over
<1> QED
  BY <1>1, <1>2, <1>3 DEF AbortAlwaysReported

\* Only an operation that ends is cut off, and while there is one Run has not cut work off
\* in passing.
LEMMA CutOffStep ==
  ASSUME RunTypes, DrainInv, AbortInv, CutOffIsJustified, [Next]_vars
  PROVE  CutOffIsJustified'
<1>0. now \in Nat /\ Net \in Nat
  BY EngineAssumption DEF RunTypes, TypeOK, Net
<1>1. (tripped => tripped') /\ (now >= Net => now' >= Net) /\ Net' = Net
  <2>1. CASE Tick \/ CallerCancels \/ WatchStep \/ UNCHANGED vars
    BY <1>0, <2>1, OutsideSteps DEF Net
  <2>2. CASE (\E r \in Runners : ExecStep(r)) \/ SweeperStep \/ MainGoroutine
    <3>1. now' = now /\ tripped' = tripped
      BY <2>2, Zenon DEF ExecStep, Arrive, EndArrivals, ExecReturns, SweeperStep, Sweep, Swept,
         SweeperExits, guardVars, MainGoroutine, Drained, NetFires, NetDrained, CutOffWork,
         SweeperStopped, LoadStatus, LoadReason, BuildResult
    <3> QED
      BY <3>1 DEF Net
  <2>3. ASSUME NEW w \in Workers, WorkerStep(w)
        PROVE  (tripped => tripped') /\ now' = now
    <3>1. (tripped' = tripped \/ tripped' = TRUE) /\ now' = now
      BY <2>3, Zenon DEF WorkerStep, TakeJob, EndOperation, Observe, Check, AbortStore, AbortArrivals,
         AbortWork, guardVars
    <3> QED
      BY <3>1
  <2> QED
    BY <2>1, <2>2, <2>3 DEF Next, Over, Net
<1>2. CASE \E w \in Workers : EndOperation(w)
  <2>1. PICK w \in Workers : EndOperation(w)
    BY <1>2
  <2>2. ~Waited
    BY <2>1, DrainedMeansStored DEF EndOperation
  <2>3. workDone => tripped \/ now >= Net
    BY <2>2 DEF AbortInv, WorkOff
  <2>4. cutOff' => cutOff \/ workDone
    BY <2>1 DEF EndOperation
  <2> QED
    BY <1>1, <2>3, <2>4 DEF CutOffIsJustified
<1>3. ASSUME ~\E w \in Workers : EndOperation(w)
      PROVE  cutOff' = cutOff
  <2>1. CASE Tick \/ CallerCancels \/ WatchStep \/ UNCHANGED vars
    BY <2>1, OutsideSteps
  <2>2. CASE (\E r \in Runners : ExecStep(r)) \/ (\E w \in Workers : WorkerStep(w)) \/ SweeperStep
               \/ MainGoroutine
    BY <1>3, <2>2, Zenon DEF ExecStep, Arrive, EndArrivals, ExecReturns, WorkerStep, TakeJob,
       Observe, Check, AbortStore, AbortArrivals, AbortWork, SweeperStep, Sweep, Swept, SweeperExits,
       MainGoroutine, Drained, NetFires, NetDrained, CutOffWork, SweeperStopped, LoadStatus,
       LoadReason, BuildResult, histVars
  <2> QED
    BY <2>1, <2>2 DEF Next, Over
<1> QED
  BY <1>1, <1>2, <1>3 DEF CutOffIsJustified

LEMMA RunAlways == Spec => []RunInv
<1>1. RunInv /\ [Next]_vars => RunInv'
  BY TypesStep, DrainStep, AbortStep, ReportStep, CutOffStep DEF RunInv
<1> QED
  BY <1>1, RunInit, PTL DEF Spec

\* A run is reported as aborted if and only if the guard tripped, whoever tripped it and
\* however late, and whatever else stopped the run meanwhile.
THEOREM AbortIsAlwaysReported == Spec => []AbortAlwaysReported
<1>1. RunInv => AbortAlwaysReported
  BY DEF RunInv
<1> QED
  BY <1>1, RunAlways, PTL

\* No operation is cut off but by a guard that tripped or by the safety net.
THEOREM CutOffIsAlwaysJustified == Spec => []CutOffIsJustified
<1>1. RunInv => CutOffIsJustified
  BY DEF RunInv
<1> QED
  BY <1>1, RunAlways, PTL
=============================================================================
