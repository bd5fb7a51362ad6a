# Tracepoint in TLA+

Tracepoint is a load generator: it offers arrivals to a target on a schedule
that does not wait for the target (the open model), performs them on a bounded
pool of workers, reduces what they measured to a timeline and to whole-run
figures, and stops when the profile is over, when the caller cancels, or when
the target is clearly failing.  Around that, a command judges a configuration
against a policy that a human wrote, and turns what was measured into findings,
a verdict and an exit code.  What a user takes from a run is numbers, so the
question this development asks of the code is: *are the numbers about what
happened, was the load the one that was granted and planned, and does a run
always come to its end?*

Modules are TLA+; `MC*` modules and `.cfg` files are the instances TLC checks;
`*Proofs` modules hold the theorems TLAPS checks.  `PROJECT.json` ties every
definition to the lines of `src/` it translates, and lists components, runs,
mutants, findings, hazards and theorems.

## 1. The system

| component | state | operations | interacts with |
|---|---|---|---|
| metrics collector (`internal/metrics/collector.go`) | a ring of bucket slots, whole-run accumulators, sealed summaries and label timelines, the marks `sealedAbove`, `seenAny`, `maxBucket` | `Record`, `RecordOffered`, `RecordDropped`, `ObserveInFlight`, `SealThrough`, `Finish` | called by workers, the generator, the sweeper and the engine, all concurrently but `Finish` |
| summary and sketch (`summary.go`, `sketch.go`) | none of its own | `Snapshot` reduces the collector | called by the sweeper (progress) and by the engine at the end |
| executor (`internal/executor`) | the channel, three counters, the gauge and its peak | `Run`, `generate`, `work`, `Stats` | drives a runner; is stopped by two contexts |
| engine (`internal/engine/engine.go`) | the two contexts, the status, the abort reason | `Run`, `onAbort`, the sweeper, `buildResult` | starts everything, waits for everything |
| abort guard (`internal/engine/guard.go`) | a ring of counters over a rolling window | `Observe`, `Tripped`; `guardedRecorder` | on every worker's record path; calls `onAbort` |
| schedule (`internal/schedule`) | the position in the profile | `NewProfile`, `Next` | the generator's |
| clock (`internal/clock`) | none (the fake: waiters) | `SleepUntil`, timers, tickers | everyone's |
| SQL runner (`runner/sqlrun`) | the `database/sql` pool, prepared statements, read and write counts | `New`, `Prepare`, `Do`, `Close` | called by workers |
| Redis runner (`runner/redisrun`) | the client and its pool, the counts | the same | called by workers |
| HTTP runner (`runner/httprun`) | the transport; per request the trace's stamps | the same | called by workers; its trace by the transport's goroutines |
| policy (`internal/policy`) | none | `Load`, `Tighten`, the checks, classification of statements, `Resolve` | before a run, by config and preflight |
| configuration (`internal/config`) | the document | `Load`, `ApplySet`, `Finalise` (defaults and validation), `ApplyPolicy`, `Targets` | before a run |
| result and analysis (`internal/result`) | the result document | `Build`, `Analyse` | after a run, by the engine |
| command line (`internal/cli`) | the signal context, the second-signal watcher | `run` and its dry run, `validate`, `doctor`; exit codes | everything |

Hard behaviours: workers, generator and sweeper share the collector's ring with
locks that do not cover every read; outcomes arrive late and out of order;
cancellation reaches the parts through contexts and callbacks on goroutines of
their own; the guard stops a run from inside the run; the end of a run is a
protocol between five kinds of goroutine; a call of a runner waits for pools,
networks and rollbacks against a deadline and a cancelled context; and a command
is refused for one of many reasons, at one of many moments, some before and some
after the first contact with a target.  `PROJECT.json` lists 40 places where
this bites ("hazards"), with the properties that cover each or why none does.

What makes each part correct:

* collector: an outcome is counted once, at its bucket, whatever the race; the
  warm-up is never counted; labels add up; buckets seal neither early nor twice;
* executor: an arrival is performed once or refused, never lost; bounds hold;
  every stop ends the run and drains what was accepted;
* guard: the ring counts the window exactly; it trips when and only when the
  window is failing;
* engine: an abort is always reported; `Finish` is alone with the collectors;
  no work is cut off without a reason; a stop ends the run;
* schedule: a run offers exactly the arrivals its plan announces;
* runners: one outcome per `Do`, connections go back, an ok is one the target
  gave, the phases of a request add up, and no wait outlasts the deadline;
* policy and configuration: no load outside what both allow, whatever overrides
  and defaults do; tightening never widens; refusals come before contacts;
* result and command line: exactly one document, and an exit code that agrees
  with it; a command comes to its end.

## 2. Modules

**`Collector`** models `collector.go` with the goroutines that drive it.
`ring` is the code's slots, `wholeRunner`/`wholeLabels` the whole-run
accumulators, `buckets` and `labelBuckets` the sealed output.  An accumulator is
the bag of operations it has counted, so "exactly once" is said of each
operation and not of a sum.  One action per critical section: what the code does
under one slot's mutex is one step (`FastPath`, `SlowPathClaim`,
`SlowPathSeal`, `SweepSeal`, `FinishSlot`), and what it does outside is a step
of its own: the read of `sealedAbove` (`RecordEnter`, `CounterCheck`),
`noteBucket`'s swap and store (`NoteBucket`, `NoteStore`), the sweeper's look
under the read lock (`SweepPeek`), the three critical sections of `recordLate`
(`LateTally`, `LateLabel`, `LateRunner`), and Snapshot's encoding of the
sketches (`EncodeSketches`).  This grain loses no behaviour: a slot is only
touched under its mutex, the accumulators and maps that sealing adds to have
mutexes of their own, additions to bags commute, and the last thing sealing
does outside the slot is to raise `sealedAbove`.  Latencies, bytes, error
classes and HTTP statuses travel with the count in the code and are left out.

**`OutcomeLedger`** is what a collector promises, without buckets or threads:
every reported outcome of the measured window enters the totals once, at
whatever moment, no other ever does, and the books close with nothing
outstanding.  `Collector!ImplementsLedger` is the refinement.

**`Executor`** models `executor.go`: the generator's loop with
`clock.Real.SleepUntil`, the Go channel (parked receivers, direct hand-over,
buffer, close), the workers, `notePeak`, and the two contexts with the AfterFunc
between them.  **`BoundedDispatch`** is its promise: arrivals in order, each
accepted or refused on the spot, an accepted one performed once, at most
`MaxInFlight` at once and at most `MaxInFlight + QueueDepth` held.

**`AbortGuard`** models `guard.go`; `Observe` holds a mutex throughout and is
one step.  A history variable keeps everything observed, so that the ring can be
compared with the truth.

**`EngineRun`** models `Engine.Run` from the start instant to the result:
caller, AfterFunc, executors, workers with the guarded recorder, sweeper, engine
goroutine.  It abstracts what the other modules detail: an executor is a number
of accepted jobs, a record is one step, the guard may trip at any observation
once its window has passed.  The operation's runner is external.

### The runners

**`RunnerCall`** is what the three runners share: the weighted picker, the life
of a call of `Do` (idle, its phases, record, idle again), the context a call runs
under, which is live, past its deadline or cancelled, and the cancellation of
the work context.  An error is a tag a runner's `classify` function tells apart.

**`SQLPool`** is `database/sql`'s pool as `sqlrun` uses it (external): open, idle
and opening connections, the queue of waiters, and connections that were handed
to a waiter which has not looked yet.  **`SQLRunner`** models `sqlrun.go`: `New`,
`configurePool`, `Prepare` with its ping and prepared statements, and `Do` as it
acquires a connection, begins a transaction, renders and runs its statements,
takes a *second* connection for a prepared statement outside a transaction,
commits or rolls back, gives its connection back, classifies, counts (a load and
a store, because nothing makes the increment atomic) and records.
`AwaitDone` is the goroutine of `database/sql` that rolls a transaction back when
its context ends.

**`RedisRunner`** models `redisrun.go`: rendering, a turn in the client's pool,
an exchange, the client's retries, the replies of a pipeline and what
`execute` makes of them.  **`HTTPRunner`** models `httprun.go` and `trace.go`:
the preflight, the request with redirects and retried idle connections, every
trace callback as a step with the reading of the clock it takes, dials that end
after they lost, `phases`, and both classifications.  Bodies are a limit that is
exceeded or not.  **`Runners`** puts the three under the engine's calls.

### The command

**`Schedule`** has the profile as segments of whole units of time with exact
fractions: `NewProfile`, `RateAt`, `Lambda`, the searches, and `NextArrival` with
the increment `Schedule.Next` draws.  The bisection of `solve` is the instant it
converges to.  **`Policy`** has the policy file, `Tighten`, the checks, the
classification of statements from their words (each verb table keeps members
that behave differently) and the scopes of targets.  **`Config`** is the document
as a record: loading as an order of refusals, `--set` as an assignment at a path,
the defaults.  **`Validation`** is `Validate`, `ApplyPolicy` and `Targets`;
**`Analysis`** is `Build` and `Analyse`: findings, budgets, verdict; **`Preview`**
is the dry-run plan and `doctor`.  A problem is its error code, and a refusal is
a set of codes; messages and hints are left out.

**`Command`** composes them: one process from its invocation (a command, its
flags, a source, a policy) to its exit, with the phases of `runRun`, `prepare`,
`Engine.build`, `preflight`, a load whose executors draw arrivals from their
schedules, the abort, the result, what is written to standard output and to the
result file, and the exit code.  The signal context and the second-signal watcher
are steps of their own that may come between any two of these.  What happens
inside the load (workers, recorder, guard) is the matter of the modules above;
here a runner's measurement is one of a few that the analysis tells apart.

### Proofs and mutants

Each of **`CollectorProofs`**, **`ExecutorProofs`**, **`EngineProofs`**,
**`RunnersProofs`**, **`AbortGuardProofs`**, **`ScheduleProofs`** and
**`CommandProofs`** extends the module it is named for with the theorems of section 4
(`CommandProofs` also has those about `Policy`, `Config` and the modules above
them).  **`LeftFolds`** says what `FoldLeft` computes, for an operator that is a
constant of the module; `ScheduleProofs` and `CommandProofs` take an instance of it
for each fold.

Definitions marked "mutant" are plausible bugs in the definition that follows
them; no action uses them, and each is the reason to believe that one property
can fail.

## 3. Runs

| run | shows | bounds, and why they are enough |
|---|---|---|
| `collector_safety` | `TypeOK`, `CountedExactlyOnce`, `SlotHoldsItsBucket`, `LabelsAddUp`, `NoEarlySeal`, `LateMeansLate`, `WindowCoversArrivals`, `LabelTimelineComplete`, `FinishedIsSealed` | the smallest ring (4 slots), arrivals at 0, 0 and one turn later, two workers, two labels: two callers in a slot that changes bucket, a sweep in between, late outcomes, both ways to seal |
| `collector_promise` | `ImplementsLedger`, `WarmupNeverCounted`, `RetentionBudget`; under fairness `DispatchedIsFiled`, `RunEnds` | a warm-up that ends inside a bucket, one warm-up and one measured arrival, a label budget of one entry for two labels |
| `collector_reseal` | violation of `SealedBucketStaysClosed` | the same instance |
| `collector_encode` | violation of `SnapshotReadsLocked` | the wrap-around instance |
| `executor` | `TypeOK`, `EachArrivalOnce`, `ReturnedIsAccountedFor`, `StatsNeverAhead`, `PeakIsExact`, `KeepsPromise`; under fairness `StopEndsRun`, `ProfileEndsRun` | two workers, a queue of one, three arrivals: the first arrival that can be dropped is the third to be held up |
| `abort_guard` | `GuardTypeOK`, `RingIsExact`, `TripIsEarned`, `TripsExactly` | a window of two periods (ring of three), time for the ring to come round, outcomes out of order by a whole window, one outcome per instant |
| `engine_run` | `TypeOK`, `AbortAlwaysReported`, `FinishIsAlone`, `CutOffIsJustified`; under fairness `StopEndsRun` | two runners, one with two workers that meet in its `sync.Once`, three operations; the net, the end of the profile and the caller can all come first |
| `engine_interrupted` | violation of `InterruptedIsMarked` | one runner, one worker |
| `engine_grace` | violation of `DrainWithinGrace` | one runner, one worker, a timeout longer than the grace |
| `runners` | `ConnectionsConserved`, `OkIsEarned`, `PhasesAddUp`; under fairness `EveryCallReturns` | two calls of SQL by two workers on a pool of two with one idle (a transaction of two statements, a prepared read, an argument without a value), one call of each worker on a Redis pool of one turn with one retry, one HTTP call with one redirect and a clock of three readings; deadlines and the cancelled work context at any moment |
| `sql_pool_wait` | violation of `PoolWaitIsPoolTimeout` | two workers, prepared reads, the default pool, which is as large as the number of workers |
| `command` | `LoadWithinEnvelope`, `RunOffersThePlan`, `RefusalsAreFree`, `ExitMatchesDocument`; under fairness `CommandEnds` | 32 invocations over nine documents: steady, ramped with a stage that offers nothing, two tiers, writes, a closed model, a negative rate, journeys, a broken file, an empty one; overrides that lengthen, speed up, reweigh or create; policies that grant, forbid or cannot be read; hosts that resolve to every scope or not at all; every measurement that a finding reads; two signals at any moment |

Bounds of the model and not of the code: `MaxNow` (clock), `Schedule` or
`NumArrivals` or `MaxOps` (arrivals), `MaxTime` and `MaxPerTime` (observations),
`MaxSkew` (how far a worker may be held up between the end of its operation and
the guard; any natural, `SkewWithinWindow` where a theorem needs less),
`MaxCalls` (calls per worker), `MaxRetries` and `MaxRedirects` (the libraries'
own limits, made small), `MaxSignals`.  In `runners` a worker serves one runner
and the instance has one runner at a time: the runners share nothing but the
contexts.  Only the workers of `collector_safety`, which has no liveness
property, are made symmetric.

Deadlock is checked in every run but `command`, where a process that has ended
does not move; the other specifications have an explicit final step (`Over`,
`Saturated`, `Closed`) for the state in which the system may stop.

**Fairness.**  Go schedules every runnable goroutine, so each goroutine's step is
weakly fair; an operation ends because the runner bounds it by its timeout.  The
sweeper's `select` has a closed stop channel against a ticker that fires four
times a second, and Go picks among ready cases at random: the stop is strongly
fair.  Neither the clock nor a cancellation is promised where a property speaks
of one: `StopEndsRun` holds with the clock at a standstill.  In `runners` the
steps of a call, the pool's opener, the rollback goroutine and the deadline are
weakly fair: what the network is asked is answered or broken off, or the deadline
comes; no call need begin and nothing need be cancelled.  In `command` the process
and the watcher are weakly fair, except for one step: `Prepare` pings the database
under the command's own context, which has no time limit, so nothing says that
this step ever ends (`AwaitsDatabase`).  `CommandEnds` therefore promises the end
of every command that is not waiting there, and of that one after a signal.

**Findings** (violation runs; the quotes are in `PROJECT.json`):

1. A bucket can be sealed twice.  `Record` reads `sealedAbove` before it takes
   the slot's lock; if the sweeper seals the bucket in between, the caller
   reclaims the slot for the same bucket and the second summary replaces the
   first.  Whole-run totals stay right (`CountedExactlyOnce`, proved); the
   timeline loses the first summary.
2. A progress report encodes the whole-run sketches without their mutexes while
   a worker may merge into them.
3. An interrupted run can be reported as completed, because the goroutine that
   stores the status is not waited for.
4. Nothing enforces the grace period; only the safety net, a minute later, does.
5. A prepared statement outside a transaction takes a second connection from the
   pool its call already holds one of.  With as many workers as connections, which
   is the default, workers wait for each other until their deadlines, and the wait
   is recorded as a timeout of the database although it is the generator's pool.

**Other observations**, met while translating and kept here because no run is
about them:

* A run that was aborted or interrupted exits 0 when its document is valid and
  within budget (`outcomeExit`), while `docs/ERRORS.md` lists 3 for both.
* `type: vus` is accepted although no executor implements it.  `max_in_flight`
  then stays 0, so the executor runs with its own default number of workers, the
  check of the policy's `max_in_flight` is skipped, and the plan says that nothing
  is offered; `LoadWithinEnvelope` speaks of in-flight limits for the open model only.
* A negative `rate` without stages passes `Validate`; `NewProfile` refuses it after
  the targets were contacted: the exception in `RefusalsAreFree`.
* `validateRedis` does not check `type`, and a declared type other than `write`
  and the empty one stops the classifier from being asked.
* `rate` together with exactly one stage is accepted, and the stage wins.
* Labels of journey steps and of requests can coincide ("a/b" + "c", "a" + "b/c").
* `doctor` resolves the targets and does not connect to them.
* A deadline in the middle of a transaction is classified `canceled`, because the
  rollback goroutine gets there first; the same failure to render is `query_error`
  in SQL and `extract_failed` in Redis; a comparison with `driver.ErrBadConn` by
  name (sqlrun.go:588) can never match.
* In human mode `validate` ignores errors of standard output.
* A signal between the first one and the watcher's `Notify` is swallowed.

## 4. What is proved

**`CollectorProofs`**, for every schedule, every finite set of workers and labels,
and every sizing of buckets, seal delay, warm-up and budget:

* `TypeCorrect`: `Spec => []TypeOK`, with the residue class of every slot;
* `SlotHoldsItsBucketAlways`: a slot never mixes two buckets;
* `CountedExactlyOnceAlways`: every filed outcome is counted exactly once;
* `LabelsAddUpAlways`: the labels' totals and the runner's agree in the end;
* `WarmupNeverCountedAlways`: nothing intended in the warm-up is ever totalled.

Assumptions (named `ASSUME`s of `Collector`, evaluated by TLC on the runs): the
schedule's offsets are naturals in order (`ScheduleAssumption`, which is what
`Schedule.Next` guarantees), every operation has a known label, the widths are
naturals and the bucket width is positive, workers are not named like the other
goroutines, and the sets of workers and labels are finite.

The argument has three layers.  `CallInv` says who holds which operation: a call
in progress is about an operation in the status that allows it, and no two calls
are about the same one.  `TypeInv` adds the types, and that a slot's bucket maps
to that slot.  `CountInv` says what the ring and the totals hold of each
operation: an unfiled one is nowhere; a filed, measured one is in exactly one of
its slot and the runner's total; the label's total equals the runner's, but for
an operation whose call stands between the two additions of `recordLate`.
`CountedExactlyOnce` is not inductive without these: filing in one slot could
disturb another call's operation if two calls could be about the same one, and
sealing could charge an operation to the totals twice if the slot held counts of
another bucket.  The warm-up theorem needs one fact of arithmetic besides:
rounding up to whole buckets puts every measured bucket wholly after the
warm-up.

When it seals, and what it promises, under the same assumptions:

* `NoEarlySealAlways`: until `Finish`, a bucket is sealed only after its deadline;
* `LateMeansLateAlways`: an outcome is tallied as late at most once, and only after
  its own bucket's deadline;
* `WindowCoversArrivalsAlways`: the highest mark reaches every bucket with an
  arrival;
* `FinishedIsSealedAlways`: `Finish` leaves every slot free;
* `CollectorKeepsPromise`: `Spec => ImplementsLedger`, the refinement of
  `OutcomeLedger`.

That a bucket has begun, may be sealed, or an arrival is due are facts which time
only makes true; all arithmetic is in four lemmas about them.  The one that carries
the sizing of the ring is `ReusedSealable`: of two buckets with the same slot, the
earlier one's deadline has passed when the later one begins.  `DueInv` says that
every call is about an arrival that is due and every bucket in a slot has begun;
with it, a caller that seals a slot on the spot (`SlowPathSeal`), or finds a newer
bucket there (`SlowPathGone`), has the earlier deadline behind it.  `SealInv` carries
that to `sealedAbove`, which `Record` compares with, and `LateInv` to whoever is on
the late path.  `WindowInv` says why the unguarded first store of `noteBucket` is
harmless: while it is pending nothing has been offered, so only the generator is in
a call.  The ledger needs `CountInv` before and after each step (what moved was
outstanding and is settled once), `FreedInv` at the end of `Finish`, and `QuietInv`
after it.

The labels' timelines, under the same assumptions:

* `RetentionBudgetAlways`: the timelines of all labels together hold what
  `labelTimelineEntries` says, within the budget, and nothing once given up;
* `LabelTimelineCompleteAlways`: after `Finish`, unless they were given up, every
  outcome that was not late is in one entry of its label's timeline, counted once,
  at its own bucket.

`BudgetInv` counts entries as pairs of a label and a position; a seal adds one pair
for each active label (`EntriesAdd`, a bijection).  `PlaceInv` follows one outcome:
until its slot is sealed, and for ever if it is late, no entry has counted it; the
seal that frees it (`OpenMoves`) enters it (`SealEnters`).  That this cannot happen
twice, or to an outcome also booked as late, is `LateElsewhere`, which rests on
`CountInv` (what is not filed is in no slot) and `LateInv` (what is tallied as late
is on its way out or filed).

**`ExecutorProofs`**, for every finite, non-empty pool of
workers, every depth of the queue (0 included) and every length of the schedule
(`ExecutorAssumption`):

* `ExecutorTypeCorrect`: `Spec => []TypeOK`;
* `StatsNeverAheadAlways`: at most one arrival is offered and not yet settled;
* `PeakIsExactAlways`: the peak is never above the pool, and misses no level of
  the gauge but for the readings still to be noted;
* `EachArrivalOnceAlways`: an arrival is in one place, and only if it was accepted;
* `ReturnedIsAccountedForAlways`: what is true of the counters, the queue and the
  gauge when `Run` returns;
* `ExecutorKeepsPromise`: `Spec => KeepsPromise`, the refinement of
  `BoundedDispatch`.

The invariant is built in layers.  `TypeInv` adds to the types that the gauge
equals the number of workers between their two `Add`s.  `CountInv` says where the
counters stand at each place of the generator's loop, since `offered.Add` comes
before the send and the other two after it.  `OnceInv` names the place of each
arrival (a worker, a position in the queue, or a record); a count of places, which
is how `EachArrivalOnce` states it, says too little for the step that moves the
queue up.  `QueueInv` says that nobody is parked at a queue that holds something or
is closed, and nobody leaves one that holds something; without it `Run` could
return with a job queued.  `GaugeInv` gives every level between the peak and the
gauge a worker that read it: `PeakIsExact` only counts such workers, and would not
survive one of them noting a reading below the peak.  The refinement needs one
thing more, that what is held is at most the engaged workers and the queue
together: a parked worker that is handed a job is a place left over, which is why
the bound on what is held is `MaxInFlight + QueueDepth` and not one more.

**`EngineProofs`**, for every set of runners and workers, and every number of
operations, profile, timeout, grace period and guard window (`EngineAssumption`):

* `RunTypeCorrect`: `Spec => []TypeOK`;
* `FinishIsAloneAlways`: `Finish` and what follows it have the collectors alone;
* `AbortIsAlwaysReported`: a run is reported as aborted if and only if the guard
  tripped, however late;
* `CutOffIsAlwaysJustified`: only the guard or the safety net cuts work off.

`DrainInv` says that a returned executor has no job and no worker with one, and
that `Run` is past its select only when all have returned.  `AbortInv` says where
an abort is between the trip and the store: with a worker that is about to check,
or that runs `onAbort` inside the `sync.Once`, which is done only after the store.
Together they give `DrainedMeansStored`: when the executors have returned, tripped
and stored are the same, so `buildResult` reads the final word; and a worker that
still operates proves that `Run` has not yet called `cutOffWork` in passing, so
that it was the guard or the net that did.

**`RunnersProofs`**, for every finite, non-empty set of workers, every list of
queries, commands and requests, every pool and every fault (`CallAssumption`,
`QueryAssumption`, `CommandAssumption` of `RedisRunner`, `RequestAssumption`: a unit
has a statement, and several only if it is a transaction or a pipeline):

* `NoConnectionIsLost`: every open connection of the SQL pool is idle or held once,
  by a call or a rollback, and every turn at the Redis pool belongs to a call at work;
* `SuccessIsEarned`: `ok` is recorded only of a call all of whose statements,
  replies or exchanges succeeded, and of a transaction that was committed;
* `TimesAddUp`: the phases of a request are not negative and together no longer
  than the request, whatever the order of the trace callbacks;
* `PoolsAreLimits`: neither pool exceeds its size.

`CallInv` keeps every worker in a phase of its own runner, so that a step of one
runner leaves the other two alone.  `QueryInv`, `CommandInv` and `RequestInv` then
say for each phase what the call has behind it (statements run, connections held,
stamps taken), one worker at a time.  `PoolInv` keeps the pool's accounts: the
connections open are those idle, granted, held and being dialled, and a caller of the
pool waits, has been granted a connection or has been refused one, and not two of
these; without that a connection handed over could be counted on both sides.

**`AbortGuardProofs`**, for every window, resolution, threshold and number of
samples (`GuardAssumption`):

* `GuardTypeCorrect`: `GuardSpec => []GuardTypeOK`;
* `TripIsEarnedAlways`: the guard fires only on counts that are failing and that were
  observed in its window, however late the workers report and in whatever order;
* `RingIsExactAlways`: for the latest instant the ring counts exactly what was
  observed in the window;
* `TripsExactlyAlways`: the guard fires if and only if the window is failing.

The last two hold if no report is later than the window less the part of a period it
holds (`SkewWithinWindow`).  The premise is needed, and sharp: with a window of 4, a
resolution of 2 and a skew of 5 TLC refutes `RingIsExact`.  The code has no such
bound: the report of a worker that is held up longer between the end of its operation
and the guard takes a slot from newer outcomes, good or bad, which are then not
counted.  For every instant, the sum over the slots that count and the sum over what
was observed grow alike with each outcome (`ObserveAdds`), but for what a slot held
when it is taken over; that is old (`TakenOverIsOld`), because the ring is long
enough (`ARingApart`).  Sums over finite sets are defined by recursion; what they
compute is proved from a smallest set for which it fails (`SmallestSet`).

**`LeftFolds`** does the same for sequences: `FoldGoesThrough` says that a fold has
a value after each element, the operator applied to the value before it and the
element.  The operator is a constant of the module, so that no theorem has an
operator as its parameter, and an induction is a use of `UpTo` on the set of lengths
for which a fact holds.

**`ScheduleProofs`**, for every list of stages that `NewProfile` accepts:

* `InvertEndsInTime`: no arrival comes after the end of the profile;
* `ScheduleKeepsUp`: evenly spaced arrivals are at most `m` for each tick so far, if
  no rate of the profile is above `m`;
* `PlanOffersAsMuch`: a plan's number of operations is what the profile offers.

`Shape` is what the fold of `AddSegment` keeps: a segment for each stage, where the
one before it ended in time and in count.  The searches then find a segment that
contains what is looked for, and the first tick at which a ramp has offered enough
(`Solve`) is bounded by an inequality on quadratics (`ComesToItInTime`).

**`CommandProofs`**, for every set of invocations, hosts, measurements and answers:

* `LoadStaysWithinEnvelope`, `RunsOfferThePlan`, `RefusalsCostNothing`,
  `ExitsMatchDocuments`: `Spec => []P` for the four invariants of the run `command`;
* `TightenNeverRaisesALimit`, `TightenNeverGrantsACapability`: a rate, a number in
  flight, a duration, writes, destructive statements and unverified TLS pass a
  tightened policy only if they pass the grant;
* `TightenOpensNoTarget`: a host the tightened policy lets a run contact, the grant
  lets it contact, if the host's addresses are all public or none is.  The premise
  is needed: an allowlist entry that is not public needs no permission, and matches
  a host if one address does, while a host is public if one address is.

`CommandAssumption` says of a document what its Go types say (a number where a number
is asked for, a list where a list, at most one section of a kind, an item that cannot
be compiled has a code that is no verdict), as read and with its overrides set; TLC
evaluates it on the run's 32 invocations.  It says nothing of the values: that the
rates, durations and limits are sound where the properties need it is proved from
`Validate`, `ApplyDefaults` and `ApplyPolicy`.

The invariant has four layers.  `DocumentInv` follows the document: what it has
passed by each phase, and that an envelope in force is the tightened policy and let
the document through.  `LoadInv` says that what is contacted is what is prepared, and
that every runner's schedule follows the stages of its executor.  `TargetInv` says
that nothing is contacted until every host is resolved and permitted.  `EndInv`
relates what has been written to the failure that is being returned.  None of the
four properties is inductive: `LoadWithinEnvelope` follows from the first two and
`ScheduleProofs`, `RunOffersThePlan` from `LoadInv` and `PlanOffersAsMuch`.
`RefusalsAreFree` and `ExitMatchesDocument` need that no check of a document reports
`SLO_BREACH` or `RUN_INVALID` (`NoVerdict`, proved of every check, of the loading, of
the overrides and of the policy), since the exit code is chosen by code.  For
`EndInv` every step is one of four: it goes on, it fails, it delivers a
document, or it ends the process.

Every invariant, action property and refinement that a run checks is proved.  Only
model-checked: the liveness properties (`DispatchedIsFiled`, `RunEnds`, `StopEndsRun`
of the executor and of the engine, `ProfileEndsRun`, `EveryCallReturns`,
`CommandEnds`), because TLAPS treats neither fairness nor `ENABLED`; and what the
violation runs refute.

## 5. Not modelled, and the plan

Left out for good: YAML and flag parsing, template rendering (the runners know
only whether there is a value), text rendering, schemas, error texts,
HTML/JUnit/Markdown and the announced packages that hold only a comment.  The
numeric content of sketches, floating-point error in schedules and Go's 64-bit
overflow in `randInt` are out of TLC's reach.

Left out of the modelled parts: `Snapshot`'s in-place sort of shared timelines,
the HTTP status table and label overflow in the collector; the dispatch-lag
statistic; the pools' own statistics; the values bound to arguments; the opening
of connections by idle-time limits.

What remains worth doing, most important first:

1. Extensions of `Collector`: the sort of shared timelines in `Snapshot`, which is a
   hazard without a property, and the status table.
2. The latest instant of a Poisson schedule, and a bound on its count.
3. Proofs of what the runs of `Validation` and `Analysis` only show through
   `Command`: that defaults never invalidate a document that validates.
