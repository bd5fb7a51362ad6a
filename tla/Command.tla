------------------------------- MODULE Command -------------------------------
(***************************************************************************)
(* internal/cli and the outline of internal/engine: one process, from its  *)
(* arguments to its exit code.  `validate`, `doctor` and `run` share the   *)
(* loading of the policy and the configuration; `run` goes on to preflight,*)
(* to the load and to a result.  Signals may come at any time, and from    *)
(* the moment a run listens for them a goroutine watches for a second one. *)
(*                                                                         *)
(* What the load does to its targets is in EngineRun, Executor and the     *)
(* runners' modules; here each runner has its schedule, and what was       *)
(* recorded of it is any of a set of measurements.                         *)
(***************************************************************************)
EXTENDS Preview, Schedule

CONSTANTS Invocations,   \* the command lines, each with the files it names
          Answers,         \* the sets of addresses each host may resolve to; {} for none
          Literals,        \* the hosts that are addresses and need no lookup
          Machine,         \* the machine's cpus and, if limited, its open files
          Measurements,    \* what may be recorded of a runner
          MaxSignals       \* bound: signals sent to the process

\* A document has the shape its types give it, as read and with its overrides set.
ASSUME CommandAssumption ==
  \A i \in Invocations :
    /\ IsConfig(i.source.cfg) /\ IsConfig(ApplySet(i.source.cfg, i.overrides).value)
    /\ i.overrides \in Seq(ToSet(i.overrides))
    /\ \A o \in ToSet(i.overrides) : o.path \in Seq(ToSet(o.path))
    /\ \A f \in i.policy : IsGrant(f.grant)

VARIABLES inv,        \* the invocation
          phase,      \* how far the command is
          cfg,        \* the configuration, as far as it has been prepared
          effective,  \* the envelope in force, once there is one
          failure,    \* the error being returned: its codes, whether the output tells it
          looked,     \* the hosts resolved so far, with their addresses
          prepared,   \* the runners whose preflight has been sent
          contacted,  \* the hosts some connection has been made to
          arrivals,   \* each runner's schedule
          recorded,   \* what was recorded of the runners, once the load is over
          status,     \* the run's status
          result,     \* the result document, once built
          stdout,     \* the documents on standard output
          exit,       \* the exit code, once the process has ended
          sig         \* signals sent, and what listens for them

vars == <<inv, phase, cfg, effective, failure, looked, prepared, contacted, arrivals, recorded,
          status, result, stdout, exit, sig>>
engine == <<looked, prepared, contacted, arrivals, recorded, status, result>>

Running == exit = {}

-----------------------------------------------------------------------------
(* Errors and exits *)

ExitRuntimeCodes ==
  {"IO_READ_FAILED", "IO_WRITE_FAILED", "INTERNAL", "PREFLIGHT_DNS", "PREFLIGHT_CONNECT",
   "PREFLIGHT_HTTP", "PREFLIGHT_DB_PING", "PREFLIGHT_DB_PREPARE", "PREFLIGHT_REDIS_PING"}

ExitCode(code) ==
  CASE code = "SLO_BREACH" -> 1
    [] code \in ExitRuntimeCodes -> 3
    [] code = "RUN_INVALID" -> 4
    [] OTHER -> 2

NoFailure == [codes |-> {}, documented |-> FALSE]
Failed(codes) == [codes |-> codes, documented |-> FALSE]
Documented(code) == [codes |-> {code}, documented |-> TRUE]

\* The problems of one pass share an exit code.
ExitCodeOf(f) == IF f.codes = {} THEN 0 ELSE ExitCode(CHOOSE code \in f.codes : TRUE)

\* The command returns; a run that listens for signals unwinds first.
Returns == phase' = IF sig.notify THEN "unwind" ELSE "report"

\* A step of the command that may find problems ends it with them, or goes on.
StepOr(problems, next) ==
  IF problems # {} THEN failure' = Failed(problems) /\ Returns
  ELSE failure' = failure /\ phase' = next

-----------------------------------------------------------------------------
(* Before anything is contacted *)

LoadPolicy ==
  /\ Running /\ phase = "policy"
  /\ StepOr(LoadProblems(inv.policy), "load")
  /\ UNCHANGED <<inv, cfg, effective, engine, stdout, exit, sig>>

\* With overrides the document is taken as written, else it is finalised at once.
LoadConfig ==
  /\ Running /\ phase = "load"
  /\ cfg' = inv.source.cfg
  /\ StepOr(FirstProblems(LoadSteps(inv.source)),
            IF inv.overrides = <<>> THEN "finalise" ELSE "override")
  /\ UNCHANGED <<inv, effective, engine, stdout, exit, sig>>

Override ==
  /\ Running /\ phase = "override"
  /\ LET set == ApplySet(cfg, inv.overrides)
     IN cfg' = set.value /\ StepOr(set.problems, "finalise")
  /\ UNCHANGED <<inv, effective, engine, stdout, exit, sig>>

Finalise ==
  /\ Running /\ phase = "finalise"
  /\ cfg' = ApplyDefaults(cfg)
  /\ StepOr(Validate(cfg'), "apply")
  /\ UNCHANGED <<inv, effective, engine, stdout, exit, sig>>

\* The three commands part here.
Apply ==
  /\ Running /\ phase = "apply"
  /\ LET applied == ApplyPolicy(cfg, Load(inv.policy))
     IN /\ StepOr(applied.problems,
                  IF inv.command = "doctor" THEN "diagnose"
                  ELSE IF inv.command = "run" /\ ~inv.dryRun THEN "listen" ELSE "describe")
        /\ effective' = IF applied.problems = {} THEN {applied.effective} ELSE {}
  /\ UNCHANGED <<inv, cfg, engine, stdout, exit, sig>>

\* Writing a document fails when standard output does.
Emit(doc, after) ==
  IF inv.stdoutFails THEN failure' = Failed({"IO_WRITE_FAILED"}) /\ stdout' = stdout
  ELSE failure' = after /\ stdout' = Append(stdout, doc)

\* `validate`, and a dry run.  What validate prints for a person is not checked to arrive.
Describe ==
  /\ Running /\ phase = "describe"
  /\ IF inv.command = "validate"
     THEN IF inv.json \/ ~inv.stdoutFails THEN Emit([kind |-> "validation"], NoFailure)
          ELSE UNCHANGED <<failure, stdout>>
     ELSE Emit(BuildPlan(cfg, Only(effective)), NoFailure)
  /\ phase' = "report"
  /\ UNCHANGED <<inv, cfg, effective, engine, exit, sig>>

\* A host resolves to one of its answers, or not; without its context, only a literal does.
Lookup(host) ==
  \E addrs \in Answers[host] :
    /\ sig.cancelled => host \in Literals \/ addrs = {}
    /\ looked' = [h \in DOMAIN looked \cup {host} |-> IF h = host THEN addrs ELSE looked[h]]

\* `doctor` resolves every host and judges the lot.
DoctorLookup ==
  /\ Running /\ phase = "diagnose"
  /\ \E host \in Targets(cfg) \ DOMAIN looked : Lookup(host)
  /\ UNCHANGED <<inv, phase, cfg, effective, failure, prepared, contacted, arrivals, recorded,
                 status, result, stdout, exit, sig>>

Report(diagnosis) ==
  Emit(diagnosis, IF diagnosis.ok THEN NoFailure ELSE Documented("PREFLIGHT_CONNECT"))

DoctorReport ==
  /\ Running /\ phase = "diagnose" /\ DOMAIN looked = Targets(cfg)
  /\ Report(Diagnose(cfg, Only(effective), Machine, looked))
  /\ phase' = "report"
  /\ UNCHANGED <<inv, cfg, effective, engine, exit, sig>>

-----------------------------------------------------------------------------
(* The run *)

\* From here a signal cancels the run's context, and the watcher waits for that.
Listen ==
  /\ Running /\ phase = "listen"
  /\ sig' = [sig EXCEPT !.notify = TRUE, !.watcher = "waiting"]
  /\ phase' = "build"
  /\ UNCHANGED <<inv, cfg, effective, failure, engine, stdout, exit>>

\* Building a runner compiles its items, in order; an item may be flawed.
ItemsOf(name) ==
  IF name = "http" THEN Section(cfg, name).requests ELSE StorageItems(cfg, name)

BuildProblems(name) ==
  IF name = "http" /\ Section(cfg, name).journeys # <<>> THEN {"CONFIG_INVALID_VALUE"}
  ELSE FirstProblems([i \in DOMAIN ItemsOf(name) |-> ItemsOf(name)[i].flaw])

BuildRunners ==
  /\ Running /\ phase = "build"
  /\ StepOr(FirstProblems([i \in DOMAIN RunnersOf(cfg) |-> BuildProblems(RunnersOf(cfg)[i])]),
            "resolve")
  /\ UNCHANGED <<inv, cfg, effective, engine, stdout, exit, sig>>

\* Every target is resolved and judged, one after another, before any is contacted.
Resolve ==
  /\ Running /\ phase = "resolve"
  /\ \E host \in Targets(cfg) \ DOMAIN looked :
       /\ Lookup(host)
       /\ StepOr(IF looked'[host] = {} THEN {"PREFLIGHT_DNS"}
                 ELSE CheckTarget(Only(effective), Target(host, looked'[host])), phase)
  /\ UNCHANGED <<inv, cfg, effective, prepared, contacted, arrivals, recorded, status, result,
                 stdout, exit, sig>>

\* Mutant of AllResolved: preflight starts with the first host that is permitted.
FirstResolved == looked # <<>>

AllResolved == DOMAIN looked = Targets(cfg)

Resolved ==
  /\ Running /\ phase = "resolve" /\ AllResolved
  /\ phase' = "prepare"
  /\ UNCHANGED <<inv, cfg, effective, failure, engine, stdout, exit, sig>>

PrepareFailures ==
  [http |-> {"PREFLIGHT_DNS", "PREFLIGHT_CONNECT", "PREFLIGHT_HTTP"},
   db |-> {"PREFLIGHT_DB_PING", "PREFLIGHT_DB_PREPARE"}, redis |-> {"PREFLIGHT_REDIS_PING"}]

\* The runner whose turn it is sends its preflight and has its answer, or fails.  Once the
\* context is cancelled nothing answers.
Prepare(name) ==
  /\ Running /\ phase = "prepare"
  /\ name \in Configured(cfg)
  /\ name = RunnersOf(cfg)[Cardinality(prepared) + 1]
  /\ prepared' = prepared \cup {name}
  /\ contacted' = contacted \cup HostsFor(cfg, name)
  /\ \/ ~sig.cancelled /\ StepOr({}, IF prepared' = Configured(cfg) THEN "profile" ELSE phase)
     \/ \E code \in PrepareFailures[name] : StepOr({code}, phase)
  /\ UNCHANGED <<inv, cfg, effective, looked, arrivals, recorded, status, result, stdout,
                 exit, sig>>

\* The load profiles are compiled last, and may still be refused.
BuildExecutors ==
  /\ Running /\ phase = "profile"
  /\ LET E(name) == ExecutorOf(cfg, name)
     IN /\ StepOr(Invalid(\E name \in Configured(cfg) :
                            ProfileRefused(StartRate(E(name)), E(name).stages)),
                  "run")
        /\ arrivals' = IF phase' # "run" THEN arrivals
                       ELSE [name \in Configured(cfg) |->
                               NewSchedule(NewProfile(StartRate(E(name)), E(name).stages))]
  /\ UNCHANGED <<inv, cfg, effective, looked, prepared, contacted, recorded, status, result,
                 stdout, exit, sig>>

\* Poisson arrivals draw their spacing; the draws are cut to two whole numbers.
Draws == IF cfg.run.arrival = "poisson" THEN {1, 3} ELSE {1}
Stopping == sig.cancelled \/ status = "aborted"

Arrive(name) ==
  /\ Running /\ phase = "run" /\ ~Stopping
  /\ name \in Configured(cfg) /\ ~arrivals[name].done
  /\ \E draw \in Draws :
       arrivals' = [arrivals EXCEPT ![name] = NextArrival(@, draw)]
  /\ UNCHANGED <<inv, phase, cfg, effective, failure, looked, prepared, contacted, recorded, status,
                 result, stdout, exit, sig>>

\* The abort guard stops a run that is failing.
Abort ==
  /\ Running /\ phase = "run" /\ status = "completed"
  /\ \E name \in Configured(cfg) : arrivals[name].count > 0
  /\ status' = "aborted"
  /\ UNCHANGED <<inv, phase, cfg, effective, failure, looked, prepared, contacted, arrivals,
                 recorded, result, stdout, exit, sig>>

\* What is recorded of a runner: half its arrivals are dropped or none, all that are left
\* fail or none, and service times are flat or rise half way through.
BucketsOf(m, n) ==
  LET count == cfg.run.duration \div cfg.run.bucket
  IN [i \in 1..count |->
        [warmup |-> (i - 1) * cfg.run.bucket < cfg.run.warmup, n |-> n \div count,
         insufficient |-> n \div count < cfg.run.minSamples,
         p99 |-> IF m.rises /\ 2 * i > count THEN 2 * m.p99 ELSE m.p99]]

Recorded(name, m) ==
  LET offered == arrivals[name].count
      dropped == IF m.drops THEN offered \div 2 ELSE 0
      n       == offered - dropped
  IN [targets |-> {Target(host, looked[host]) : host \in HostsFor(cfg, name)},
      lag |-> m.lag, offered |-> offered, dropped |-> dropped, n |-> n,
      errors |-> IF m.fails THEN n ELSE 0,
      p95 |-> IF n = 0 THEN 0 ELSE m.p95, p99 |-> IF n = 0 THEN 0 ELSE m.p99,
      buckets |-> BucketsOf(m, n),
      http |-> IF name # "http" THEN {}
               ELSE {[insecure |-> Section(cfg, name).insecure,
                      limited |-> IF m.limited THEN n ELSE 0]}]

\* Mutant of EndLoad: the wait is for the schedules to run out.
EndWhenExhausted ==
  /\ Running /\ phase = "run"
  /\ \A name \in Configured(cfg) : arrivals[name].done
  /\ phase' = "collect"
  /\ UNCHANGED <<inv, cfg, effective, failure, engine, stdout, exit, sig>>

\* The load is over; every runner's record is taken, in turn.  A run that was aborted has
\* failures.
EndLoad ==
  /\ Running /\ phase = "run"
  /\ Stopping \/ \A name \in Configured(cfg) : arrivals[name].done
  /\ phase' = "collect"
  /\ UNCHANGED <<inv, cfg, effective, failure, engine, stdout, exit, sig>>

Collect(name) ==
  /\ Running /\ phase = "collect"
  /\ DOMAIN recorded # Configured(cfg)
  /\ name = RunnersOf(cfg)[Cardinality(DOMAIN recorded) + 1]
  /\ \E m \in Measurements :
       /\ status = "aborted" => m.fails
       /\ recorded' = recorded @@ (name :> Recorded(name, m))
  /\ UNCHANGED <<inv, phase, cfg, effective, failure, looked, prepared, contacted, arrivals,
                 status, result, stdout, exit, sig>>

\* The document is built.  A cancellation is noted by a callback that may come too late.
FinishRun ==
  /\ Running /\ phase = "collect" /\ DOMAIN recorded = Configured(cfg)
  /\ \E final \in {status} \cup When(sig.cancelled /\ status # "aborted", "interrupted") :
       /\ status' = final
       /\ result' = {Build(cfg, final, StatementWarnings(cfg), recorded)}
  /\ phase' = IF inv.resultPath THEN "file" ELSE "render"
  /\ UNCHANGED <<inv, cfg, effective, failure, looked, prepared, contacted, arrivals, recorded,
                 stdout, exit, sig>>

WriteResultFile ==
  /\ Running /\ phase = "file"
  /\ \E problems \in {{}, {"IO_WRITE_FAILED"}} : StepOr(problems, "render")
  /\ UNCHANGED <<inv, cfg, effective, engine, stdout, exit, sig>>

\* Mutant of OutcomeExit: the budgets first.
OutcomeByBudgets(analysis) ==
  IF ~analysis.slo.pass THEN Documented("SLO_BREACH")
  ELSE IF analysis.validity.state = "invalid" /\ ~inv.allowInvalid THEN Documented("RUN_INVALID")
  ELSE NoFailure

\* Validity first: an invalid run's budgets mean nothing.
OutcomeExit(analysis) ==
  IF analysis.validity.state = "invalid" /\ ~inv.allowInvalid THEN Documented("RUN_INVALID")
  ELSE IF ~analysis.slo.pass THEN Documented("SLO_BREACH")
  ELSE NoFailure

Render ==
  /\ Running /\ phase = "render"
  /\ LET r == Only(result)
     IN Emit([kind |-> "result", analysis |-> r.analysis], OutcomeExit(r.analysis))
  /\ phase' = "unwind"
  /\ UNCHANGED <<inv, cfg, effective, engine, exit, sig>>

-----------------------------------------------------------------------------
(* The end of the process, and signals *)

\* The deferred calls: the watcher is told, then the process stops listening.
Unwind ==
  /\ Running /\ phase = "unwind"
  /\ \/ ~sig.finished /\ sig' = [sig EXCEPT !.finished = TRUE] /\ phase' = phase
     \/ sig.finished /\ sig' = [sig EXCEPT !.notify = FALSE, !.cancelled = TRUE]
        /\ phase' = "report"
  /\ UNCHANGED <<inv, cfg, effective, failure, engine, stdout, exit>>

\* In JSON mode an error the output does not tell yet is the one document.
ReportExit ==
  /\ Running /\ phase = "report"
  /\ stdout' = IF failure.codes = {} \/ failure.documented \/ ~inv.json \/ inv.stdoutFails
               THEN stdout ELSE Append(stdout, [kind |-> "envelope"])
  /\ exit' = {ExitCodeOf(failure)}
  /\ phase' = "ended"
  /\ UNCHANGED <<inv, cfg, effective, failure, engine, sig>>

\* The watcher waits for the first signal or the end, listens itself, and waits again.
WatchFirst ==
  /\ Running /\ sig.watcher = "waiting"
  /\ \/ sig.cancelled /\ sig' = [sig EXCEPT !.watcher = "woken"]
     \/ sig.finished /\ sig' = [sig EXCEPT !.watcher = "gone"]
  /\ UNCHANGED <<inv, phase, cfg, effective, failure, engine, stdout, exit>>

WatchArm ==
  /\ Running /\ sig.watcher = "woken"
  /\ sig' = [sig EXCEPT !.watcher = "armed"]
  /\ UNCHANGED <<inv, phase, cfg, effective, failure, engine, stdout, exit>>

WatchSecond ==
  /\ Running /\ sig.watcher = "armed"
  /\ \/ sig.second /\ exit' = {3} /\ phase' = "forced" /\ sig' = sig
     \/ sig.finished /\ sig' = [sig EXCEPT !.watcher = "gone"] /\ UNCHANGED <<exit, phase>>
  /\ UNCHANGED <<inv, cfg, effective, failure, engine, stdout>>

\* A signal goes to whatever listens; when nothing does, it ends the process.
Signal ==
  /\ Running /\ sig.sent < MaxSignals
  /\ sig' = [sig EXCEPT !.sent = @ + 1, !.cancelled = @ \/ sig.notify,
                        !.second = @ \/ sig.watcher = "armed"]
  /\ IF sig.notify \/ sig.watcher = "armed" THEN UNCHANGED <<exit, phase>>
     ELSE exit' = {-1} /\ phase' = "killed"
  /\ UNCHANGED <<inv, cfg, effective, failure, engine, stdout>>

-----------------------------------------------------------------------------
Init ==
  /\ inv \in Invocations
  /\ phase = "policy" /\ cfg = inv.source.cfg /\ effective = {} /\ failure = NoFailure
  /\ looked = <<>> /\ prepared = {} /\ contacted = {} /\ arrivals = <<>> /\ recorded = <<>>
  /\ status = "completed" /\ result = {} /\ stdout = <<>> /\ exit = {}
  /\ sig = [sent |-> 0, notify |-> FALSE, cancelled |-> FALSE, finished |-> FALSE,
            second |-> FALSE, watcher |-> "none"]

Process ==
  \/ LoadPolicy \/ LoadConfig \/ Override \/ Finalise \/ Apply \/ Describe
  \/ DoctorLookup \/ DoctorReport \/ Listen \/ BuildRunners \/ Resolve \/ Resolved
  \/ BuildExecutors \/ Abort \/ EndLoad \/ FinishRun \/ WriteResultFile \/ Render
  \/ Unwind \/ ReportExit
  \/ \E name \in {"http", "db", "redis"} : Prepare(name) \/ Arrive(name) \/ Collect(name)

Watcher == WatchFirst \/ WatchArm \/ WatchSecond

Next == Process \/ Watcher \/ Signal

Spec == Init /\ [][Next]_vars

\* Preflight requests and lookups have their time limits; a database that takes the
\* connection and says nothing is waited for until the context is cancelled.
AwaitsDatabase ==
  /\ phase = "prepare" /\ ~sig.cancelled
  /\ RunnersOf(cfg)[Cardinality(prepared) + 1] = "db"

\* A goroutine that can take a step takes one.
FairSpec ==
  /\ Spec
  /\ WF_vars(Process /\ ~AwaitsDatabase)
  /\ WF_vars(Watcher)

-----------------------------------------------------------------------------
(* Properties *)

Loaded == arrivals # <<>>
Grants == {Load(inv.policy)} \cup effective
Within(num, den, limit) == \A most \in limit : num <= most * den

\* No load outside the envelope.  Whatever the overrides, the defaults and the checks made
\* of the document, the profile a runner follows stays, at every instant, below the rate
\* that both the policy and the configuration allow, ends within the duration they allow,
\* and evenly spaced arrivals never come faster than that rate; nothing that is known to
\* write or to destroy runs unless both grant it; and an open model has no more
\* operations in flight than they allow.
LoadWithinEnvelope ==
  Loaded => \A p \in Grants, name \in Configured(cfg) :
    LET e       == ExecutorOf(cfg, name)
        s       == arrivals[name]
        profile == s.profile
    IN /\ \A t \in 0..profile.duration :
            Within(RateAt(profile, t)[1], RateAt(profile, t)[2], p.maxRate)
       /\ Within(profile.duration, 1, p.maxDuration)
       /\ cfg.run.arrival # "poisson" => Within(s.count, s.last, p.maxRate)
       /\ e.type = "arrival-rate" => Within(e.maxInFlight, 1, p.maxInFlight)
       /\ name # "http" =>
            /\ Dangerous(cfg, name) = {} \/ p.allowDangerous
            /\ p.allowWrites \/ \A item \in ToSet(StorageItems(cfg, name)) :
                 item.type # "write"
                   /\ (item.type = "" => \A got \in Judgements(name, item) : got.op = "read")

\* A dry run tells the truth: a run of evenly spaced arrivals that nothing stops offers
\* exactly as many as the plan of the same configuration says, to the last whole one, none
\* after the run's duration, and contacts the plan's targets and no other.
RunOffersThePlan ==
  Loaded /\ (\A name \in Configured(cfg) : arrivals[name].done) =>
    LET plan == BuildPlan(cfg, Only(effective))
    IN /\ contacted = plan.targets
       /\ \A name \in Configured(cfg) :
            LET e == ExecutorOf(cfg, name)
                s == arrivals[name]
            IN /\ s.last <= cfg.run.duration
               /\ cfg.run.arrival # "poisson" /\ e.type = "arrival-rate" =>
                    2 * s.count <= plan.runners[name].offered
                      /\ plan.runners[name].offered < 2 * (s.count + 1)

\* A refusal costs nothing.  A connection is made only when every host of the run has been
\* resolved and is permitted, and a command that ends with the code of a refusal has
\* connected to nothing, unless an executor turns out to have no load to offer, which
\* validation does not see: its rate is negative.
RefusalsAreFree ==
  /\ contacted # {} =>
       /\ Targets(cfg) \subseteq DOMAIN looked
       /\ \A host \in DOMAIN looked : TargetPermitted(Only(effective), Target(host, looked[host]))
  /\ exit = {2} /\ contacted # {} =>
       \E name \in Configured(cfg) : ExecutorOf(cfg, name).stages = <<>>

\* One document, and the exit code that goes with it.  A process in JSON mode that ends by
\* itself, with a standard output that works, has written exactly one document; its exit
\* code says of a result what its analysis says, and of anything else whether it is an error.
ExitMatchesDocument ==
  phase = "ended" /\ inv.json /\ ~inv.stdoutFails =>
    /\ Len(stdout) = 1
    /\ LET d == stdout[1]
           believed == d.analysis.validity.state # "invalid"
       IN IF d.kind = "result"
          THEN /\ exit = {4} <=> ~believed /\ ~inv.allowInvalid
               /\ exit = {1} <=> (believed \/ inv.allowInvalid) /\ ~d.analysis.slo.pass
               /\ exit = {0} /\ believed => d.analysis.verdict.bottleneck # "client"
               /\ exit \subseteq {0, 1, 4}
          ELSE IF d.kind = "envelope" THEN exit \subseteq {2, 3}
          ELSE IF d.kind = "diagnosis" THEN exit = {IF d.ok THEN 0 ELSE 3}
          ELSE exit = {0}

\* A command always comes to its end, unless it waits for a database that does not answer;
\* and then too, once it has been interrupted.
CommandEnds == []<>(~Running \/ AwaitsDatabase)
=============================================================================
