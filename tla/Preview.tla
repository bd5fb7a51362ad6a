------------------------------- MODULE Preview -------------------------------
(***************************************************************************)
(* internal/cli: what `run --dry-run` and `doctor` say of a run that has   *)
(* not been made.  Amounts of operations are doubled, as in Schedule.      *)
(***************************************************************************)
EXTENDS Analysis

\* Each stage with the rate it starts from; a stage that starts at its target holds it.
DescribeProfile(e) ==
  [i \in DOMAIN e.stages |->
     [from |-> IF i = 1 THEN StartRate(e) ELSE e.stages[i - 1].target,
      to |-> e.stages[i].target, over |-> e.stages[i].duration]]

\* The rate profile integrated; a closed model's output is no input of it.
AddArea(total, s) == total + (s.from + s.to) * s.over
OfferedOperations(e) ==
  IF e.type = "vus" THEN 0 ELSE FoldLeft(AddArea, 0, DescribeProfile(e))

PlanRunner(cfg, name) ==
  LET e == ExecutorOf(cfg, name)
  IN [kind |-> Kind(name), executor |-> e.type, profile |-> DescribeProfile(e),
      peak |-> PeakRate(e), offered |-> OfferedOperations(e), labels |-> Labels(cfg, name),
      writes |-> Writes(cfg, name)]

BuildPlan(cfg, effective) ==
  [kind |-> "plan", targets |-> Targets(cfg), safety |-> effective,
   warnings |-> StatementWarnings(cfg),
   runners |-> [name \in Configured(cfg) |-> PlanRunner(cfg, name)]]

-----------------------------------------------------------------------------
\* Every operation in flight may hold a connection.
PlannedConns(cfg) ==
  Sum([i \in DOMAIN RunnersOf(cfg) |->
         Max({0, ExecutorOf(cfg, RunnersOf(cfg)[i]).maxInFlight})])

Headroom == 128

\* The machine's limit of open files, if it has one, and its processors.
CheckHost(machine, planned) ==
  FindingWhen(planned > 0 /\ Exceeds(planned + Headroom, machine.openFiles),
              "OPEN_FILE_LIMIT", "error", "host")
    \cup FindingWhen(planned > machine.cpus * 512, "CONCURRENCY_ABOVE_HOST", "warn", "host")

\* A host is resolved, judged, and found to be this machine or not.  No addresses stand
\* for a name that does not resolve.
CheckDoctorTarget(p, host, addrs) ==
  LET target == Target(host, addrs)
  IN CASE addrs = {} -> {Finding("PREFLIGHT_DNS", "error", host)}
       [] addrs # {} /\ ~TargetPermitted(p, target) ->
            {Finding("POLICY_TARGET_NOT_ALLOWED", "error", host)}
       [] OTHER -> FindingWhen(target.scope = "loopback", "SAME_HOST_TARGET", "warn", host)

\* Settings that would make a run hard to read.
CheckExecutor(name, e) ==
  FindingWhen(e.type # "vus" /\ e.maxInFlight > 0 /\ e.maxInFlight * 10 < PeakRate(e),
              "LITTLES_LAW_INCONSISTENT", "warn", name)

CheckPool(name, size, e) ==
  FindingWhen(size > 0 /\ size < e.maxInFlight, "POOL_UNDERSIZED", "warn", name)

CheckConfiguration(cfg) ==
  UNION {UNION {CheckExecutor(name, ExecutorOf(cfg, name)) : name \in Configured(cfg)},
         UNION {CheckPool("db", s.maxOpen, s.executor) : s \in cfg.db},
         UNION {CheckPool("redis", s.poolSize, s.executor) : s \in cfg.redis},
         FindingWhen(\A name \in DOMAIN cfg.slo :
                       cfg.slo[name].p95 \cup cfg.slo[name].p99 \cup cfg.slo[name].errorRate = {},
                     "NO_SLO", "info", "run"),
         FindingWhen(cfg.run.warmup = 0, "NO_WARMUP", "info", "run"),
         FindingWhen(Configured(cfg) = {"http"}, "NO_STORAGE_PROBE", "info", "run")}

Diagnose(cfg, effective, machine, looked) ==
  LET findings ==
        UNION {{Finding(code, "warn", "configuration") : code \in StatementWarnings(cfg)},
               CheckHost(machine, PlannedConns(cfg)),
               UNION {CheckDoctorTarget(effective, host, looked[host]) : host \in DOMAIN looked},
               CheckConfiguration(cfg)}
  IN [kind |-> "diagnosis", findings |-> findings,
      ok |-> \A f \in findings : f.severity # "error"]
==============================================================================
