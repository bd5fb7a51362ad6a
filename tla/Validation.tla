----------------------------- MODULE Validation -----------------------------
(***************************************************************************)
(* internal/config: what a defaulted configuration is refused for, first   *)
(* on its own terms and then against the policy.                           *)
(*                                                                         *)
(* Every problem is looked for, so each part yields a set of codes.  Every *)
(* item of a list has a name and a weight that may be absent; a field that *)
(* may be absent is a set of at most one value.                            *)
(***************************************************************************)
EXTENDS Config

Invalid(condition) == When(condition, "CONFIG_INVALID_VALUE")
Missing(condition) == When(condition, "CONFIG_MISSING_FIELD")
Items(list) == ToSet(list)

\* Two items of a list with one name; only some lists let unnamed items be.
Repeats(list, unnamedToo) ==
  When(\E i, j \in DOMAIN list : i < j /\ list[i].name = list[j].name
                                 /\ (unnamedToo \/ list[i].name # ""),
       "CONFIG_DUPLICATE_NAME")

CheckWeight(item) == Invalid(\E w \in item.weight : w <= 0)

NameProblems(list) == Repeats(list, FALSE) \cup Missing(\E item \in Items(list) : item.name = "")

RunProblems(run) ==
  Invalid(\/ run.duration <= 0
          \/ run.bucket <= 0
          \/ run.warmup < 0
          \/ run.duration > 0 /\ run.bucket > 0 /\ run.bucket > run.duration
          \/ run.warmup >= run.duration /\ run.duration > 0
          \/ run.minSamples < 1
          \/ run.arrival \notin {"", "uniform", "poisson"})

\* Budgets: a percentage of errors, and latencies.
SLOProblems(slo) ==
  Invalid(\E name \in DOMAIN slo :
            \/ \E rate \in slo[name].errorRate : rate < 0 \/ rate > 100
            \/ \E budget \in slo[name].p95 \cup slo[name].p99 : budget <= 0
            \/ \E p95 \in slo[name].p95, p99 \in slo[name].p99 : p95 > p99)

ThinkProblems(think) ==
  CASE think.type = "constant" -> Missing(think.duration = {})
    [] think.type = "uniform" ->
         Missing(think.min = {} \/ think.max = {})
           \cup Invalid(\E least \in think.min, most \in think.max : least > most)
    [] think.type = "exponential" -> Missing(think.mean = {})
    [] OTHER -> Invalid(TRUE)

\* A request carries a weight; a step of a journey may not.
StepProblems(step, weighted) ==
  UNION {Missing(~step.url),
         IF weighted THEN CheckWeight(step) ELSE Invalid(step.weight # {}),
         Invalid({"body", "body_file"} \subseteq step.bodies),
         Invalid(\E t \in step.timeout : t <= 0),
         Invalid(\E code \in step.statuses : code \notin 100..599),
         Missing(\E x \in Items(step.extracts) : x.name = "" \/ (~x.path /\ x.from # "status")),
         Invalid(\E x \in Items(step.extracts) : x.from \notin {"", "body", "header", "status"}),
         UNION {ThinkProblems(think) : think \in step.think}}

StepsProblems(steps, weighted) ==
  UNION ({StepProblems(step, weighted) : step \in Items(steps)} \cup {NameProblems(steps)})

JourneyProblems(j) ==
  Missing(j.name = "" \/ j.steps = <<>>) \cup CheckWeight(j) \cup StepsProblems(j.steps, FALSE)

\* `rate` and `vus` are shorthand for one stage; stages must last as long as the run.
ExecutorProblems(e, run) ==
  UNION {CASE e.type \in {"", "arrival-rate"} -> Invalid(e.vus > 0 \/ e.maxInFlight < 0)
           [] e.type = "vus" -> Invalid(e.rate > 0 \/ e.pick \notin {"", "per-iteration", "per-vu"})
           [] OTHER -> Invalid(TRUE),
         Invalid(e.rate > 0 /\ Len(e.stages) > 1),
         Missing(e.stages = <<>> /\ e.rate = 0 /\ e.vus = 0),
         Invalid(\E s \in Items(e.stages) : s.duration <= 0 \/ s.target < 0),
         When(e.stages # <<>> /\ run.duration > 0 /\ TotalDuration(e) # run.duration,
              "CONFIG_STAGES_MISMATCH")}

HTTPProblems(h) ==
  UNION {When(h.requests # <<>> /\ h.journeys # <<>>, "CONFIG_REQUESTS_AND_JOURNEYS"),
         Missing(h.requests = <<>> /\ h.journeys = <<>>),
         StepsProblems(h.requests, TRUE),
         UNION {JourneyProblems(j) : j \in Items(h.journeys)},
         Repeats(h.journeys, TRUE),
         When(\E r \in Items(h.requests), j \in Items(h.journeys) : r.name = j.name,
              "CONFIG_DUPLICATE_NAME"),
         Missing(\E f \in Items(h.feeders) : f.name = "" \/ ~f.file),
         Repeats(h.feeders, TRUE),
         Invalid(\E f \in Items(h.feeders) :
                   f.mode \notin {"", "sequential", "random", "unique"})}

\* Both storage sections list items that say one thing to do or several.
ItemsProblems(items, one, many) ==
  UNION {NameProblems(items),
         Missing(items = <<>> \/ \E i \in Items(items) : i[one] = <<>> /\ i[many] = <<>>),
         Invalid(\E i \in Items(items) : i[one] # <<>> /\ i[many] # <<>>),
         UNION {CheckWeight(i) : i \in Items(items)}}

DBProblems(d) ==
  UNION {Missing(d.driver = ""),
         Invalid(NormaliseDriver(d.driver) \notin {"", "postgres", "mysql", "sqlite"}),
         Missing(~d.dsn),
         ItemsProblems(d.queries, "sql", "tx"),
         Invalid(\E q \in Items(d.queries) : q.type \notin {"", "read", "write"}),
         Invalid(d.maxOpen < 0)}

RedisProblems(r) ==
  UNION {CASE r.mode \in {"", "single"} -> Missing(r.addr = "" /\ r.addrs = <<>>)
           [] r.mode = "cluster" -> Missing(r.addrs = <<>>)
           [] r.mode = "sentinel" -> Missing(r.addrs = <<>> \/ r.masterName = "")
           [] OTHER -> Invalid(TRUE),
         Invalid(r.addr # "" /\ r.addrs # <<>>),
         ItemsProblems(r.commands, "cmd", "pipeline")}

SectionProblems(name, s) ==
  CASE name = "http" -> HTTPProblems(s)
    [] name = "db" -> DBProblems(s)
    [] name = "redis" -> RedisProblems(s)

Validate(cfg) ==
  UNION {RunProblems(cfg.run), SLOProblems(cfg.slo),
         When(Configured(cfg) = {}, "CONFIG_NO_RUNNER"),
         UNION {SectionProblems(name, Section(cfg, name))
                  \cup ExecutorProblems(ExecutorOf(cfg, name), cfg.run) : name \in Configured(cfg)}}

Kind(name) == IF name = "http" THEN "app" ELSE "storage"

\* What a run's statistics are grouped by; a step of a journey is named after both.
Labels(cfg, name) ==
  LET s == Section(cfg, name)
      NamesOf(items) == [i \in DOMAIN items |-> <<items[i].name>>]
      StepsOf(j) == [k \in DOMAIN j.steps |-> <<j.name, j.steps[k].name>>]
  IN CASE name = "http" -> NamesOf(s.requests)
                             \o FlattenSeq([i \in DOMAIN s.journeys |-> StepsOf(s.journeys[i])])
       [] name = "db" -> NamesOf(s.queries)
       [] name = "redis" -> NamesOf(s.commands)

-----------------------------------------------------------------------------
(* The policy *)

\* Mutant of PeakRate: only the shorthand is looked at.
PeakOfShorthand(e) == e.rate

\* The highest rate a profile is taken to reach.
PeakRate(e) == Max({e.rate} \cup {e.stages[i].target : i \in DOMAIN e.stages})

\* What the classifier makes of the statements of a query or a command.
StorageItems(cfg, name) ==
  IF cfg[name] = {} \/ name = "http" THEN <<>>
  ELSE IF name = "db" THEN Section(cfg, name).queries ELSE Section(cfg, name).commands

One(first) == IF first = <<>> THEN {} ELSE {first}

Judgements(name, item) ==
  IF name = "db" THEN {ClassifySQL(sql) : sql \in One(item.sql) \cup ToSet(item.tx)}
  ELSE {ClassifyRedis(args) : args \in One(item.cmd) \cup ToSet(item.pipeline)}

\* A declared type is believed; without one, anything that is not known to read writes.
IsWrite(name, item) ==
  \/ item.type = "write"
  \/ item.type = "" /\ \E got \in Judgements(name, item) : got.op = "write"

Writes(cfg, name) == {i.name : i \in {i \in ToSet(StorageItems(cfg, name)) : IsWrite(name, i)}}

Dangerous(cfg, name) ==
  UNION {UNION {got.dangerous : got \in Judgements(name, i)} : i \in ToSet(StorageItems(cfg, name))}

ItemWarnings(name, item) ==
  UNION {UNION {When(name = "db" /\ item.type = "read" /\ got.op = "write" /\ got.certain,
                     "DECLARED_READ_LOOKS_LIKE_WRITE"),
                When(got.blocking # {}, "DANGEROUS_COMMAND"),
                When(item.type = "" /\ got.op = "write" /\ ~got.certain, "UNRECOGNISED_STATEMENT")}
         : got \in Judgements(name, item)}

StatementWarnings(cfg) ==
  UNION {UNION {ItemWarnings(name, i) : i \in ToSet(StorageItems(cfg, name))}
         : name \in {"db", "redis"}}

InsecureTLS(cfg) ==
  \E name \in {"http", "redis"} \cap Configured(cfg) : Section(cfg, name).insecure

\* The capability and ceiling checks, made against the envelope already narrowed.
EnvelopeProblems(cfg, p) ==
  UNION {UNION {CheckWrites(p, Writes(cfg, name)) \cup CheckDangerous(p, Dangerous(cfg, name))
                : name \in {"db", "redis"}},
         CheckDuration(p, cfg.run.duration),
         UNION {CheckRate(p, PeakRate(ExecutorOf(cfg, name)))
                  \cup (IF ExecutorOf(cfg, name).maxInFlight > 0
                        THEN CheckInFlight(p, ExecutorOf(cfg, name).maxInFlight) ELSE {})
                : name \in Configured(cfg)},
         When(InsecureTLS(cfg) /\ ~p.allowInsecureTLS, "POLICY_INSECURE_TLS_NOT_ALLOWED")}

\* A configuration that asks for more than is granted is refused before anything else.
ApplyPolicy(cfg, granted) ==
  LET asked     == TightenProblems(granted, cfg.safety)
      effective == Tighten(granted, cfg.safety)
  IN [effective |-> effective,
      problems  |-> IF asked # {} THEN asked ELSE EnvelopeProblems(cfg, effective)]

-----------------------------------------------------------------------------
\* The hosts a configuration will contact; a reference without a host takes the base's.
HostOf(base, step) == Or(step.host, "", base)

SectionTargets(name, s) ==
  CASE name = "http" ->
         {HostOf(s.baseHost, step) : step \in Items(s.requests)}
           \cup UNION {{HostOf(s.baseHost, step) : step \in Items(j.steps)} : j \in Items(s.journeys)}
    [] name = "db" -> IF s.driver = "sqlite" THEN {} ELSE {s.host}
    [] name = "redis" -> {s.addr} \cup ToSet(s.addrs)

HostsFor(cfg, name) == SectionTargets(name, Section(cfg, name)) \ {""}

Targets(cfg) == UNION {HostsFor(cfg, name) : name \in Configured(cfg)}
=============================================================================
